-------------------------- MODULE SnapshotSyncProofs --------------------------
(***************************************************************************)
(* Theorems about SnapshotSync, for every set of devices, surat and calls, *)
(* every clock that runs ahead and every bound.                            *)
(***************************************************************************)
EXTENDS SnapshotSync, TLAPS

\* The parts of the invariant that are not about types.
Parts == /\ RowInv /\ CallInv /\ MarkInv /\ LoginInv /\ EmptyInv /\ VersionInv
         /\ SeenInv /\ CacheInv

LEMMA IdleType == IdleCall \in CallRec
  BY DEF IdleCall, CallRec

-----------------------------------------------------------------------------
\* Writers

\* A write is behind a used watermark, or ahead of every watermark that was read.
LEMMA WrittenRow ==
  ASSUME TypeOK, NEW s \in Surat, NEW st \in {"live", "deleted"}, NEW secret \in BOOLEAN,
         NEW t \in Nat, Write(s, st, secret, t)
  PROVE  /\ row' \in [Surat -> Row] /\ late' \in SUBSET Surat
         /\ row'[s] = [st |-> st, secret |-> secret, upd |-> t, ver |-> row[s].ver + 1]
         /\ \A x \in Surat : x # s => row'[x] = row[x] /\ (x \in late' <=> x \in late)
         /\ s \in late' \/ t > read
  <1>1. row[s].ver + 1 \in Nat
    BY DEF TypeOK, Row
  <1>2. [st |-> st, secret |-> secret, upd |-> t, ver |-> row[s].ver + 1] \in Row
    BY <1>1 DEF Row
  <1>3. s \in late' \/ t > read
    BY DEF Write, TypeOK
  <1> QED
    BY <1>2, <1>3 DEF Write, TypeOK

\* Whatever is written, a cache that now differs from the row hears of it, or the
\* row is late or withheld; calls that have read the row know that it changed.
LEMMA Writing ==
  ASSUME TypeOK, Parts, NEW s \in Surat, NEW st \in {"live", "deleted"},
         NEW secret \in BOOLEAN, NEW t \in Nat \ {0}, Write(s, st, secret, t),
         open' \in SUBSET open,
         UNCHANGED <<clock, user, busy, call, cache, mark, read, wiping, sess, owner, torn>>
  PROVE  Parts'
  <1>1. /\ row'[s] = [st |-> st, secret |-> secret, upd |-> t, ver |-> row[s].ver + 1]
        /\ \A x \in Surat : x # s => row'[x] = row[x] /\ (x \in late' <=> x \in late)
        /\ s \in late' \/ t > read
    BY WrittenRow
  <1>2. \A x \in Surat : row[x] \in Row
    BY DEF TypeOK
  <1>3. /\ row'[s].st = st /\ row'[s].secret = secret /\ row'[s].upd = t
        /\ row'[s].ver = row[s].ver + 1 /\ row[s].ver \in Nat
    BY <1>1, <1>2 DEF Row
  <1>4. RowInv'
    BY <1>1, <1>3 DEF Parts, RowInv
  <1>5. CallInv' /\ MarkInv' /\ LoginInv' /\ EmptyInv'
    BY DEF Parts, CallInv, MarkInv, LoginInv, EmptyInv, Sees
  <1>6. VersionInv'
    <2>1. \A x \in Surat : row[x].ver \in Nat /\ row'[x].ver \in Nat /\ row[x].ver <= row'[x].ver
      BY <1>1, <1>2, <1>3 DEF Row
    <2>2. \A d \in Device, x \in Surat : cache[d][x] \in Nat
      BY DEF TypeOK
    <2>3. \A c \in Call, x \in Surat : call[c].got[x] \in Nat
      BY DEF TypeOK, CallRec
    <2>4. \A c \in Call, x \in Surat :
            call[c].pc \in {"tombstones", "reply"} /\ call[c].got[x] # 0 =>
              call[c].dev \in Device /\ call[c].got[x] \in cache[call[c].dev][x]..row[x].ver
      BY DEF Parts, VersionInv, CallInv
    <2> QED
      BY <2>1, <2>2, <2>3, <2>4 DEF Parts, VersionInv
  <1>7. SeenInv'
    <2>1. ASSUME NEW c \in Call, NEW x \in Surat, call[c].pc \in {"tombstones", "reply"},
                 Same(c, x)'
          PROVE  x # s /\ Same(c, x) /\ row'[x] = row[x]
      <3>1. call[c].at <= read /\ call[c].at \in Nat /\ read \in Nat
        BY <2>1 DEF Parts, MarkInv, TypeOK, CallRec
      <3>2. x # s
        BY <2>1, <3>1, <1>1, <1>3 DEF Same
      <3> QED
        BY <2>1, <3>2, <1>1 DEF Same
    <2> QED
      BY <2>1 DEF Parts, SeenInv, Visible, Changed
  <1>8. CacheInv'
    <2>1. ASSUME NEW d \in Device, mark[d] # 0, cache[d][s] # View(owner[d], s)'
          PROVE  NextBrings(d, owner[d], s)' \/ s \in late' \/ Withheld(owner[d], s)'
      <3>1. mark[d] \in Nat /\ read \in Nat /\ mark[d] <= read
        BY DEF Parts, MarkInv, TypeOK
      <3> QED
        BY <2>1, <3>1, <1>1, <1>3 DEF View, NextBrings, Withheld, Visible
    <2>2. ASSUME NEW d \in Device, NEW x \in Surat, x # s, d \notin torn, mark[d] # 0,
                 cache[d][x] # View(owner[d], x)'
          PROVE  NextBrings(d, owner[d], x)' \/ x \in late' \/ Withheld(owner[d], x)'
      BY <2>2, <1>1 DEF Parts, CacheInv, View, NextBrings, Withheld, Visible
    <2> QED
      BY <2>1, <2>2 DEF CacheInv
  <1> QED
    BY <1>4, <1>5, <1>6, <1>7, <1>8 DEF Parts

-----------------------------------------------------------------------------
\* Calls

\* A call is begun only by a device that has none in flight; its watermark is
\* later than all that were used.
LEMMA Asking ==
  ASSUME TypeOK, Parts, NEW d \in Device, NEW c \in Call, ~busy[d], Ask(d, c)
  PROVE  /\ Parts' /\ clock' \in Nat /\ busy' \in [Device -> BOOLEAN]
         /\ call' \in [Call -> CallRec]
  <1> DEFINE refused == [IdleCall EXCEPT !.dev = d, !.pc = "refused", !.sess = sess[d]]
  <1>1. clock \in Nat /\ mark[d] \in Nat /\ sess[d] \in Nat /\ mark[d] <= clock
    BY DEF TypeOK, Parts, MarkInv
  <1>2. Snapshot(d) \in CallRec
    BY <1>1 DEF Snapshot, CallRec
  <1>3. refused \in CallRec
    BY <1>1 DEF IdleCall, CallRec
  <1>4. refused.dev = d /\ refused.pc = "refused"
    BY DEF IdleCall
  <1>5. PICK q \in CallRec :
          /\ call' = [call EXCEPT ![c] = q]
          /\ \/ q = Snapshot(d) /\ user[d] # "none" /\ clock' = clock + 1
             \/ q.dev = d /\ q.pc = "refused" /\ clock' = clock
    <2> HIDE DEF refused
    <2> QED BY <1>2, <1>3, <1>4 DEF Ask, Begin, refused
  <1>6. /\ call'[c] = q /\ q.dev = d /\ q.pc \in {"refused", "rows"}
        /\ \A e \in Call : e # c => call'[e] = call[e]
    BY <1>5 DEF TypeOK, Snapshot
  <1>7. busy'[d] /\ \A x \in Device : busy[x] => busy'[x]
    BY DEF Ask, TypeOK
  <1>8. \A e \in Call : e # c /\ call[e].pc # "idle" => call[e].dev \in Device /\ call[e].dev # d
    BY DEF Parts, CallInv
  <1>9. q.pc = "rows" => /\ q = Snapshot(d) /\ user[d] # "none" /\ clock' = clock + 1
    BY <1>5
  <1>10. CallInv'
    <2>1. clock' \in Nat /\ clock <= clock' /\ clock' > 0
      BY <1>1, <1>5 DEF Parts, CallInv
    <2>2. \A e \in Call : call'[e].pc # "idle" => call'[e].dev \in Device /\ busy'[call'[e].dev]
      BY <1>6, <1>7, <1>8 DEF Parts, CallInv
    <2>3. \A e, f \in Call : call'[e].pc # "idle" /\ call'[f].pc # "idle"
                             /\ call'[e].dev = call'[f].dev => e = f
      BY <1>6, <1>8 DEF Parts, CallInv
    <2>4. q.pc = "rows" => q.at \in 1..clock' /\ q.sess <= sess[d] /\ q.gone = {}
      BY <1>1, <1>9 DEF Snapshot
    <2>5. \A e \in Call : call[e].at \in Nat
      BY DEF TypeOK, CallRec
    <2>6. sess' = sess
      BY DEF Ask
    <2>7. \A e \in Call : call'[e].pc \in {"rows", "tombstones", "reply"} =>
             call'[e].at \in 1..clock' /\ call'[e].sess <= sess'[call'[e].dev]
      BY <2>1, <2>4, <2>5, <2>6, <1>1, <1>6 DEF Parts, CallInv
    <2>8. \A e \in Call : call'[e].pc = "rows" => call'[e].gone = {}
      BY <2>4, <1>6 DEF Parts, CallInv
    <2> QED
      BY <2>1, <2>2, <2>3, <2>7, <2>8 DEF CallInv
  <1>11. MarkInv'
    <2>1. q.pc = "rows" => q.at > mark[d]
      BY <1>1, <1>9 DEF Snapshot
    <2>2. read <= clock'
      BY <1>1, <1>5 DEF Parts, MarkInv, TypeOK
    <2>3. mark' = mark /\ read' = read
      BY DEF Ask
    <2> QED
      BY <2>1, <2>2, <2>3, <1>6 DEF Parts, MarkInv
  <1>12. LoginInv'
    <2>1. q.pc = "rows" => /\ user[d] # "none" /\ q.sees = Sees(d)
                           /\ q.since = mark[d]
      BY <1>9 DEF Snapshot, Sees
    <2>2. /\ mark' = mark /\ user' = user /\ sess' = sess /\ wiping' = wiping
          /\ d \notin wiping
      BY DEF Ask
    <2> QED
      BY <2>1, <2>2, <1>6 DEF Parts, LoginInv, Sees
  <1>13. RowInv' /\ EmptyInv' /\ CacheInv'
    BY DEF Ask, Parts, RowInv, EmptyInv, CacheInv, View, NextBrings, Withheld, Visible
  <1>14. VersionInv' /\ SeenInv'
    <2>1. cache' = cache /\ row' = row /\ late' = late
      BY DEF Ask
    <2> QED
      BY <2>1, <1>6 DEF Parts, VersionInv, SeenInv, Same, Visible, Changed
  <1>15. clock' \in Nat /\ busy' \in [Device -> BOOLEAN] /\ call' \in [Call -> CallRec]
    BY <1>1, <1>5 DEF Ask, TypeOK
  <1> QED
    BY <1>10, <1>11, <1>12, <1>13, <1>14, <1>15 DEF Parts

\* What a call returns of a row it has just read is what the row is.
LEMMA Reading ==
  ASSUME TypeOK, Parts, NEW c \in Call, ReadRows(c)
  PROVE  Parts' /\ call' \in [Call -> CallRec] /\ read' \in Nat
  <1> DEFINE got == [s \in Surat |->
                       IF Visible(call[c].sees, s) /\ Changed(c, s) THEN row[s].ver ELSE 0]
             q == [call[c] EXCEPT !.pc = "tombstones", !.got = got]
  <1>1. /\ call[c] \in CallRec /\ call[c].pc = "rows" /\ call[c].dev \in Device
        /\ call[c].gone = {} /\ call[c].at \in Nat
    BY DEF ReadRows, TypeOK, Parts, CallInv, CallRec
  <1>2. \A s \in Surat : row[s] \in Row /\ row[s].ver \in Nat
    BY DEF TypeOK, Row
  <1>3. got \in [Surat -> Nat]
    BY <1>2
  <1>4. q \in CallRec
    <2> HIDE DEF got
    <2> QED BY <1>1, <1>3 DEF CallRec
  <1>5. call' = [call EXCEPT ![c] = q]
    BY DEF ReadRows
  <1>6. /\ q.dev = call[c].dev /\ q.pc = "tombstones" /\ q.since = call[c].since
        /\ q.at = call[c].at /\ q.sees = call[c].sees /\ q.got = got
        /\ q.gone = {} /\ q.sess = call[c].sess
    <2> HIDE DEF got
    <2> QED BY <1>1 DEF CallRec
  <1> HIDE DEF q
  <1>7. call'[c] = q /\ \A e \in Call : e # c => call'[e] = call[e]
    BY <1>5 DEF TypeOK
  <1>8. read \in Nat /\ read' \in Nat /\ read <= read' /\ call[c].at <= read' /\ read' <= clock
    <2>1. read \in Nat /\ clock \in Nat /\ read <= clock /\ call[c].at \in 1..clock
      BY <1>1 DEF TypeOK, Parts, MarkInv, CallInv
    <2> QED
      BY <2>1, <1>1 DEF ReadRows
  <1>9. /\ clock' = clock /\ user' = user /\ busy' = busy /\ cache' = cache
         /\ mark' = mark /\ sess' = sess /\ wiping' = wiping
    BY DEF ReadRows
  <1>10. CallInv'
    <2> HIDE DEF got
    <2> QED BY <1>1, <1>6, <1>7, <1>9 DEF Parts, CallInv
  <1>11. MarkInv'
    <2>1. \A d \in Device : mark[d] \in Nat /\ mark[d] <= read
      BY DEF TypeOK, Parts, MarkInv
    <2>2. \A e \in Call : call[e].at \in Nat
      BY DEF TypeOK, CallRec
    <2> HIDE DEF got
    <2> QED
      BY <2>1, <2>2, <1>1, <1>6, <1>7, <1>8, <1>9 DEF Parts, MarkInv
  <1>12. LoginInv'
    <2> HIDE DEF got
    <2> QED BY <1>1, <1>6, <1>7, <1>9 DEF Parts, LoginInv, Sees
  <1>13. RowInv' /\ EmptyInv' /\ CacheInv'
    BY DEF ReadRows, Parts, RowInv, EmptyInv, CacheInv, View, NextBrings, Withheld,
           Visible
  <1>14. VersionInv'
    <2>1. \A s \in Surat : q.got[s] # 0 => q.got[s] = row[s].ver
      BY <1>6
    <2>2. \A s \in Surat : cache[q.dev][s] \in Nat /\ cache[q.dev][s] <= row[s].ver
      BY <1>1, <1>6 DEF TypeOK, Parts, VersionInv
    <2>3. cache' = cache /\ row' = row
      BY DEF ReadRows
    <2> HIDE DEF got
    <2> QED
      BY <2>1, <2>2, <2>3, <1>2, <1>6, <1>7 DEF Parts, VersionInv
  <1>15. SeenInv'
    <2>1. ASSUME NEW s \in Surat
          PROVE  /\ Visible(q.sees, s) =>
                      q.got[s] = (IF q.since = 0 \/ row[s].upd > q.since THEN row[s].ver ELSE 0)
                 /\ row[s].st # "live" => q.got[s] = 0
      BY <1>6 DEF Visible, Changed
    <2>2. row' = row /\ late' = late
      BY DEF ReadRows
    <2> HIDE DEF got
    <2> QED
      BY <2>1, <2>2, <1>6, <1>7 DEF Parts, SeenInv, Same, Visible, Changed
  <1> QED
    BY <1>4, <1>5, <1>8, <1>10, <1>11, <1>12, <1>13, <1>14, <1>15 DEF Parts, TypeOK

LEMMA ReadingTombstones ==
  ASSUME TypeOK, Parts, NEW c \in Call, ReadTombstones(c)
  PROVE  Parts' /\ call' \in [Call -> CallRec]
  <1> DEFINE gone == IF call[c].since = 0 THEN {}
                     ELSE {s \in Surat : row[s].st = "deleted" /\ row[s].upd > call[c].since}
             q == [call[c] EXCEPT !.pc = "reply", !.gone = gone]
  <1>1. call[c] \in CallRec /\ call[c].pc = "tombstones" /\ call[c].dev \in Device
    BY DEF ReadTombstones, TypeOK, Parts, CallInv
  <1>2. gone \in SUBSET Surat
    OBVIOUS
  <1>3. q \in CallRec
    <2> HIDE DEF gone
    <2> QED BY <1>1, <1>2 DEF CallRec
  <1>4. call' = [call EXCEPT ![c] = q]
    BY DEF ReadTombstones
  <1>5. /\ q.dev = call[c].dev /\ q.pc = "reply" /\ q.since = call[c].since
        /\ q.at = call[c].at /\ q.sees = call[c].sees /\ q.got = call[c].got
        /\ q.gone = gone /\ q.sess = call[c].sess
    <2> HIDE DEF gone
    <2> QED BY <1>1 DEF CallRec
  <1> HIDE DEF q
  <1>6. call'[c] = q /\ \A e \in Call : e # c => call'[e] = call[e]
    BY <1>4 DEF TypeOK
  <1>7. /\ clock' = clock /\ row' = row /\ user' = user /\ busy' = busy /\ cache' = cache
         /\ mark' = mark /\ read' = read /\ sess' = sess /\ wiping' = wiping
    BY DEF ReadTombstones
  <1>8. CallInv' /\ MarkInv' /\ LoginInv' /\ VersionInv'
    <2> HIDE DEF gone
    <2>1. CallInv'
      BY <1>1, <1>5, <1>6, <1>7 DEF Parts, CallInv
    <2>2. MarkInv' /\ LoginInv'
      BY <1>1, <1>5, <1>6, <1>7 DEF Parts, MarkInv, LoginInv, Sees
    <2>3. VersionInv'
      BY <1>1, <1>5, <1>6, <1>7 DEF Parts, VersionInv
    <2> QED
      BY <2>1, <2>2, <2>3
  <1>9. RowInv' /\ EmptyInv' /\ CacheInv'
    BY DEF ReadTombstones, Parts, RowInv, EmptyInv, CacheInv, View, NextBrings,
           Withheld, Visible
  <1>10. SeenInv'
    <2>1. \A s \in Surat : s \in gone => row[s].st = "deleted"
      OBVIOUS
    <2>2. \A s \in Surat : row[s].st = "deleted" =>
            s \in gone \/ q.since = 0 \/ row[s].upd <= q.since
      <3>1. \A s \in Surat : row[s].upd \in Nat
        BY DEF TypeOK, Row
      <3>2. call[c].since \in Nat
        BY <1>1 DEF CallRec
      <3> QED
        BY <3>1, <3>2, <1>5
    <2>3. row' = row /\ late' = late
      BY DEF ReadTombstones
    <2> HIDE DEF gone
    <2> QED
      BY <2>1, <2>2, <2>3, <1>1, <1>5, <1>6 DEF Parts, SeenInv, Same, Visible, Changed
  <1> QED
    BY <1>3, <1>4, <1>8, <1>9, <1>10 DEF Parts, TypeOK

\* Calls may end at any time, as long as the flag of the others stays set.
LEMMA Ending ==
  ASSUME TypeOK, Parts, NEW X \in SUBSET Call,
         call' = [c \in Call |-> IF c \in X THEN IdleCall ELSE call[c]],
         \A c \in Call \ X : call[c].pc # "idle" => busy'[call[c].dev],
         UNCHANGED <<clock, sess>>
  PROVE  /\ CallInv' /\ call' \in [Call -> CallRec]
         /\ \A c \in Call : call'[c] = call[c] \/ call'[c].pc = "idle"
  <1>1. \A c \in Call : \/ c \notin X /\ call'[c] = call[c]
                        \/ call'[c].pc = "idle"
    BY DEF IdleCall
  <1>2. CallInv'
    BY <1>1 DEF Parts, CallInv
  <1> QED
    BY <1>1, <1>2, IdleType DEF TypeOK

\* A call that ends without being applied changes nothing but flags.
LEMMA EndingUnapplied ==
  ASSUME TypeOK, Parts, NEW X \in SUBSET Call,
         call' = [c \in Call |-> IF c \in X THEN IdleCall ELSE call[c]],
         \A c \in Call \ X : call[c].pc # "idle" => busy'[call[c].dev],
         wiping' \in SUBSET wiping,
         UNCHANGED <<clock, row, open, user, cache, mark, late, read, sess, owner, torn>>
  PROVE  Parts' /\ call' \in [Call -> CallRec]
  <1>1. /\ CallInv' /\ call' \in [Call -> CallRec]
        /\ \A c \in Call : call'[c] = call[c] \/ call'[c].pc = "idle"
    BY Ending
  <1>2. MarkInv' /\ LoginInv'
    BY <1>1 DEF Parts, MarkInv, LoginInv, Sees
  <1>3. VersionInv' /\ SeenInv'
    BY <1>1 DEF Parts, VersionInv, SeenInv, Same, Visible, Changed
  <1>4. RowInv' /\ EmptyInv' /\ CacheInv'
    BY DEF Parts, RowInv, EmptyInv, CacheInv, View, NextBrings, Withheld, Visible
  <1> QED
    BY <1>1, <1>2, <1>3, <1>4 DEF Parts

\* The calls of other devices do not notice that the flag of d is released.
LEMMA OthersStayBusy ==
  ASSUME TypeOK, Parts, NEW c \in Call, call[c].pc # "idle",
         busy' = [busy EXCEPT ![call[c].dev] = FALSE]
  PROVE  \A e \in Call \ {c} : call[e].pc # "idle" => busy'[call[e].dev]
  <1>1. \A e \in Call \ {c} : call[e].pc # "idle" =>
          call[e].dev \in Device /\ call[e].dev # call[c].dev /\ busy[call[e].dev]
    BY DEF Parts, CallInv
  <1> QED
    BY <1>1 DEF TypeOK

\* What the snapshot leaves in the cache is what the row shows, or the row changed
\* after the new watermark.
LEMMA AppliedRow ==
  ASSUME TypeOK, Parts, NEW c \in Call, NEW s \in Surat, call[c].pc = "reply",
         Continues(c), s \notin late, call[c].dev \notin torn, row[s].upd <= call[c].at,
         ~Withheld(call[c].sees, s)
  PROVE  Merged(cache[call[c].dev], call[c].got, call[c].gone)[s] = View(call[c].sees, s)
  <1> DEFINE d == call[c].dev
  <1>1. d \in Device /\ call[c] \in CallRec /\ row[s] \in Row
    BY DEF Parts, CallInv, TypeOK
  <1>2. call[c].since = mark[d] /\ (mark[d] = 0 \/ call[c].sees = owner[d])
    BY DEF Continues
  <1>3. mark[d] = 0 => cache[d][s] = 0
    BY <1>1 DEF Parts, EmptyInv
  <1>4. /\ Visible(call[c].sees, s) =>
             call[c].got[s] = (IF Changed(c, s) THEN row[s].ver ELSE 0) /\ s \notin call[c].gone
        /\ row[s].st # "live" => call[c].got[s] = 0
        /\ row[s].st = "deleted" =>
             s \in call[c].gone \/ call[c].since = 0 \/ row[s].upd <= call[c].since
    BY DEF Parts, SeenInv, Same
  <1>5. row[s].upd \in Nat /\ mark[d] \in Nat /\ row[s].ver \in Nat /\ cache[d][s] \in Nat
    BY <1>1 DEF Row, TypeOK
  <1>6. mark[d] # 0 /\ row[s].upd <= mark[d] => cache[d][s] = View(call[c].sees, s)
    BY <1>1, <1>2, <1>5 DEF Parts, CacheInv, NextBrings
  <1>7. Merged(cache[d], call[c].got, call[c].gone)[s]
          = IF s \in call[c].gone THEN 0 ELSE IF call[c].got[s] # 0 THEN call[c].got[s]
                                                                   ELSE cache[d][s]
    BY DEF Merged
  <1>8. CASE row[s].st = "live"
    <2>1. Visible(call[c].sees, s) /\ View(call[c].sees, s) = row[s].ver
      BY <1>2, <1>8 DEF Withheld, View, Visible
    <2>2. row[s].ver > 0
      BY <1>8 DEF Parts, RowInv
    <2>3. CASE Changed(c, s)
      BY <2>1, <2>2, <2>3, <1>4, <1>5, <1>7
    <2>4. CASE ~Changed(c, s)
      BY <2>1, <2>4, <1>2, <1>4, <1>5, <1>6, <1>7 DEF Changed
    <2> QED
      BY <2>3, <2>4
  <1>9. CASE row[s].st = "deleted"
    <2>1. View(call[c].sees, s) = 0
      BY <1>9 DEF View, Visible
    <2> QED
      BY <2>1, <1>2, <1>3, <1>4, <1>6, <1>7, <1>9
  <1>10. CASE row[s].st = "none"
    <2>1. View(call[c].sees, s) = 0 /\ row[s].ver = 0 /\ call[c].got[s] = 0
      BY <1>4, <1>10 DEF View, Visible, Parts, RowInv
    <2>2. cache[d][s] <= 0
      BY <2>1, <1>1 DEF Parts, VersionInv
    <2> QED
      BY <2>1, <2>2, <1>5, <1>7
  <1> QED
    BY <1>1, <1>8, <1>9, <1>10 DEF Row

LEMMA Applying ==
  ASSUME TypeOK, Parts, NEW c \in Call, Apply(c)
  PROVE  /\ Parts' /\ call' \in [Call -> CallRec]
         /\ cache' \in [Device -> [Surat -> Nat]] /\ mark' \in [Device -> Nat]
         /\ \A x \in Device : mark'[x] >= mark[x]
         /\ \A x \in Device, s \in Surat : cache'[x][s] # 0 => cache'[x][s] >= cache[x][s]
  <1>1. PICK d \in Device : d = call[c].dev /\ call[c] \in CallRec /\ call[c].pc = "reply"
    BY DEF Apply, Parts, CallInv, TypeOK
  <1>2. PICK v \in BOOLEAN : v = call[c].sees
    BY <1>1 DEF CallRec
  <1>3. call' = [e \in Call |-> IF e \in {c} THEN IdleCall ELSE call[e]]
    BY DEF Apply, Drop, TypeOK
  <1>4. \A e \in Call \ {c} : call[e].pc # "idle" => busy'[call[e].dev]
    BY <1>1, OthersStayBusy DEF Apply
  <1>5. clock' = clock /\ sess' = sess /\ row' = row /\ user' = user /\ read' = read
        /\ late' = late /\ open' = open /\ wiping' = wiping
    BY DEF Apply
  <1>6. /\ CallInv' /\ call' \in [Call -> CallRec]
        /\ \A e \in Call : call'[e] = call[e] \/ call'[e].pc = "idle"
    BY <1>3, <1>4, <1>5, Ending
  <1>7. PICK merged \in [Surat -> Nat] :
          /\ merged = Merged(cache[d], call[c].got, call[c].gone)
          /\ \A s \in Surat : merged[s] =
               IF s \in call[c].gone THEN 0 ELSE IF call[c].got[s] # 0 THEN call[c].got[s]
                                                                      ELSE cache[d][s]
    <2>1. Merged(cache[d], call[c].got, call[c].gone) \in [Surat -> Nat]
      BY <1>1 DEF Merged, CallRec, TypeOK
    <2> QED
      BY <2>1 DEF Merged
  <1>8. /\ cache' \in [Device -> [Surat -> Nat]] /\ cache'[d] = merged
        /\ \A x \in Device : x # d => cache'[x] = cache[x]
    BY <1>1, <1>7 DEF Apply, TypeOK
  <1>9. call[c].at \in Nat /\ call[c].at > mark[d] /\ call[c].at <= read /\ mark[d] \in Nat
    BY <1>1 DEF Parts, MarkInv, CallRec, TypeOK
  <1>10. /\ mark' \in [Device -> Nat] /\ mark'[d] = call[c].at
        /\ \A x \in Device : x # d => mark'[x] = mark[x]
    BY <1>1, <1>9 DEF Apply, TypeOK
  <1>11. \A e \in Call : call'[e].pc # "idle" =>
           call'[e] = call[e] /\ call[e].dev \in Device /\ call[e].dev # d
    <2>1. call'[c].pc = "idle"
      BY <1>3 DEF IdleCall
    <2> QED
      BY <2>1, <1>1, <1>6 DEF Parts, CallInv
  <1>12. /\ d \in torn' \/ (Continues(c) /\ d \notin torn)
         /\ \A x \in Device : x # d => (x \in torn' <=> x \in torn) /\ owner'[x] = owner[x]
         /\ owner'[d] = v
    BY <1>2, <1>1 DEF Apply, TypeOK
  <1>13. \A s \in Surat : /\ merged[s] \in Nat /\ cache[d][s] \in Nat /\ row[s].ver \in Nat
                          /\ merged[s] <= row[s].ver
                          /\ merged[s] # 0 => merged[s] >= cache[d][s]
    <2>1. \A s \in Surat : /\ call[c].got[s] \in Nat /\ cache[d][s] \in Nat
                           /\ row[s].ver \in Nat /\ cache[d][s] <= row[s].ver
      BY <1>1 DEF TypeOK, CallRec, Row, Parts, VersionInv
    <2>2. \A s \in Surat : call[c].got[s] # 0 => call[c].got[s] \in cache[d][s]..row[s].ver
      BY <1>1 DEF Parts, VersionInv
    <2> QED
      BY <2>1, <2>2, <1>7
  <1>14. RowInv'
    BY <1>5 DEF Parts, RowInv
  <1>15. MarkInv'
    BY <1>5, <1>9, <1>10, <1>11 DEF Parts, MarkInv
  <1>16. LoginInv'
    BY <1>5, <1>10, <1>11 DEF Parts, LoginInv, Sees
  <1>17. EmptyInv'
    BY <1>8, <1>9, <1>10 DEF Parts, EmptyInv
  <1>18. VersionInv'
    <2>1. \A e \in Call : call'[e].pc # "idle" => cache'[call[e].dev] = cache[call[e].dev]
      BY <1>8, <1>11
    <2>2. \A x \in Device, s \in Surat : cache'[x][s] <= row[s].ver
      <3>1. ASSUME NEW x \in Device, NEW s \in Surat, x # d PROVE cache'[x][s] <= row[s].ver
        BY <3>1, <1>8 DEF Parts, VersionInv
      <3>2. ASSUME NEW s \in Surat PROVE cache'[d][s] <= row[s].ver
        BY <1>8, <1>13
      <3> QED
        BY <3>1, <3>2
    <2>3. ASSUME NEW e \in Call, NEW s \in Surat,
                 call'[e].pc \in {"tombstones", "reply"}, call'[e].got[s] # 0
          PROVE  call'[e].got[s] \in cache'[call'[e].dev][s]..row[s].ver
      <3>1. call'[e] = call[e] /\ cache'[call[e].dev] = cache[call[e].dev]
        BY <2>1, <2>3, <1>11
      <3> QED
        BY <2>3, <3>1 DEF Parts, VersionInv
    <2> QED
      BY <2>2, <2>3, <1>5 DEF VersionInv
  <1>19. SeenInv'
    BY <1>5, <1>11 DEF Parts, SeenInv, Same, Visible, Changed
  <1>20. CacheInv'
    <2>1. ASSUME NEW s \in Surat, d \notin torn', s \notin late, ~Withheld(v, s),
                 row[s].upd <= call[c].at
          PROVE  merged[s] = View(v, s)
      BY <2>1, <1>2, <1>1, <1>7, <1>12, AppliedRow
    <2>2. ASSUME NEW s \in Surat, ~Withheld(v, s), ~(row[s].upd <= call[c].at)
          PROVE  NextBrings(d, v, s)'
      <3>1. row[s].upd \in Nat /\ row[s].st \in {"none", "live", "deleted"}
        BY DEF TypeOK, Row
      <3>2. row[s].st # "none"
        BY <2>2, <3>1, <1>9 DEF Parts, RowInv
      <3> QED
        BY <2>2, <3>1, <3>2, <1>5, <1>9, <1>10 DEF NextBrings, Withheld, Visible
    <2>3. ASSUME NEW s \in Surat, d \notin torn', cache'[d][s] # View(owner[d], s)'
          PROVE  NextBrings(d, owner[d], s)' \/ s \in late' \/ Withheld(owner[d], s)'
      BY <2>1, <2>2, <2>3, <1>5, <1>8, <1>12 DEF View, Withheld, Visible
    <2>4. ASSUME NEW x \in Device, NEW s \in Surat, x # d, x \notin torn', mark'[x] # 0,
                 cache'[x][s] # View(owner[x], s)'
          PROVE  NextBrings(x, owner[x], s)' \/ s \in late' \/ Withheld(owner[x], s)'
      BY <2>4, <1>5, <1>8, <1>10, <1>12 DEF Parts, CacheInv, View, NextBrings, Withheld, Visible
    <2> QED
      BY <2>3, <2>4 DEF CacheInv
  <1>21. \A x \in Device : mark'[x] >= mark[x]
    BY <1>9, <1>10 DEF TypeOK
  <1>22. ASSUME NEW x \in Device, NEW s \in Surat, cache'[x][s] # 0
         PROVE  cache'[x][s] >= cache[x][s]
    <2>1. cache[x][s] \in Nat
      BY DEF TypeOK
    <2>2. CASE x = d
      BY <2>2, <1>8, <1>13, <1>22
    <2>3. CASE x # d
      BY <2>1, <2>3, <1>8
    <2> QED
      BY <2>2, <2>3
  <1> QED
    BY <1>21, <1>22, <1>6, <1>8, <1>9, <1>10, <1>13, <1>14, <1>15, <1>16, <1>17, <1>18, <1>19,
       <1>20 DEF Parts

-----------------------------------------------------------------------------
\* People

\* A login leaves the cache as it is; no call of the new login is in flight yet.
LEMMA LoggingIn ==
  ASSUME TypeOK, Parts, NEW d \in Device, NEW u \in Role, Login(d, u)
  PROVE  Parts' /\ user' \in [Device -> Role \cup {"none"}]
  <1>1. /\ user[d] = "none" /\ \A x \in Device : x # d => user'[x] = user[x]
        /\ user' \in [Device -> Role \cup {"none"}]
    BY DEF Login, TypeOK, Role
  <1>2. /\ row' = row /\ open' = open /\ clock' = clock /\ call' = call /\ busy' = busy
        /\ cache' = cache /\ mark' = mark /\ late' = late /\ read' = read /\ sess' = sess
        /\ torn' = torn /\ owner' = owner /\ wiping' = wiping
    BY DEF Login
  <1>3. RowInv' /\ CallInv' /\ MarkInv' /\ EmptyInv'
    BY <1>2 DEF Parts, RowInv, CallInv, MarkInv, EmptyInv
  <1>4. VersionInv' /\ SeenInv' /\ CacheInv'
    BY <1>2 DEF Parts, VersionInv, SeenInv, Same, Changed, CacheInv, View, NextBrings, Withheld,
                Visible
  <1>5. LoginInv'
    <2>1. ASSUME NEW c \in Call, call[c].pc \in {"rows", "tombstones", "reply"},
                 call[c].sess = sess[call[c].dev]
          PROVE  call[c].dev \in Device \ {d}
      BY <2>1, <1>1 DEF Parts, CallInv, LoginInv
    <2> QED
      BY <2>1, <1>1, <1>2 DEF Parts, LoginInv, Sees
  <1> QED
    BY <1>1, <1>3, <1>4, <1>5 DEF Parts

\* After a logout no call in flight on d is one of the present login.
LEMMA LoggingOut ==
  ASSUME TypeOK, Parts, NEW d \in Device, Logout(d)
  PROVE  /\ Parts' /\ user' \in [Device -> Role \cup {"none"}] /\ sess' \in [Device -> Nat]
  <1>1. sess[d] \in Nat
    BY DEF TypeOK
  <1>2. /\ sess'[d] = sess[d] + 1
        /\ \A x \in Device : x # d => /\ user'[x] = user[x] /\ sess'[x] = sess[x]
                                      /\ (x \in wiping' <=> x \in wiping)
        /\ user' \in [Device -> Role \cup {"none"}] /\ sess' \in [Device -> Nat]
    BY <1>1 DEF Logout, TypeOK
  <1>3. /\ row' = row /\ open' = open /\ clock' = clock /\ call' = call /\ busy' = busy
        /\ cache' = cache /\ mark' = mark /\ late' = late /\ read' = read
        /\ torn' = torn /\ owner' = owner
    BY DEF Logout
  <1>4. \A c \in Call : call[c].sess \in Nat
    BY DEF TypeOK, CallRec
  <1>5. RowInv' /\ MarkInv' /\ EmptyInv'
    BY <1>3 DEF Parts, RowInv, MarkInv, EmptyInv
  <1>6. VersionInv' /\ SeenInv' /\ CacheInv'
    BY <1>3 DEF Parts, VersionInv, SeenInv, Same, Changed, CacheInv, View, NextBrings, Withheld,
                Visible
  <1>7. CallInv'
    <2>1. \A c \in Call : call[c].pc \in {"rows", "tombstones", "reply"} =>
             call[c].dev \in Device /\ call[c].sess <= sess'[call[c].dev]
      BY <1>1, <1>2, <1>4 DEF Parts, CallInv
    <2> QED
      BY <2>1, <1>3 DEF Parts, CallInv
  <1>8. LoginInv'
    <2>1. ASSUME NEW c \in Call, call[c].pc \in {"rows", "tombstones", "reply"},
                 call[c].sess = sess'[call[c].dev]
          PROVE  call[c].dev \in Device \ {d}
      BY <2>1, <1>1, <1>2, <1>4 DEF Parts, CallInv
    <2> QED
      BY <2>1, <1>2, <1>3 DEF Parts, LoginInv, Sees
  <1> QED
    BY <1>2, <1>5, <1>6, <1>7, <1>8 DEF Parts

\* A reset leaves an empty cache without a watermark; no call of the present login is
\* in flight, as it would have waited.
LEMMA Resetting ==
  ASSUME TypeOK, Parts, NEW d \in Device, Reset(d)
  PROVE  /\ Parts' /\ cache' \in [Device -> [Surat -> Nat]] /\ mark' \in [Device -> Nat]
         /\ d \in wiping /\ mark'[d] = 0 /\ \A s \in Surat : cache'[d][s] = 0
         /\ \A x \in Device : x # d => cache'[x] = cache[x] /\ mark'[x] = mark[x]
  <1>1. /\ d \in wiping /\ mark'[d] = 0 /\ \A s \in Surat : cache'[d][s] = 0
        /\ \A x \in Device : x # d => /\ mark'[x] = mark[x] /\ cache'[x] = cache[x]
                                      /\ (x \in wiping' <=> x \in wiping)
                                      /\ (x \in torn' <=> x \in torn)
        /\ mark' \in [Device -> Nat] /\ cache' \in [Device -> [Surat -> Nat]]
    BY DEF Reset, TypeOK
  <1>2. /\ row' = row /\ open' = open /\ clock' = clock /\ call' = call /\ busy' = busy
        /\ late' = late /\ read' = read /\ owner' = owner /\ user' = user /\ sess' = sess
    BY DEF Reset
  <1>3. RowInv' /\ CallInv' /\ SeenInv'
    BY <1>2 DEF Parts, RowInv, CallInv, SeenInv, Same, Visible, Changed
  <1>4. EmptyInv'
    BY <1>1 DEF Parts, EmptyInv
  <1>5. MarkInv'
    <2>1. read \in Nat /\ \A c \in Call : call[c].at \in Nat
      BY DEF TypeOK, CallRec
    <2>2. \A x \in Device : mark'[x] <= read
      BY <2>1, <1>1 DEF Parts, MarkInv
    <2>3. \A c \in Call : call[c].pc \in {"rows", "tombstones", "reply"} =>
             call[c].at > mark'[call[c].dev]
      BY <2>1, <1>1 DEF Parts, CallInv, MarkInv
    <2> QED
      BY <2>2, <2>3, <1>2 DEF Parts, MarkInv
  <1>6. LoginInv'
    <2>1. ASSUME NEW c \in Call, call[c].pc \in {"rows", "tombstones", "reply"},
                 call[c].sess = sess[call[c].dev]
          PROVE  call[c].dev \in Device \ {d}
      BY <2>1, <1>1 DEF Parts, CallInv, LoginInv
    <2> QED
      BY <2>1, <1>1, <1>2 DEF Parts, LoginInv, Sees
  <1>7. CacheInv'
    BY <1>1, <1>2 DEF Parts, CacheInv, View, NextBrings, Withheld, Visible
  <1>8. VersionInv'
    <2>1. \A x \in Device, s \in Surat :
            cache'[x][s] \in Nat /\ cache'[x][s] <= cache[x][s] /\ cache[x][s] \in Nat
      <3>1. \A x \in Device, s \in Surat : cache[x][s] \in Nat
        BY DEF TypeOK
      <3> QED
        BY <3>1, <1>1
    <2>2. \A s \in Surat : row[s].ver \in Nat
      BY DEF TypeOK, Row
    <2>3. \A x \in Device, s \in Surat : cache'[x][s] <= row[s].ver
      BY <2>1, <2>2 DEF Parts, VersionInv
    <2>4. ASSUME NEW c \in Call, NEW s \in Surat,
                 call[c].pc \in {"tombstones", "reply"}, call[c].got[s] # 0
          PROVE  call[c].got[s] \in cache'[call[c].dev][s]..row[s].ver
      <3>1. call[c].dev \in Device /\ call[c].got[s] \in cache[call[c].dev][s]..row[s].ver
        BY <2>4 DEF Parts, CallInv, VersionInv
      <3> QED
        BY <2>1, <2>2, <3>1
    <2> QED
      BY <2>3, <2>4, <1>2 DEF VersionInv
  <1> QED
    BY <1>1, <1>3, <1>4, <1>5, <1>6, <1>7, <1>8 DEF Parts

\* A reset that fails leaves everything but its own end.
LEMMA NotResetting ==
  ASSUME TypeOK, Parts, NEW d \in Device, ResetFail(d)
  PROVE  Parts'
  <1>1. /\ row' = row /\ open' = open /\ clock' = clock /\ call' = call /\ busy' = busy
        /\ cache' = cache /\ mark' = mark /\ late' = late /\ read' = read /\ sess' = sess
        /\ torn' = torn /\ owner' = owner /\ user' = user /\ wiping' \subseteq wiping
    BY DEF ResetFail
  <1>2. RowInv' /\ CallInv' /\ MarkInv' /\ EmptyInv' /\ LoginInv'
    BY <1>1 DEF Parts, RowInv, CallInv, MarkInv, EmptyInv, LoginInv, Sees
  <1>3. VersionInv' /\ SeenInv' /\ CacheInv'
    BY <1>1 DEF Parts, VersionInv, SeenInv, Same, Changed, CacheInv, View, NextBrings, Withheld,
                Visible
  <1> QED
    BY <1>2, <1>3 DEF Parts

-----------------------------------------------------------------------------
\* Every step

LEMMA Initial == Init => IInv
  <1> SUFFICES ASSUME Init PROVE IInv
    OBVIOUS
  <1>1. \A s \in Surat : row[s] \in {[st |-> "none", secret |-> FALSE, upd |-> 0, ver |-> 0],
                                     [st |-> "live", secret |-> FALSE, upd |-> 1, ver |-> 1]}
    BY DEF Init
  <1>2. row \in [Surat -> Row]
    <2>1. /\ [st |-> "none", secret |-> FALSE, upd |-> 0, ver |-> 0] \in Row
          /\ [st |-> "live", secret |-> FALSE, upd |-> 1, ver |-> 1] \in Row
      BY DEF Row
    <2> QED
      BY <2>1 DEF Init
  <1>3. TypeOK
    BY <1>2, IdleType DEF Init, TypeOK
  <1>4. \A c \in Call : call[c].pc = "idle"
    BY DEF Init, IdleCall
  <1>5. RowInv
    BY <1>1 DEF Init, RowInv
  <1>6. CallInv /\ MarkInv /\ LoginInv /\ EmptyInv /\ SeenInv
    BY <1>4 DEF Init, CallInv, MarkInv, LoginInv, EmptyInv, SeenInv
  <1>7. VersionInv
    <2>1. \A s \in Surat : 0 <= row[s].ver
      BY <1>1
    <2> QED
      BY <2>1, <1>4 DEF Init, VersionInv
  <1> QED
    BY <1>3, <1>5, <1>6, <1>7 DEF Init, IInv, CacheInv

LEMMA WriterSteps ==
  ASSUME TypeOK, Parts, Writers
  PROVE  /\ TypeOK' /\ Parts' /\ UNCHANGED <<cache, mark, sess>>
  <1>1. PICK s \in Surat :
          \/ WebBegin(s)
          \/ \E t \in 1..clock : WebCommit(s, t) \/ WebAbort(s, t)
          \/ \E ts \in 1..(clock + Ahead) : OpCommit(s, ts)
    BY DEF Writers
  <1>2. clock \in Nat /\ Ahead \in Nat /\ opsDone \in Nat
    BY BoundAssumption DEF TypeOK
  <1>3. CASE WebBegin(s)
    <2>1. clock' = clock + 1 /\ open' = open \cup {<<s, clock + 1>>}
      BY <1>3 DEF WebBegin, Begin
    <2>2. TypeOK'
      BY <2>1, <1>2, <1>3 DEF WebBegin, TypeOK
    <2>3. RowInv'
      BY <2>1, <1>2, <1>3 DEF WebBegin, Parts, RowInv
    <2>4. CallInv' /\ MarkInv'
      <3>1. \A c \in Call : call[c].at \in Nat
        BY DEF TypeOK, CallRec
      <3>2. read \in Nat
        BY DEF TypeOK
      <3> QED
        BY <2>1, <3>1, <3>2, <1>2, <1>3 DEF WebBegin, Parts, CallInv, MarkInv
    <2>5. LoginInv' /\ EmptyInv' /\ VersionInv' /\ SeenInv' /\ CacheInv'
      BY <1>3 DEF WebBegin, Parts, LoginInv, EmptyInv, VersionInv, SeenInv, Same, Changed,
                  CacheInv, View, NextBrings, Withheld, Visible, Sees
    <2> QED
      BY <2>2, <2>3, <2>4, <2>5, <1>3 DEF WebBegin, Parts
  <1>4. ASSUME NEW t \in 1..clock, WebCommit(s, t) PROVE TypeOK' /\ Parts'
    <2>1. t \in Nat \ {0}
      BY <1>2, <1>4
    <2>2. PICK st \in {"live", "deleted"}, secret \in BOOLEAN : Write(s, st, secret, t)
      BY <1>4 DEF WebCommit
    <2>3. row' \in [Surat -> Row] /\ late' \in SUBSET Surat
      BY <2>1, <2>2, WrittenRow
    <2>4. TypeOK'
      BY <2>3, <1>4 DEF WebCommit, TypeOK
    <2>5. /\ open' \in SUBSET open
          /\ UNCHANGED <<clock, user, busy, call, cache, mark, read, wiping, sess, owner,
                         torn>>
      BY <1>4 DEF WebCommit
    <2> QED
      BY <2>1, <2>2, <2>4, <2>5, Writing
  <1>5. ASSUME NEW t \in 1..clock, WebAbort(s, t) PROVE TypeOK' /\ Parts'
    <2>1. open' \in SUBSET open
      BY <1>5 DEF WebAbort
    <2>2. TypeOK' /\ RowInv' /\ CallInv' /\ MarkInv'
      BY <2>1, <1>5 DEF WebAbort, TypeOK, Parts, RowInv, CallInv, MarkInv
    <2>3. LoginInv' /\ EmptyInv' /\ VersionInv' /\ SeenInv' /\ CacheInv'
      BY <1>5 DEF WebAbort, Parts, LoginInv, EmptyInv, VersionInv, SeenInv, Same, Changed,
                  CacheInv, View, NextBrings, Withheld, Visible, Sees
    <2> QED
      BY <2>2, <2>3 DEF Parts
  <1>6. ASSUME NEW ts \in 1..(clock + Ahead), OpCommit(s, ts) PROVE TypeOK' /\ Parts'
    <2>1. ts \in Nat \ {0}
      BY <1>2, <1>6
    <2>2. PICK secret \in BOOLEAN : Write(s, "live", secret, ts)
      BY <1>6 DEF OpCommit
    <2>3. row' \in [Surat -> Row] /\ late' \in SUBSET Surat
      BY <2>1, <2>2, WrittenRow
    <2>4. TypeOK'
      BY <2>3, <1>2, <1>6 DEF OpCommit, TypeOK
    <2>5. /\ open' \in SUBSET open
          /\ UNCHANGED <<clock, user, busy, call, cache, mark, read, wiping, sess, owner,
                         torn>>
      BY <1>6 DEF OpCommit
    <2> QED
      BY <2>1, <2>2, <2>4, <2>5, Writing
  <1>7. UNCHANGED <<cache, mark, sess>>
    BY <1>1 DEF WebBegin, WebCommit, WebAbort, OpCommit
  <1> QED
    BY <1>1, <1>3, <1>4, <1>5, <1>6, <1>7

\* Only an applied answer changes a cache, and never backwards.
LEMMA SyncSteps ==
  ASSUME TypeOK, Parts, Syncs
  PROVE  /\ TypeOK' /\ Parts'
         /\ \A x \in Device : mark'[x] >= mark[x]
         /\ \A x \in Device, s \in Surat : cache'[x][s] # 0 => cache'[x][s] >= cache[x][s]
  <1>1. /\ \A x \in Device : mark[x] \in Nat
        /\ \A x \in Device, s \in Surat : cache[x][s] \in Nat
    BY DEF TypeOK
  <1>2. ASSUME UNCHANGED <<cache, mark>>
        PROVE  /\ \A x \in Device : mark'[x] >= mark[x]
               /\ \A x \in Device, s \in Surat : cache'[x][s] # 0 => cache'[x][s] >= cache[x][s]
    BY <1>1, <1>2
  <1>3. faults \in Nat
    BY DEF TypeOK
  <1>4. ASSUME NEW d \in Device, NEW c \in Call, SyncStart(d, c)
        PROVE  TypeOK' /\ Parts' /\ UNCHANGED <<cache, mark>>
    <2>1. ~busy[d] /\ Ask(d, c)
      BY <1>4 DEF SyncStart
    <2>2. /\ Parts' /\ clock' \in Nat /\ busy' \in [Device -> BOOLEAN]
          /\ call' \in [Call -> CallRec]
      BY <2>1, Asking
    <2> QED
      BY <2>1, <2>2, <1>4 DEF SyncStart, Ask, TypeOK
  <1>5. ASSUME NEW d \in Device, NEW c \in Call, RouterSync(d, c)
        PROVE  TypeOK' /\ Parts' /\ UNCHANGED <<cache, mark>>
    <2>1. asked' \in [Device -> BOOLEAN]
      BY <1>5 DEF RouterSync, TypeOK
    <2>2. CASE ~busy[d] /\ Ask(d, c) /\ UNCHANGED faults
      <3>1. /\ Parts' /\ clock' \in Nat /\ busy' \in [Device -> BOOLEAN]
            /\ call' \in [Call -> CallRec]
        BY <2>2, Asking
      <3> QED
        BY <2>1, <2>2, <3>1 DEF Ask, TypeOK
    <2>3. CASE /\ UNCHANGED faults \/ Fault
               /\ UNCHANGED <<clock, row, open, opsDone, user, busy, call, cache, mark, late,
                              read, wiping, sess, owner, torn>>
      <3>1. faults' \in Nat
        BY <2>3, <1>3 DEF Fault
      <3>2. TypeOK'
        BY <2>1, <2>3, <3>1 DEF TypeOK
      <3>3. Parts'
        BY <2>3 DEF Parts, RowInv, CallInv, MarkInv, LoginInv, EmptyInv, VersionInv, SeenInv,
                    Same, Changed, CacheInv, View, NextBrings, Withheld, Visible, Sees
      <3> QED
        BY <2>3, <3>2, <3>3
    <2> QED
      BY <2>2, <2>3, <1>5 DEF RouterSync
  <1>6. ASSUME NEW c \in Call, ReadRows(c)
        PROVE  TypeOK' /\ Parts' /\ UNCHANGED <<cache, mark>>
    <2>1. Parts' /\ call' \in [Call -> CallRec] /\ read' \in Nat
      BY <1>6, Reading
    <2>2. UNCHANGED <<clock, row, open, opsDone, user, busy, asked, cache, mark, late, wiping,
                      sess, owner, torn, faults>>
      BY <1>6 DEF ReadRows
    <2> QED
      BY <2>1, <2>2 DEF TypeOK
  <1>7. ASSUME NEW c \in Call, ReadTombstones(c)
        PROVE  TypeOK' /\ Parts' /\ UNCHANGED <<cache, mark>>
    <2>1. Parts' /\ call' \in [Call -> CallRec]
      BY <1>7, ReadingTombstones
    <2>2. UNCHANGED <<clock, row, open, opsDone, user, busy, asked, cache, mark, late, read,
                      wiping, sess, owner, torn, faults>>
      BY <1>7 DEF ReadTombstones
    <2> QED
      BY <2>1, <2>2 DEF TypeOK
  <1>8. ASSUME NEW c \in Call, Apply(c)
        PROVE  /\ TypeOK' /\ Parts'
               /\ \A x \in Device : mark'[x] >= mark[x]
               /\ \A x \in Device, s \in Surat : cache'[x][s] # 0 => cache'[x][s] >= cache[x][s]
    <2>1. /\ Parts' /\ call' \in [Call -> CallRec]
          /\ cache' \in [Device -> [Surat -> Nat]] /\ mark' \in [Device -> Nat]
          /\ \A x \in Device : mark'[x] >= mark[x]
          /\ \A x \in Device, s \in Surat : cache'[x][s] # 0 => cache'[x][s] >= cache[x][s]
      BY <1>8, Applying
    <2>2. busy' \in [Device -> BOOLEAN] /\ torn' \in SUBSET Device
      BY <1>8 DEF Apply, TypeOK, Parts, CallInv
    <2>3. /\ owner' \in [Device -> BOOLEAN]
          /\ UNCHANGED <<clock, row, open, opsDone, user, asked, late, read, wiping, sess,
                         faults>>
      BY <1>8 DEF Apply, TypeOK, CallRec
    <2> QED
      BY <2>1, <2>2, <2>3 DEF TypeOK
  <1>9. ASSUME NEW c \in Call, SyncFail(c)
        PROVE  TypeOK' /\ Parts' /\ UNCHANGED <<cache, mark>>
    <2>1. /\ call' = [e \in Call |-> IF e \in {c} THEN IdleCall ELSE call[e]]
          /\ call[c].pc # "idle" /\ busy' = [busy EXCEPT ![call[c].dev] = FALSE]
          /\ busy' \in [Device -> BOOLEAN]
      BY <1>9 DEF SyncFail, Drop, TypeOK
    <2>2. faults' \in Nat
      BY <1>3, <1>9 DEF SyncFail, Fault
    <2>3. UNCHANGED <<clock, row, open, opsDone, user, asked, cache, mark, late, read, wiping,
                      sess, owner, torn>>
      BY <1>9 DEF SyncFail
    <2>4. \A e \in Call \ {c} : call[e].pc # "idle" => busy'[call[e].dev]
      BY <2>1, OthersStayBusy
    <2>5. {c} \in SUBSET Call
      OBVIOUS
    <2>6. Parts' /\ call' \in [Call -> CallRec]
      BY <2>1, <2>3, <2>4, <2>5, EndingUnapplied
    <2> QED
      BY <2>1, <2>2, <2>3, <2>6 DEF TypeOK
  <1> QED
    BY <1>2, <1>4, <1>5, <1>6, <1>7, <1>8, <1>9 DEF Syncs

LEMMA LoginSteps ==
  ASSUME TypeOK, Parts, Logins
  PROVE  /\ TypeOK' /\ Parts'
         /\ \A x \in Device : \/ cache'[x] = cache[x] /\ mark'[x] = mark[x]
                              \/ /\ x \in wiping /\ mark'[x] = 0
                                 /\ \A s \in Surat : cache'[x][s] = 0
  <1>1. faults \in Nat
    BY DEF TypeOK
  <1>2. ASSUME NEW d \in Device, NEW u \in Role, Login(d, u)
        PROVE  TypeOK' /\ Parts' /\ UNCHANGED <<cache, mark>>
    <2>1. Parts' /\ user' \in [Device -> Role \cup {"none"}]
      BY <1>2, LoggingIn
    <2> QED
      BY <2>1, <1>2 DEF Login, TypeOK
  <1>3. ASSUME NEW d \in Device, Logout(d)
        PROVE  TypeOK' /\ Parts' /\ UNCHANGED <<cache, mark>>
    <2>1. Parts' /\ user' \in [Device -> Role \cup {"none"}] /\ sess' \in [Device -> Nat]
      BY <1>3, LoggingOut
    <2>2. /\ wiping' \in SUBSET Device /\ asked' \in [Device -> BOOLEAN] /\ faults' \in Nat
          /\ UNCHANGED <<clock, row, open, opsDone, busy, call, cache, mark, late, read,
                         owner, torn>>
      BY <1>1, <1>3 DEF Logout, Fault, TypeOK
    <2> QED
      BY <2>1, <2>2 DEF TypeOK
  <1>4. ASSUME NEW d \in Device, Reset(d)
        PROVE  /\ TypeOK' /\ Parts'
               /\ \A x \in Device : \/ cache'[x] = cache[x] /\ mark'[x] = mark[x]
                                    \/ /\ x \in wiping /\ mark'[x] = 0
                                       /\ \A s \in Surat : cache'[x][s] = 0
    <2>1. /\ Parts' /\ cache' \in [Device -> [Surat -> Nat]] /\ mark' \in [Device -> Nat]
          /\ d \in wiping /\ mark'[d] = 0 /\ \A s \in Surat : cache'[d][s] = 0
          /\ \A x \in Device : x # d => cache'[x] = cache[x] /\ mark'[x] = mark[x]
      BY <1>4, Resetting
    <2>2. /\ wiping' \in SUBSET Device /\ torn' \in SUBSET Device
          /\ UNCHANGED <<clock, row, open, opsDone, user, busy, asked, call, late, read, sess,
                         owner, faults>>
      BY <1>4 DEF Reset, TypeOK
    <2> QED
      BY <2>1, <2>2 DEF TypeOK
  <1>5. ASSUME NEW d \in Device, ResetFail(d)
        PROVE  TypeOK' /\ Parts' /\ UNCHANGED <<cache, mark>>
    <2>1. Parts'
      BY <1>5, NotResetting
    <2> QED
      BY <2>1, <1>5 DEF ResetFail, TypeOK
  <1>6. ASSUME NEW d \in Device, Reload(d)
        PROVE  TypeOK' /\ Parts' /\ UNCHANGED <<cache, mark>>
    <2> DEFINE X == {c \in Call : call[c].dev = d}
    <2>1. call' = [c \in Call |-> IF c \in X THEN IdleCall ELSE call[c]]
      BY <1>6 DEF Reload
    <2>2. \A c \in Call \ X : call[c].pc # "idle" => busy'[call[c].dev]
      BY <1>6 DEF Reload, Parts, CallInv, TypeOK
    <2>3. /\ busy' \in [Device -> BOOLEAN] /\ asked' \in [Device -> BOOLEAN]
          /\ faults' \in Nat /\ wiping' \in SUBSET wiping
          /\ UNCHANGED <<clock, row, open, opsDone, user, cache, mark, late, read, sess,
                         owner, torn>>
      BY <1>1, <1>6 DEF Reload, Fault, TypeOK
    <2>4. X \in SUBSET Call
      OBVIOUS
    <2> HIDE DEF X
    <2>5. Parts' /\ call' \in [Call -> CallRec]
      BY <2>1, <2>2, <2>3, <2>4, EndingUnapplied
    <2> QED
      BY <2>3, <2>5 DEF TypeOK
  <1> QED
    BY <1>2, <1>3, <1>4, <1>5, <1>6 DEF Logins

LEMMA WholeIsParts == IInv <=> TypeOK /\ Parts
  BY DEF IInv, Parts

LEMMA Inductive == IInv /\ [Next]_vars => IInv'
  <1> SUFFICES ASSUME TypeOK, Parts, [Next]_vars PROVE TypeOK' /\ Parts'
    BY WholeIsParts DEF IInv, Parts
  <1>1. CASE UNCHANGED vars
    BY <1>1 DEF vars, TypeOK, Parts, RowInv, CallInv, MarkInv, LoginInv, EmptyInv, VersionInv,
                SeenInv, Same, Changed, CacheInv, View, NextBrings, Withheld, Visible, Sees
  <1>2. CASE Next
    BY <1>2, WriterSteps, SyncSteps, LoginSteps DEF Next
  <1> QED
    BY <1>1, <1>2

-----------------------------------------------------------------------------
\* Rows, caches, watermarks and calls in flight agree at all times
\* (store/sync.go, offline/sync.ts).
THEOREM Invariance == Spec => []IInv
  <1> QED
    BY Initial, Inductive, PTL DEF Spec

\* However writers, snapshots, logouts with or without their reset, and failures
\* interleave, the next delta brings what a cache lacks, but for the exceptions that
\* LostOnlyWhenLate names: empty without a watermark, the cache of those it was
\* fetched for with one (auth.ts:61-69, offline/sync.ts:23-81, store/sync.go:53-132).
THEOREM DeltaRepairs == Spec => []LostOnlyWhenLate
  <1>1. IInv => LostOnlyWhenLate
    <2> SUFFICES ASSUME IInv, NEW d \in Device, NEW s \in Surat,
                        cache[d][s] # View(Sees(d), s), d \notin torn, ~Foreign(d)
                 PROVE  NextBrings(d, Sees(d), s) \/ s \in late \/ Withheld(Sees(d), s)
      BY DEF LostOnlyWhenLate
    <2>1. CASE mark[d] = 0
      BY <2>1 DEF IInv, EmptyInv, View, NextBrings
    <2>2. CASE mark[d] # 0
      BY <2>2 DEF IInv, CacheInv, Foreign
    <2> QED
      BY <2>1, <2>2
  <1> QED
    BY <1>1, Invariance, PTL

\* Until a cache is cleared, a device never shows older content than it did
\* (offline/sync.ts:47-65, stores/offline.ts).
THEOREM ContentNeverGoesBack == Spec => NoOlderContent
  <1>1. IInv /\ [Next]_vars =>
          [\A d \in Device, s \in Surat :
             cache'[d][s] # 0 => cache'[d][s] >= cache[d][s]]_vars
    <2> SUFFICES ASSUME TypeOK, Parts, Next, NEW d \in Device, NEW s \in Surat,
                        cache'[d][s] # 0
                 PROVE  cache'[d][s] >= cache[d][s]
      BY WholeIsParts
    <2>1. cache[d][s] \in Nat
      BY DEF TypeOK
    <2> QED
      BY <2>1, WriterSteps, SyncSteps, LoginSteps DEF Next
  <1> QED
    BY <1>1, Invariance, PTL DEF Spec, NoOlderContent

\* The watermark of a device goes back only with the cache that a logout's reset
\* clears, both in one transaction (offline/sync.ts:73-81).
THEOREM MarkNeverGoesBack == Spec => MarkMovesForward
  <1>1. IInv /\ [Next]_vars =>
          [\A d \in Device : mark'[d] < mark[d] =>
             d \in wiping /\ mark'[d] = 0 /\ \A s \in Surat : cache'[d][s] = 0]_vars
    <2> SUFFICES ASSUME TypeOK, Parts, Next, NEW d \in Device, mark'[d] < mark[d]
                 PROVE  d \in wiping /\ mark'[d] = 0 /\ \A s \in Surat : cache'[d][s] = 0
      BY WholeIsParts
    <2>1. mark[d] \in Nat /\ mark'[d] \in Nat
      <3>1. TypeOK'
        BY WriterSteps, SyncSteps, LoginSteps DEF Next
      <3> QED
        BY <3>1 DEF TypeOK
    <2> QED
      BY <2>1, WriterSteps, SyncSteps, LoginSteps DEF Next
  <1> QED
    BY <1>1, Invariance, PTL DEF Spec, MarkMovesForward
=============================================================================
