-------------------------- MODULE AttachmentsProofs --------------------------
(***************************************************************************)
(* Theorems about Attachments, for every set of surat, attachments and     *)
(* requests and every bound.                                               *)
(***************************************************************************)
EXTENDS Attachments, FiniteSetTheorems, WellFoundedInduction, TLAPS

LEMMA IdleType == IdleReq \in RequestRec
  BY DEF IdleReq, RequestRec

\* A request that changes no row may do what leaves it sound, takes no
\* identifier that is in use and locks no row that is locked.
LEMMA Moves ==
  ASSUME TypeOK, RequestInv, NEW r \in Request, NEW m \in RequestRec,
         req' = [req EXCEPT ![r] = m], att' = att, Sound(m),
         m.new # NoAtt => m.new = req[r].new \/ m.new \in Unused,
         m.pc = "swap" => \/ req[r].pc = "swap" /\ m.old = req[r].old
                          \/ \A p \in Request : ~(req[p].pc = "swap" /\ req[p].old = m.old)
  PROVE  RequestInv' /\ req' \in [Request -> RequestRec]
  <1>1. req' \in [Request -> RequestRec]
    BY DEF TypeOK
  <1>2. \A p \in Request : req'[p] = IF p = r THEN m ELSE req[p]
    BY DEF TypeOK
  <1>3. \A p \in Request : Sound(req[p])'
    BY <1>2 DEF RequestInv, Sound
  <1>4. ASSUME NEW p \in Request, NEW q \in Request,
               req'[p].new # NoAtt, req'[p].new = req'[q].new
        PROVE  p = q
    BY <1>2, <1>4 DEF RequestInv, Unused
  <1>5. ASSUME NEW p \in Request, NEW q \in Request, req'[p].pc = "swap",
               req'[q].pc = "swap", req'[p].old = req'[q].old
        PROVE  p = q
    BY <1>2, <1>5 DEF RequestInv
  <1> QED
    BY <1>1, <1>3, <1>4, <1>5 DEF RequestInv

\* What the invariant says of the rows is kept by a step that changes none.
LEMMA SameRows ==
  ASSUME IInv, att' = att
  PROVE  RowInv' /\ LinksInv' /\ NoVersionLost'
  BY DEF IInv, RowInv, LinksInv, NoVersionLost

\* A request that commits a row marks what others have read; nothing else of
\* them changes.
LEMMA Marks ==
  ASSUME TypeOK, NEW r \in Request, NEW s, NEW m \in RequestRec,
         req' = [Outdated(r, s) EXCEPT ![r] = m]
  PROVE  /\ req' \in [Request -> RequestRec]
         /\ req'[r] = m
         /\ \A p \in Request \ {r} : /\ req'[p].pc = req[p].pc /\ req'[p].new = req[p].new
                                     /\ req'[p].old = req[p].old
                                     /\ req'[p].surat = req[p].surat
                                     /\ req'[p].added = req[p].added
                                     /\ req'[p].todo = req[p].todo /\ req'[p].got = req[p].got
                                     /\ req'[p].skipped = req[p].skipped
                                     /\ req'[p].fresh = (req[p].fresh /\ req[p].surat # s)
  <1>1. \A p \in Request : [req[p] EXCEPT !.fresh = FALSE] \in RequestRec
    BY DEF TypeOK, RequestRec
  <1>2. Outdated(r, s) \in [Request -> RequestRec]
    BY <1>1 DEF Outdated, TypeOK
  <1>3. \A p \in Request \ {r} :
          req'[p] = IF req[p].surat = s THEN [req[p] EXCEPT !.fresh = FALSE] ELSE req[p]
    BY <1>2 DEF Outdated
  <1>4. \A p \in Request : req[p] \in RequestRec
    BY DEF TypeOK
  <1> QED
    BY <1>2, <1>3, <1>4 DEF RequestRec

\* Committing the row of a part, alone or with the link of the row it replaces,
\* keeps rows, links and requests in order.
LEMMA Commits ==
  ASSUME IInv, NEW r \in Request, NEW m \in RequestRec,
         req' = [Outdated(r, req[r].surat) EXCEPT ![r] = m],
         m.pc \in {"part", "list", "idle"}, m.new = NoAtt, m.old = NoAtt,
         m.surat = req[r].surat \/ m.pc = "idle", m.added => m.pc # "idle",
         \/ req[r].pc = "insert" /\ att' = [att EXCEPT ![req[r].new] = NewRow(r)]
         \/ req[r].pc = "swap" /\ att' = Swapped(r)
  PROVE  /\ att' \in [Att -> AttRow] /\ req' \in [Request -> RequestRec]
         /\ RowInv' /\ LinksInv' /\ NoVersionLost' /\ RequestInv'
         /\ \A a \in Att : att'[a].st = "none" <=> att[a].st = "none" /\ a # req[r].new
         /\ \A t \in Surat \ {req[r].surat} : Active(t)' = Active(t)
  <1> DEFINE n == req[r].new
             o == req[r].old
             s == req[r].surat
  <1>1. /\ n \in Att /\ att[n].st = "none" /\ s \in Surat
        /\ req[r].pc = "insert" => o = NoAtt
        /\ req[r].pc = "swap" => o \in Att /\ att[o].st = "active" /\ att[o].surat = s
    BY DEF IInv, RequestInv, Sound, TypeOK, RequestRec
  <1>2. att \in [Att -> AttRow] /\ NoAtt \notin Att
    BY NullAssumption DEF IInv, TypeOK
  <1>3. n # NoAtt /\ (req[r].pc = "swap" => n # o)
    BY <1>1, <1>2
  <1>4. NewRow(r) = [st |-> "active", surat |-> s, next |-> NoAtt, of |-> o]
    BY DEF NewRow
  <1>5. NewRow(r) \in AttRow
    BY <1>1, <1>4 DEF AttRow
  <1>6. att' \in [Att -> AttRow]
    <2>1. CASE req[r].pc = "insert"
      BY <2>1, <1>2, <1>5
    <2>2. CASE req[r].pc = "swap"
      <3> DEFINE x == [att[o] EXCEPT !.st = "replaced", !.next = n]
      <3>1. x \in AttRow
        BY <2>2, <1>1, <1>2 DEF AttRow
      <3>2. att' = [[att EXCEPT ![n] = NewRow(r)] EXCEPT ![o] = x]
        BY <2>2 DEF Swapped
      <3> HIDE DEF x
      <3> QED BY <3>1, <3>2, <1>2, <1>5
    <2> QED BY <2>1, <2>2
  \* The rows after the step.
  <1>7. att'[n] = NewRow(r)
    BY <1>1, <1>2, <1>3 DEF Swapped
  <1>8. \A a \in Att : a # n /\ (req[r].pc = "insert" \/ a # o) => att'[a] = att[a]
    BY <1>1, <1>2 DEF Swapped
  <1>9. req[r].pc = "swap" => /\ att'[o].st = "replaced" /\ att'[o].next = n
                              /\ att'[o].surat = s /\ att'[o].of = att[o].of
    <2> SUFFICES ASSUME req[r].pc = "swap"
                 PROVE  /\ att'[o].st = "replaced" /\ att'[o].next = n
                        /\ att'[o].surat = s /\ att'[o].of = att[o].of
      OBVIOUS
    <2>1. att'[o] = [att[o] EXCEPT !.st = "replaced", !.next = n]
      BY <1>1, <1>2, <1>3 DEF Swapped
    <2>2. att[o] \in AttRow
      BY <1>1, <1>2
    <2> QED BY <2>1, <2>2, <1>1 DEF AttRow
  <1>10. att[n].next = NoAtt /\ att[n].of = NoAtt /\ (req[r].pc = "swap" => att[o].next = NoAtt)
    BY <1>1 DEF IInv, RowInv, LinksInv
  <1>11. \A a \in Att : att[a].next # n /\ att[a].of # n
    BY <1>1, <1>2, <1>3, <1>10 DEF IInv, LinksInv, NoVersionLost
  <1>12. req[r].pc = "insert" \/ req[r].pc = "swap"
    OBVIOUS
  <1> HIDE DEF n, o, s
  <1>13. RowInv'
    BY <1>1, <1>4, <1>7, <1>8, <1>9 DEF IInv, RowInv
  <1>14. LinksInv'
    <2> SUFFICES ASSUME NEW a \in Att
                 PROVE  /\ att'[a].st = "replaced" <=> att'[a].next # NoAtt
                        /\ att'[a].next # NoAtt => /\ att'[att'[a].next].st # "none"
                                                   /\ att'[att'[a].next].surat = att'[a].surat
                                                   /\ att'[att'[a].next].of = a
      BY DEF LinksInv
    <2>1. CASE a = n
      BY <2>1, <1>4, <1>7
    <2>2. CASE a # n /\ req[r].pc = "swap" /\ a = o
      BY <2>2, <1>1, <1>3, <1>4, <1>7, <1>9
    <2>3. CASE a # n /\ ~(req[r].pc = "swap" /\ a = o)
      <3>1. att'[a] = att[a]
        BY <2>3, <1>8, <1>12
      <3>2. att[a].st = "replaced" <=> att[a].next # NoAtt
        BY DEF IInv, LinksInv
      <3>3. ASSUME att[a].next # NoAtt
            PROVE  LET b == att[a].next
                   IN  att'[b].st # "none" /\ att'[b].surat = att[a].surat /\ att'[b].of = a
        <4> DEFINE b == att[a].next
        <4>1. b \in Att /\ b # n
          BY <3>3, <1>2, <1>11 DEF AttRow
        <4>2. att[b].st # "none" /\ att[b].surat = att[a].surat /\ att[b].of = a
          BY <3>3 DEF IInv, LinksInv
        <4>3. att'[b].st # "none" /\ att'[b].surat = att[a].surat /\ att'[b].of = a
          <5> HIDE DEF b
          <5>1. CASE req[r].pc = "swap" /\ b = o
            BY <4>2, <5>1, <1>1, <1>9
          <5>2. CASE ~(req[r].pc = "swap" /\ b = o)
            BY <4>1, <4>2, <5>2, <1>8, <1>12
          <5> QED BY <5>1, <5>2
        <4> QED BY <4>3
      <3> QED BY <3>1, <3>2, <3>3
    <2> QED BY <2>1, <2>2, <2>3
  <1>15. NoVersionLost'
    <2> SUFFICES ASSUME NEW a \in Att, att'[a].of # NoAtt
                 PROVE  att'[att'[a].of].next = a
      BY DEF NoVersionLost
    <2>1. CASE a = n
      BY <2>1, <1>1, <1>4, <1>7, <1>9, <1>12
    <2>2. CASE a # n
      <3>1. att'[a].of = att[a].of
        BY <2>2, <1>8, <1>9, <1>12
      <3>2. att[a].of \in Att /\ att[a].of # n
        BY <3>1, <1>2, <1>11 DEF AttRow
      <3>3. att[att[a].of].next = a
        BY <3>1 DEF IInv, NoVersionLost
      <3>4. ~(req[r].pc = "swap" /\ att[a].of = o)
        BY <3>3, <1>2, <1>10
      <3> QED BY <3>1, <3>2, <3>3, <3>4, <1>8, <1>12
    <2> QED BY <2>1, <2>2
  <1>16. /\ req' \in [Request -> RequestRec] /\ req'[r] = m
         /\ \A p \in Request \ {r} : /\ req'[p].pc = req[p].pc /\ req'[p].new = req[p].new
                                     /\ req'[p].old = req[p].old
                                     /\ req'[p].surat = req[p].surat
                                     /\ req'[p].added = req[p].added
    BY Marks DEF IInv
  <1>17. RequestInv'
    <2>1. Sound(req[r])'
      BY <1>1, <1>16 DEF Sound, s
    <2>2. ASSUME NEW p \in Request \ {r} PROVE Sound(req[p])'
      <3> DEFINE a == req[p].new
                 b == req[p].old
      <3>1. Sound(req[p])
        BY DEF IInv, RequestInv
      <3>2. req'[p].pc = req[p].pc /\ req'[p].new = a /\ req'[p].old = b
            /\ req'[p].surat = req[p].surat /\ req'[p].added = req[p].added
        BY <1>16
      <3>3. a \in Att \cup {NoAtt} /\ b \in Att \cup {NoAtt}
        BY DEF IInv, TypeOK, RequestRec
      <3>4. a # NoAtt => att'[a].st = "none"
        <4> SUFFICES ASSUME a # NoAtt PROVE att'[a].st = "none"
          OBVIOUS
        <4>1. att[a].st = "none" /\ a \in Att
          BY <3>1, <3>3 DEF Sound
        <4>2. a # n
          BY DEF IInv, RequestInv, n
        <4>3. req[r].pc = "swap" => a # o
          BY <4>1, <1>1
        <4> HIDE DEF a
        <4> QED BY <4>1, <4>2, <4>3, <1>8, <1>12
      <3>5. b # NoAtt => /\ att'[b].st # "none" /\ att'[b].surat = req[p].surat
                         /\ req[p].pc = "swap" => att'[b].st = "active"
        <4> SUFFICES ASSUME b # NoAtt
                     PROVE  /\ att'[b].st # "none" /\ att'[b].surat = req[p].surat
                            /\ req[p].pc = "swap" => att'[b].st = "active"
          OBVIOUS
        <4>1. /\ b \in Att /\ att[b].st # "none" /\ att[b].surat = req[p].surat
              /\ req[p].pc = "swap" => att[b].st = "active"
          BY <3>1, <3>3 DEF Sound
        <4>2. b # n
          BY <4>1, <1>1
        <4>3. req[r].pc = "swap" /\ req[p].pc = "swap" => b # o
          BY DEF IInv, RequestInv, o
        <4> HIDE DEF b
        <4>4. CASE req[r].pc = "swap" /\ b = o
          BY <4>1, <4>3, <4>4, <1>1, <1>9
        <4>5. CASE ~(req[r].pc = "swap" /\ b = o)
          BY <4>1, <4>2, <4>5, <1>8, <1>12
        <4> QED BY <4>4, <4>5
      <3> QED BY <3>1, <3>2, <3>4, <3>5 DEF Sound
    <2>3. ASSUME NEW p \in Request, NEW q \in Request,
                 req'[p].new # NoAtt, req'[p].new = req'[q].new
          PROVE  p = q
      BY <2>3, <1>16 DEF IInv, RequestInv
    <2>4. ASSUME NEW p \in Request, NEW q \in Request, req'[p].pc = "swap",
                 req'[q].pc = "swap", req'[p].old = req'[q].old
          PROVE  p = q
      BY <2>4, <1>16 DEF IInv, RequestInv
    <2> QED BY <2>1, <2>2, <2>3, <2>4 DEF RequestInv
  <1>18. \A a \in Att : att'[a].st = "none" <=> att[a].st = "none" /\ a # n
    BY <1>1, <1>4, <1>7, <1>8, <1>9, <1>12
  <1>19. ASSUME NEW t \in Surat \ {s} PROVE Active(t)' = Active(t)
    <2>1. \A a \in Att : att'[a].st = "active" /\ att'[a].surat = t
                           <=> att[a].st = "active" /\ att[a].surat = t
      BY <1>1, <1>4, <1>7, <1>8, <1>9, <1>12
    <2> QED BY <2>1 DEF Active
  <1> QED
    BY <1>6, <1>13, <1>14, <1>15, <1>16, <1>17, <1>18, <1>19 DEF n, s

\* What the three actions that commit a row make of their request.
LEMMA Committed ==
  ASSUME IInv, NEW r \in Request, AddRow(r) \/ SwapRows(r) \/ CommitUnknown(r)
  PROVE  \E m \in RequestRec :
           /\ req' = [Outdated(r, req[r].surat) EXCEPT ![r] = m]
           /\ m.pc \in {"part", "list", "idle"} /\ m.new = NoAtt /\ m.old = NoAtt
           /\ m.surat = req[r].surat \/ m.pc = "idle"
           /\ m.pc = "idle" => m = IdleReq
           /\ m.pc # "idle" => /\ m.added \/ m.pc = "list"
                               /\ m.todo = req[r].todo /\ m.got = req[r].got
                               /\ m.skipped = req[r].skipped /\ m.fresh = req[r].fresh
  <1>1. req[r] \in RequestRec
    BY DEF IInv, TypeOK
  <1>2. CASE AddRow(r)
    <2> DEFINE m == [req[r] EXCEPT !.pc = "part", !.new = NoAtt, !.added = TRUE]
    <2>1. req[r].old = NoAtt
      BY <1>2 DEF AddRow, IInv, RequestInv, Sound
    <2>2. /\ m \in RequestRec /\ m.pc = "part" /\ m.new = NoAtt /\ m.old = NoAtt
          /\ m.surat = req[r].surat /\ m.added /\ m.todo = req[r].todo /\ m.got = req[r].got
          /\ m.skipped = req[r].skipped /\ m.fresh = req[r].fresh
      BY <1>1, <2>1 DEF RequestRec
    <2>3. req' = [Outdated(r, req[r].surat) EXCEPT ![r] = m]
      BY <1>2 DEF AddRow
    <2> HIDE DEF m
    <2> QED BY <2>2, <2>3
  <1>3. CASE SwapRows(r)
    <2> DEFINE m == [req[r] EXCEPT !.pc = "list", !.old = NoAtt, !.new = NoAtt]
    <2>1. /\ m \in RequestRec /\ m.pc = "list" /\ m.new = NoAtt /\ m.old = NoAtt
          /\ m.surat = req[r].surat /\ m.todo = req[r].todo /\ m.got = req[r].got
          /\ m.skipped = req[r].skipped /\ m.fresh = req[r].fresh
      BY <1>1 DEF RequestRec
    <2>2. req' = [Outdated(r, req[r].surat) EXCEPT ![r] = m]
      BY <1>3 DEF SwapRows
    <2> HIDE DEF m
    <2> QED BY <2>1, <2>2
  <1>4. CASE CommitUnknown(r)
    <2>1. req' = [Outdated(r, req[r].surat) EXCEPT ![r] = IdleReq]
      BY <1>4 DEF CommitUnknown
    <2>2. IdleReq.pc = "idle" /\ IdleReq.new = NoAtt /\ IdleReq.old = NoAtt
      BY DEF IdleReq
    <2> QED BY <2>1, <2>2, IdleType
  <1> QED BY <1>2, <1>3, <1>4

-----------------------------------------------------------------------------
\* One case per action

\* A request that gives up is idle again.
LEMMA Gives ==
  ASSUME IInv, NEW r \in Request, req' = [req EXCEPT ![r] = IdleReq], att' = att
  PROVE  RequestInv' /\ req' \in [Request -> RequestRec]
  <1>1. Sound(IdleReq) /\ IdleReq.new = NoAtt /\ IdleReq.pc # "swap"
    BY NullAssumption DEF Sound, IdleReq
  <1> QED
    BY <1>1, IdleType, Moves DEF IInv

\* A request that holds the surat's search_doc up, and one that locks no row but its own.
Busy(q) == q.added \/ q.pc \in {"list", "extract"}
Unlocked(r, m) ==
  m.pc = "swap" => \/ req[r].pc = "swap" /\ m.old = req[r].old
                   \/ \A p \in Request : ~(req[p].pc = "swap" /\ req[p].old = m.old)

\* What a step that changes no row and is not the request's last makes of it.
Turned(r) ==
  \E m \in RequestRec : /\ req' = [req EXCEPT ![r] = m]
                        /\ Sound(m) /\ Reads(m) /\ Unlocked(r, m)
                        /\ m.new = req[r].new \/ (StorePart(r) /\ m.new \in Unused)
                        /\ Busy(req[r]) => m.surat = req[r].surat /\ Busy(m)

Turns(r) ==
  \/ \E s \in Surat : UploadBegin(r, s) \/ EditForm(r, s)
  \/ StorePart(r) \/ EndOfParts(r)
  \/ CheckSurat(r) /\ surat[req[r].surat].live
  \/ \E a \in Att : ReplaceBegin(r, a) \/ Extract(r, a) \/ Skip(r, a)
  \/ Cut(r)
  \/ LockOld(r) /\ att[req[r].old].st = "active"
  \/ ReadList(r) /\ surat[req[r].surat].live

LEMMA TurnsAre ==
  ASSUME IInv, NEW r \in Request, Turns(r)
  PROVE  Turned(r)
  <1>1. /\ req[r] \in RequestRec /\ Sound(req[r]) /\ Reads(req[r]) /\ NoAtt \notin Att
        /\ att \in [Att -> AttRow] /\ req \in [Request -> RequestRec]
    BY NullAssumption DEF IInv, TypeOK, RequestInv, ReadsInv
  <1>2. ASSUME NEW s \in Surat, UploadBegin(r, s)
        PROVE  Turned(r)
    <2> DEFINE m == [req[r] EXCEPT !.pc = "part", !.surat = s]
    <2>1. req' = [req EXCEPT ![r] = m]
      BY <1>2 DEF UploadBegin
    <2>2. m \in RequestRec
      BY <1>1, <1>2 DEF UploadBegin, RequestRec
    <2>3. Sound(m) /\ m.new = req[r].new /\ Unlocked(r, m)
      BY <1>1, <1>2 DEF UploadBegin, RequestRec, Sound, Unlocked
    <2>4. Reads(m) /\ (Busy(req[r]) => m.surat = req[r].surat /\ Busy(m))
      BY <1>1, <1>2 DEF UploadBegin, RequestRec, Sound, Reads, Busy
    <2> HIDE DEF m
    <2> QED BY <2>1, <2>2, <2>3, <2>4 DEF Turned
  <1>3. ASSUME NEW s \in Surat, EditForm(r, s)
        PROVE  Turned(r)
    <2> DEFINE m == [req[r] EXCEPT !.pc = "list", !.surat = s]
    <2>1. req' = [req EXCEPT ![r] = m]
      BY <1>3 DEF EditForm
    <2>2. m \in RequestRec
      BY <1>1, <1>3 DEF EditForm, RequestRec
    <2>3. Sound(m) /\ m.new = req[r].new /\ Unlocked(r, m)
      BY <1>1, <1>3 DEF EditForm, RequestRec, Sound, Unlocked
    <2>4. Reads(m) /\ (Busy(req[r]) => m.surat = req[r].surat /\ Busy(m))
      BY <1>1, <1>3 DEF EditForm, RequestRec, Sound, Reads, Busy
    <2> HIDE DEF m
    <2> QED BY <2>1, <2>2, <2>3, <2>4 DEF Turned
  <1>4. ASSUME EndOfParts(r)
        PROVE  Turned(r)
    <2> DEFINE m == [req[r] EXCEPT !.pc = "list", !.added = FALSE]
    <2>1. req' = [req EXCEPT ![r] = m]
      BY <1>4 DEF EndOfParts
    <2>2. m \in RequestRec
      BY <1>1, <1>4 DEF EndOfParts, RequestRec
    <2>3. Sound(m) /\ m.new = req[r].new /\ Unlocked(r, m)
      BY <1>1, <1>4 DEF EndOfParts, RequestRec, Sound, Unlocked
    <2>4. Reads(m) /\ (Busy(req[r]) => m.surat = req[r].surat /\ Busy(m))
      BY <1>1, <1>4 DEF EndOfParts, RequestRec, Sound, Reads, Busy
    <2> HIDE DEF m
    <2> QED BY <2>1, <2>2, <2>3, <2>4 DEF Turned
  <1>5. ASSUME CheckSurat(r), surat[req[r].surat].live
        PROVE  Turned(r)
    <2> DEFINE m == [req[r] EXCEPT !.pc = "insert"]
    <2>1. req' = [req EXCEPT ![r] = m]
      BY <1>5 DEF CheckSurat
    <2>2. m \in RequestRec
      BY <1>1, <1>5 DEF CheckSurat, RequestRec
    <2>3. Sound(m) /\ m.new = req[r].new /\ Unlocked(r, m)
      BY <1>1, <1>5 DEF CheckSurat, RequestRec, Sound, Unlocked
    <2>4. Reads(m) /\ (Busy(req[r]) => m.surat = req[r].surat /\ Busy(m))
      BY <1>1, <1>5 DEF CheckSurat, RequestRec, Sound, Reads, Busy
    <2> HIDE DEF m
    <2> QED BY <2>1, <2>2, <2>3, <2>4 DEF Turned
  <1>6. ASSUME NEW a \in Att, ReplaceBegin(r, a)
        PROVE  Turned(r)
    <2> DEFINE m == [req[r] EXCEPT !.pc = "part", !.surat = att[a].surat, !.old = a]
    <2>1. req' = [req EXCEPT ![r] = m]
      BY <1>6 DEF ReplaceBegin
    <2>2. m \in RequestRec
      BY <1>1, <1>6 DEF ReplaceBegin, RequestRec, AttRow
    <2>3. Sound(m) /\ m.new = req[r].new /\ Unlocked(r, m)
      BY <1>1, <1>6 DEF ReplaceBegin, RequestRec, Sound, Unlocked, AttRow
    <2>4. Reads(m) /\ (Busy(req[r]) => m.surat = req[r].surat /\ Busy(m))
      BY <1>1, <1>6 DEF ReplaceBegin, RequestRec, Sound, Reads, Busy, AttRow
    <2> HIDE DEF m
    <2> QED BY <2>1, <2>2, <2>3, <2>4 DEF Turned
  <1>7. ASSUME LockOld(r), att[req[r].old].st = "active"
        PROVE  Turned(r)
    <2> DEFINE m == [req[r] EXCEPT !.pc = "swap"]
    <2>1. req' = [req EXCEPT ![r] = m]
      BY <1>7 DEF LockOld
    <2>2. m \in RequestRec
      BY <1>1, <1>7 DEF LockOld, RequestRec
    <2>3. Sound(m) /\ m.new = req[r].new /\ Unlocked(r, m)
      BY <1>1, <1>7 DEF LockOld, RequestRec, Sound, Unlocked
    <2>4. Reads(m) /\ (Busy(req[r]) => m.surat = req[r].surat /\ Busy(m))
      BY <1>1, <1>7 DEF LockOld, RequestRec, Sound, Reads, Busy
    <2> HIDE DEF m
    <2> QED BY <2>1, <2>2, <2>3, <2>4 DEF Turned
  <1>8. ASSUME NEW a \in Att, Extract(r, a)
        PROVE  Turned(r)
    <2> DEFINE got == IF att[a].st = "active" /\ a \in files
                      THEN req[r].got \cup {a} ELSE req[r].got
               m == [req[r] EXCEPT !.todo = req[r].todo \ {a}, !.got = got]
    <2>1. req' = [req EXCEPT ![r] = m]
      BY <1>8 DEF Extract
    <2>2. m \in RequestRec
      BY <1>1, <1>8 DEF Extract, RequestRec
    <2>3. /\ m.pc = req[r].pc /\ m.surat = req[r].surat /\ m.old = req[r].old
          /\ m.new = req[r].new /\ m.added = req[r].added /\ m.fresh = req[r].fresh
          /\ m.todo = req[r].todo \ {a} /\ m.got = got /\ m.skipped = req[r].skipped
      BY <1>1 DEF RequestRec
    <2>4. a \in req[r].todo
      BY <1>8 DEF Extract
    <2> HIDE DEF m
    <2>5. Sound(m) /\ m.new = req[r].new /\ Unlocked(r, m)
      BY <1>1, <2>3 DEF Sound, Unlocked
    <2>6. Reads(m)
      BY <1>1, <2>3, <2>4 DEF Reads, Active
    <2>7. Busy(req[r]) => m.surat = req[r].surat /\ Busy(m)
      BY <2>3 DEF Busy
    <2> QED BY <2>1, <2>2, <2>5, <2>6, <2>7 DEF Turned
  <1>9. ASSUME ReadList(r), surat[req[r].surat].live
        PROVE  Turned(r)
    <2> DEFINE m == [req[r] EXCEPT !.pc = "extract", !.todo = Active(req[r].surat),
                                   !.fresh = TRUE]
    <2>1. req' = [req EXCEPT ![r] = m]
      BY <1>9 DEF ReadList
    <2>2. m \in RequestRec
      BY <1>1, <1>9 DEF ReadList, RequestRec, Active
    <2>3. Sound(m) /\ m.new = req[r].new /\ Unlocked(r, m)
      BY <1>1, <1>9 DEF ReadList, RequestRec, Sound, Unlocked
    <2>4. Reads(m) /\ (Busy(req[r]) => m.surat = req[r].surat /\ Busy(m))
      BY <1>1, <1>9 DEF ReadList, RequestRec, Sound, Reads, Busy, Active
    <2> HIDE DEF m
    <2> QED BY <2>1, <2>2, <2>3, <2>4 DEF Turned
  <1>10. ASSUME StorePart(r)
         PROVE  Turned(r)
    <2>1. PICK a \in Unused :
            req' = [req EXCEPT ![r].new = a,
                               ![r].pc = IF req[r].old = NoAtt THEN "check" ELSE "lock"]
      BY <1>10 DEF StorePart
    <2> DEFINE pc == IF req[r].old = NoAtt THEN "check" ELSE "lock"
               m == [req[r] EXCEPT !.new = a, !.pc = pc]
    <2>2. a \in Att /\ att[a].st = "none"
      BY DEF Unused
    <2>3. m \in RequestRec
      BY <1>1, <2>2 DEF RequestRec
    <2>4. Sound(m) /\ m.new \in Unused /\ Unlocked(r, m)
      BY <1>1, <1>10, <2>2 DEF StorePart, RequestRec, Sound, Unlocked
    <2>5. Reads(m) /\ (Busy(req[r]) => m.surat = req[r].surat /\ Busy(m))
      BY <1>1, <1>10 DEF StorePart, RequestRec, Sound, Reads, Busy
    <2>6. req' = [req EXCEPT ![r] = m]
      BY <2>1
    <2> HIDE DEF m
    <2> QED BY <1>10, <2>3, <2>4, <2>5, <2>6 DEF Turned
  <1>11. ASSUME NEW a \in Att, Skip(r, a)
         PROVE  Turned(r)
    <2> DEFINE m == [req[r] EXCEPT !.todo = req[r].todo \ {a},
                                   !.skipped = req[r].skipped \cup {a}]
    <2>1. req' = [req EXCEPT ![r] = m]
      BY <1>11 DEF Skip
    <2>2. m \in RequestRec
      BY <1>1, <1>11 DEF Skip, RequestRec
    <2>3. /\ m.pc = req[r].pc /\ m.surat = req[r].surat /\ m.old = req[r].old
          /\ m.new = req[r].new /\ m.added = req[r].added /\ m.fresh = req[r].fresh
          /\ m.todo = req[r].todo \ {a} /\ m.got = req[r].got
          /\ m.skipped = req[r].skipped \cup {a}
      BY <1>1 DEF RequestRec
    <2>4. a \in req[r].todo
      BY <1>11 DEF Skip
    <2> HIDE DEF m
    <2>5. Sound(m) /\ m.new = req[r].new /\ Unlocked(r, m)
      BY <1>1, <2>3 DEF Sound, Unlocked
    <2>6. Reads(m)
      BY <1>1, <2>3, <2>4 DEF Reads, Active
    <2>7. Busy(req[r]) => m.surat = req[r].surat /\ Busy(m)
      BY <2>3 DEF Busy
    <2> QED BY <2>1, <2>2, <2>5, <2>6, <2>7 DEF Turned
  <1>12. ASSUME Cut(r)
         PROVE  Turned(r)
    <2> DEFINE m == [req[r] EXCEPT !.todo = {}, !.skipped = req[r].skipped \cup req[r].todo]
    <2>1. req' = [req EXCEPT ![r] = m]
      BY <1>12 DEF Cut
    <2>2. m \in RequestRec
      BY <1>1, <1>12 DEF Cut, RequestRec
    <2>3. /\ m.pc = req[r].pc /\ m.surat = req[r].surat /\ m.old = req[r].old
          /\ m.new = req[r].new /\ m.added = req[r].added /\ m.fresh = req[r].fresh
          /\ m.todo = {} /\ m.got = req[r].got
          /\ m.skipped = req[r].skipped \cup req[r].todo
      BY <1>1 DEF RequestRec
    <2>4. req[r].todo # {}
      BY <1>12 DEF Cut
    <2> HIDE DEF m
    <2>5. Sound(m) /\ m.new = req[r].new /\ Unlocked(r, m)
      BY <1>1, <2>3 DEF Sound, Unlocked
    <2>6. Reads(m)
      BY <1>1, <2>3, <2>4 DEF Reads, Active
    <2>7. Busy(req[r]) => m.surat = req[r].surat /\ Busy(m)
      BY <2>3 DEF Busy
    <2> QED BY <2>1, <2>2, <2>5, <2>6, <2>7 DEF Turned
  <1> QED
    BY <1>2, <1>3, <1>4, <1>5, <1>6, <1>7, <1>8, <1>9, <1>10, <1>11, <1>12 DEF Turns

LEMMA TurnsKeep ==
  ASSUME IInv, NEW r \in Request, Turns(r), att' = att
  PROVE  RequestInv' /\ req' \in [Request -> RequestRec]
  <1>1. PICK m \in RequestRec : /\ req' = [req EXCEPT ![r] = m]
                                /\ Sound(m) /\ Unlocked(r, m)
                                /\ m.new = req[r].new \/ m.new \in Unused
    BY TurnsAre DEF Turned
  <1> QED
    BY <1>1, Moves DEF IInv, Unlocked

\* Every step keeps the invariant of rows and requests.
LEMMA RowsAndRequests ==
  ASSUME IInv, Next
  PROVE  /\ att' \in [Att -> AttRow] /\ req' \in [Request -> RequestRec]
         /\ RowInv' /\ LinksInv' /\ NoVersionLost' /\ RequestInv'
  <1> DEFINE Kept == /\ att' \in [Att -> AttRow] /\ req' \in [Request -> RequestRec]
                     /\ RowInv' /\ LinksInv' /\ NoVersionLost' /\ RequestInv'
  <1>1. ASSUME NEW r \in Request, att' = att, req' = [req EXCEPT ![r] = IdleReq]
        PROVE  Kept
    BY <1>1, SameRows, Gives DEF IInv, TypeOK
  <1>2. ASSUME att' = att, RequestInv', req' \in [Request -> RequestRec]
        PROVE  Kept
    BY <1>2, SameRows DEF IInv, TypeOK
  <1> HIDE DEF Kept
  <1>3. ASSUME NEW r \in Request, Uploads(r) \/ Replaces(r) \/ Refreshes(r) \/ Fails(r)
        PROVE  Kept
    <2>1. CASE \E s \in Surat : UploadBegin(r, s)
      BY <2>1, <1>2, TurnsKeep DEF Turns, UploadBegin
    <2>2. CASE StorePart(r)
      BY <2>2, <1>2, TurnsKeep DEF Turns, StorePart
    <2>3. CASE RefusePart(r) \/ DbError(r) \/ LeaveFile(r)
      BY <2>3, <1>1 DEF RefusePart, DbError, LeaveFile, GiveUp
    <2>4. CASE EndOfParts(r)
      BY <2>4, <1>2, TurnsKeep DEF Turns, EndOfParts
    <2>5. CASE CheckSurat(r)
      <3>1. att' = att
        BY <2>5 DEF CheckSurat
      <3>2. CASE surat[req[r].surat].live
        BY <2>5, <3>1, <3>2, <1>2, TurnsKeep DEF Turns
      <3>3. CASE ~surat[req[r].surat].live
        BY <2>5, <3>1, <3>3, <1>1 DEF CheckSurat, GiveUp
      <3> QED BY <3>2, <3>3
    <2>6. CASE AddRow(r) \/ SwapRows(r) \/ CommitUnknown(r)
      <3>1. PICK m \in RequestRec :
              /\ req' = [Outdated(r, req[r].surat) EXCEPT ![r] = m]
              /\ m.pc \in {"part", "list", "idle"} /\ m.new = NoAtt /\ m.old = NoAtt
              /\ m.surat = req[r].surat \/ m.pc = "idle"
              /\ m.pc = "idle" => m = IdleReq
        BY <2>6, Committed
      <3>2. \/ req[r].pc = "insert" /\ att' = [att EXCEPT ![req[r].new] = NewRow(r)]
            \/ req[r].pc = "swap" /\ att' = Swapped(r)
        BY <2>6 DEF AddRow, SwapRows, CommitUnknown
      <3>3. m.added => m.pc # "idle"
        BY <3>1 DEF IdleReq
      <3> QED BY <3>1, <3>2, <3>3, Commits DEF Kept
    <2>7. CASE \E a \in Att : ReplaceBegin(r, a)
      BY <2>7, <1>2, TurnsKeep DEF Turns, ReplaceBegin
    <2>8. CASE LockOld(r)
      <3>1. att' = att
        BY <2>8 DEF LockOld
      <3>2. CASE att[req[r].old].st = "active"
        BY <2>8, <3>1, <3>2, <1>2, TurnsKeep DEF Turns
      <3>3. CASE att[req[r].old].st # "active"
        BY <2>8, <3>1, <3>3, <1>1 DEF LockOld, GiveUp
      <3> QED BY <3>2, <3>3
    <2>9. CASE ReadList(r)
      <3>1. att' = att
        BY <2>9 DEF ReadList
      <3>2. CASE surat[req[r].surat].live
        BY <2>9, <3>1, <3>2, <1>2, TurnsKeep DEF Turns
      <3>3. CASE ~surat[req[r].surat].live
        BY <2>9, <3>1, <3>3, <1>1 DEF ReadList
      <3> QED BY <3>2, <3>3
    <2>10. CASE WriteDoc(r) \/ RefreshFail(r)
      BY <2>10, <1>1 DEF WriteDoc, RefreshFail
    <2>11. CASE \E a \in Att : Extract(r, a) \/ Skip(r, a)
      BY <2>11, <1>2, TurnsKeep DEF Turns, Extract, Skip
    <2>12. CASE Cut(r)
      BY <2>12, <1>2, TurnsKeep DEF Turns, Cut
    <2> QED
      BY <1>3, <2>1, <2>2, <2>3, <2>4, <2>5, <2>6, <2>7, <2>8, <2>9, <2>10, <2>11, <2>12
         DEF Uploads, Replaces, Refreshes, Fails
  <1>4. ASSUME NEW r \in Request, NEW s \in Surat, EditForm(r, s)
        PROVE  Kept
    BY <1>4, <1>2, TurnsKeep DEF Turns, EditForm
  <1>5. ASSUME NEW s \in Surat, EditOffline(s) \/ DeleteOrRestore(s)
        PROVE  Kept
    <2>1. req' = req /\ att' = att
      BY <1>5 DEF EditOffline, DeleteOrRestore
    <2>2. RequestInv' /\ req' \in [Request -> RequestRec]
      BY <2>1 DEF IInv, TypeOK, RequestInv, Sound
    <2> QED BY <2>1, <2>2, <1>2
  <1>6. ASSUME Crash
        PROVE  Kept
    <2>1. att' = att /\ req' = [r \in Request |-> IdleReq]
      BY <1>6 DEF Crash
    <2>2. req' \in [Request -> RequestRec]
      BY <2>1, IdleType
    <2>3. RequestInv'
      BY <2>1, NullAssumption DEF RequestInv, Sound, IdleReq
    <2> QED BY <2>1, <2>2, <2>3, <1>2
  <1>7. Kept
    BY <1>3, <1>4, <1>5, <1>6 DEF Next, Edits
  <1> QED
    BY <1>7 DEF Kept

\* The other variables keep their types.
LEMMA OtherTypes ==
  ASSUME IInv, Next
  PROVE  /\ surat' \in [Surat -> [live : BOOLEAN, text : Nat]]
         /\ files' \in SUBSET Att
         /\ doc' \in [Surat -> DocRec]
         /\ edits' \in Nat /\ faults' \in Nat
         /\ unsure' \in SUBSET Att /\ stray' \in SUBSET Att
         /\ behind' \in SUBSET Surat
  <1> USE DEF IInv, TypeOK
  <1>1. \A r \in Request :
          /\ req[r] \in RequestRec
          /\ req[r].new \in Att \cup {NoAtt}
          /\ req[r].got \in SUBSET Att /\ req[r].skipped \in SUBSET Att
          /\ req[r].pc # "idle" \/ req[r].added => req[r].surat \in Surat
          /\ req[r].pc \in {"check", "insert", "lock", "swap"} => req[r].new \in Att
    BY DEF RequestInv, Sound, RequestRec
  <1>2. edits' \in Nat /\ faults' \in Nat
    <2>1. (edits' = edits \/ edits' = edits + 1) /\ (faults' = faults \/ faults' = faults + 1)
      BY DEF Next, Uploads, UploadBegin, StorePart, RefusePart, EndOfParts, CheckSurat, AddRow,
             Replaces, ReplaceBegin, LockOld, SwapRows, Refreshes, ReadList, WriteDoc,
             RefreshFail, Extract, Skip, Cut, Fails, DbError, LeaveFile, CommitUnknown, Edits,
             EditForm, EditOffline, DeleteOrRestore, Crash, Fault, Edited
    <2> QED BY <2>1
  <1>3. surat' \in [Surat -> [live : BOOLEAN, text : Nat]]
    <2>1. CASE Edits
      <3>1. PICK s \in Surat : \/ surat' = [surat EXCEPT ![s].text = surat[s].text + 1]
                               \/ surat' = [surat EXCEPT ![s].live = ~surat[s].live]
        BY <2>1 DEF Edits, EditForm, EditOffline, DeleteOrRestore
      <3>2. surat[s].live \in BOOLEAN /\ surat[s].text \in Nat
        OBVIOUS
      <3>3. surat[s] \in [live : BOOLEAN, text : Nat]
        OBVIOUS
      <3>4. CASE surat' = [surat EXCEPT ![s].text = surat[s].text + 1]
        <4>1. [surat[s] EXCEPT !.text = surat[s].text + 1] \in [live : BOOLEAN, text : Nat]
          BY <3>2, <3>3
        <4> QED BY <3>4, <4>1
      <3>5. CASE surat' = [surat EXCEPT ![s].live = ~surat[s].live]
        <4>1. (~surat[s].live) \in BOOLEAN
          OBVIOUS
        <4>2. [surat[s] EXCEPT !.live = ~surat[s].live] \in [live : BOOLEAN, text : Nat]
          BY <3>3, <4>1
        <4> QED BY <3>5, <4>2
      <3> QED BY <3>1, <3>4, <3>5
    <2>2. CASE ~Edits
      <3>1. surat' = surat
        BY <2>2 DEF Next, Uploads, UploadBegin, StorePart, RefusePart, EndOfParts, CheckSurat,
             AddRow, Replaces, ReplaceBegin, LockOld, SwapRows, Refreshes, ReadList,
             WriteDoc, RefreshFail, Extract, Skip, Cut, Fails, DbError, LeaveFile,
             CommitUnknown, Crash
      <3> QED BY <3>1
    <2> QED BY <2>1, <2>2
  <1>4. files' \in SUBSET Att
    <2> DEFINE Drops(r) == \/ RefusePart(r) \/ CheckSurat(r) \/ LockOld(r)
                           \/ DbError(r) \/ CommitUnknown(r)
    <2>1. CASE \E r \in Request : StorePart(r)
      <3>1. PICK r \in Request, a \in Unused : files' = files \cup {a}
        BY <2>1 DEF StorePart
      <3> QED BY <3>1 DEF Unused
    <2>2. CASE \E r \in Request : Drops(r)
      <3>1. PICK r \in Request : files' = files \/ files' = files \ {req[r].new}
        BY <2>2 DEF RefusePart, CheckSurat, LockOld, DbError, CommitUnknown, GiveUp
      <3> QED BY <3>1
    <2>3. CASE ~\E r \in Request : StorePart(r) \/ Drops(r)
      <3>1. files' = files
        BY <2>3 DEF Next, Uploads, UploadBegin, EndOfParts, AddRow, Replaces, ReplaceBegin,
             SwapRows, Refreshes, ReadList, WriteDoc, RefreshFail, Extract, Skip, Cut, Fails,
             LeaveFile, Edits, EditForm, EditOffline, DeleteOrRestore, Crash
      <3> QED BY <3>1
    <2> QED BY <2>1, <2>2, <2>3
  <1>5. doc' \in [Surat -> DocRec]
    <2>1. CASE \E r \in Request : WriteDoc(r)
      <3>1. PICK r \in Request : WriteDoc(r)
        BY <2>1
      <3> DEFINE d == [text |-> surat[req[r].surat].text, atts |-> req[r].got,
                       skipped |-> req[r].skipped]
      <3>2. doc' = doc \/ doc' = [doc EXCEPT ![req[r].surat] = d]
        BY <3>1 DEF WriteDoc
      <3>3. req[r].surat \in Surat /\ req[r].got \in SUBSET Att /\ req[r].skipped \in SUBSET Att
        BY <1>1, <3>1 DEF WriteDoc
      <3>4. d \in DocRec
        BY <3>3 DEF DocRec
      <3> HIDE DEF d
      <3> QED BY <3>2, <3>3, <3>4
    <2>2. CASE ~\E r \in Request : WriteDoc(r)
      <3>1. doc' = doc
        BY <2>2 DEF Next, Uploads, UploadBegin, StorePart, RefusePart, EndOfParts, CheckSurat,
             AddRow, Replaces, ReplaceBegin, LockOld, SwapRows, Refreshes, ReadList,
             RefreshFail, Extract, Skip, Cut, Fails, DbError, LeaveFile, CommitUnknown, Edits,
             EditForm, EditOffline, DeleteOrRestore, Crash
      <3> QED BY <3>1
    <2> QED BY <2>1, <2>2
  <1>6. unsure' \in SUBSET Att /\ stray' \in SUBSET Att
    <2>1. CASE Crash
      BY <2>1, <1>1 DEF Crash
    <2>2. CASE \E r \in Request : LeaveFile(r) \/ CommitUnknown(r)
      BY <2>2, <1>1 DEF LeaveFile, CommitUnknown
    <2>3. CASE ~Crash /\ ~\E r \in Request : LeaveFile(r) \/ CommitUnknown(r)
      <3>1. unsure' = unsure /\ stray' = stray
        BY <2>3 DEF Next, Uploads, UploadBegin, StorePart, RefusePart, EndOfParts, CheckSurat,
             AddRow, Replaces, ReplaceBegin, LockOld, SwapRows, Refreshes, ReadList, WriteDoc,
             RefreshFail, Extract, Skip, Cut, Fails, DbError, Edits, EditForm, EditOffline,
             DeleteOrRestore
      <3> QED BY <3>1
    <2> QED BY <2>1, <2>2, <2>3
  <1>7. behind' \in SUBSET Surat
    <2>1. CASE Crash
      <3>1. \A r \in {q \in Request : req[q].added \/ req[q].pc \in {"list", "extract"}} :
              req[r].surat \in Surat
        BY <1>1
      <3> QED BY <2>1, <3>1 DEF Crash
    <2>2. CASE \E s \in Surat : EditOffline(s)
      BY <2>2 DEF EditOffline
    <2>3. ASSUME NEW r \in Request, Uploads(r) \/ Replaces(r) \/ Refreshes(r) \/ Fails(r)
          PROVE  behind' \in SUBSET Surat
      <3>1. behind' \subseteq behind \cup {req[r].surat}
        BY <2>3 DEF Uploads, UploadBegin, StorePart, RefusePart, EndOfParts, CheckSurat,
             AddRow, Replaces, ReplaceBegin, LockOld, SwapRows, Refreshes, ReadList, WriteDoc,
             RefreshFail, Extract, Skip, Cut, Fails, DbError, LeaveFile, CommitUnknown, GiveUp
      <3>2. behind' \subseteq behind \/ req[r].pc # "idle" \/ req[r].added
        BY <2>3 DEF Uploads, UploadBegin, StorePart, RefusePart, EndOfParts, CheckSurat,
             AddRow, Replaces, ReplaceBegin, LockOld, SwapRows, Refreshes, ReadList, WriteDoc,
             RefreshFail, Extract, Skip, Cut, Fails, DbError, LeaveFile, CommitUnknown, GiveUp
      <3> QED BY <3>1, <3>2, <1>1
    <2>4. ASSUME NEW s \in Surat, NEW r \in Request, EditForm(r, s)
          PROVE  behind' \in SUBSET Surat
      BY <2>4 DEF EditForm
    <2>5. ASSUME NEW s \in Surat, DeleteOrRestore(s) PROVE behind' \in SUBSET Surat
      BY <2>5 DEF DeleteOrRestore
    <2> QED BY <2>1, <2>2, <2>3, <2>4, <2>5 DEF Next, Edits
  <1> QED
    BY <1>2, <1>3, <1>4, <1>5, <1>6, <1>7

-----------------------------------------------------------------------------
\* Files

\* Where no row, no file and no identifier in use changes.
LEMMA FilesStay ==
  ASSUME FilesInv, att' = att, files' = files, unsure' = unsure, stray' = stray,
         \A p \in Request : req'[p].new = req[p].new
  PROVE  FilesInv'
  BY DEF FilesInv, RowsHaveFiles, NoStrayFiles

\* Who gives up removes a file that no row names and nobody else is storing.
LEMMA FilesGiven ==
  ASSUME IInv, NEW r \in Request, GiveUp(r), att' = att, unsure' = unsure, stray' = stray
  PROVE  FilesInv'
  <1>1. \A p \in Request : req'[p].new = IF p = r THEN NoAtt ELSE req[p].new
    BY DEF GiveUp, IdleReq, IInv, TypeOK
  <1>2. files' = files \ {req[r].new}
    BY DEF GiveUp
  <1>3. req[r].new # NoAtt => att[req[r].new].st = "none"
    BY DEF IInv, RequestInv, Sound
  <1>4. files \in SUBSET Att /\ NoAtt \notin Att
    BY NullAssumption DEF IInv, TypeOK
  <1>5. RowsHaveFiles'
    BY <1>2, <1>3, <1>4 DEF IInv, FilesInv, RowsHaveFiles
  <1>6. NoStrayFiles'
    BY <1>1, <1>2, <1>4 DEF IInv, FilesInv, NoStrayFiles
  <1>7. ASSUME NEW p \in Request, req'[p].new # NoAtt PROVE req'[p].new \in files'
    BY <1>1, <1>2, <1>7 DEF IInv, FilesInv, RequestInv
  <1> QED
    BY <1>5, <1>6, <1>7 DEF FilesInv

\* A row is committed for a file that was there, and that stays unless the commit's
\* answer was lost.
LEMMA FilesCommitted ==
  ASSUME IInv, NEW r \in Request, NEW m \in RequestRec,
         req' = [Outdated(r, req[r].surat) EXCEPT ![r] = m], m.new = NoAtt,
         req[r].pc \in {"insert", "swap"}, stray' = stray,
         \A a \in Att : att'[a].st = "none" <=> att[a].st = "none" /\ a # req[r].new,
         \/ files' = files /\ unsure' = unsure
         \/ files' = files \ {req[r].new} /\ unsure' = unsure \cup {req[r].new}
  PROVE  FilesInv'
  <1>1. \A p \in Request : req'[p].new = IF p = r THEN NoAtt ELSE req[p].new
    BY Marks DEF IInv
  <1>2. req[r].new \in files
    BY DEF IInv, RequestInv, Sound, FilesInv
  <1>3. files \in SUBSET Att
    BY DEF IInv, TypeOK
  <1>4. RowsHaveFiles'
    BY <1>2 DEF IInv, FilesInv, RowsHaveFiles
  <1>5. NoStrayFiles'
    BY <1>1, <1>3 DEF IInv, FilesInv, NoStrayFiles
  <1>6. ASSUME NEW p \in Request, req'[p].new # NoAtt PROVE req'[p].new \in files'
    BY <1>1, <1>6 DEF IInv, FilesInv, RequestInv
  <1> QED
    BY <1>4, <1>5, <1>6 DEF FilesInv

LEMMA FilesKeep ==
  ASSUME IInv, Next
  PROVE  FilesInv'
  <1>1. ASSUME NEW p \in Request
        PROVE  /\ req[p] \in RequestRec
               /\ req[p].new # NoAtt => req[p].pc \notin {"list", "extract"}
    BY DEF IInv, TypeOK, RequestInv, Sound
  <1>2. FilesInv /\ NoAtt \notin Att /\ req \in [Request -> RequestRec]
    BY NullAssumption DEF IInv, TypeOK
  <1>3. ASSUME NEW r \in Request, NEW m \in RequestRec, req' = [req EXCEPT ![r] = m],
               m.new = req[r].new, UNCHANGED <<att, files, unsure, stray>>
        PROVE  FilesInv'
    BY <1>2, <1>3, FilesStay
  <1>4. ASSUME NEW r \in Request, req' = [req EXCEPT ![r] = IdleReq],
               req[r].pc \in {"list", "extract"}, UNCHANGED <<att, files, unsure, stray>>
        PROVE  FilesInv'
    <2>1. IdleReq.new = req[r].new
      BY <1>1, <1>4 DEF IdleReq
    <2> QED BY <1>3, <1>4, <2>1, IdleType
  <1>5. ASSUME NEW r \in Request, Turns(r), ~StorePart(r)
        PROVE  FilesInv'
    <2>1. PICK m \in RequestRec : req' = [req EXCEPT ![r] = m] /\ m.new = req[r].new
      BY <1>5, TurnsAre DEF Turned
    <2>2. UNCHANGED <<att, files, unsure, stray>>
      BY <1>5 DEF Turns, UploadBegin, EditForm, EndOfParts, CheckSurat, ReplaceBegin, Extract,
                  Skip, Cut, LockOld, ReadList
    <2> QED BY <1>3, <2>1, <2>2
  <1>6. ASSUME NEW r \in Request, StorePart(r)
        PROVE  FilesInv'
    <2>1. PICK a \in Unused :
            /\ files' = files \cup {a}
            /\ req' = [req EXCEPT ![r].new = a,
                                  ![r].pc = IF req[r].old = NoAtt THEN "check" ELSE "lock"]
      BY <1>6 DEF StorePart
    <2>2. \A p \in Request : req'[p].new = IF p = r THEN a ELSE req[p].new
      BY <1>1, <1>2, <2>1 DEF RequestRec
    <2>3. req[r].new = NoAtt /\ UNCHANGED <<att, unsure, stray>>
      BY <1>6 DEF StorePart, IInv, RequestInv, Sound
    <2>4. files \in SUBSET Att
      BY DEF IInv, TypeOK
    <2> QED BY <1>2, <2>1, <2>2, <2>3, <2>4 DEF FilesInv, RowsHaveFiles, NoStrayFiles
  <1>7. ASSUME NEW r \in Request, \/ RefusePart(r) \/ DbError(r)
                                  \/ CheckSurat(r) /\ ~surat[req[r].surat].live
                                  \/ LockOld(r) /\ att[req[r].old].st # "active"
        PROVE  FilesInv'
    <2>1. GiveUp(r) /\ UNCHANGED <<att, unsure, stray>>
      BY <1>7 DEF RefusePart, DbError, CheckSurat, LockOld
    <2> QED BY <2>1, FilesGiven
  <1>8. ASSUME NEW r \in Request, AddRow(r) \/ SwapRows(r) \/ CommitUnknown(r)
        PROVE  FilesInv'
    <2>1. PICK m \in RequestRec :
            /\ req' = [Outdated(r, req[r].surat) EXCEPT ![r] = m]
            /\ m.pc \in {"part", "list", "idle"} /\ m.new = NoAtt /\ m.old = NoAtt
            /\ m.surat = req[r].surat \/ m.pc = "idle"
            /\ m.pc = "idle" => m = IdleReq
      BY <1>8, Committed
    <2>2. /\ \/ req[r].pc = "insert" /\ att' = [att EXCEPT ![req[r].new] = NewRow(r)]
             \/ req[r].pc = "swap" /\ att' = Swapped(r)
          /\ stray' = stray
          /\ \/ files' = files /\ unsure' = unsure
             \/ files' = files \ {req[r].new} /\ unsure' = unsure \cup {req[r].new}
      BY <1>8 DEF AddRow, SwapRows, CommitUnknown
    <2>3. \A a \in Att : att'[a].st = "none" <=> att[a].st = "none" /\ a # req[r].new
      BY <2>1, <2>2, Commits DEF IdleReq
    <2> QED BY <2>1, <2>2, <2>3, FilesCommitted
  <1>9. ASSUME NEW r \in Request, \/ WriteDoc(r) \/ RefreshFail(r)
                                  \/ ReadList(r) /\ ~surat[req[r].surat].live
        PROVE  FilesInv'
    BY <1>4, <1>9 DEF WriteDoc, RefreshFail, ReadList
  <1>10. ASSUME NEW s \in Surat, EditOffline(s) \/ DeleteOrRestore(s)
         PROVE  FilesInv'
    BY <1>2, <1>10, FilesStay DEF EditOffline, DeleteOrRestore
  <1>11. ASSUME Crash
         PROVE  FilesInv'
    <2>1. /\ UNCHANGED <<att, files, unsure>> /\ \A p \in Request : req'[p].new = NoAtt
          /\ stray \subseteq stray'
          /\ \A p \in Request : req[p].new # NoAtt => req[p].new \in stray'
      BY <1>11 DEF Crash, IdleReq
    <2>2. RowsHaveFiles'
      BY <1>2, <2>1 DEF FilesInv, RowsHaveFiles
    <2>3. NoStrayFiles'
      <3> SUFFICES ASSUME NEW a \in files, att[a].st = "none" PROVE a \in stray'
        BY <2>1 DEF NoStrayFiles
      <3>1. a \in stray \/ \E p \in Request : req[p].new = a
        BY <1>2 DEF FilesInv, NoStrayFiles
      <3>2. a # NoAtt
        BY <1>2 DEF IInv, TypeOK
      <3> QED BY <2>1, <3>1, <3>2
    <2> QED BY <2>1, <2>2, <2>3 DEF FilesInv
  <1>12. ASSUME NEW r \in Request, Turns(r)
         PROVE  FilesInv'
    BY <1>5, <1>6, <1>12
  <1>13. ASSUME NEW r \in Request, CheckSurat(r) \/ LockOld(r) \/ ReadList(r)
         PROVE  FilesInv'
    BY <1>7, <1>9, <1>12, <1>13 DEF Turns
  <1>14. ASSUME NEW r \in Request, LeaveFile(r)
         PROVE  FilesInv'
    <2>1. /\ UNCHANGED <<att, files, unsure>> /\ stray' = stray \cup {req[r].new}
          /\ req' = [req EXCEPT ![r] = IdleReq]
      BY <1>14 DEF LeaveFile
    <2>2. \A p \in Request : req'[p].new = IF p = r THEN NoAtt ELSE req[p].new
      BY <1>2, <2>1 DEF IdleReq
    <2> QED BY <1>2, <2>1, <2>2 DEF FilesInv, RowsHaveFiles, NoStrayFiles
  <1> QED
    BY <1>6, <1>7, <1>8, <1>9, <1>10, <1>11, <1>12, <1>13, <1>14
       DEF Next, Uploads, Replaces, Refreshes, Fails, Edits, Turns

-----------------------------------------------------------------------------
\* The search index

\* Where no row and no file of an active row changes, what the requests have read
\* remains true.
LEMMA ReadsStay ==
  ASSUME att' = att, \A p \in Request : Reads(req'[p]),
         \A a \in Att : att[a].st = "active" => (a \in files' <=> a \in files)
  PROVE  ReadsInv'
  <1> SUFFICES ASSUME NEW p \in Request PROVE Reads(req[p])'
    BY DEF ReadsInv
  <1>1. PICK q : q = req'[p]
    OBVIOUS
  <1>2. Reads(q)'
    <2>1. Active(q.surat)' = Active(q.surat) /\ Reads(q)
      BY <1>1 DEF Active
    <2>2. \A a \in Active(q.surat) : a \in files' <=> a \in files
      BY DEF Active
    <2> QED BY <2>1, <2>2 DEF Reads
  <1> QED BY <1>1, <1>2 DEF Reads, Active

\* The same for search_doc, if whoever has a refresh to do still has it, or leaves
\* the surat behind.
LEMMA IndexStays ==
  ASSUME IndexCurrent, doc' = doc, att' = att, behind \subseteq behind',
         \A s \in Surat : surat'[s].text = surat[s].text,
         \A a \in Att : att[a].st = "active" => (a \in files' <=> a \in files),
         \A p \in Request : Busy(req[p]) =>
           \/ req[p].surat \in behind'
           \/ req'[p].surat = req[p].surat /\ Busy(req'[p])
  PROVE  IndexCurrent'
  <1> SUFFICES ASSUME NEW s \in Surat, s \notin behind', ~Refreshing(s)'
               PROVE  /\ doc[s].text = surat[s].text
                      /\ doc[s].atts = (Active(s) \cap files)' \ doc[s].skipped
    BY DEF IndexCurrent
  <1>1. s \notin behind /\ ~Refreshing(s)
    BY DEF Refreshing, Busy
  <1>2. (Active(s) \cap files)' = Active(s) \cap files
    BY DEF Active
  <1> QED BY <1>1, <1>2 DEF IndexCurrent

\* A step of one request that changes neither, and no text.
LEMMA Quiet ==
  ASSUME IInv, NEW r \in Request, NEW m \in RequestRec, req' = [req EXCEPT ![r] = m], Reads(m),
         doc' = doc, att' = att, behind \subseteq behind',
         \A s \in Surat : surat'[s].text = surat[s].text,
         \A a \in Att : att[a].st = "active" => (a \in files' <=> a \in files),
         Busy(req[r]) => \/ req[r].surat \in behind'
                         \/ m.surat = req[r].surat /\ Busy(m)
  PROVE  ReadsInv' /\ IndexCurrent'
  <1>1. \A p \in Request : req'[p] = IF p = r THEN m ELSE req[p]
    BY DEF IInv, TypeOK
  <1>2. \A p \in Request : Reads(req'[p])
    BY <1>1 DEF IInv, ReadsInv
  <1>3. IndexCurrent'
    BY <1>1, IndexStays DEF IInv
  <1> QED BY <1>2, <1>3, ReadsStay

\* Committing a row disturbs the refreshes of its surat and no other.
LEMMA Disturbs ==
  ASSUME IInv, NEW r \in Request, AddRow(r) \/ SwapRows(r) \/ CommitUnknown(r)
  PROVE  ReadsInv' /\ IndexCurrent'
  <1> DEFINE s == req[r].surat
             n == req[r].new
  <1>1. PICK m \in RequestRec :
          /\ req' = [Outdated(r, s) EXCEPT ![r] = m]
          /\ m.pc \in {"part", "list", "idle"} /\ m.new = NoAtt /\ m.old = NoAtt
          /\ m.surat = s \/ m.pc = "idle"
          /\ m.pc = "idle" => m = IdleReq
          /\ m.pc # "idle" => /\ m.added \/ m.pc = "list"
                              /\ m.todo = req[r].todo /\ m.got = req[r].got
                              /\ m.skipped = req[r].skipped /\ m.fresh = req[r].fresh
    BY Committed
  <1>2. /\ s \in Surat /\ n \in Att /\ att[n].st = "none" /\ req[r].pc # "extract"
        /\ \/ req[r].pc = "insert" /\ att' = [att EXCEPT ![n] = NewRow(r)]
           \/ req[r].pc = "swap" /\ att' = Swapped(r)
    <2>1. /\ req[r].pc \in {"insert", "swap"}
          /\ \/ req[r].pc = "insert" /\ att' = [att EXCEPT ![n] = NewRow(r)]
             \/ req[r].pc = "swap" /\ att' = Swapped(r)
      BY DEF AddRow, SwapRows, CommitUnknown
    <2> QED BY <2>1 DEF IInv, TypeOK, RequestInv, Sound, RequestRec
  <1>3. /\ doc' = doc /\ surat' = surat /\ behind \subseteq behind'
        /\ m.pc = "idle" => s \in behind'
        /\ files' = files \/ files' = files \ {n}
    <2>1. CASE CommitUnknown(r)
      BY <2>1 DEF CommitUnknown
    <2>2. CASE AddRow(r) \/ SwapRows(r)
      <3>1. UNCHANGED <<doc, surat, behind, files>>
        BY <2>2 DEF AddRow, SwapRows
      <3>2. req'[r].pc # "idle"
        <4>1. /\ [req[r] EXCEPT !.pc = "part", !.new = NoAtt, !.added = TRUE].pc = "part"
              /\ [req[r] EXCEPT !.pc = "list", !.old = NoAtt, !.new = NoAtt].pc = "list"
          BY DEF IInv, TypeOK, RequestRec
        <4>2. r \in DOMAIN Outdated(r, s)
          BY DEF Outdated
        <4> QED BY <2>2, <4>1, <4>2 DEF AddRow, SwapRows
      <3>3. req'[r] = m
        BY <1>1, Marks DEF IInv
      <3> QED BY <3>1, <3>2, <3>3
    <2> QED BY <2>1, <2>2
  <1>4. \A t \in Surat \ {s} : Active(t)' = Active(t)
    BY <1>1, <1>2, Commits DEF IdleReq
  <1>5. \A t \in Surat : n \notin Active(t)
    BY <1>2 DEF Active
  <1>6. \A t \in Surat \ {s} : (Active(t) \cap files)' = Active(t) \cap files
    BY <1>3, <1>4, <1>5
  <1>7. /\ req'[r] = m
        /\ \A p \in Request \ {r} : /\ req'[p].pc = req[p].pc
                                    /\ req'[p].surat = req[p].surat
                                    /\ req'[p].added = req[p].added
                                    /\ req'[p].todo = req[p].todo /\ req'[p].got = req[p].got
                                    /\ req'[p].skipped = req[p].skipped
                                    /\ req'[p].fresh = (req[p].fresh /\ req[p].surat # s)
    BY <1>1, Marks DEF IInv
  <1>8. \A p \in Request : Reads(req[p]) /\ Sound(req[p]) /\ req[p].fresh \in BOOLEAN
    BY DEF IInv, ReadsInv, RequestInv, TypeOK, RequestRec
  <1> HIDE DEF s, n
  <1>9. ASSUME NEW p \in Request PROVE Reads(req[p])'
    <2>1. CASE p = r
      BY <1>1, <1>2, <1>7, <1>8, <2>1 DEF Reads, IdleReq
    <2>2. CASE p # r
      <3>1. CASE ~req'[p].fresh
        BY <1>7, <1>8, <2>2, <3>1 DEF Reads
      <3>2. CASE req'[p].fresh
        <4>1. PICK t \in Surat \ {s} : t = req[p].surat
          BY <1>7, <1>8, <2>2, <3>2 DEF Reads, Sound
        <4>2. /\ req[p].todo \subseteq Active(t) \ req[p].skipped
              /\ req[p].got = (Active(t) \cap files) \ (req[p].todo \cup req[p].skipped)
              /\ req[p].pc = "extract"
          BY <1>7, <1>8, <2>2, <3>2, <4>1 DEF Reads
        <4>3. Active(t)' = Active(t) /\ \A a \in Active(t) : a \in files' <=> a \in files
          BY <1>3, <1>4, <1>5
        <4>4. /\ req[p].todo \subseteq Active(t)' \ req[p].skipped
              /\ req[p].got = (Active(t)' \cap files') \ (req[p].todo \cup req[p].skipped)
          BY <4>2, <4>3
        <4> QED BY <1>7, <2>2, <4>1, <4>2, <4>4 DEF Reads, Active
      <3> QED BY <3>1, <3>2
    <2> QED BY <2>1, <2>2
  <1>10. ASSUME NEW t \in Surat, t \notin behind', ~Refreshing(t)'
         PROVE  /\ doc[t].text = surat[t].text
                /\ doc[t].atts = (Active(t) \cap files)' \ doc[t].skipped
    <2>1. t # s
      BY <1>1, <1>3, <1>7, <1>10 DEF Refreshing
    <2>2. t \notin behind /\ ~Refreshing(t)
      <3>1. ASSUME NEW p \in Request, req[p].surat = t, Busy(req[p]) PROVE FALSE
        BY <1>7, <1>10, <2>1, <3>1 DEF Busy, Refreshing, s
      <3> QED BY <1>3, <1>10, <3>1 DEF Busy, Refreshing
    <2> QED BY <1>6, <2>1, <2>2 DEF IInv, IndexCurrent
  <1> QED
    BY <1>3, <1>9, <1>10 DEF ReadsInv, IndexCurrent

\* Every step keeps what the refreshes have read and the index.
LEMMA IndexKeeps ==
  ASSUME IInv, Next
  PROVE  ReadsInv' /\ IndexCurrent'
  <1> DEFINE Kept == ReadsInv' /\ IndexCurrent'
  <1>1. /\ req \in [Request -> RequestRec] /\ ReadsInv /\ RequestInv /\ IndexCurrent
        /\ NoAtt \notin Att /\ surat \in [Surat -> [live : BOOLEAN, text : Nat]]
        /\ doc \in [Surat -> DocRec]
    BY NullAssumption DEF IInv, TypeOK
  <1>2. Reads(IdleReq) /\ ~Busy(IdleReq)
    BY DEF Reads, Busy, IdleReq
  <1>3. ASSUME NEW r \in Request, Turns(r), \A s \in Surat : ~EditForm(r, s)
        PROVE  Kept
    <2>1. PICK m \in RequestRec : /\ req' = [req EXCEPT ![r] = m] /\ Reads(m)
                                  /\ Busy(req[r]) => m.surat = req[r].surat /\ Busy(m)
      BY <1>3, TurnsAre DEF Turned
    <2>2. /\ UNCHANGED <<att, doc, surat, behind>>
          /\ \A a \in Att : att[a].st = "active" => (a \in files' <=> a \in files)
      BY <1>3 DEF Turns, UploadBegin, StorePart, EndOfParts, CheckSurat, ReplaceBegin, Extract,
                  Skip, Cut, LockOld, ReadList, Unused
    <2> QED BY <2>1, <2>2, Quiet
  <1>4. ASSUME NEW r \in Request, \/ RefusePart(r) \/ DbError(r)
                                  \/ CheckSurat(r) /\ ~surat[req[r].surat].live
                                  \/ LockOld(r) /\ att[req[r].old].st # "active"
        PROVE  Kept
    <2>1. GiveUp(r) /\ UNCHANGED <<att, doc, surat>>
          /\ req[r].pc \in {"part", "check", "insert", "lock", "swap"}
      BY <1>4 DEF RefusePart, DbError, CheckSurat, LockOld
    <2>2. \A a \in Att : att[a].st = "active" => (a \in files' <=> a \in files)
      BY <1>1, <2>1 DEF GiveUp, RequestInv, Sound
    <2>3. /\ req' = [req EXCEPT ![r] = IdleReq] /\ behind \subseteq behind'
          /\ Busy(req[r]) => req[r].surat \in behind'
      BY <2>1 DEF GiveUp, Busy
    <2> QED BY <1>2, <2>1, <2>2, <2>3, IdleType, Quiet
  <1>5. ASSUME NEW r \in Request, \/ RefreshFail(r)
                                  \/ ReadList(r) /\ ~surat[req[r].surat].live
        PROVE  Kept
    <2>1. /\ req' = [req EXCEPT ![r] = IdleReq] /\ behind \subseteq behind'
          /\ req[r].surat \in behind' /\ UNCHANGED <<att, doc, surat, files>>
      BY <1>5 DEF RefreshFail, ReadList
    <2> QED BY <1>2, <2>1, IdleType, Quiet
  <1>6. ASSUME NEW r \in Request, WriteDoc(r)
        PROVE  Kept
    <2> DEFINE s == req[r].surat
    <2>1. /\ s \in Surat /\ req[r].todo = {}
          /\ req[r].fresh => req[r].got = (Active(s) \cap files) \ req[r].skipped
      BY <1>1, <1>6 DEF WriteDoc, RequestInv, Sound, ReadsInv, Reads
    <2>2. /\ req' = [req EXCEPT ![r] = IdleReq] /\ UNCHANGED <<att, surat, files>>
          /\ behind' = IF surat[s].live /\ req[r].fresh THEN behind \ {s} ELSE behind \cup {s}
          /\ doc' = IF surat[s].live
                    THEN [doc EXCEPT ![s] = [text |-> surat[s].text, atts |-> req[r].got,
                                             skipped |-> req[r].skipped]]
                    ELSE doc
      BY <1>6 DEF WriteDoc
    <2>3. \A p \in Request : req'[p] = IF p = r THEN IdleReq ELSE req[p]
      BY <1>1, <2>2
    <2>4. ReadsInv'
      BY <1>1, <1>2, <2>2, <2>3, ReadsStay DEF ReadsInv
    <2>5. ASSUME NEW t \in Surat, t \notin behind', ~Refreshing(t)'
          PROVE  /\ doc'[t].text = surat[t].text
                 /\ doc'[t].atts = (Active(t) \cap files) \ doc'[t].skipped
      <3>1. CASE t = s
        BY <1>1, <2>1, <2>2, <2>5, <3>1
      <3>2. CASE t # s
        <4>1. doc'[t] = doc[t]
          BY <1>1, <2>1, <2>2, <3>2
        <4>2. t \notin behind
          BY <2>2, <2>5, <3>2
        <4>3. ~Refreshing(t)
          BY <2>3, <2>5, <3>2 DEF Refreshing
        <4> QED BY <1>1, <4>1, <4>2, <4>3 DEF IndexCurrent
      <3> QED BY <3>1, <3>2
    <2>6. \A t \in Surat : Active(t)' = Active(t)
      BY <2>2 DEF Active
    <2>7. IndexCurrent'
      BY <2>2, <2>5, <2>6 DEF IndexCurrent
    <2> QED BY <2>4, <2>7
  <1>7. ASSUME NEW r \in Request, NEW s \in Surat, EditForm(r, s)
        PROVE  Kept
    <2>1. PICK m \in RequestRec : /\ req' = [req EXCEPT ![r] = m] /\ Reads(m)
                                  /\ Busy(req[r]) => m.surat = req[r].surat /\ Busy(m)
      BY <1>7, TurnsAre DEF Turned, Turns
    <2>2. /\ UNCHANGED <<att, doc, files, behind>>
          /\ surat' = [surat EXCEPT ![s].text = surat[s].text + 1]
      BY <1>7 DEF EditForm
    <2>3. req'[r].surat = s /\ Busy(req'[r])
      BY <1>1, <1>7 DEF EditForm, RequestRec, Busy
    <2>4. \A p \in Request : req'[p] = IF p = r THEN m ELSE req[p]
      BY <1>1, <2>1
    <2>5. ReadsInv'
      BY <1>1, <2>1, <2>2, <2>4, ReadsStay DEF ReadsInv
    <2>6. ASSUME NEW t \in Surat, t \notin behind', ~Refreshing(t)'
          PROVE  /\ doc[t].text = surat'[t].text
                 /\ doc[t].atts = (Active(t) \cap files) \ doc[t].skipped
      <3>1. t # s
        BY <2>3, <2>6 DEF Refreshing, Busy
      <3>2. surat'[t] = surat[t]
        BY <1>1, <2>2, <3>1
      <3>3. ~Refreshing(t)
        BY <2>1, <2>4, <2>6 DEF Refreshing, Busy
      <3> QED BY <1>1, <2>2, <2>6, <3>2, <3>3 DEF IndexCurrent
    <2>7. \A t \in Surat : Active(t)' = Active(t)
      BY <2>2 DEF Active
    <2>8. IndexCurrent'
      BY <2>2, <2>6, <2>7 DEF IndexCurrent
    <2> QED BY <2>5, <2>8
  <1>8. ASSUME NEW s \in Surat, EditOffline(s) \/ DeleteOrRestore(s)
        PROVE  Kept
    <2>1. /\ UNCHANGED <<att, doc, files, req>> /\ behind \subseteq behind'
          /\ \A t \in Surat : surat'[t].text = surat[t].text \/ t \in behind'
      BY <1>1, <1>8 DEF EditOffline, DeleteOrRestore
    <2>2. ReadsInv'
      BY <1>1, <2>1, ReadsStay DEF ReadsInv
    <2>3. \A t \in Surat : Active(t)' = Active(t) /\ Refreshing(t)' = Refreshing(t)
      BY <2>1 DEF Active, Refreshing
    <2>4. IndexCurrent'
      BY <1>1, <2>1, <2>3 DEF IndexCurrent
    <2> QED BY <2>2, <2>4
  <1>9. ASSUME Crash
        PROVE  Kept
    <2>1. /\ UNCHANGED <<att, doc, surat, files>> /\ behind \subseteq behind'
          /\ \A p \in Request : req'[p] = IdleReq
          /\ \A p \in Request : Busy(req[p]) => req[p].surat \in behind'
      BY <1>9 DEF Crash, Busy
    <2>2. ReadsInv'
      BY <1>2, <2>1, ReadsStay
    <2>3. IndexCurrent'
      BY <1>1, <2>1, IndexStays
    <2> QED BY <2>2, <2>3
  <1>10. ASSUME NEW r \in Request, AddRow(r) \/ SwapRows(r) \/ CommitUnknown(r)
         PROVE  Kept
    BY <1>10, Disturbs
  <1>11. ASSUME NEW r \in Request, LeaveFile(r)
         PROVE  Kept
    <2>1. /\ req' = [req EXCEPT ![r] = IdleReq] /\ behind \subseteq behind'
          /\ UNCHANGED <<att, doc, surat, files>>
          /\ Busy(req[r]) => req[r].surat \in behind'
      BY <1>11 DEF LeaveFile, Busy
    <2> QED BY <1>2, <2>1, IdleType, Quiet
  <1> HIDE DEF Kept
  <1>12. ASSUME NEW r \in Request, Turns(r)
         PROVE  Kept
    BY <1>3, <1>7, <1>12
  <1>13. ASSUME NEW r \in Request, CheckSurat(r) \/ LockOld(r) \/ ReadList(r)
         PROVE  Kept
    BY <1>4, <1>5, <1>12, <1>13 DEF Turns
  <1>14. Kept
    BY <1>4, <1>5, <1>6, <1>8, <1>9, <1>10, <1>12, <1>13, <1>11
       DEF Next, Uploads, Replaces, Refreshes, Fails, Edits, Turns
  <1> QED BY <1>14 DEF Kept

-----------------------------------------------------------------------------
\* Recursive functions: the depth of a walk is bounded, so induction up to it is
\* enough, and that needs sets only.

LEMMA Induction ==
  ASSUME NEW T, 0 \in T, \A n \in Nat : n \in T => n + 1 \in T
  PROVE  Nat \subseteq T
  <1> DEFINE R == OpToRel(<, Nat)
             U == Nat \ T
  <1>1. ASSUME U # {} PROVE FALSE
    <2>1. PICK x \in U : \A y \in U : <<y, x>> \notin R
      <3>1. IsWellFoundedOn(R, Nat)
        BY NatLessThanWellFounded
      <3>2. U \subseteq Nat
        OBVIOUS
      <3> HIDE DEF U, R
      <3> QED BY <1>1, <3>1, <3>2, WFMin
    <2>2. x \in Nat /\ x # 0 /\ x - 1 \in Nat
      OBVIOUS
    <2>3. <<x - 1, x>> \in R
      BY <2>2 DEF OpToRel
    <2>4. x - 1 \in T
      BY <2>1, <2>2, <2>3
    <2> QED BY <2>2, <2>4
  <1> QED BY <1>1

\* What is true at 0 and passed on up to a bound is true up to it.
LEMMA UpTo ==
  ASSUME NEW N \in Nat, NEW T, 0 \in T, \A n \in 0 .. N - 1 : n \in T => n + 1 \in T
  PROVE  0 .. N \subseteq T
  <1> DEFINE U == {n \in Nat : n <= N => n \in T}
  <1>1. 0 \in U /\ \A n \in Nat : n \in U => n + 1 \in U
    OBVIOUS
  <1>2. Nat \subseteq U
    <2> HIDE DEF U
    <2> QED BY <1>1, Induction
  <1> QED BY <1>2

\* A function can be iterated as often as one likes.
Iteration(f, c, d, n) == f[0] = c /\ \A i \in 1 .. n : f[i] = d[f[i - 1]]

LEMMA Iterates ==
  ASSUME NEW X, NEW c \in X, NEW d \in [X -> X], NEW N \in Nat
  PROVE  \E f \in [0 .. N -> X] : Iteration(f, c, d, N)
  <1> DEFINE T == {n \in Nat : \E f \in [0 .. n -> X] : Iteration(f, c, d, n)}
  <1>1. 0 \in T
    <2> DEFINE f == [i \in 0 .. 0 |-> c]
    <2>1. f \in [0 .. 0 -> X] /\ Iteration(f, c, d, 0)
      BY DEF Iteration
    <2> HIDE DEF f
    <2> QED BY <2>1
  <1>2. ASSUME NEW n \in Nat, n \in T PROVE n + 1 \in T
    <2>1. PICK f \in [0 .. n -> X] : Iteration(f, c, d, n)
      BY <1>2
    <2> DEFINE g == [i \in 0 .. n + 1 |-> IF i = n + 1 THEN d[f[n]] ELSE f[i]]
    <2>2. g \in [0 .. n + 1 -> X] /\ Iteration(g, c, d, n + 1)
      BY <2>1 DEF Iteration
    <2> HIDE DEF g
    <2> QED BY <2>2
  <1>3. Nat \subseteq T
    <2> HIDE DEF T
    <2> QED BY <1>1, <1>2, Induction
  <1> QED BY <1>3

-----------------------------------------------------------------------------
\* The list of versions

LEMMA BackIs ==
  ASSUME NEW a \in Att
  PROVE  /\ \A n \in 0 .. Depth : Back(a)[n] \in SUBSET Att
         /\ Back(a)[0] = {a}
         /\ \A n \in 1 .. Depth : Back(a)[n] = {b \in Att : att[b].next \in Back(a)[n - 1]}
  <1> DEFINE Fn(g) == [n \in 0 .. Depth |->
                         IF n = 0 THEN {a} ELSE {b \in Att : att[b].next \in g[n - 1]}]
  <1>1. PICK X, c, d : /\ X = SUBSET Att /\ c = {a}
                       /\ d = [S \in X |-> {b \in Att : att[b].next \in S}]
    OBVIOUS
  <1>2. c \in X /\ d \in [X -> X] /\ Depth \in Nat
    BY <1>1, BoundAssumption
  <1>3. PICK f \in [0 .. Depth -> X] : Iteration(f, c, d, Depth)
    BY <1>2, Iterates
  <1>4. f = Fn(f)
    <2>1. \A i \in 1 .. Depth : d[f[i - 1]] = {b \in Att : att[b].next \in f[i - 1]}
      BY <1>1, <1>2
    <2>2. \A i \in 0 .. Depth :
            f[i] = IF i = 0 THEN {a} ELSE {b \in Att : att[b].next \in f[i - 1]}
      <3>1. f[0] = {a} /\ \A i \in 1 .. Depth : f[i] = d[f[i - 1]]
        BY <1>1, <1>3 DEF Iteration
      <3> SUFFICES ASSUME NEW i \in 0 .. Depth
                   PROVE  f[i] = IF i = 0 THEN {a} ELSE {b \in Att : att[b].next \in f[i - 1]}
        OBVIOUS
      <3>2. i = 0 \/ (i \in 1 .. Depth /\ i # 0)
        BY <1>2
      <3>3. CASE i = 0
        BY <3>1, <3>3
      <3>4. CASE i \in 1 .. Depth /\ i # 0
        <4>1. f[i] = d[f[i - 1]]
          BY <3>1, <3>4
        <4>2. d[f[i - 1]] = {b \in Att : att[b].next \in f[i - 1]}
          BY <2>1, <3>4
        <4> QED BY <3>4, <4>1, <4>2
      <3> QED BY <3>2, <3>3, <3>4
    <2> QED BY <2>2
  <1>5. Back(a) = CHOOSE g : g = Fn(g)
    BY DEF Back
  <1>6. Back(a) = Fn(Back(a))
    <2> HIDE DEF Fn
    <2> QED BY <1>4, <1>5
  <1>7. /\ Back(a)[0] = {a}
        /\ \A n \in 1 .. Depth : Back(a)[n] = {b \in Att : att[b].next \in Back(a)[n - 1]}
    BY <1>2, <1>6
  <1>8. \A n \in 0 .. Depth : Back(a)[n] \in SUBSET Att
    BY <1>2, <1>7
  <1> QED BY <1>7, <1>8

LEMMA ForwardIs ==
  ASSUME TypeOK, NEW b \in Att
  PROVE  /\ \A n \in 0 .. Depth : Forward(b)[n] \in Att \cup {NoAtt}
         /\ Forward(b)[0] = b
         /\ \A n \in 1 .. Depth :
              Forward(b)[n] = IF Forward(b)[n - 1] = NoAtt THEN NoAtt
                              ELSE att[Forward(b)[n - 1]].next
  <1> DEFINE Fn(g) == [n \in 0 .. Depth |->
                         IF n = 0 THEN b
                         ELSE IF g[n - 1] = NoAtt THEN NoAtt ELSE att[g[n - 1]].next]
  <1>1. PICK X, d : /\ X = Att \cup {NoAtt}
                    /\ d = [x \in X |-> IF x = NoAtt THEN NoAtt ELSE att[x].next]
    OBVIOUS
  <1>2. b \in X /\ d \in [X -> X] /\ Depth \in Nat
    BY <1>1, BoundAssumption DEF TypeOK, AttRow
  <1>3. PICK f \in [0 .. Depth -> X] : Iteration(f, b, d, Depth)
    BY <1>2, Iterates
  <1>4. f = Fn(f)
    <2>1. \A i \in 1 .. Depth :
            d[f[i - 1]] = IF f[i - 1] = NoAtt THEN NoAtt ELSE att[f[i - 1]].next
      BY <1>1, <1>2
    <2>2. \A i \in 0 .. Depth :
            f[i] = IF i = 0 THEN b ELSE IF f[i - 1] = NoAtt THEN NoAtt ELSE att[f[i - 1]].next
      <3>1. f[0] = b /\ \A i \in 1 .. Depth : f[i] = d[f[i - 1]]
        BY <1>1, <1>3 DEF Iteration
      <3> SUFFICES ASSUME NEW i \in 0 .. Depth
                   PROVE  f[i] = IF i = 0 THEN b
                                 ELSE IF f[i - 1] = NoAtt THEN NoAtt ELSE att[f[i - 1]].next
        OBVIOUS
      <3>2. i = 0 \/ (i \in 1 .. Depth /\ i # 0)
        BY <1>2
      <3>3. CASE i = 0
        BY <3>1, <3>3
      <3>4. CASE i \in 1 .. Depth /\ i # 0
        <4>1. f[i] = d[f[i - 1]]
          BY <3>1, <3>4
        <4>2. d[f[i - 1]] = IF f[i - 1] = NoAtt THEN NoAtt ELSE att[f[i - 1]].next
          BY <2>1, <3>4
        <4> QED BY <3>4, <4>1, <4>2
      <3> QED BY <3>2, <3>3, <3>4
    <2> QED BY <2>2
  <1>5. Forward(b) = CHOOSE g : g = Fn(g)
    BY DEF Forward
  <1>6. Forward(b) = Fn(Forward(b))
    <2> HIDE DEF Fn
    <2> QED BY <1>4, <1>5
  <1>7. /\ Forward(b)[0] = b
        /\ \A n \in 1 .. Depth :
             Forward(b)[n] = IF Forward(b)[n - 1] = NoAtt THEN NoAtt
                             ELSE att[Forward(b)[n - 1]].next
    BY <1>2, <1>6
  <1>8. \A n \in 0 .. Depth : Forward(b)[n] \in X
    <2> DEFINE T == {n \in 0 .. Depth : Forward(b)[n] \in X}
    <2>1. 0 \in T /\ \A n \in 0 .. Depth - 1 : n \in T => n + 1 \in T
      BY <1>1, <1>2, <1>7 DEF TypeOK, AttRow
    <2>2. 0 .. Depth \subseteq T
      <3> HIDE DEF T
      <3> QED BY <1>2, <2>1, UpTo
    <2> QED BY <2>2
  <1> QED BY <1>1, <1>7, <1>8

\* The walk back ends somewhere, and there the walk forward begins.
LEMMA FirstIs ==
  ASSUME NEW a \in Att
  PROVE  /\ First(a) \in Att
         /\ \E n \in 0 .. Depth : /\ First(a) \in Back(a)[n]
                                  /\ \A m \in (n + 1) .. Depth : Back(a)[m] = {}
  <1> DEFINE Ends(n, k) == Back(a)[k] # {} /\ \A m \in (k + 1) .. n : Back(a)[m] = {}
             T == {n \in 0 .. Depth : \E k \in 0 .. n : Ends(n, k)}
  <1>1. Depth \in Nat
    BY BoundAssumption
  <1>2. 0 \in T
    BY <1>1, BackIs
  <1>3. ASSUME NEW n \in 0 .. Depth - 1, n \in T PROVE n + 1 \in T
    <2>1. PICK k \in 0 .. n : Ends(n, k)
      BY <1>3
    <2>2. CASE Back(a)[n + 1] = {}
      <3>1. Ends(n + 1, k)
        BY <2>1, <2>2
      <3> QED BY <1>1, <3>1
    <2>3. CASE Back(a)[n + 1] # {}
      <3>1. Ends(n + 1, n + 1)
        BY <2>3
      <3> QED BY <1>1, <3>1
    <2> QED BY <2>2, <2>3
  <1>4. Depth \in T
    <2> HIDE DEF T
    <2>1. 0 .. Depth \subseteq T
      BY <1>1, <1>2, <1>3, UpTo
    <2> QED BY <1>1, <2>1
  <1>5. PICK k \in 0 .. Depth : Ends(Depth, k)
    BY <1>4
  <1>6. \E b \in Att : \E n \in 0 .. Depth :
          b \in Back(a)[n] /\ \A m \in (n + 1) .. Depth : Back(a)[m] = {}
    BY <1>5, BackIs
  <1> QED BY <1>6 DEF First

\* Forward from a row that is n links back from a, every row is as far back as is left.
LEMMA ForwardComesBack ==
  ASSUME IInv, NEW a \in Att, NEW n \in 0 .. Depth, NEW b \in Back(a)[n]
  PROVE  Forward(b)[n] = a
  <1>1. Depth \in Nat /\ b \in Att /\ NoAtt \notin Att
    BY BoundAssumption, NullAssumption, BackIs
  <1> DEFINE T == {k \in 0 .. n : Forward(b)[k] \in Back(a)[n - k]}
  <1>2. 0 \in T
    BY <1>1, ForwardIs DEF IInv
  <1>3. ASSUME NEW k \in 0 .. n - 1, k \in T PROVE k + 1 \in T
    <2>1. n - k \in 1 .. Depth /\ n - k - 1 = n - (k + 1) /\ k + 1 \in 1 .. Depth
      BY <1>1
    <2>2. Forward(b)[k] \in Att /\ att[Forward(b)[k]].next \in Back(a)[n - k - 1]
      BY <1>3, <2>1, BackIs
    <2>3. Forward(b)[k + 1] = att[Forward(b)[k]].next
      BY <1>1, <2>1, <2>2, ForwardIs DEF IInv
    <2> QED BY <1>1, <2>1, <2>2, <2>3
  <1>4. 0 .. n \subseteq T
    <2> HIDE DEF T
    <2> QED BY <1>1, <1>2, <1>3, UpTo
  <1> QED BY <1>1, <1>4, BackIs

\* The walk forward is over once and for all.
LEMMA ForwardStops ==
  ASSUME IInv, NEW b \in Att
  PROVE  \E l \in 1 .. Depth + 1 : \A k \in 0 .. Depth : Forward(b)[k] # NoAtt <=> k < l
  <1> DEFINE Over(n, l) == \A k \in 0 .. n : Forward(b)[k] # NoAtt <=> k < l
             T == {n \in 0 .. Depth : \E l \in 1 .. n + 1 : Over(n, l)}
  <1>1. Depth \in Nat /\ NoAtt \notin Att
    BY BoundAssumption, NullAssumption
  <1>2. 0 \in T
    <2>1. Over(0, 1)
      BY <1>1, ForwardIs DEF IInv
    <2> QED BY <1>1, <2>1
  <1>3. ASSUME NEW n \in 0 .. Depth - 1, n \in T PROVE n + 1 \in T
    <2>1. PICK l \in 1 .. n + 1 : Over(n, l)
      BY <1>3
    <2>2. Forward(b)[n] = NoAtt => Forward(b)[n + 1] = NoAtt
      BY <1>1, ForwardIs DEF IInv
    <2>3. CASE Forward(b)[n + 1] = NoAtt
      <3>1. Over(n + 1, l)
        BY <2>1, <2>3
      <3> QED BY <1>1, <3>1
    <2>4. CASE Forward(b)[n + 1] # NoAtt
      <3>1. l = n + 1
        BY <2>1, <2>2, <2>4
      <3>2. Over(n + 1, n + 2)
        BY <2>1, <2>4, <3>1
      <3> QED BY <1>1, <3>2
    <2> QED BY <2>3, <2>4
  <1>4. Depth \in T
    <2> HIDE DEF T
    <2>1. 0 .. Depth \subseteq T
      BY <1>1, <1>2, <1>3, UpTo
    <2> QED BY <1>1, <2>1
  <1> QED BY <1>4

LEMMA BackIsThere ==
  ASSUME IInv, NEW a \in Att, att[a].st # "none", NEW n \in 0 .. Depth, NEW b \in Back(a)[n]
  PROVE  att[b].st # "none"
  <1>1. b \in Att /\ NoAtt \notin Att /\ Depth \in Nat
    BY BackIs, NullAssumption, BoundAssumption
  <1>2. CASE n = 0
    BY <1>2, BackIs
  <1>3. CASE n # 0
    <2>1. n \in 1 .. Depth /\ n - 1 \in 0 .. Depth
      BY <1>1, <1>3
    <2>2. att[b].next \in Att
      BY <2>1, BackIs
    <2> QED BY <1>1, <2>2 DEF IInv, LinksInv
  <1> QED BY <1>2, <1>3

LEMMA AllVersions ==
  ASSUME IInv
  PROVE  VersionsListed
  <1> SUFFICES ASSUME NEW a \in Att, att[a].st # "none"
               PROVE  LET v == Versions(a)
                      IN  /\ \E i \in DOMAIN v : v[i] = a
                          /\ \A i \in 1 .. (Len(v) - 1) : att[v[i]].next = v[i + 1]
                          /\ Len(v) <= Depth => /\ att[v[1]].of = NoAtt
                                                /\ att[v[Len(v)]].st = "active"
    BY DEF VersionsListed
  <1> DEFINE b == First(a)
             down == Forward(b)
             v == Versions(a)
  <1>1. Depth \in Nat /\ NoAtt \notin Att /\ att \in [Att -> AttRow]
    BY BoundAssumption, NullAssumption DEF IInv, TypeOK
  <1>2. PICK n \in 0 .. Depth : b \in Back(a)[n] /\ \A m \in (n + 1) .. Depth : Back(a)[m] = {}
    BY FirstIs
  <1>3. b \in Att /\ att[b].st # "none" /\ down[n] = a
    BY <1>2, FirstIs, BackIsThere, ForwardComesBack
  <1>4. PICK l \in 1 .. Depth + 1 : \A k \in 0 .. Depth : down[k] # NoAtt <=> k < l
    BY <1>3, ForwardStops
  <1>5. Cardinality({k \in 0 .. Depth : down[k] # NoAtt}) = l
    <2>1. {k \in 0 .. Depth : down[k] # NoAtt} = 0 .. l - 1
      BY <1>1, <1>4
    <2>2. Cardinality(0 .. l - 1) = l
      BY FS_Interval
    <2> QED BY <2>1, <2>2
  <1>6. v = [i \in 1 .. l |-> down[i - 1]]
    BY <1>5 DEF Versions
  <1>7. Len(v) = l /\ DOMAIN v = 1 .. l /\ \A i \in 1 .. l : v[i] = down[i - 1]
    BY <1>6
  <1>8. /\ down[0] = b /\ \A k \in 0 .. Depth : down[k] \in Att \cup {NoAtt}
        /\ \A k \in 1 .. Depth : down[k] = IF down[k - 1] = NoAtt THEN NoAtt
                                           ELSE att[down[k - 1]].next
    BY <1>3, ForwardIs DEF IInv
  <1> HIDE DEF v, down, b
  <1>9. \E i \in DOMAIN v : v[i] = a
    <2>1. n + 1 \in 1 .. l
      BY <1>1, <1>3, <1>4
    <2>2. v[n + 1] = a
      BY <1>3, <1>7, <2>1
    <2> QED BY <1>7, <2>1, <2>2
  <1>10. ASSUME NEW i \in 1 .. (Len(v) - 1) PROVE att[v[i]].next = v[i + 1]
    BY <1>1, <1>4, <1>7, <1>8
  <1>11. ASSUME Len(v) <= Depth PROVE att[v[1]].of = NoAtt
    <2>1. n + 1 \in 1 .. Depth
      BY <1>1, <1>3, <1>4, <1>7, <1>11
    <2>2. ASSUME att[b].of # NoAtt PROVE FALSE
      <3>1. att[b].of \in Att /\ att[att[b].of].next = b
        BY <1>1, <1>3, <2>2 DEF IInv, NoVersionLost, AttRow
      <3>2. att[b].of \in Back(a)[n + 1]
        BY <1>2, <2>1, <3>1, BackIs
      <3> QED BY <1>2, <2>1, <3>2
    <2> QED BY <1>7, <1>8, <2>2
  <1>12. ASSUME Len(v) <= Depth PROVE att[v[Len(v)]].st = "active"
    <2>1. l \in 1 .. Depth /\ down[l] = NoAtt /\ down[l - 1] \in Att
      BY <1>1, <1>4, <1>7, <1>8, <1>12
    <2>2. att[down[l - 1]].next = NoAtt
      BY <1>1, <1>8, <2>1
    <2>3. att[down[l - 1]].st # "none"
      <3>1. CASE l = 1
        BY <1>3, <1>8, <3>1
      <3>2. CASE l # 1
        <4>1. down[l - 2] \in Att /\ att[down[l - 2]].next = down[l - 1]
          BY <1>1, <1>4, <1>8, <2>1, <3>2
        <4> QED BY <1>1, <2>1, <4>1 DEF IInv, LinksInv
      <3> QED BY <3>1, <3>2
    <2> QED BY <1>1, <1>7, <2>1, <2>2, <2>3 DEF IInv, LinksInv, AttRow
  <1> QED BY <1>9, <1>10, <1>11, <1>12 DEF v

-----------------------------------------------------------------------------
\* The theorems

LEMMA Initial == Init => IInv
  <1> SUFFICES ASSUME Init PROVE IInv
    OBVIOUS
  <1>1. TypeOK
    BY IdleType DEF Init, TypeOK, AttRow, DocRec
  <1>2. RequestInv /\ ReadsInv
    BY NullAssumption DEF Init, RequestInv, Sound, ReadsInv, Reads, IdleReq
  <1>3. FilesInv
    BY DEF Init, FilesInv, RowsHaveFiles, NoStrayFiles, IdleReq
  <1>4. IndexCurrent
    BY DEF Init, IndexCurrent, Active
  <1> QED
    BY <1>1, <1>2, <1>3, <1>4, NullAssumption DEF Init, IInv, RowInv, LinksInv, NoVersionLost

LEMMA Inductive == IInv /\ [Next]_vars => IInv'
  <1>1. ASSUME IInv, Next PROVE IInv'
    BY <1>1, RowsAndRequests, OtherTypes, FilesKeep, IndexKeeps DEF IInv, TypeOK
  <1>2. ASSUME IInv, UNCHANGED vars PROVE IInv'
    <2>1. TypeOK' /\ RowInv' /\ LinksInv' /\ RequestInv' /\ NoVersionLost'
      BY <1>2 DEF vars, IInv, TypeOK, RowInv, LinksInv, RequestInv, Sound, NoVersionLost
    <2>2. FilesInv'
      BY <1>2, FilesStay DEF vars, IInv
    <2>3. ReadsInv' /\ IndexCurrent'
      BY <1>2 DEF vars, IInv, ReadsInv, Reads, IndexCurrent, Refreshing, Active
    <2> QED BY <2>1, <2>2, <2>3 DEF IInv
  <1> QED
    BY <1>1, <1>2

\* Rows, links and requests in progress agree at all times (store/attachment.go).
THEOREM Invariance == Spec => []IInv
  <1> QED
    BY Initial, Inductive, PTL DEF Spec

\* ReplaceAttachment under FOR UPDATE loses no version, however many requests
\* replace one attachment at the same time.
THEOREM VersionsAreKept == Spec => []NoVersionLost
  <1>1. IInv => NoVersionLost
    BY DEF IInv
  <1> QED
    BY <1>1, Invariance, PTL

\* Every row has its file, but for a commit whose answer was lost: a handler that
\* fails removes only a file that no row names (attachment.go:138-162,
\* 503-540).
THEOREM EveryRowHasItsFile == Spec => []RowsHaveFiles
  <1>1. IInv => RowsHaveFiles
    BY DEF IInv, FilesInv
  <1> QED
    BY <1>1, Invariance, PTL

\* No file is left over but what a request in progress is storing, and what a request
\* that ended could not remove: the process stopped, os.Remove failed, or an upload
\* got no identifier for its row (attachment.go:151-156).
THEOREM NoFileIsLeftOver == Spec => []NoStrayFiles
  <1>1. IInv => NoStrayFiles
    BY DEF IInv, FilesInv
  <1> QED
    BY <1>1, Invariance, PTL

\* The search_doc of a surat agrees with its text and its active files whenever no
\* request on it is in progress and none of the changes that refresh nothing has
\* left it behind, but for the files whose text the last refresh passed over
\* (rebuildSearchDoc, fts.go:66-105).
THEOREM IndexIsCurrent == Spec => []IndexCurrent
  <1>1. IInv => IndexCurrent
    BY DEF IInv
  <1> QED
    BY <1>1, Invariance, PTL

\* From any version of an attachment the list shows that version and the chain around
\* it, all of it up to the depth limit (ListAttachmentVersions,
\* store/attachment.go:136-192).
THEOREM EveryVersionIsListed == Spec => []VersionsListed
  <1> QED
    BY AllVersions, Invariance, PTL
=============================================================================
