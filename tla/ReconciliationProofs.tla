------------------------- MODULE ReconciliationProofs -------------------------
(***************************************************************************)
(* Theorems about Reconciliation, for every finite set of surat, every set *)
(* of keys, every number of merges in progress and every bound.            *)
(***************************************************************************)
EXTENDS Reconciliation, FiniteSetTheorems, TLAPS

LEMMA NoTypes == NoDetection \in Detection /\ NoMerging \in Merging /\ NoEntry \in Entry
  BY DEF NoDetection, Detection, NoMerging, Merging, NoEntry, Entry

-----------------------------------------------------------------------------
\* Steps of a check that write to no table

\* Only the check of s changes, to d.
Moves(s, d) ==
  /\ d \in Detection
  /\ detect' = [detect EXCEPT ![s] = d]
  /\ UNCHANGED <<surat, queue, merge, canon, hand, hands>>
  /\ mixed' \in BOOLEAN /\ (mixed => mixed')

LEMMA Moved ==
  ASSUME TypeOK, NEW s \in Surat, NEW d, Moves(s, d)
  PROVE  /\ TypeOK' /\ detect'[s] = d
         /\ \A x \in Surat : x # s => detect'[x] = detect[x]
  BY DEF Moves, TypeOK

\* The surat that a check works on is there; its statements are read one by one.
LEMMA ReadOwnKeeps ==
  ASSUME IInv, NEW s \in Surat, ReadOwn(s)
  PROVE  IInv'
  <1>1. TypeOK /\ detect[s] \in Detection /\ surat[s] \in SuratRow
    BY DEF IInv, TypeOK
  <1> DEFINE d == [detect[s] EXCEPT !.pc = IF Live(s) THEN "siblings" ELSE "failed",
                                    !.key = IF Live(s) THEN surat[s].key ELSE NoKey]
  <1>2. /\ d \in Detection
        /\ d.pc = IF Live(s) THEN "siblings" ELSE "failed"
        /\ Live(s) => d.key = surat[s].key
        /\ d.sibs = detect[s].sibs /\ d.adds = detect[s].adds /\ d.group = detect[s].group
    BY <1>1 DEF Detection, SuratRow
  <1>3. Moves(s, d)
    BY <1>1, <1>2 DEF ReadOwn, Moves, Overlap, TypeOK
  <1> HIDE DEF d
  <1>4. /\ TypeOK' /\ detect'[s] = d
        /\ \A x \in Surat : x # s => detect'[x] = detect[x]
    BY <1>1, <1>3, Moved
  <1>5. /\ surat' = surat /\ queue' = queue /\ merge' = merge /\ canon' = canon /\ hand' = hand
        /\ (~mixed' => ~mixed /\ Detecting = {} /\ Merges = {})
    BY <1>1, <1>3 DEF Moves, ReadOwn, Overlap, TypeOK
  <1>6. detect[s].pc = "own" /\ surat[s].st # "none"
    BY DEF ReadOwn, IInv, CheckInv
  <1>7. CheckInv' /\ MergeInv'
    BY <1>2, <1>4, <1>5, <1>6 DEF IInv, CheckInv, MergeInv, In
  <1>8. KeyInv'
    BY <1>2, <1>4, <1>5, <1>6 DEF IInv, CheckInv, KeyInv, In
  <1>9. CoverInv'
    BY <1>2, <1>4, <1>5 DEF IInv, CoverInv, Read, Sees, Queued, Live
  <1>10. SerialInv'
    BY <1>2, <1>4, <1>5 DEF IInv, SerialInv, Detecting, Merges, In, Pending, Members, Live
  <1>11. OneVerdictIfSerial'
    BY <1>5 DEF IInv, OneVerdictIfSerial, Live
  <1>12. OneGroupInv'
    BY <1>2, <1>4, <1>5, <1>6 DEF IInv, CheckInv, OneGroupInv, Detecting, Pending, Live
  <1> QED
    BY <1>4, <1>7, <1>8, <1>9, <1>10, <1>11, <1>12 DEF IInv

LEMMA ReadSiblingsKeeps ==
  ASSUME IInv, NEW s \in Surat, ReadSiblings(s)
  PROVE  IInv'
  <1>1. TypeOK /\ detect[s] \in Detection
    BY DEF IInv, TypeOK
  <1> DEFINE d == [detect[s] EXCEPT !.pc = IF Siblings(s) = {} THEN "done" ELSE "group",
                                    !.sibs = Siblings(s)]
  <1>2. Siblings(s) \in SUBSET Surat
    BY DEF Siblings
  <1>3. /\ d \in Detection
        /\ d.pc \in {"done", "group"} /\ (d.pc = "done" => d.sibs = {})
        /\ d.sibs = Siblings(s)
        /\ d.adds = detect[s].adds /\ d.group = detect[s].group /\ d.key = detect[s].key
    BY <1>1, <1>2 DEF Detection
  <1>4. Moves(s, d)
    BY <1>1, <1>3 DEF ReadSiblings, Moves, TypeOK
  <1> HIDE DEF d
  <1>5. /\ TypeOK' /\ detect'[s] = d
        /\ \A x \in Surat : x # s => detect'[x] = detect[x]
    BY <1>1, <1>4, Moved
  <1>6. /\ surat' = surat /\ queue' = queue /\ merge' = merge /\ canon' = canon /\ hand' = hand
        /\ mixed' = mixed
    BY <1>4 DEF Moves, ReadSiblings
  <1>7. /\ detect[s].pc = "siblings" /\ detect[s].adds = {}
        /\ \A t \in Surat : t \in d.sibs <=> t # s /\ Live(t) /\ surat[t].key = detect[s].key
    BY <1>3 DEF ReadSiblings, Siblings, IInv, CheckInv
  <1>8. CheckInv' /\ MergeInv'
    BY <1>2, <1>3, <1>5, <1>6, <1>7 DEF IInv, CheckInv, MergeInv, In, Live
  <1>9. KeyInv'
    BY <1>2, <1>3, <1>5, <1>6, <1>7 DEF IInv, KeyInv, In
  <1>10. CoverInv'
    <2>1. s \notin hand => detect[s].key = surat[s].key
      BY <1>7 DEF IInv, KeyInv
    <2> QED
      BY <2>1, <1>3, <1>5, <1>6, <1>7 DEF IInv, CoverInv, Read, Sees, Queued, Live
  <1>11. SerialInv'
    BY <1>3, <1>5, <1>6, <1>7 DEF IInv, SerialInv, Detecting, Merges, In, Pending, Members, Live
  <1>12. OneVerdictIfSerial'
    BY <1>6 DEF IInv, OneVerdictIfSerial, Live
  <1>13. OneGroupInv'
    <2>1. \A b, t \in Surat : Pending(b, t) /\ hand = {} => queue[b][t].key = surat[t].key
      BY DEF IInv, KeyInv, In, Pending
    <2>2. ASSUME ~mixed, hand = {}, NEW x \in Detecting', NEW t \in Surat,
                 t \in detect'[x].sibs \cup detect'[x].adds \cup {x}
          PROVE  Live(t)
      <3>1. CASE x = s
        BY <2>2, <3>1, <1>3, <1>5, <1>7 DEF IInv, OneGroupInv, Detecting, Live
      <3>2. CASE x # s
        BY <2>2, <3>2, <1>5 DEF IInv, OneGroupInv, Detecting, Live
      <3> QED
        BY <3>1, <3>2
    <2>3. ASSUME ~mixed, hand = {}, NEW b \in Surat, NEW t \in Surat, Pending(b, t),
                 queue[b][t].key = detect[s].key
          PROVE  t \in d.sibs \cup {s}
      BY <2>1, <2>3, <1>7 DEF IInv, OneGroupInv
    <2> QED
      BY <2>2, <2>3, <1>1, <1>3, <1>5, <1>6 DEF IInv, OneGroupInv, Pending, Live, Detecting,
                                                      Detection
  <1> QED
    BY <1>5, <1>8, <1>9, <1>10, <1>11, <1>12, <1>13 DEF IInv

LEMMA PickGroupKeeps ==
  ASSUME IInv, NEW s \in Surat, PickGroup(s)
  PROVE  IInv'
  <1>1. TypeOK /\ detect[s] \in Detection
    BY DEF IInv, TypeOK
  <1> DEFINE found == UNION {PendingIn(t) : t \in detect[s].sibs}
  <1>2. PICK g \in IF found = {} THEN {s} ELSE found :
          detect' = [detect EXCEPT ![s].pc = "entries", ![s].group = g, ![s].adds = {s}]
    BY DEF PickGroup
  <1>3. \/ /\ g = s
           /\ \A t \in detect[s].sibs, b \in Surat : ~Pending(b, t)
        \/ \E t \in detect[s].sibs, b \in Surat : Pending(b, t) /\ queue[b][t].group = g
    <2>1. detect[s].sibs \subseteq Surat
      BY <1>1 DEF Detection
    <2>2. \A b, t \in Surat : Pending(b, t) => queue[b][t].group \in Surat
      BY DEF IInv, CheckInv, In, Pending
    <2>3. \A t \in detect[s].sibs, b \in Surat :
            Pending(b, t) => queue[b][t].group \in found
      BY <2>1, <2>2 DEF PendingIn, Members, Pending
    <2>4. \A x \in found : \E t \in detect[s].sibs, b \in Surat :
                              Pending(b, t) /\ queue[b][t].group = x
      BY <2>1 DEF PendingIn, Members, Pending
    <2> HIDE DEF found
    <2> QED
      BY <2>3, <2>4, <1>2
  <1> DEFINE d == [detect[s] EXCEPT !.pc = "entries", !.group = g, !.adds = {s}]
  <1>4. g \in Surat
    BY <1>1, <1>3 DEF IInv, CheckInv, In, Pending, Detection
  <1>5. /\ d \in Detection /\ d.pc = "entries" /\ d.group = g /\ d.adds = {s}
        /\ d.sibs = detect[s].sibs /\ d.key = detect[s].key
    BY <1>1, <1>4 DEF Detection
  <1>6. Moves(s, d)
    BY <1>1, <1>2, <1>5 DEF PickGroup, Moves, TypeOK
  <1> HIDE DEF d
  <1>7. /\ TypeOK' /\ detect'[s] = d
        /\ \A x \in Surat : x # s => detect'[x] = detect[x]
    BY <1>1, <1>6, Moved
  <1>8. /\ surat' = surat /\ queue' = queue /\ merge' = merge /\ canon' = canon /\ hand' = hand
        /\ mixed' = mixed
    BY <1>6 DEF Moves, PickGroup
  <1>9. /\ detect[s].pc = "group" /\ detect[s].sibs \subseteq Surat
        /\ surat[s].st # "none" /\ s \notin detect[s].sibs
    BY <1>1 DEF PickGroup, IInv, CheckInv, Detection
  <1>10. g # s => detect[g].pc = "done"
    BY <1>3, <1>9 DEF IInv, CheckInv, In, Pending
  <1>11. CheckInv' /\ MergeInv'
    BY <1>4, <1>5, <1>7, <1>8, <1>9, <1>10 DEF IInv, CheckInv, MergeInv, In
  <1>12. hand = {} => detect[s].key = surat[g].key
    BY <1>3, <1>9 DEF IInv, KeyInv, In, Pending
  <1>13. KeyInv'
    BY <1>5, <1>7, <1>8, <1>9, <1>12 DEF IInv, KeyInv, In
  <1>14. CoverInv'
    BY <1>5, <1>7, <1>8, <1>9 DEF IInv, CoverInv, Read, Sees, Queued, Live
  <1>15. SerialInv'
    <2>1. ASSUME ~mixed, NEW b \in Surat, NEW t \in Surat, In(b, t), queue[b][t].group = g
          PROVE  Pending(b, t)
      <3>1. g # s
        BY <2>1, <1>9 DEF IInv, CheckInv
      <3> QED
        BY <2>1, <3>1, <1>3, <1>9 DEF IInv, OneVerdictIfSerial, In, Pending
    <2> QED
      BY <2>1, <1>5, <1>7, <1>8, <1>9
         DEF IInv, SerialInv, Detecting, Merges, In, Pending, Members, Live
  <1>16. OneVerdictIfSerial'
    BY <1>8 DEF IInv, OneVerdictIfSerial, Live
  <1>17. OneGroupInv'
    <2>1. ASSUME ~mixed, hand = {}, NEW b \in Surat, NEW t \in Surat, Pending(b, t),
                 queue[b][t].key = detect[s].key
          PROVE  queue[b][t].group = g
      <3>1. PICK e \in Surat, x \in detect[s].sibs : Pending(e, x)
        <4>1. CASE t # s
          BY <4>1, <2>1, <1>9 DEF IInv, OneGroupInv
        <4>2. CASE t = s
          <5>1. /\ b # s /\ In(b, b) /\ queue[b][b].group = queue[b][t].group
                /\ queue[b][b].key = queue[b][t].key
            BY <4>2, <2>1, <1>9 DEF IInv, CheckInv, In, Pending
          <5>2. Pending(b, b)
            BY <5>1, <2>1 DEF IInv, OneVerdictIfSerial, In, Pending
          <5>3. b \in detect[s].sibs
            BY <5>1, <5>2, <2>1, <1>9 DEF IInv, OneGroupInv
          <5> QED
            BY <5>2, <5>3
        <4> QED
          BY <4>1, <4>2
      <3>2. PICK f \in Surat, y \in detect[s].sibs : Pending(f, y) /\ queue[f][y].group = g
        BY <3>1, <1>3
      <3>3. queue[f][y].key = detect[s].key
        BY <2>1, <3>2, <1>9 DEF IInv, KeyInv, In, Pending
      <3> QED
        BY <2>1, <3>2, <3>3, <1>9 DEF IInv, OneGroupInv
    <2> QED
      BY <2>1, <1>5, <1>7, <1>8, <1>9 DEF IInv, OneGroupInv, Detecting, Pending, Live
  <1> QED
    BY <1>7, <1>11, <1>13, <1>14, <1>15, <1>16, <1>17 DEF IInv

LEMMA QueueSiblingKeeps ==
  ASSUME IInv, NEW s \in Surat, NEW u \in Surat, QueueSibling(s, u)
  PROVE  IInv'
  <1>1. TypeOK /\ detect[s] \in Detection
    BY DEF IInv, TypeOK
  <1> DEFINE adds == IF PendingIn(u) = {} THEN detect[s].adds \cup {u} ELSE detect[s].adds
             d == [detect[s] EXCEPT !.sibs = detect[s].sibs \ {u}, !.adds = adds]
  <1>2. adds \in SUBSET Surat
    BY <1>1 DEF Detection
  <1>3. /\ detect[s].adds \subseteq adds /\ adds \subseteq detect[s].adds \cup {u}
        /\ u \in adds \/ Queued(u)
    BY DEF PendingIn, Members, Queued
  <1>4. /\ d \in Detection /\ d.pc = detect[s].pc /\ d.sibs = detect[s].sibs \ {u}
        /\ d.adds = adds /\ d.group = detect[s].group /\ d.key = detect[s].key
    <2> HIDE DEF adds
    <2> QED BY <1>1, <1>2 DEF Detection
  <1>5. Moves(s, d)
    BY <1>1, <1>4 DEF QueueSibling, Moves, TypeOK
  <1> HIDE DEF d, adds
  <1>6. /\ TypeOK' /\ detect'[s] = d
        /\ \A x \in Surat : x # s => detect'[x] = detect[x]
    BY <1>1, <1>5, Moved
  <1>7. /\ surat' = surat /\ queue' = queue /\ merge' = merge /\ canon' = canon /\ hand' = hand
        /\ mixed' = mixed
    BY <1>5 DEF Moves, QueueSibling
  <1>8. detect[s].pc = "entries" /\ u \in detect[s].sibs
    BY DEF QueueSibling
  <1>9. CheckInv' /\ MergeInv'
    BY <1>3, <1>4, <1>6, <1>7, <1>8 DEF IInv, CheckInv, MergeInv, In
  <1>10. KeyInv'
    BY <1>3, <1>4, <1>6, <1>7, <1>8 DEF IInv, KeyInv, In
  <1>11. CoverInv'
    <2>1. \A x, y \in Surat : Sees(x, y) => Sees(x, y)'
      BY <1>3, <1>4, <1>6, <1>7, <1>8 DEF Sees, Queued
    <2> QED
      BY <2>1, <1>4, <1>6, <1>7, <1>8 DEF IInv, CoverInv, Read, Live
  <1>12. SerialInv'
    BY <1>4, <1>6, <1>7, <1>8 DEF IInv, SerialInv, Detecting, Merges, In, Pending, Members, Live
  <1>13. OneVerdictIfSerial'
    BY <1>7 DEF IInv, OneVerdictIfSerial, Live
  <1>14. OneGroupInv'
    BY <1>3, <1>4, <1>6, <1>7, <1>8 DEF IInv, OneGroupInv, Detecting, Pending, Live
  <1> QED
    BY <1>6, <1>9, <1>10, <1>11, <1>12, <1>13, <1>14 DEF IInv

LEMMA DetectFailKeeps ==
  ASSUME IInv, NEW s \in Surat, DetectFail(s)
  PROVE  IInv'
  <1>1. TypeOK /\ detect[s] \in Detection
    BY DEF IInv, TypeOK
  <1> DEFINE d == [NoDetection EXCEPT !.pc = "failed"]
  <1>2. d \in Detection /\ d.pc = "failed" /\ d.sibs = {} /\ d.adds = {}
    BY DEF Detection, NoDetection
  <1>3. Moves(s, d)
    BY <1>1, <1>2 DEF DetectFail, Moves, TypeOK
  <1> HIDE DEF d
  <1>4. /\ TypeOK' /\ detect'[s] = d
        /\ \A x \in Surat : x # s => detect'[x] = detect[x]
    BY <1>1, <1>3, Moved
  <1>5. /\ surat' = surat /\ queue' = queue /\ merge' = merge /\ canon' = canon /\ hand' = hand
        /\ mixed' = mixed
    BY <1>3 DEF Moves, DetectFail
  <1>6. detect[s].pc \in {"own", "siblings", "group", "entries"}
    BY DEF DetectFail
  <1>7. CheckInv' /\ MergeInv'
    BY <1>2, <1>4, <1>5, <1>6 DEF IInv, CheckInv, MergeInv, In
  <1>8. KeyInv'
    BY <1>2, <1>4, <1>5 DEF IInv, KeyInv, In
  <1>9. CoverInv'
    BY <1>2, <1>4, <1>5 DEF IInv, CoverInv, Read, Sees, Queued, Live
  <1>10. SerialInv'
    BY <1>2, <1>4, <1>5 DEF IInv, SerialInv, Detecting, Merges, In, Pending, Members, Live
  <1>11. OneVerdictIfSerial'
    BY <1>5 DEF IInv, OneVerdictIfSerial, Live
  <1>12. OneGroupInv'
    BY <1>2, <1>4, <1>5 DEF IInv, OneGroupInv, Detecting, Pending, Live
  <1> QED
    BY <1>4, <1>7, <1>8, <1>9, <1>10, <1>11, <1>12 DEF IInv

-----------------------------------------------------------------------------
\* The entries of a check become visible

LEMMA CommitEntriesKeeps ==
  ASSUME IInv, NEW s \in Surat, CommitEntries(s)
  PROVE  IInv'
  <1>1. TypeOK /\ detect[s] \in Detection
    BY DEF IInv, TypeOK
  <1> DEFINE new == [status |-> "pending", group |-> detect[s].group, key |-> detect[s].key]
             d == [NoDetection EXCEPT !.pc = "done"]
  <1>2. d \in Detection /\ d.pc = "done" /\ d.sibs = {} /\ d.adds = {}
    BY DEF Detection, NoDetection
  <1>3. new \in Entry
    BY <1>1 DEF Detection, Entry
  <1>4. /\ queue' \in [Surat -> [Surat -> Entry]]
        /\ \A t \in Surat : queue'[s][t] = IF t \in detect[s].adds THEN new ELSE queue[s][t]
        /\ \A b \in Surat : b # s => queue'[b] = queue[b]
    BY <1>1, <1>3 DEF CommitEntries, TypeOK
  <1>5. new.status = "pending" /\ new.group = detect[s].group /\ new.key = detect[s].key
    OBVIOUS
  <1> HIDE DEF new
  <1>6. /\ detect' \in [Surat -> Detection] /\ detect'[s] = d
        /\ \A x \in Surat : x # s => detect'[x] = detect[x]
    BY <1>1, <1>2 DEF CommitEntries, TypeOK
  <1> HIDE DEF d
  <1>7. /\ surat' = surat /\ merge' = merge /\ canon' = canon /\ hand' = hand /\ mixed' = mixed
        /\ hands' = hands
    BY DEF CommitEntries
  <1>8. /\ detect[s].pc = "entries" /\ detect[s].sibs = {} /\ s \in detect[s].adds
        /\ detect[s].group \in Surat /\ detect[s].adds \subseteq Surat
        /\ \A t \in Surat : ~In(s, t)
    BY <1>1 DEF CommitEntries, IInv, CheckInv, Detection
  <1>9. TypeOK'
    BY <1>4, <1>6, <1>7 DEF IInv, TypeOK
  <1>10. \A b, t \in Surat :
           \/ queue'[b][t] = queue[b][t] /\ ~(b = s /\ t \in detect[s].adds)
           \/ b = s /\ t \in detect[s].adds /\ queue'[b][t] = new /\ ~In(b, t)
    BY <1>4, <1>8
  <1>11. CheckInv'
    <2>1. \A b, t \in Surat : In(b, t) => queue'[b][t] = queue[b][t] /\ queue'[b][b] = queue[b][b]
      BY <1>8, <1>10 DEF IInv, CheckInv
    <2>2. queue'[s][s] = new
      BY <1>8, <1>10
    <2>3. \A x \in Surat : detect[x].pc = "done" => detect'[x].pc = "done"
      BY <1>2, <1>6
    <2>4. detect'[detect[s].group].pc = "done"
      BY <2>3, <1>2, <1>6, <1>8 DEF IInv, CheckInv
    <2>5. ASSUME NEW b \in Surat, NEW t \in Surat, In(b, t)'
          PROVE  /\ detect'[b].pc = "done" /\ surat'[t].st # "none"
                 /\ queue'[b][t].group \in Surat /\ detect'[queue'[b][t].group].pc = "done"
                 /\ In(b, b)' /\ queue'[b][b].group = queue'[b][t].group
                 /\ queue'[b][b].key = queue'[b][t].key
      <3>1. CASE In(b, t)
        BY <3>1, <2>1, <2>3, <1>7 DEF IInv, CheckInv, In
      <3>2. CASE ~In(b, t)
        <4>1. b = s /\ t \in detect[s].adds /\ queue'[b][t] = new
          BY <3>2, <2>5, <1>10 DEF In
        <4> QED
          BY <4>1, <2>2, <2>4, <1>2, <1>5, <1>6, <1>7, <1>8 DEF IInv, CheckInv, In
      <3> QED
        BY <3>1, <3>2
    <2>6. ASSUME NEW x \in Surat
          PROVE  /\ surat'[x].st = "none" => detect'[x].pc = "none"
                 /\ \A t \in detect'[x].sibs \cup detect'[x].adds : surat'[t].st # "none"
                 /\ x \notin detect'[x].sibs
                 /\ detect'[x].pc \in {"none", "own", "siblings"} =>
                      detect'[x].sibs \cup detect'[x].adds = {}
                 /\ detect'[x].pc = "entries" =>
                      x \in detect'[x].adds /\ detect'[x].group \in Surat
                 /\ detect'[x].pc = "entries" /\ detect'[x].group # x =>
                      detect'[detect'[x].group].pc = "done"
      BY <2>3, <1>2, <1>6, <1>7, <1>8 DEF IInv, CheckInv
    <2> QED
      BY <2>5, <2>6 DEF CheckInv
  <1>12. MergeInv'
    BY <1>7 DEF IInv, MergeInv
  <1>13. KeyInv'
    <2>1. ASSUME NEW b \in Surat, NEW t \in Surat, In(b, t)'
          PROVE  /\ t \notin hand => queue'[b][t].key = surat[t].key
                 /\ hand = {} => queue'[b][t].key = surat[queue'[b][t].group].key
      BY <2>1, <1>5, <1>8, <1>10 DEF IInv, KeyInv, In
    <2> QED
      BY <2>1, <1>2, <1>6, <1>7 DEF IInv, KeyInv
  <1>14. CoverInv'
    <2>1. \A t \in Surat : Queued(t) \/ t \in detect[s].adds => Queued(t)'
      BY <1>5, <1>10 DEF Queued, In
    <2>2. \A x, y \in Surat : Sees(x, y) => Sees(x, y)'
      BY <2>1, <1>2, <1>6, <1>8 DEF Sees
    <2> QED
      BY <2>2, <1>2, <1>6, <1>7, <1>8 DEF IInv, CoverInv, Read, Live
  <1>15. SerialInv'
    <2>1. \A x \in Surat : x \in Detecting' => x \in Detecting /\ x # s
      BY <1>2, <1>6 DEF Detecting
    <2>2. s \in Detecting
      BY <1>8 DEF Detecting
    <2>3. ~mixed => Detecting' = {} /\ Merges = {}
      BY <2>1, <2>2 DEF IInv, SerialInv, Detecting
    <2> QED
      BY <2>3, <1>7 DEF SerialInv, Detecting, Merges
  <1>16. OneVerdictIfSerial'
    <2>1. ASSUME ~mixed, NEW b \in Surat, NEW t \in Surat, In(b, t)',
                 queue'[b][t].group = detect[s].group
          PROVE  Pending(b, t)'
      BY <2>1, <1>5, <1>8, <1>10 DEF IInv, SerialInv, In, Pending
    <2> QED
      BY <2>1, <1>5, <1>7, <1>10 DEF IInv, OneVerdictIfSerial, In, Pending, Live
  <1>17. OneGroupInv'
    <2>1. s \in Detecting
      BY <1>8 DEF Detecting
    <2>2. ASSUME ~mixed, hand = {}, NEW b \in Surat, NEW t \in Surat, Pending(b, t)'
          PROVE  /\ Live(t)
                 /\ queue'[b][t].key = detect[s].key => queue'[b][t].group = detect[s].group
      BY <2>1, <2>2, <1>5, <1>8, <1>10 DEF IInv, OneGroupInv, Pending
    <2>3. ~mixed => Detecting' = {}
      BY <2>1, <1>2, <1>6 DEF IInv, SerialInv, Detecting
    <2>4. \A x \in Surat : ~mixed => detect'[x].pc \notin {"group", "entries"}
      BY <2>3 DEF Detecting
    <2> QED
      BY <2>2, <2>3, <2>4, <1>5, <1>7, <1>10 DEF IInv, OneGroupInv, Pending, Live
  <1> QED
    BY <1>9, <1>11, <1>13, <1>14, <1>15, <1>16, <1>17, <1>12 DEF IInv

-----------------------------------------------------------------------------
\* Merges

\* Only the merge m changes, to q; what is said of surat and checks stays.
LEMMA MergeMoves ==
  ASSUME IInv, NEW m \in Merger, NEW q \in Merging, merge' = [merge EXCEPT ![m] = q],
         mixed' \in BOOLEAN, mixed => mixed',
         q.open => q.group \in Surat /\ q.canon \in Surat,
         ~q.open => q.todo = {},
         \A s \in q.todo \cup q.held : surat[s].st # "none",
         UNCHANGED <<surat, detect, queue, canon, hand, hands>>
  PROVE  /\ TypeOK' /\ CheckInv' /\ MergeInv' /\ KeyInv' /\ CoverInv'
         /\ OneVerdictIfSerial' /\ OneGroupInv'
         /\ merge'[m] = q /\ \A n \in Merger : n # m => merge'[n] = merge[n]
  <1>1. TypeOK' /\ merge'[m] = q /\ \A n \in Merger : n # m => merge'[n] = merge[n]
    BY DEF IInv, TypeOK
  <1>2. CheckInv' /\ MergeInv' /\ KeyInv'
    <2>1. CheckInv' /\ KeyInv'
      BY DEF IInv, CheckInv, KeyInv, In
    <2>2. MergeInv'
      BY <1>1 DEF IInv, MergeInv
    <2> QED
      BY <2>1, <2>2
  <1>3. CoverInv'
    BY DEF IInv, CoverInv, Read, Sees, Queued, Live
  <1>4. OneVerdictIfSerial'
    BY DEF IInv, OneVerdictIfSerial, Live
  <1>5. OneGroupInv'
    BY DEF IInv, OneGroupInv, Detecting, Pending, Live
  <1> QED
    BY <1>1, <1>2, <1>3, <1>4, <1>5

LEMMA MergeBeginKeeps ==
  ASSUME IInv, NEW m \in Merger, NEW g \in Surat, NEW c \in Surat, MergeBegin(m, g, c)
  PROVE  IInv'
  <1> DEFINE q == [open |-> TRUE, group |-> g, canon |-> c, todo |-> Members(g) \ {c},
                   held |-> {}]
  <1>1. /\ q \in Merging /\ q.open /\ q.group = g /\ q.canon = c
        /\ q.todo = Members(g) \ {c} /\ q.held = {}
    BY DEF Merging, Members
  <1>2. merge' = [merge EXCEPT ![m] = q]
    BY DEF MergeBegin
  <1> HIDE DEF q
  <1>3. /\ UNCHANGED <<surat, detect, queue, canon, hand, hands>>
        /\ mixed' \in BOOLEAN /\ (mixed => mixed')
        /\ ~mixed' => ~mixed /\ Detecting = {} /\ Merges = {}
        /\ c \in Members(g)
    BY DEF MergeBegin, Overlap, IInv, TypeOK
  <1>4. /\ TypeOK' /\ CheckInv' /\ MergeInv' /\ KeyInv' /\ CoverInv'
        /\ OneVerdictIfSerial' /\ OneGroupInv'
        /\ merge'[m] = q /\ \A n \in Merger : n # m => merge'[n] = merge[n]
    <2>1. \A s \in q.todo \cup q.held : surat[s].st # "none"
      BY <1>1 DEF Members, IInv, CheckInv, In
    <2> QED
      BY <2>1, <1>1, <1>2, <1>3, MergeMoves
  <1>5. SerialInv'
    <2>1. ~mixed' => Detecting' = {} /\ Merges' = {m}
      BY <1>1, <1>3, <1>4 DEF Detecting, Merges
    <2> QED
      BY <2>1, <1>1, <1>3, <1>4 DEF SerialInv, Members, Live, Detecting
  <1> QED
    BY <1>4, <1>5 DEF IInv

LEMMA MergeDeleteKeeps ==
  ASSUME IInv, NEW m \in Merger, NEW s \in Surat, MergeDelete(m, s)
  PROVE  IInv'
  <1>1. TypeOK /\ merge[m] \in Merging
    BY DEF IInv, TypeOK
  <1> DEFINE held == IF Live(s) THEN merge[m].held \cup {s} ELSE merge[m].held
             q == [merge[m] EXCEPT !.todo = merge[m].todo \ {s}, !.held = held]
  <1>2. /\ held \in SUBSET Surat /\ merge[m].held \subseteq held
        /\ held \subseteq merge[m].held \cup {s} /\ (Live(s) => s \in held)
    BY <1>1 DEF Merging
  <1>3. /\ q \in Merging /\ q.open = merge[m].open /\ q.group = merge[m].group
        /\ q.canon = merge[m].canon /\ q.todo = merge[m].todo \ {s} /\ q.held = held
    <2> HIDE DEF held
    <2> QED BY <1>1, <1>2 DEF Merging
  <1>4. merge' = [merge EXCEPT ![m] = q]
    BY <1>1 DEF MergeDelete, TypeOK
  <1> HIDE DEF q, held
  <1>5. /\ UNCHANGED <<surat, detect, queue, canon, hand, hands>> /\ mixed' = mixed
        /\ mixed \in BOOLEAN /\ s \in merge[m].todo
    BY DEF MergeDelete, IInv, TypeOK
  <1>6. /\ TypeOK' /\ CheckInv' /\ MergeInv' /\ KeyInv' /\ CoverInv'
        /\ OneVerdictIfSerial' /\ OneGroupInv'
        /\ merge'[m] = q /\ \A n \in Merger : n # m => merge'[n] = merge[n]
    <2>1. /\ q.open => q.group \in Surat /\ q.canon \in Surat
          /\ ~q.open => q.todo = {}
          /\ \A x \in q.todo \cup q.held : surat[x].st # "none"
      BY <1>2, <1>3, <1>5 DEF IInv, MergeInv
    <2> QED
      BY <2>1, <1>3, <1>4, <1>5, MergeMoves
  <1>7. SerialInv'
    <2>1. Merges' = Merges /\ Detecting' = Detecting
      BY <1>3, <1>5, <1>6 DEF Merges, Detecting
    <2>2. \A x \in Surat : Members(x)' = Members(x)
      BY <1>5 DEF Members
    <2>3. ASSUME ~mixed, m \in Merges
          PROVE  /\ q.canon \in Members(q.group)
                 /\ q.todo \cup q.held \subseteq Members(q.group)
                 /\ \A x \in Members(q.group) :
                      x = q.canon \/ x \in q.todo \cup q.held \cup hand \/ ~Live(x)
      BY <2>3, <1>2, <1>3, <1>5 DEF IInv, SerialInv
    <2>4. ASSUME ~mixed, NEW n \in Merges
          PROVE  /\ merge'[n].canon \in Members(merge'[n].group)
                 /\ merge'[n].todo \cup merge'[n].held \subseteq Members(merge'[n].group)
                 /\ \A x \in Members(merge'[n].group) :
                      x = merge'[n].canon \/ x \in merge'[n].todo \cup merge'[n].held \cup hand
                                         \/ ~Live(x)
      <3>1. CASE n = m
        BY <2>3, <2>4, <3>1, <1>6
      <3>2. CASE n # m
        <4>1. merge'[n] = merge[n]
          BY <3>2, <1>6 DEF Merges
        <4> QED
          BY <2>4, <4>1 DEF IInv, SerialInv
      <3> QED
        BY <3>1, <3>2
    <2>5. ~mixed => /\ \A x, b, t \in Surat : detect[x].pc = "entries" /\ In(b, t)
                              /\ queue[b][t].group = detect[x].group => Pending(b, t)
                    /\ \A x, y \in Detecting : x = y
                    /\ \A n, k \in Merges : n = k
                    /\ Detecting = {} \/ Merges = {}
      BY DEF IInv, SerialInv
    <2>6. (~mixed => /\ \A x, b, t \in Surat : detect[x].pc = "entries" /\ In(b, t)
                               /\ queue[b][t].group = detect[x].group => Pending(b, t)
                     /\ \A x, y \in Detecting : x = y
                     /\ \A n, k \in Merges : n = k
                     /\ Detecting = {} \/ Merges = {})'
      BY <2>5, <2>1, <1>5 DEF In, Pending
    <2>7. (~mixed => \A n \in Merges :
             /\ merge[n].canon \in Members(merge[n].group)
             /\ merge[n].todo \cup merge[n].held \subseteq Members(merge[n].group)
             /\ \A x \in Members(merge[n].group) :
                  x = merge[n].canon \/ x \in merge[n].todo \cup merge[n].held \cup hand
                                    \/ ~Live(x))'
      BY <2>4, <2>1, <1>5 DEF Members, Live
    <2> QED
      BY <2>6, <2>7 DEF SerialInv
  <1> QED
    BY <1>6, <1>7 DEF IInv

LEMMA MergeFailKeeps ==
  ASSUME IInv, NEW m \in Merger, MergeFail(m)
  PROVE  IInv'
  <1>1. /\ UNCHANGED <<surat, detect, queue, canon, hand, hands>> /\ mixed' = mixed
        /\ mixed \in BOOLEAN /\ merge' = [merge EXCEPT ![m] = NoMerging]
    BY DEF MergeFail, IInv, TypeOK
  <1>2. /\ TypeOK' /\ CheckInv' /\ MergeInv' /\ KeyInv' /\ CoverInv'
        /\ OneVerdictIfSerial' /\ OneGroupInv'
        /\ merge'[m] = NoMerging /\ \A n \in Merger : n # m => merge'[n] = merge[n]
    BY <1>1, NoTypes, MergeMoves DEF NoMerging
  <1>3. SerialInv'
    <2>1. Merges' \subseteq Merges \ {m} /\ Detecting' = Detecting
      BY <1>1, <1>2 DEF Merges, Detecting, NoMerging
    <2> QED
      BY <2>1, <1>1, <1>2 DEF IInv, SerialInv, Members, Live, In, Pending
  <1> QED
    BY <1>2, <1>3 DEF IInv

-----------------------------------------------------------------------------
\* Verdicts

\* A verdict changes the status of what is pending in one group, and nothing else
\* of any entry.
LEMMA Verdict ==
  ASSUME TypeOK, NEW g \in Surat, NEW status \in {"merged", "kept_both"},
         queue' = Resolved(g, status)
  PROVE  /\ queue' \in [Surat -> [Surat -> Entry]]
         /\ \A b, s \in Surat :
              /\ queue'[b][s].group = queue[b][s].group /\ queue'[b][s].key = queue[b][s].key
              /\ queue'[b][s].status = IF Pending(b, s) /\ queue[b][s].group = g THEN status
                                                                              ELSE queue[b][s].status
              /\ In(b, s)' <=> In(b, s)
              /\ Pending(b, s)' <=> Pending(b, s) /\ queue[b][s].group # g
  <1>1. \A b, s \in Surat : queue[b][s] \in Entry
    BY DEF TypeOK
  <1>2. \A b, s \in Surat : [queue[b][s] EXCEPT !.status = status] \in Entry
    BY <1>1 DEF Entry
  <1>3. \A b, s \in Surat :
          queue'[b][s] = IF Pending(b, s) /\ queue[b][s].group = g
                         THEN [queue[b][s] EXCEPT !.status = status] ELSE queue[b][s]
    BY DEF Resolved, Pending
  <1>4. queue' \in [Surat -> [Surat -> Entry]]
    BY <1>1, <1>2 DEF Resolved
  <1>5. ASSUME NEW b \in Surat, NEW s \in Surat
        PROVE  /\ queue'[b][s].group = queue[b][s].group /\ queue'[b][s].key = queue[b][s].key
               /\ queue'[b][s].status = IF Pending(b, s) /\ queue[b][s].group = g THEN status
                                                                               ELSE queue[b][s].status
    <2> DEFINE r == queue[b][s]
    <2>1. r \in Entry
      BY <1>1
    <2>2. CASE Pending(b, s) /\ queue[b][s].group = g
      <3>1. queue'[b][s] = [r EXCEPT !.status = status]
        BY <2>2, <1>3
      <3> HIDE DEF r
      <3>2. /\ [r EXCEPT !.status = status].group = r.group
            /\ [r EXCEPT !.status = status].key = r.key
            /\ [r EXCEPT !.status = status].status = status
        BY <2>1 DEF Entry
      <3>3. queue'[b][s].group = r.group /\ queue'[b][s].key = r.key
            /\ queue'[b][s].status = status
        BY <3>1, <3>2
      <3> USE DEF r
      <3> QED
        BY <3>3, <2>2
    <2>3. CASE ~(Pending(b, s) /\ queue[b][s].group = g)
      <3>1. queue'[b][s] = queue[b][s]
        BY <2>3, <1>3
      <3> QED
        BY <3>1, <2>3
    <2> QED
      BY <2>2, <2>3
  <1>6. status # "none" /\ status # "pending"
    OBVIOUS
  <1> QED
    BY <1>4, <1>5, <1>6 DEF In, Pending

\* What a verdict leaves as it was, whatever surat are deleted with it.
LEMMA VerdictKeeps ==
  ASSUME IInv, NEW g \in Surat, NEW status \in {"merged", "kept_both"},
         queue' = Resolved(g, status), NEW X \in SUBSET Surat,
         surat' = [s \in Surat |-> IF s \in X THEN [surat[s] EXCEPT !.st = "deleted"]
                                             ELSE surat[s]],
         \A s \in X : surat[s].st # "none",
         UNCHANGED <<detect, hand, hands>>
  PROVE  /\ queue' \in [Surat -> [Surat -> Entry]] /\ surat' \in [Surat -> SuratRow]
         /\ \A s \in Surat : /\ surat'[s].key = surat[s].key
                             /\ Live(s)' <=> Live(s) /\ s \notin X
                             /\ surat'[s].st = "none" <=> surat[s].st = "none"
         /\ CheckInv' /\ KeyInv' /\ CoverInv'
  <1>1. /\ queue' \in [Surat -> [Surat -> Entry]]
        /\ \A b, s \in Surat :
             /\ queue'[b][s].group = queue[b][s].group /\ queue'[b][s].key = queue[b][s].key
             /\ In(b, s)' <=> In(b, s)
    BY Verdict DEF IInv
  <1>2. \A s \in Surat : surat[s] \in SuratRow
    BY DEF IInv, TypeOK
  <1>3. \A s \in Surat : [surat[s] EXCEPT !.st = "deleted"] \in SuratRow
    BY <1>2 DEF SuratRow
  <1>4. surat' \in [Surat -> SuratRow]
    BY <1>2, <1>3
  <1>5. \A s \in Surat : /\ surat'[s].key = surat[s].key
                         /\ surat'[s].st = IF s \in X THEN "deleted" ELSE surat[s].st
    BY <1>2 DEF SuratRow
  <1>6. \A s \in Surat : /\ Live(s)' <=> Live(s) /\ s \notin X
                         /\ surat'[s].st = "none" <=> surat[s].st = "none"
    BY <1>5 DEF Live
  <1>7. \A s \in Surat : detect[s] \in Detection
    BY DEF IInv, TypeOK
  <1>8. CheckInv'
    BY <1>1, <1>6, <1>7 DEF IInv, CheckInv, Detection
  <1>9. KeyInv'
    <2>1. ASSUME NEW s \in Surat, detect'[s].pc \in {"siblings", "group", "entries"}
          PROVE  /\ s \notin hand' => detect'[s].key = surat'[s].key
                 /\ \A t \in (detect'[s].sibs \cup detect'[s].adds) \ hand' :
                      detect'[s].key = surat'[t].key
                 /\ detect'[s].pc = "entries" /\ hand' = {} =>
                      detect'[s].key = surat'[detect'[s].group].key
      <3>1. /\ detect[s].pc = "entries" => detect[s].group \in Surat
            /\ detect[s].sibs \cup detect[s].adds \subseteq Surat
        BY <1>7 DEF IInv, CheckInv, Detection
      <3> QED
        BY <2>1, <3>1, <1>5 DEF IInv, KeyInv
    <2>2. ASSUME NEW b \in Surat, NEW s \in Surat, In(b, s)'
          PROVE  /\ s \notin hand' => queue'[b][s].key = surat'[s].key
                 /\ hand' = {} => queue'[b][s].key = surat'[queue'[b][s].group].key
      <3>1. In(b, s) /\ queue[b][s].group \in Surat
        BY <2>2, <1>1 DEF IInv, CheckInv
      <3> QED
        BY <3>1, <1>1, <1>5 DEF IInv, KeyInv
    <2> QED
      BY <2>1, <2>2 DEF KeyInv
  <1>10. CoverInv'
    <2>1. \A s \in Surat : Queued(s)' <=> Queued(s)
      BY <1>1 DEF Queued, In
    <2> QED
      BY <2>1, <1>5, <1>6 DEF IInv, CoverInv, Read, Sees
  <1> QED
    BY <1>1, <1>4, <1>5, <1>6, <1>8, <1>9, <1>10 DEF Live

LEMMA KeepBothKeeps ==
  ASSUME IInv, NEW g \in Surat, KeepBoth(g)
  PROVE  IInv'
  <1>1. queue' = Resolved(g, "kept_both")
    BY DEF KeepBoth
  <1>2. /\ UNCHANGED <<surat, detect, merge, canon, hand, hands>>
        /\ mixed' \in BOOLEAN /\ (mixed => mixed')
        /\ ~mixed' => ~mixed /\ Detecting = {} /\ Merges = {}
        /\ Members(g) # {}
    BY DEF KeepBoth, Overlap, IInv, TypeOK
  <1>3. surat' = [s \in Surat |-> IF s \in {} THEN [surat[s] EXCEPT !.st = "deleted"]
                                              ELSE surat[s]]
    BY <1>2 DEF IInv, TypeOK
  <1>4. queue' \in [Surat -> [Surat -> Entry]] /\ CheckInv' /\ KeyInv' /\ CoverInv'
    BY <1>1, <1>2, <1>3, VerdictKeeps
  <1>5. MergeInv'
    BY <1>2 DEF IInv, MergeInv
  <1>6. /\ \A b, s \in Surat :
             /\ queue'[b][s].group = queue[b][s].group /\ queue'[b][s].key = queue[b][s].key
             /\ queue'[b][s].status = IF Pending(b, s) /\ queue[b][s].group = g
                                      THEN "kept_both" ELSE queue[b][s].status
             /\ In(b, s)' <=> In(b, s)
             /\ Pending(b, s)' <=> Pending(b, s) /\ queue[b][s].group # g
    BY <1>1, Verdict DEF IInv
  <1>7. TypeOK'
    BY <1>2, <1>4 DEF IInv, TypeOK
  <1>8. ~mixed' => Detecting' = {} /\ Merges' = {}
    BY <1>2 DEF Detecting, Merges
  <1>9. SerialInv'
    BY <1>8 DEF SerialInv, Detecting, Merges
  <1>10. OneVerdictIfSerial'
    <2>1. PICK b \in Surat, s \in Surat : Pending(b, s) /\ queue[b][s].group = g
      BY <1>2 DEF Members, Pending
    <2>2. \A e, t \in Surat : ~mixed /\ In(e, t) /\ queue[e][t].group = g => Pending(e, t)
      BY <2>1 DEF IInv, OneVerdictIfSerial, In, Pending
    <2>3. ASSUME ~mixed', NEW e \in Surat, NEW t \in Surat, In(e, t)'
          PROVE  /\ In(e, t) /\ queue'[e][t].group = queue[e][t].group
                 /\ queue[e][t].group = g => queue'[e][t].status = "kept_both"
                 /\ queue[e][t].group # g => queue'[e][t].status = queue[e][t].status
      BY <2>2, <2>3, <1>2, <1>6
    <2>4. ASSUME ~mixed', NEW e \in Surat, NEW t \in Surat, NEW f \in Surat, NEW u \in Surat,
                 In(e, t)', In(f, u)', queue'[e][t].group = queue'[f][u].group
          PROVE  queue'[e][t].status = queue'[f][u].status
      <3>1. queue[e][t].group = queue[f][u].group /\ In(e, t) /\ In(f, u)
        BY <2>3, <2>4
      <3>2. queue[e][t].status = queue[f][u].status
        BY <3>1, <2>4, <1>2 DEF IInv, OneVerdictIfSerial, In
      <3> QED
        BY <3>1, <3>2, <2>3, <2>4
    <2>5. ASSUME ~mixed', NEW e \in Surat, NEW t \in Surat, In(e, t)',
                 queue'[e][t].status = "merged"
          PROVE  t = canon'[queue'[e][t].group] \/ ~Live(t)' \/ t \in hand'
      <3>1. In(e, t) /\ queue[e][t].status = "merged"
        BY <2>3, <2>5
      <3>2. t = canon[queue[e][t].group] \/ ~Live(t) \/ t \in hand
        BY <3>1, <2>5, <1>2 DEF IInv, OneVerdictIfSerial, In
      <3> QED
        BY <3>2, <2>3, <2>5, <1>2 DEF Live
    <2> QED
      BY <2>4, <2>5 DEF OneVerdictIfSerial, In, Live
  <1>11. OneGroupInv'
    <2>1. ~mixed' => \A s \in Surat : detect'[s].pc \notin {"group", "entries"}
      BY <1>8 DEF Detecting
    <2> QED
      BY <2>1, <1>2, <1>6, <1>8 DEF IInv, OneGroupInv, Live
  <1> QED
    BY <1>4, <1>7, <1>9, <1>10, <1>11, <1>5 DEF IInv

LEMMA MergeCommitKeeps ==
  ASSUME IInv, NEW m \in Merger, MergeCommit(m)
  PROVE  IInv'
  <1>1. /\ merge[m] \in Merging /\ merge[m].open /\ merge[m].todo = {}
        /\ merge[m].held \in SUBSET Surat
    BY DEF MergeCommit, IInv, TypeOK, Merging
  <1>2. PICK g \in Surat, c \in Surat : g = merge[m].group /\ c = merge[m].canon
    BY <1>1 DEF IInv, MergeInv
  <1>3. PICK X \in SUBSET Surat : X = merge[m].held
    BY <1>1
  <1>4. /\ queue' = Resolved(g, "merged") /\ canon' = [canon EXCEPT ![g] = c]
        /\ surat' = [s \in Surat |-> IF s \in X THEN [surat[s] EXCEPT !.st = "deleted"]
                                                ELSE surat[s]]
        /\ UNCHANGED <<detect, hand, hands, mixed>>
    BY <1>2, <1>3 DEF MergeCommit
  <1>5. merge' \in [Merger -> Merging] /\ merge'[m] = NoMerging
        /\ \A n \in Merger : n # m => merge'[n] = merge[n]
    BY NoTypes DEF MergeCommit, IInv, TypeOK
  <1>6. canon' \in [Surat -> Surat \cup {NoSurat}] /\ canon'[g] = c
        /\ \A x \in Surat : x # g => canon'[x] = canon[x]
    BY <1>4 DEF IInv, TypeOK
  <1>7. \A s \in X : surat[s].st # "none"
    BY <1>3 DEF IInv, MergeInv
  <1>8. /\ queue' \in [Surat -> [Surat -> Entry]] /\ surat' \in [Surat -> SuratRow]
        /\ \A s \in Surat : /\ surat'[s].key = surat[s].key
                            /\ Live(s)' <=> Live(s) /\ s \notin X
                            /\ surat'[s].st = "none" <=> surat[s].st = "none"
        /\ CheckInv' /\ KeyInv' /\ CoverInv'
    BY <1>4, <1>7, VerdictKeeps
  <1>9. \A b, s \in Surat :
          /\ queue'[b][s].group = queue[b][s].group /\ queue'[b][s].key = queue[b][s].key
          /\ queue'[b][s].status = IF Pending(b, s) /\ queue[b][s].group = g
                                   THEN "merged" ELSE queue[b][s].status
          /\ In(b, s)' <=> In(b, s)
          /\ Pending(b, s)' <=> Pending(b, s) /\ queue[b][s].group # g
    BY <1>4, Verdict DEF IInv
  <1>10. hand' = hand /\ detect' = detect /\ mixed' = mixed /\ hands' = hands
    BY <1>4
  <1>11. TypeOK'
    BY <1>5, <1>6, <1>8, <1>10 DEF IInv, TypeOK
  <1>12. MergeInv'
    <2>1. \A n \in Merger : merge[n].todo \cup merge[n].held \subseteq Surat
      BY DEF IInv, TypeOK, Merging
    <2> QED
      BY <2>1, <1>5, <1>8 DEF IInv, MergeInv, NoMerging, Live
  <1>13. ~mixed => /\ Detecting = {} /\ Merges = {m}
                   /\ c \in Members(g) /\ X \subseteq Members(g)
                   /\ \A s \in Members(g) : s = c \/ s \in X \cup hand \/ ~Live(s)
    BY <1>1, <1>2, <1>3 DEF IInv, SerialInv, Merges
  <1>14. ~mixed' => Detecting' = {} /\ Merges' = {}
    BY <1>5, <1>10, <1>13 DEF Detecting, Merges, NoMerging
  <1>15. SerialInv'
    BY <1>14 DEF SerialInv, Detecting, Merges
  <1>16. OneVerdictIfSerial'
    <2>1. \A e, t \in Surat : ~mixed /\ In(e, t) /\ queue[e][t].group = g => Pending(e, t)
      <3>1. ~mixed => \E b \in Surat : Pending(b, c) /\ queue[b][c].group = g
        BY <1>13 DEF Members, Pending
      <3> QED
        BY <3>1 DEF IInv, OneVerdictIfSerial, In, Pending
    <2>2. ASSUME ~mixed', NEW e \in Surat, NEW t \in Surat, In(e, t)'
          PROVE  /\ In(e, t) /\ queue'[e][t].group = queue[e][t].group
                 /\ queue[e][t].group = g => queue'[e][t].status = "merged" /\ t \in Members(g)
                 /\ queue[e][t].group # g => queue'[e][t].status = queue[e][t].status
      BY <2>1, <2>2, <1>9, <1>10 DEF Members, Pending
    <2>3. ASSUME ~mixed', NEW e \in Surat, NEW t \in Surat, NEW f \in Surat, NEW u \in Surat,
                 In(e, t)', In(f, u)', queue'[e][t].group = queue'[f][u].group
          PROVE  queue'[e][t].status = queue'[f][u].status
      <3>1. queue[e][t].group = queue[f][u].group /\ In(e, t) /\ In(f, u)
        BY <2>2, <2>3
      <3>2. queue[e][t].status = queue[f][u].status
        BY <3>1, <2>3, <1>10 DEF IInv, OneVerdictIfSerial, In
      <3> QED
        BY <3>1, <3>2, <2>2, <2>3
    <2>4. ASSUME ~mixed', NEW e \in Surat, NEW t \in Surat, In(e, t)',
                 queue'[e][t].status = "merged"
          PROVE  t = canon'[queue'[e][t].group] \/ ~Live(t)' \/ t \in hand'
      <3>1. CASE queue[e][t].group = g
        BY <3>1, <2>2, <2>4, <1>6, <1>8, <1>10, <1>13 DEF Live
      <3>2. CASE queue[e][t].group # g
        <4>1. In(e, t) /\ queue[e][t].status = "merged" /\ queue[e][t].group \in Surat
          BY <3>2, <2>2, <2>4 DEF IInv, CheckInv
        <4>2. t = canon[queue[e][t].group] \/ ~Live(t) \/ t \in hand
          BY <4>1, <2>4, <1>10 DEF IInv, OneVerdictIfSerial, In
        <4> QED
          BY <4>1, <4>2, <3>2, <2>2, <2>4, <1>6, <1>8, <1>10 DEF Live
      <3> QED
        BY <3>1, <3>2
    <2> QED
      BY <2>3, <2>4 DEF OneVerdictIfSerial, In, Live
  <1>17. OneGroupInv'
    <2>1. ASSUME ~mixed, hand = {}, NEW b \in Surat, NEW s \in Surat, Pending(b, s)'
          PROVE  Live(s)' /\ Pending(b, s)
      <3>1. Pending(b, s) /\ queue[b][s].group # g /\ Live(s)
        BY <2>1, <1>9 DEF IInv, OneGroupInv
      <3>2. ASSUME s \in X
            PROVE  FALSE
        <4>1. PICK e \in Surat : Pending(e, s) /\ queue[e][s].group = g
          BY <3>2, <2>1, <1>13 DEF Members, Pending
        <4>2. queue[e][s].key = surat[s].key /\ queue[b][s].key = surat[s].key
          BY <4>1, <3>1, <2>1 DEF IInv, KeyInv, In, Pending
        <4> QED
          BY <4>1, <4>2, <3>1, <2>1 DEF IInv, OneGroupInv
      <3> QED
        BY <3>1, <3>2, <1>8 DEF Live
    <2>2. \A s \in Surat : ~mixed' => detect'[s].pc \notin {"group", "entries"}
      BY <1>14 DEF Detecting
    <2>3. ASSUME ~mixed', hand' = {}, NEW b \in Surat, NEW s \in Surat, NEW e \in Surat,
                 NEW t \in Surat, Pending(b, s)', Pending(e, t)',
                 queue'[b][s].key = queue'[e][t].key
          PROVE  queue'[b][s].group = queue'[e][t].group
      <3>1. Pending(b, s) /\ Pending(e, t) /\ queue[b][s].key = queue[e][t].key
        BY <2>3, <1>9
      <3>2. queue[b][s].group = queue[e][t].group
        BY <3>1, <2>3, <1>10 DEF IInv, OneGroupInv
      <3> QED
        BY <3>2, <1>9
    <2> QED
      BY <2>1, <2>2, <2>3, <1>10, <1>14 DEF OneGroupInv
  <1> QED
    BY <1>8, <1>11, <1>12, <1>15, <1>16, <1>17 DEF IInv

-----------------------------------------------------------------------------
\* Single surat

\* A new surat: nothing knows of it yet.
LEMMA CreateKeeps ==
  ASSUME IInv, NEW s \in Surat, NEW k \in Key, Create(s, k)
  PROVE  IInv'
  <1>1. /\ surat[s].st = "none" /\ detect[s] \in Detection
        /\ surat \in [Surat -> SuratRow] /\ detect \in [Surat -> Detection]
    BY DEF Create, IInv, TypeOK
  <1> DEFINE r == [st |-> "live", key |-> k]
             d == [detect[s] EXCEPT !.pc = "own"]
  <1>2. r \in SuratRow /\ r.st = "live"
    BY DEF SuratRow
  <1>3. /\ d \in Detection /\ d.pc = "own" /\ d.sibs = detect[s].sibs /\ d.adds = detect[s].adds
    BY <1>1 DEF Detection
  <1>4. surat' = [surat EXCEPT ![s] = r] /\ detect' = [detect EXCEPT ![s] = d]
    BY <1>1 DEF Create
  <1> HIDE DEF r, d
  <1>5. /\ surat' \in [Surat -> SuratRow] /\ surat'[s] = r
        /\ \A x \in Surat : x # s => surat'[x] = surat[x]
        /\ detect' \in [Surat -> Detection] /\ detect'[s] = d
        /\ \A x \in Surat : x # s => detect'[x] = detect[x]
    BY <1>1, <1>2, <1>3, <1>4
  <1>6. /\ queue' = queue /\ merge' = merge /\ canon' = canon /\ hand' = hand
        /\ mixed' = mixed /\ hands' = hands
    BY DEF Create
  <1>7. /\ detect[s].pc = "none" /\ detect[s].sibs = {} /\ detect[s].adds = {}
        /\ \A x \in Surat : s \notin detect[x].sibs \cup detect[x].adds
        /\ \A x \in Surat : detect[x].pc = "entries" => detect[x].group \in Surat
                                                      /\ detect[x].group # s
        /\ \A b, x \in Surat : In(b, x) => b # s /\ x # s /\ queue[b][x].group \in Surat
                                                           /\ queue[b][x].group # s
    BY <1>1 DEF IInv, CheckInv
  <1>8. \A x \in Surat : detect[x].sibs \cup detect[x].adds \subseteq Surat
    BY <1>1 DEF Detection
  <1>9. TypeOK'
    BY <1>5, <1>6 DEF IInv, TypeOK
  <1>10. CheckInv'
    BY <1>2, <1>3, <1>5, <1>6, <1>7, <1>8 DEF IInv, CheckInv, In
  <1>11. MergeInv'
    <2>1. \A m \in Merger : merge[m].todo \cup merge[m].held \subseteq Surat
      BY DEF IInv, TypeOK, Merging
    <2> QED
      BY <2>1, <1>2, <1>5, <1>6 DEF IInv, MergeInv
  <1>12. KeyInv'
    BY <1>3, <1>5, <1>6, <1>7, <1>8 DEF IInv, KeyInv, In
  <1>13. CoverInv'
    BY <1>3, <1>5, <1>6, <1>7 DEF IInv, CoverInv, Read, Sees, Queued, Live
  <1>14. \A g \in Surat : s \notin Members(g)
    BY <1>7 DEF Members, In
  <1>15. SerialInv'
    <2>1. Detecting' = Detecting /\ Merges' = Merges
      BY <1>3, <1>5, <1>6, <1>7 DEF Detecting, Merges
    <2>2. \A m \in Merges : merge[m].group \in Surat
      BY DEF IInv, MergeInv, Merges
    <2>3. (~mixed => /\ \A x, b, t \in Surat : detect[x].pc = "entries" /\ In(b, t)
                               /\ queue[b][t].group = detect[x].group => Pending(b, t)
                     /\ \A x, y \in Detecting : x = y
                     /\ \A n, k2 \in Merges : n = k2
                     /\ Detecting = {} \/ Merges = {})'
      BY <2>1, <1>3, <1>5, <1>6 DEF IInv, SerialInv, In, Pending
    <2>4. ASSUME ~mixed, NEW m \in Merges
          PROVE  /\ merge[m].canon \in Members(merge[m].group)
                 /\ merge[m].todo \cup merge[m].held \subseteq Members(merge[m].group)
                 /\ \A x \in Members(merge[m].group) :
                      /\ x # s /\ x \in Surat
                      /\ x = merge[m].canon \/ x \in merge[m].todo \cup merge[m].held \cup hand
                                            \/ ~Live(x)
      <3>1. Members(merge[m].group) \subseteq Surat
        BY DEF Members
      <3> QED
        BY <3>1, <2>2, <2>4, <1>14 DEF IInv, SerialInv
    <2>5. (~mixed => \A m \in Merges :
             /\ merge[m].canon \in Members(merge[m].group)
             /\ merge[m].todo \cup merge[m].held \subseteq Members(merge[m].group)
             /\ \A x \in Members(merge[m].group) :
                  x = merge[m].canon \/ x \in merge[m].todo \cup merge[m].held \cup hand
                                    \/ ~Live(x))'
      BY <2>1, <2>4, <1>5, <1>6 DEF Members, Live
    <2> QED
      BY <2>3, <2>5 DEF SerialInv
  <1>16. OneVerdictIfSerial'
    BY <1>5, <1>6, <1>7 DEF IInv, OneVerdictIfSerial, Live, In
  <1>17. OneGroupInv'
    <2>1. Detecting' = Detecting /\ s \notin Detecting
      BY <1>3, <1>5, <1>7 DEF Detecting
    <2>2. \A b, x \in Surat : Pending(b, x) => x # s
      BY <1>7 DEF Pending, In
    <2>3. ASSUME ~mixed, hand = {}
          PROVE  /\ \A b, x \in Surat : Pending(b, x) => Live(x)'
                 /\ \A x \in Detecting : \A t \in detect[x].sibs \cup detect[x].adds \cup {x} :
                      Live(t)'
      BY <2>1, <2>2, <2>3, <1>5, <1>7, <1>8 DEF IInv, OneGroupInv, Live, Detecting
    <2>4. \A x \in Surat : detect'[x].pc \in {"group", "entries"} => detect'[x] = detect[x]
      BY <1>3, <1>5
    <2>5. \A x \in Detecting : detect'[x] = detect[x]
      BY <2>1, <1>5 DEF Detecting
    <2>6. ASSUME ~mixed, hand = {}
          PROVE  \A x, b, t \in Surat :
                   /\ detect'[x].pc = "group" /\ Pending(b, t) /\ queue[b][t].key = detect'[x].key
                        => t \in detect'[x].sibs \cup {x}
                   /\ detect'[x].pc = "entries" /\ Pending(b, t) /\ queue[b][t].key = detect'[x].key
                        => queue[b][t].group = detect'[x].group
      BY <2>4, <2>6 DEF IInv, OneGroupInv
    <2>7. ~mixed /\ hand = {} => \A b, x, e, t \in Surat :
            Pending(b, x) /\ Pending(e, t) /\ queue[b][x].key = queue[e][t].key
              => queue[b][x].group = queue[e][t].group
      BY DEF IInv, OneGroupInv
    <2> QED
      BY <2>1, <2>3, <2>5, <2>6, <2>7, <1>6 DEF OneGroupInv, Pending, Live
  <1> QED
    BY <1>9, <1>10, <1>11, <1>12, <1>13, <1>15, <1>16, <1>17 DEF IInv

\* A surat is edited, deleted or restored by hand.
LEMMA HandKeeps ==
  ASSUME IInv, NEW s \in Surat, NEW r \in SuratRow, r.st # "none", surat[s].st # "none",
         surat' = [surat EXCEPT ![s] = r], hand' = hand \cup {s}, hands' = hands + 1,
         UNCHANGED <<detect, queue, merge, canon, mixed>>
  PROVE  IInv'
  <1>1. /\ surat' \in [Surat -> SuratRow] /\ surat'[s] = r
        /\ \A x \in Surat : x # s => surat'[x] = surat[x]
        /\ \A x \in Surat : surat'[x].st = "none" <=> surat[x].st = "none"
    BY DEF IInv, TypeOK
  <1>2. TypeOK'
    BY <1>1 DEF IInv, TypeOK
  <1>3. \A x \in Surat : detect[x].sibs \cup detect[x].adds \subseteq Surat
    BY DEF IInv, TypeOK, Detection
  <1>4. CheckInv'
    BY <1>1, <1>3 DEF IInv, CheckInv, In
  <1>5. MergeInv'
    <2>1. \A m \in Merger : merge[m].todo \cup merge[m].held \subseteq Surat
      BY DEF IInv, TypeOK, Merging
    <2> QED
      BY <2>1, <1>1 DEF IInv, MergeInv
  <1>6. KeyInv'
    <2>1. \A x \in Surat : x \notin hand' => x \notin hand /\ surat'[x] = surat[x]
      BY <1>1
    <2>2. hand' # {}
      OBVIOUS
    <2>3. \A x \in Surat : detect[x].pc \in {"siblings", "group", "entries"} =>
            /\ x \notin hand => detect[x].key = surat[x].key
            /\ \A t \in (detect[x].sibs \cup detect[x].adds) \ hand : detect[x].key = surat[t].key
      BY DEF IInv, KeyInv
    <2>4. \A b, x \in Surat : In(b, x) /\ x \notin hand => queue[b][x].key = surat[x].key
      BY DEF IInv, KeyInv
    <2>5. ASSUME NEW x \in Surat, detect'[x].pc \in {"siblings", "group", "entries"}
          PROVE  /\ x \notin hand' => detect'[x].key = surat'[x].key
                 /\ \A t \in (detect'[x].sibs \cup detect'[x].adds) \ hand' :
                      detect'[x].key = surat'[t].key
      BY <2>1, <2>3, <2>5, <1>3
    <2>6. ASSUME NEW b \in Surat, NEW x \in Surat, In(b, x)', x \notin hand'
          PROVE  queue'[b][x].key = surat'[x].key
      BY <2>1, <2>4, <2>6 DEF In
    <2> QED
      BY <2>2, <2>5, <2>6 DEF KeyInv, In
  <1>7. CoverInv'
    <2>1. \A x \in Surat : x \notin hand' => x \notin hand /\ surat'[x] = surat[x]
      BY <1>1
    <2>2. ASSUME NEW x \in Surat, NEW y \in Surat,
                 x # y, Live(x)', Live(y)', surat'[x].key = surat'[y].key,
                 {x, y} \cap hand' = {}, detect'[x].pc \in Read, detect'[y].pc \in Read
          PROVE  Sees(x, y) \/ Sees(y, x)
      <3>1. x \notin hand' /\ y \notin hand'
        BY <2>2
      <3>2. Live(x) /\ Live(y) /\ surat[x].key = surat[y].key /\ {x, y} \cap hand = {}
        BY <2>1, <2>2, <3>1 DEF Live
      <3> QED
        BY <2>2, <3>2 DEF IInv, CoverInv
    <2> QED
      BY <2>2 DEF CoverInv, Sees, Queued, Live, Read
  <1>8. SerialInv'
    <2>1. \A m \in Merger : Members(merge[m].group) \subseteq Surat
      BY DEF Members
    <2>2. (~mixed => /\ \A x, b, t \in Surat : detect[x].pc = "entries" /\ In(b, t)
                               /\ queue[b][t].group = detect[x].group => Pending(b, t)
                     /\ \A x, y \in Detecting : x = y
                     /\ \A n, k \in Merges : n = k
                     /\ Detecting = {} \/ Merges = {})'
      BY DEF IInv, SerialInv, In, Pending, Detecting, Merges
    <2>3. (~mixed => \A m \in Merges :
             /\ merge[m].canon \in Members(merge[m].group)
             /\ merge[m].todo \cup merge[m].held \subseteq Members(merge[m].group)
             /\ \A x \in Members(merge[m].group) :
                  x = merge[m].canon \/ x \in merge[m].todo \cup merge[m].held \cup hand
                                    \/ ~Live(x))'
      BY <1>1 DEF IInv, SerialInv, Members, Live, Merges
    <2> QED
      BY <2>2, <2>3 DEF SerialInv
  <1>9. OneVerdictIfSerial'
    BY <1>1 DEF IInv, OneVerdictIfSerial, Live
  <1>10. OneGroupInv'
    BY DEF OneGroupInv
  <1> QED
    BY <1>2, <1>4, <1>5, <1>6, <1>7, <1>8, <1>9, <1>10 DEF IInv

LEMMA ByHandKeeps ==
  ASSUME IInv, NEW s \in Surat,
         SoftDelete(s) \/ Restore(s) \/ \E k \in Key : EditKey(s, k)
  PROVE  IInv'
  <1>1. surat[s] \in SuratRow
    BY DEF IInv, TypeOK
  <1>2. ASSUME NEW st \in {"live", "deleted"}
        PROVE  /\ [surat[s] EXCEPT !.st = st] \in SuratRow
               /\ [surat[s] EXCEPT !.st = st].st = st
    BY <1>1 DEF SuratRow
  <1>3. ASSUME NEW k \in Key
        PROVE  /\ [surat[s] EXCEPT !.key = k] \in SuratRow
               /\ [surat[s] EXCEPT !.key = k].st = surat[s].st
    BY <1>1 DEF SuratRow
  <1>4. CASE SoftDelete(s)
    <2>1. surat' = [surat EXCEPT ![s] = [surat[s] EXCEPT !.st = "deleted"]]
      BY <1>4 DEF SoftDelete
    <2> QED
      BY <1>2, <1>4, <2>1, HandKeeps DEF SoftDelete, ByHand, Live
  <1>5. CASE Restore(s)
    <2>1. surat' = [surat EXCEPT ![s] = [surat[s] EXCEPT !.st = "live"]]
      BY <1>5 DEF Restore
    <2> QED
      BY <1>2, <1>5, <2>1, HandKeeps DEF Restore, ByHand, Live
  <1>6. ASSUME NEW k \in Key, EditKey(s, k)
        PROVE  IInv'
    <2>1. surat' = [surat EXCEPT ![s] = [surat[s] EXCEPT !.key = k]]
      BY <1>6 DEF EditKey
    <2> QED
      BY <1>3, <1>6, <2>1, HandKeeps DEF EditKey, ByHand, Live
  <1> QED
    BY <1>4, <1>5, <1>6

-----------------------------------------------------------------------------
\* The invariant

LEMMA Initial == Init => IInv
  <1> SUFFICES ASSUME Init PROVE IInv
    OBVIOUS
  <1>1. /\ \A s \in Surat : surat[s].st = "none" /\ detect[s].pc = "none"
                            /\ detect[s].sibs = {} /\ detect[s].adds = {}
        /\ \A b, s \in Surat : queue[b][s].status = "none"
        /\ \A m \in Merger : merge[m].open = FALSE /\ merge[m].todo = {} /\ merge[m].held = {}
    BY DEF Init, NoDetection, NoEntry, NoMerging
  <1>2. TypeOK
    BY NoTypes DEF Init, TypeOK, SuratRow
  <1> QED
    BY <1>1, <1>2 DEF IInv, CheckInv, MergeInv, KeyInv, CoverInv, SerialInv, OneVerdictIfSerial,
                      OneGroupInv, In, Pending, Read, Detecting, Merges

LEMMA Stuttering ==
  ASSUME IInv, UNCHANGED vars
  PROVE  IInv'
  <1>1. TypeOK' /\ CheckInv' /\ MergeInv' /\ KeyInv'
    BY DEF vars, IInv, TypeOK, CheckInv, MergeInv, KeyInv, In
  <1>2. CoverInv' /\ OneVerdictIfSerial' /\ OneGroupInv'
    BY DEF vars, IInv, CoverInv, Read, Sees, Queued, Live, OneVerdictIfSerial, OneGroupInv,
           Detecting, Pending
  <1>3. SerialInv'
    BY DEF vars, IInv, SerialInv, Detecting, Merges, Members, Live, In, Pending
  <1> QED
    BY <1>1, <1>2, <1>3 DEF IInv

LEMMA Inductive == IInv /\ [Next]_vars => IInv'
  <1> SUFFICES ASSUME IInv, [Next]_vars PROVE IInv'
    OBVIOUS
  <1>1. CASE Writers
    BY <1>1, CreateKeeps, ByHandKeeps DEF Writers
  <1>2. CASE Checks
    BY <1>2, ReadOwnKeeps, ReadSiblingsKeeps, PickGroupKeeps, QueueSiblingKeeps,
       CommitEntriesKeeps, DetectFailKeeps DEF Checks
  <1>3. CASE Supervisors
    BY <1>3, MergeBeginKeeps, MergeDeleteKeeps, MergeCommitKeeps, MergeFailKeeps, KeepBothKeeps
       DEF Supervisors
  <1>4. CASE UNCHANGED vars
    BY <1>4, Stuttering
  <1> QED
    BY <1>1, <1>2, <1>3, <1>4 DEF Next

\* Whatever checks, merges and edits overlap, the invariant of the queue holds.
THEOREM Invariance == Spec => []IInv
  BY Initial, Inductive, PTL DEF Spec

\* Two surat with one key, both alive, unedited and checked to the end, are both in the
\* queue, for every interleaving of the requests that created them: of the two
\* checks of CreateReconciliationGroupIfDuplicate, the later one saw the other surat.
THEOREM DuplicatesAreQueued == Spec => []DetectedPairsQueued
  <1>1. IInv => DetectedPairsQueued
    BY DEF IInv, CoverInv, Read, Sees, DetectedPairsQueued
  <1> QED
    BY <1>1, Invariance, PTL

\* As long as the transactions do not overlap, a group of the queue is merged or kept as
\* a whole, and MergeReconciliationGroup leaves one live surat of it.
THEOREM OneVerdict == Spec => []OneVerdictIfSerial
  <1>1. IInv => OneVerdictIfSerial
    BY DEF IInv
  <1> QED
    BY <1>1, Invariance, PTL

\* As long as the transactions do not overlap and nothing is done by hand, a surat is
\* pending in one group at most.
THEOREM OneGroup == Spec => []OneGroupIfSerial
  <1>1. IInv => OneGroupIfSerial
    <2> SUFFICES ASSUME IInv, ~mixed, hand = {}, NEW s \in Surat
                 PROVE  Cardinality(PendingIn(s)) <= 1
      BY DEF OneGroupIfSerial
    <2>1. ASSUME NEW g \in PendingIn(s), NEW h \in PendingIn(s)
          PROVE  g = h
      <3>1. PICK b \in Surat : Pending(b, s) /\ queue[b][s].group = g
        BY DEF PendingIn, Members, Pending
      <3>2. PICK e \in Surat : Pending(e, s) /\ queue[e][s].group = h
        BY DEF PendingIn, Members, Pending
      <3>3. queue[b][s].key = surat[s].key /\ queue[e][s].key = surat[s].key
        BY <3>1, <3>2 DEF IInv, KeyInv, In, Pending
      <3> QED
        BY <3>1, <3>2, <3>3 DEF IInv, OneGroupInv
    <2>2. CASE PendingIn(s) = {}
      BY <2>2, FS_EmptySet
    <2>3. CASE PendingIn(s) # {}
      <3>1. PICK g : g \in PendingIn(s)
        BY <2>3
      <3>2. PendingIn(s) = {g}
        BY <2>1, <3>1
      <3> QED
        BY <3>2, FS_Singleton
    <2> QED
      BY <2>2, <2>3
  <1> QED
    BY <1>1, Invariance, PTL

\* While nothing is edited by hand, the entries of a group carry one key: a check puts
\* its surat into a group of its own key only, even when other checks run.
THEOREM GroupKeys == Spec => []GroupKeysIfUnedited
  <1>1. IInv => GroupKeysIfUnedited
    BY DEF IInv, KeyInv, GroupKeysIfUnedited, In
  <1> QED
    BY <1>1, Invariance, PTL

\* No step changes an entry that was merged or kept: neither a verdict on the same group,
\* nor a check that finds the surat again.
THEOREM DecisionsStand == Spec => ResolvedOnce
  <1> DEFINE Stands == \A b, s \in Surat : queue[b][s].status \in {"merged", "kept_both"} =>
                                            queue'[b][s] = queue[b][s]
  <1>1. IInv /\ [Next]_vars => Stands
    <2> SUFFICES ASSUME IInv, [Next]_vars, NEW b \in Surat, NEW s \in Surat,
                        queue[b][s].status \in {"merged", "kept_both"}
                 PROVE  queue'[b][s] = queue[b][s]
      OBVIOUS
    <2>1. CASE queue' = queue
      BY <2>1
    <2>2. ASSUME NEW g, NEW status, queue' = Resolved(g, status)
          PROVE  queue'[b][s] = queue[b][s]
      BY <2>2 DEF Resolved
    <2>3. ASSUME NEW t \in Surat, CommitEntries(t)
          PROVE  queue'[b][s] = queue[b][s]
      <3>1. b # t
        BY <2>3 DEF CommitEntries, IInv, CheckInv, In
      <3> QED
        BY <2>3, <3>1 DEF CommitEntries, IInv, TypeOK
    <2>4. CASE Writers
      BY <2>1, <2>4 DEF Writers, Create, EditKey, SoftDelete, Restore
    <2>5. CASE Checks
      BY <2>1, <2>3, <2>5 DEF Checks, ReadOwn, ReadSiblings, PickGroup, QueueSibling, DetectFail
    <2>6. CASE Supervisors
      <3>1. ASSUME NEW m \in Merger, MergeCommit(m)
            PROVE  queue'[b][s] = queue[b][s]
        BY <2>2, <3>1 DEF MergeCommit
      <3>2. ASSUME NEW g \in Surat, KeepBoth(g)
            PROVE  queue'[b][s] = queue[b][s]
        BY <2>2, <3>2 DEF KeepBoth
      <3> QED
        BY <2>1, <2>6, <3>1, <3>2 DEF Supervisors, MergeBegin, MergeDelete, MergeFail
    <2>7. CASE UNCHANGED vars
      BY <2>1, <2>7 DEF vars
    <2> QED
      BY <2>4, <2>5, <2>6, <2>7 DEF Next
  <1>2. Spec => [][Stands]_vars
    BY <1>1, Invariance, PTL DEF Spec
  <1> QED
    BY <1>2 DEF ResolvedOnce

=============================================================================
