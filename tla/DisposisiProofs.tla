--------------------------- MODULE DisposisiProofs ---------------------------
(***************************************************************************)
(* Theorems about Disposisi, for every set of users, surat, rows and       *)
(* requests and every bound; the same with the cards of DisposisiCard on   *)
(* top, and what the cards make of a server that lets any status follow    *)
(* any other.                                                              *)
(***************************************************************************)
EXTENDS DisposisiCard, FiniteSetTheorems, TLAPS

Working == {"insert", "list", "notify"}

\* What RequestsFit, TodoFits and NobodyForgotten say of one request.
Fit(m) ==
  /\ m.pc = "idle" => m = IdleReq
  /\ m.pc # "idle" => m.surat \in Surat /\ m.by \in User
  /\ m.pc = "verify" => m.row = None
  /\ m.pc \in Working => m.row \in Row /\ \E i \in DOMAIN order : order[i] = m.row
  /\ m.pc \in {"verify", "insert"} => m.by \in IF m.to = None THEN Writer ELSE Assigner
  /\ m.pc = "insert" => row[m.row] = NoRow /\ \A u \in User : ~Heard(u, m.row)
  /\ m.pc \in {"list", "notify"} =>
       /\ row[m.row].kind = IF m.to = None THEN "komentar" ELSE "disposisi"
       /\ row[m.row].surat = m.surat
       /\ row[m.row].by = m.by
  /\ m.pc = "list" => m.to = None /\ \A u \in User : ~Heard(u, m.row)

Todo(m) ==
  /\ m.pc # "notify" => m.todo = {}
  /\ \A u \in m.todo : ~Heard(u, m.row) /\ u # row[m.row].by /\ Concerned(u, m.row)

Full(m) ==
  m.pc = "notify" /\ ~row[m.row].cut => \A u \in Due(m.row) : Heard(u, m.row) \/ u \in m.todo

Sound(m) == Fit(m) /\ Todo(m) /\ Full(m)

LEMMA IdleType == IdleReq \in RequestRec
  BY DEF IdleReq, RequestRec

LEMMA NoRowType == NoRow \in RowRec
  BY DEF NoRow, RowRec

LEMMA IdleSound == Sound(IdleReq)
  BY DEF Sound, Fit, Todo, Full, IdleReq, Working

LEMMA AllSound ==
  ASSUME IInv, NEW r \in Request
  PROVE  /\ Sound(req[r]) /\ req[r] \in RequestRec
         /\ req[r].row \in Row <=> req[r].pc \in Working
         /\ req[r].row \in Row => \A q \in Request \ {r} : req[q].row # req[r].row
  <1>1. req[r] \in RequestRec
    BY DEF IInv, TypeOK
  <1>2. Fit(req[r])
    BY DEF IInv, RequestsFit, Fit, Working
  <1>3. Todo(req[r]) /\ Full(req[r])
    BY DEF IInv, TodoFits, NobodyForgotten, Todo, Full
  <1>4. req[r].row \in Row <=> req[r].pc \in Working
    BY <1>1, <1>2, NullAssumption DEF Fit, Working, RequestRec, IdleReq
  <1>5. req[r].pc \in Working => \A q \in Request \ {r} : req[q].row # req[r].row
    BY DEF IInv, RequestsFit, Working
  <1> QED
    BY <1>1, <1>2, <1>3, <1>4, <1>5 DEF Sound

-----------------------------------------------------------------------------
\* What every step keeps

Same(e) ==
  /\ row'[e].kind = row[e].kind /\ row'[e].surat = row[e].surat /\ row'[e].by = row[e].by
  /\ row'[e].to = row[e].to /\ row'[e].before = row[e].before

\* Rows, their order and notifications only become more.
Grows ==
  /\ \A e \in Row : row[e].kind # "none" => Same(e)
  /\ \A i \in DOMAIN order : i \in DOMAIN order' /\ order'[i] = order[i]
  /\ \A u \in User, e \in Row : Heard(u, e) => Heard(u, e)'

LEMMA DisposisiStay ==
  ASSUME Grows, NEW s
  PROVE  /\ DisposisiOf(s) \subseteq DisposisiOf(s)'
         /\ \A d \in DisposisiOf(s) : Parties(d)' = Parties(d)
  BY DEF Grows, Same, DisposisiOf, Parties

LEMMA ConcernStays ==
  ASSUME Grows, NEW e \in Row, row[e].kind # "none", NEW u, Concerned(u, e)
  PROVE  Concerned(u, e)'
  <1>1. Same(e)
    BY DEF Grows
  <1>2. CASE u = row[e].to
    BY <1>1, <1>2 DEF Same, Concerned
  <1>3. CASE u # row[e].to
    <2>1. PICK d \in DisposisiOf(row[e].surat) : u \in Parties(d)
      BY <1>3 DEF Concerned
    <2> DEFINE s == row[e].surat
    <2>2. d \in DisposisiOf(s)' /\ u \in Parties(d)'
      <3>1. PICK c : c = s
        OBVIOUS
      <3>2. d \in DisposisiOf(c)' /\ u \in Parties(d)'
        BY <2>1, <3>1, DisposisiStay
      <3>3. row'[d].kind = "disposisi" /\ row'[d].surat = c /\ d \in Row
        BY <3>2 DEF DisposisiOf
      <3> QED
        BY <1>1, <3>1, <3>2, <3>3 DEF DisposisiOf, Same
    <2> QED
      BY <1>1, <2>2 DEF Concerned, Same, DisposisiOf
  <1> QED
    BY <1>2, <1>3

\* Newer rows only push a disposisi out of the list.
LEMMA DueShrinks ==
  ASSUME IInv, Grows, NEW e \in Row, row[e].kind # "none"
  PROVE  Due(e)' \subseteq Due(e)
  <1>1. Same(e)
    BY DEF Grows
  <1>2. CASE row[e].kind = "disposisi"
    BY <1>1, <1>2 DEF Due, Same
  <1>3. CASE row[e].kind # "disposisi"
    <2>1. PICK s : s = row[e].surat
      OBVIOUS
    <2>2. row[e].before \subseteq DisposisiOf(s)
      <3>1. row[e].kind = "komentar"
        BY <1>3 DEF IInv, TypeOK, RowRec
      <3> QED
        BY <2>1, <3>1 DEF IInv, RowsFit
    <2>3. ASSUME NEW b \in row[e].before, (Cardinality(Newer(b, DisposisiOf(s))) < Limit)'
          PROVE  Cardinality(Newer(b, DisposisiOf(s))) < Limit
      <3>1. PICK N : N = Newer(b, DisposisiOf(s))
        OBVIOUS
      <3>2. PICK M : M = Newer(b, DisposisiOf(s))'
        OBVIOUS
      <3>3. N \subseteq M
        BY <3>1, <3>2, DisposisiStay DEF Grows, Newer
      <3>4. M \subseteq Row
        BY <3>2 DEF Newer, DisposisiOf
      <3>5. IsFiniteSet(M)
        BY <3>4, RowAssumption, FS_Subset
      <3>6. IsFiniteSet(N) /\ Cardinality(N) <= Cardinality(M)
        BY <3>3, <3>5, FS_Subset
      <3>7. Cardinality(N) \in Nat /\ Cardinality(M) \in Nat
        BY <3>5, <3>6, FS_CardinalityType
      <3>8. Cardinality(M) < Limit
        BY <2>3, <3>2
      <3> QED
        BY <3>1, <3>6, <3>7, <3>8, BoundAssumption
    <2>4. ASSUME NEW u \in Due(e)'
          PROVE  u \in Due(e)
      <3>1. PICK b \in row[e].before :
              (Cardinality(Newer(b, DisposisiOf(s))) < Limit)' /\ u \in Parties(b)'
        BY <1>1, <1>3, <2>1, <2>4 DEF Due, Same
      <3>2. u # row[e].by
        BY <1>1, <1>3, <2>4 DEF Due, Same
      <3>3. u \in Parties(b)
        BY <2>2, <3>1, DisposisiStay
      <3> QED
        BY <1>3, <2>1, <2>3, <3>1, <3>2, <3>3 DEF Due
    <2> QED
      BY <2>4
  <1> QED
    BY <1>2, <1>3

LEMMA DueUsers ==
  ASSUME IInv, NEW e \in Row, row[e].kind # "none"
  PROVE  Due(e) \subseteq User
  <1>1. \A d \in DisposisiOf(row[e].surat) : Parties(d) \subseteq User
    BY SetAssumption DEF IInv, RowsFit, DisposisiOf, Parties
  <1>2. CASE row[e].kind = "disposisi"
    BY <1>2 DEF Due, IInv, RowsFit
  <1>3. CASE row[e].kind # "disposisi"
    <2>1. row[e].before \subseteq DisposisiOf(row[e].surat)
      BY <1>3 DEF IInv, RowsFit, TypeOK, RowRec
    <2> QED
      BY <1>1, <1>3, <2>1 DEF Due
  <1> QED
    BY <1>2, <1>3

\* A request whose row a step leaves alone stays sound.
LEMMA OthersSound ==
  ASSUME IInv, Grows, NEW m \in RequestRec, Sound(m),
         m.row \in Row => /\ row'[m.row] = row[m.row]
                          /\ \A u \in User : Heard(u, m.row)' => Heard(u, m.row)
  PROVE  Sound(m)'
  <1>1. \A u \in User : m.row \in Row => (Heard(u, m.row)' <=> Heard(u, m.row))
    BY DEF Grows
  <1>2. m.todo \subseteq User
    BY DEF RequestRec
  <1>3. m.pc \in Working => m.row \in Row
    BY DEF Sound, Fit
  <1>4. Fit(m)'
    BY <1>1, <1>3 DEF Sound, Fit, Grows, Working
  <1>5. Todo(m)'
    <2>1. ASSUME NEW u \in m.todo
          PROVE  (~Heard(u, m.row) /\ u # row[m.row].by /\ Concerned(u, m.row))'
      <3>1. m.pc = "notify" /\ m.row \in Row /\ row[m.row].kind # "none"
        BY <1>3, <2>1 DEF Sound, Todo, Fit, Working
      <3>2. ~Heard(u, m.row) /\ u # row[m.row].by /\ Concerned(u, m.row)
        BY <2>1 DEF Sound, Todo
      <3>3. Concerned(u, m.row)'
        BY <3>1, <3>2, ConcernStays
      <3> QED
        BY <1>1, <1>2, <2>1, <3>1, <3>2, <3>3
    <2> QED
      BY <2>1 DEF Sound, Todo
  <1>6. Full(m)'
    <2>1. ASSUME m.pc = "notify", ~row'[m.row].cut, NEW u \in Due(m.row)'
          PROVE  Heard(u, m.row)' \/ u \in m.todo
      <3>1. m.row \in Row /\ row[m.row].kind # "none" /\ ~row[m.row].cut
        BY <1>3, <2>1 DEF Sound, Fit, Working
      <3>2. u \in Due(m.row)
        BY <2>1, <3>1, DueShrinks
      <3>3. Heard(u, m.row) \/ u \in m.todo
        BY <2>1, <3>1, <3>2 DEF Sound, Full
      <3>4. u \in User
        BY <3>1, <3>2, DueUsers
      <3> QED
        BY <1>1, <3>1, <3>3, <3>4
    <2> QED
      BY <2>1 DEF Full
  <1> QED
    BY <1>4, <1>5, <1>6 DEF Sound

\* Sound requests, each with a row of its own, are most of the invariant.
LEMMA Assemble ==
  ASSUME TypeOK', RowsFit', InboxFits', Notified',
         \A r \in Request : Sound(req[r])',
         \A r \in Request : req'[r].pc \in Working =>
           \A q \in Request \ {r} : req'[q].row # req'[r].row
  PROVE  IInv'
  <1>1. RequestsFit'
    BY DEF RequestsFit, Sound, Fit, Working
  <1>2. TodoFits'
    BY DEF TodoFits, Sound, Todo
  <1>3. NobodyForgotten'
    BY DEF NobodyForgotten, Sound, Full
  <1> QED
    BY <1>1, <1>2, <1>3 DEF IInv

\* A row whose request is not in the step stays accounted for.
LEMMA NotifiedStays ==
  ASSUME IInv, Grows, NEW e \in Row, row'[e] = row[e], row[e].kind # "none",
         NEW r \in Request, req[r].row # e,
         \A q \in Request \ {r} : req'[q].row = req[q].row /\ req'[q].pc = req[q].pc
  PROVE  (Pending(e) \/ row[e].cut \/ \A u \in Due(e) : Heard(u, e))'
  <1>1. CASE Pending(e)
    BY <1>1 DEF Pending
  <1>2. CASE row[e].cut
    BY <1>2
  <1>3. CASE \A u \in Due(e) : Heard(u, e)
    <2>1. ASSUME NEW u \in Due(e)'
          PROVE  Heard(u, e)'
      BY <1>3, <2>1, DueShrinks, DueUsers DEF Grows
    <2> QED
      BY <2>1
  <1> QED
    BY <1>1, <1>2, <1>3 DEF IInv, Notified

\* The step of one request.
LEMMA Frame ==
  ASSUME IInv, TypeOK', Grows, RowsFit', InboxFits',
         NEW r \in Request, NEW m \in RequestRec, req' = [req EXCEPT ![r] = m], Sound(m)',
         m.pc \in Working => \A q \in Request \ {r} : req[q].row # m.row,
         \A e \in Row : e # req[r].row =>
           row'[e] = row[e] /\ \A u \in User : Heard(u, e)' => Heard(u, e),
         NEW k, k = req[r].row,
         k \in Row =>
           \/ row'[k].kind = "none" \/ row'[k].cut
           \/ m.row = k /\ m.pc \in {"list", "notify"}
           \/ (\A u \in Due(k) : Heard(u, k))'
  PROVE  IInv'
  <1>1. req'[r] = m /\ \A q \in Request \ {r} : req'[q] = req[q]
    BY DEF IInv, TypeOK
  <1>2. ASSUME NEW q \in Request
        PROVE  Sound(req[q])'
    <2>1. CASE q = r
      <3>1. req'[q] = m
        BY <1>1, <2>1
      <3> QED
        BY <3>1 DEF Sound, Fit, Todo, Full
    <2>2. CASE q # r
      <3>1. PICK n \in RequestRec : n = req[q] /\ Sound(n)
        BY AllSound
      <3>2. n.row \in Row => n.row # req[r].row
        BY <2>2, <3>1, AllSound
      <3>3. Sound(n)'
        BY <3>1, <3>2, OthersSound
      <3>4. req'[q] = n
        BY <1>1, <2>2, <3>1
      <3> QED
        BY <3>3, <3>4 DEF Sound, Fit, Todo, Full
    <2> QED
      BY <2>1, <2>2
  <1>3. ASSUME NEW q \in Request, req'[q].pc \in Working, NEW p \in Request \ {q}
        PROVE  req'[p].row # req'[q].row
    <2>1. q # r => req[q].pc \in Working /\ req[q].row \in Row
      BY <1>1, <1>3, AllSound
    <2>2. CASE q = r
      BY <1>1, <1>3, <2>2
    <2>3. CASE p = r
      <3>1. q # r
        BY <2>3
      <3>2. req'[q].row = req[q].row /\ req'[q].pc = req[q].pc
        BY <1>1, <3>1
      <3>3. m.row = req[q].row => m.pc \in Working
        <4>1. m.row \in Row => m.pc \in Working
          BY NullAssumption DEF Sound, Fit, IdleReq, Working, RequestRec
        <4> QED
          BY <2>1, <3>1, <4>1
      <3> QED
        BY <1>1, <2>3, <3>1, <3>2, <3>3
    <2>4. CASE q # r /\ p # r
      <3>1. req'[q] = req[q] /\ req'[p] = req[p]
        BY <1>1, <2>4
      <3> QED
        BY <2>1, <2>4, <3>1, AllSound
    <2> QED
      BY <2>2, <2>3, <2>4
  <1>4. Notified'
    <2>1. ASSUME NEW e \in Row, row'[e].kind # "none"
          PROVE  (Pending(e) \/ row[e].cut \/ \A u \in Due(e) : Heard(u, e))'
      <3>1. CASE e = req[r].row
        BY <1>1, <2>1, <3>1 DEF Pending
      <3>2. CASE e # req[r].row
        <4>1. row'[e] = row[e]
          BY <3>2
        <4> QED
          BY <1>1, <2>1, <3>2, <4>1, NotifiedStays
      <3> QED
        BY <3>1, <3>2
    <2> QED
      BY <2>1 DEF Notified
  <1> QED
    BY <1>2, <1>3, <1>4, Assemble

\* What most steps do to the rows and the inboxes.
LEMMA RowsStay ==
  ASSUME IInv, order' = order,
         \A e \in Row : row'[e] = row[e] \/ (row[e].kind # "none" /\ Same(e))
  PROVE  RowsFit'
  <1>1. \A e \in Row : row[e].kind # "none" => Same(e)
    BY DEF Same
  <1>2. \A s : DisposisiOf(s)' = DisposisiOf(s)
    BY <1>1 DEF DisposisiOf, Same
  <1> QED
    BY <1>1 DEF IInv, RowsFit, Same, DisposisiOf

LEMMA InboxStays ==
  ASSUME IInv, Grows, inbox' = inbox
  PROVE  InboxFits'
  <1>1. ASSUME NEW u \in User, NEW i \in DOMAIN inbox[u]
        PROVE  /\ row'[inbox[u][i]].kind # "none" /\ row'[inbox[u][i]].by # u
               /\ Concerned(u, inbox[u][i])'
    <2>1. PICK e \in Row : e = inbox[u][i]
      BY DEF IInv, TypeOK
    <2>2. row[e].kind # "none" /\ row[e].by # u /\ Concerned(u, e)
      BY <2>1 DEF IInv, InboxFits
    <2>3. Same(e) /\ Concerned(u, e)'
      BY <2>2, ConcernStays DEF Grows
    <2> QED
      BY <2>1, <2>2, <2>3 DEF Same
  <1> QED
    BY <1>1 DEF IInv, InboxFits

LEMMA Quiet ==
  ASSUME IInv, row' = row, order' = order, inbox' = inbox
  PROVE  Grows /\ RowsFit' /\ InboxFits'
  <1>1. Grows
    BY DEF Grows, Same, Heard
  <1>2. RowsFit'
    BY DEF IInv, RowsFit, DisposisiOf
  <1>3. InboxFits'
    BY <1>1, InboxStays
  <1> QED
    BY <1>1, <1>2, <1>3

-----------------------------------------------------------------------------
\* Every action keeps the invariant

LEMMA BeginDisposisiKeeps ==
  ASSUME IInv, NEW r \in Request, NEW u \in User, NEW s \in Surat, NEW t \in User,
         BeginDisposisi(r, u, s, t)
  PROVE  IInv'
  <1> DEFINE m == [IdleReq EXCEPT !.pc = "verify", !.surat = s, !.by = u, !.to = t]
  <1>1. req[r] = IdleReq
    BY DEF BeginDisposisi, IInv, RequestsFit
  <1>2. m \in RequestRec /\ req' = [req EXCEPT ![r] = m]
    BY <1>1 DEF BeginDisposisi, IInv, TypeOK, RequestRec, IdleReq
  <1> HIDE DEF m
  <1>3. TypeOK'
    <2>1. req' \in [Request -> RequestRec]
      BY <1>2 DEF IInv, TypeOK
    <2> QED
      BY <2>1 DEF BeginDisposisi, IInv, TypeOK
  <1>4. Grows /\ RowsFit' /\ InboxFits'
    BY Quiet DEF BeginDisposisi
  <1>5. Sound(m)'
    BY NullAssumption DEF BeginDisposisi, Sound, Fit, Todo, Full, Working, IdleReq, m
  <1>6. req[r].row \notin Row /\ m.pc \notin Working
    BY <1>1, NullAssumption DEF IdleReq, Working, m
  <1>7. row' = row /\ inbox' = inbox
    BY DEF BeginDisposisi
  <1> QED
    BY <1>2, <1>3, <1>4, <1>5, <1>6, <1>7, Frame DEF Heard

LEMMA BeginKomentarKeeps ==
  ASSUME IInv, NEW r \in Request, NEW u \in User, NEW s \in Surat, BeginKomentar(r, u, s)
  PROVE  IInv'
  <1> DEFINE m == [IdleReq EXCEPT !.pc = "verify", !.surat = s, !.by = u]
  <1>1. req[r] = IdleReq
    BY DEF BeginKomentar, IInv, RequestsFit
  <1>2. m \in RequestRec /\ req' = [req EXCEPT ![r] = m]
    BY <1>1 DEF BeginKomentar, IInv, TypeOK, RequestRec, IdleReq
  <1> HIDE DEF m
  <1>3. TypeOK'
    <2>1. req' \in [Request -> RequestRec]
      BY <1>2 DEF IInv, TypeOK
    <2> QED
      BY <2>1 DEF BeginKomentar, IInv, TypeOK
  <1>4. Grows /\ RowsFit' /\ InboxFits'
    BY Quiet DEF BeginKomentar
  <1>5. Sound(m)'
    BY NullAssumption DEF BeginKomentar, Sound, Fit, Todo, Full, Working, IdleReq, m
  <1>6. req[r].row \notin Row /\ m.pc \notin Working
    BY <1>1, NullAssumption DEF IdleReq, Working, m
  <1>7. row' = row /\ inbox' = inbox
    BY DEF BeginKomentar
  <1> QED
    BY <1>2, <1>3, <1>4, <1>5, <1>6, <1>7, Frame DEF Heard

LEMMA VerifyKeeps ==
  ASSUME IInv, NEW r \in Request, Verify(r)
  PROVE  IInv'
  <1>1. PICK e \in Unused : /\ order' = Append(order, e)
                            /\ req' = [req EXCEPT ![r].pc = "insert", ![r].row = e]
    BY DEF Verify
  <1>2. e \in Row /\ (\A i \in DOMAIN order : order[i] # e)
    BY <1>1 DEF Unused
  <1>3. row[e] = NoRow /\ \A u \in User : ~Heard(u, e)
    <2>1. row[e] = NoRow
      BY <1>2 DEF IInv, RowsFit
    <2>2. \A u \in User : ~Heard(u, e)
      BY <2>1 DEF IInv, InboxFits, Heard, NoRow
    <2> QED
      BY <2>1, <2>2
  <1>4. \A q \in Request : req[q].row # e
    BY <1>2, AllSound, NullAssumption DEF Sound, Fit
  <1>5. req[r] \in RequestRec /\ req[r].pc = "verify" /\ row' = row /\ inbox' = inbox
    BY DEF Verify, IInv, TypeOK
  <1>6. PICK m \in RequestRec : m = [req[r] EXCEPT !.pc = "insert", !.row = e]
    BY <1>2, <1>5 DEF RequestRec
  <1>7. req' = [req EXCEPT ![r] = m]
    BY <1>1, <1>6 DEF IInv, TypeOK
  <1>8. order \in Seq(Row) /\ DOMAIN order = 1 .. Len(order) /\ Len(order) \in Nat
    BY DEF IInv, TypeOK
  <1>9. /\ DOMAIN order' = DOMAIN order \cup {Len(order) + 1}
        /\ order'[Len(order) + 1] = e
        /\ \A i \in DOMAIN order : order'[i] = order[i]
    BY <1>1, <1>2, <1>8
  <1>10. TypeOK'
    <2>1. req' \in [Request -> RequestRec]
      BY <1>7 DEF IInv, TypeOK
    <2>2. order' \in Seq(Row)
      BY <1>1, <1>2, <1>8
    <2> QED
      BY <2>1, <2>2 DEF Verify, IInv, TypeOK
  <1>11. Grows
    BY <1>5, <1>9 DEF Grows, Same, Heard
  <1>12. RowsFit'
    <2>1. \A i, j \in DOMAIN order' : order'[i] = order'[j] => i = j
      BY <1>2, <1>9 DEF IInv, RowsFit
    <2>2. \A i \in DOMAIN order : i \in DOMAIN order' /\ order'[i] = order[i]
      BY <1>9
    <2>3. \A s : DisposisiOf(s)' = DisposisiOf(s)
      BY <1>5 DEF DisposisiOf
    <2> QED
      BY <1>5, <2>1, <2>2, <2>3 DEF IInv, RowsFit
  <1>13. InboxFits'
    BY <1>5, <1>11, InboxStays
  <1>14. Sound(m)'
    <2>1. Sound(req[r])
      BY AllSound
    <2>2. m.pc = "insert" /\ m.row = e /\ m.todo = {} /\ m.to = req[r].to
            /\ m.by = req[r].by /\ m.surat = req[r].surat
      BY <1>5, <1>6, <2>1 DEF RequestRec, Sound, Todo
    <2>3. \E i \in DOMAIN order' : order'[i] = e
      BY <1>9
    <2>4. row'[e] = NoRow /\ \A u \in User : ~Heard(u, e)'
      BY <1>3, <1>5 DEF Heard
    <2>5. Fit(m)'
      BY <1>2, <1>5, <2>1, <2>2, <2>3, <2>4 DEF Sound, Fit, Working
    <2> QED
      BY <2>2, <2>5 DEF Sound, Todo, Full
  <1>15. req[r].row \notin Row /\ m.row = e
    BY <1>5, <1>6, AllSound, NullAssumption DEF Working, RequestRec
  <1> QED
    BY <1>4, <1>5, <1>7, <1>10, <1>11, <1>12, <1>13, <1>14, <1>15, Frame DEF Heard

LEMMA IdleKeeps ==
  ASSUME IInv, NEW r \in Request, req' = [req EXCEPT ![r] = IdleReq],
         TypeOK', Grows, RowsFit', inbox' = inbox,
         \A e \in Row : e # req[r].row => row'[e] = row[e],
         NEW k, k = req[r].row,
         k \in Row => \/ row'[k].kind = "none" \/ row'[k].cut
                      \/ (\A u \in Due(k) : Heard(u, k))'
  PROVE  IInv'
  <1>1. InboxFits'
    BY InboxStays
  <1>2. Sound(IdleReq)'
    BY DEF Sound, Fit, Todo, Full, IdleReq, Working
  <1>3. \A e \in Row, u \in User : Heard(u, e)' => Heard(u, e)
    BY DEF Heard
  <1>4. IdleReq.pc \notin Working
    BY DEF IdleReq, Working
  <1> QED
    BY <1>1, <1>2, <1>3, <1>4, IdleType, Frame

LEMMA RefuseKeeps ==
  ASSUME IInv, NEW r \in Request, Refuse(r)
  PROVE  IInv'
  <1>1. row' = row /\ order' = order /\ inbox' = inbox /\ req' = [req EXCEPT ![r] = IdleReq]
    BY DEF Refuse
  <1>2. TypeOK'
    BY IdleType DEF Refuse, IInv, TypeOK
  <1>3. req[r].row \notin Row
    BY AllSound DEF Refuse, Working
  <1> QED
    BY <1>1, <1>2, <1>3, Quiet, IdleKeeps

LEMMA AnswerKeeps ==
  ASSUME IInv, NEW r \in Request, Answer(r)
  PROVE  IInv'
  <1>1. row' = row /\ order' = order /\ inbox' = inbox /\ req' = [req EXCEPT ![r] = IdleReq]
    BY DEF Answer
  <1>2. TypeOK'
    BY IdleType DEF Answer, IInv, TypeOK
  <1>3. PICK k \in Row : k = req[r].row
    BY AllSound DEF Answer, Working
  <1>4. row'[k].cut \/ (\A u \in Due(k) : Heard(u, k))'
    <2>1. row[k].cut \/ \A u \in Due(k) : Heard(u, k)
      BY <1>3 DEF Answer, IInv, NobodyForgotten
    <2>2. row[k].kind # "none"
      BY <1>3, AllSound DEF Answer, Sound, Fit
    <2> QED
      BY <1>1, <2>1, <2>2, Quiet, DueShrinks DEF Heard
  <1> QED
    BY <1>1, <1>2, <1>3, <1>4, Quiet, IdleKeeps

LEMMA InsertKeeps ==
  ASSUME IInv, NEW r \in Request, Insert(r)
  PROVE  IInv' /\ Grows
  <1>1. PICK k \in Row : k = req[r].row
    BY AllSound DEF Insert, Working
  <1>2. PICK old \in RequestRec : old = req[r] /\ Sound(old) /\ old.pc = "insert"
    BY AllSound DEF Insert
  <1>3. PICK n : n = NewRow(r)
    OBVIOUS
  <1>4. PICK s \in Surat : s = old.surat
    BY <1>2 DEF Sound, Fit
  <1>5. /\ n.kind = IF old.to = None THEN "komentar" ELSE "disposisi"
        /\ n.surat = s /\ n.by = old.by /\ n.to = old.to
        /\ n.before = (IF old.to = None THEN DisposisiOf(s) ELSE {})
        /\ n.cut = FALSE
    BY <1>2, <1>3, <1>4 DEF NewRow, NoRow
  <1>6. n \in RowRec
    BY <1>2, <1>3 DEF NewRow, NoRow, RowRec, RequestRec, DisposisiOf
  <1>7. PICK m \in RequestRec :
          m = [old EXCEPT !.pc = IF old.to = None THEN "list" ELSE "notify",
                          !.todo = {old.to} \ {None, old.by}]
    BY <1>2 DEF RequestRec
  <1>8. req' = [req EXCEPT ![r] = m]
    BY <1>2, <1>7 DEF Insert, IInv, TypeOK
  <1>9. /\ row' = [row EXCEPT ![k] = n] /\ order' = order /\ inbox' = inbox
        /\ row'[k] = n /\ row[k] = NoRow
        /\ \A e \in Row \ {k} : row'[e] = row[e]
    BY <1>1, <1>2, <1>3 DEF Insert, IInv, TypeOK, Sound, Fit
  <1>10. TypeOK'
    <2>1. row' \in [Row -> RowRec]
      BY <1>6, <1>9 DEF IInv, TypeOK
    <2>2. req' \in [Request -> RequestRec]
      BY <1>8 DEF IInv, TypeOK
    <2> QED
      BY <2>1, <2>2 DEF Insert, IInv, TypeOK
  <1>11. Grows
    BY <1>9 DEF Grows, Same, Heard, NoRow
  <1>12. RowsFit'
    <2>1. \A e \in Row \ {k} :
            /\ row'[e].kind = "none" => row'[e] = NoRow
            /\ row'[e].kind # "none" =>
                 row'[e].surat \in Surat /\ \E i \in DOMAIN order : order[i] = e
            /\ row'[e].kind = "disposisi" => row'[e].by \in Assigner /\ row'[e].to \in User
            /\ row'[e].kind = "komentar" => row'[e].by \in Writer /\ row'[e].to = None
      BY <1>9 DEF IInv, RowsFit
    <2>2. ASSUME NEW e \in Row \ {k}, row'[e].kind = "komentar"
          PROVE  row'[e].before \subseteq
                   {d \in Row : row'[d].kind = "disposisi" /\ row'[d].surat = row'[e].surat}
      <3>1. PICK c : c = row[e].surat
        OBVIOUS
      <3>2. row[e].before \subseteq DisposisiOf(c) /\ row'[e] = row[e]
        BY <1>9, <2>2, <3>1 DEF IInv, RowsFit
      <3>3. row[e].before \subseteq DisposisiOf(c)'
        BY <1>11, <3>2, DisposisiStay
      <3> QED
        BY <3>1, <3>2, <3>3 DEF DisposisiOf
    <2>3. DisposisiOf(s) \subseteq DisposisiOf(s)'
      BY <1>11, DisposisiStay
    <2>4. \E i \in DOMAIN order : order[i] = k
      BY <1>1, <1>2 DEF Sound, Fit, Working
    <2>5. old.by \in (IF old.to = None THEN Writer ELSE Assigner) /\ old.to \in User \cup {None}
      BY <1>2 DEF Sound, Fit, RequestRec
    <2>6. /\ n.surat \in Surat /\ n.kind # "none"
          /\ n.kind = "disposisi" => n.by \in Assigner /\ n.to \in User
          /\ n.kind = "komentar" => n.by \in Writer /\ n.to = None
      BY <1>5, <2>5
    <2>7. n.kind = "komentar" =>
            n.before \subseteq {d \in Row : row'[d].kind = "disposisi" /\ row'[d].surat = n.surat}
      BY <1>5, <2>3 DEF DisposisiOf
    <2>8. \A i, j \in DOMAIN order : order[i] = order[j] => i = j
      BY DEF IInv, RowsFit
    <2> QED
      BY <1>9, <2>1, <2>2, <2>4, <2>6, <2>7, <2>8 DEF RowsFit, DisposisiOf
  <1>13. InboxFits'
    BY <1>9, <1>11, InboxStays
  <1>14. /\ m.row = k /\ m.surat = s /\ m.by = old.by /\ m.to = old.to
         /\ m.pc = (IF old.to = None THEN "list" ELSE "notify")
         /\ m.todo = {old.to} \ {None, old.by}
    BY <1>1, <1>2, <1>4, <1>7 DEF RequestRec
  <1>15. \A u \in User : ~Heard(u, k)'
    BY <1>1, <1>2, <1>9 DEF Sound, Fit, Heard
  <1>16. Sound(m)'
    <2>1. Fit(m)'
      <3>1. \E i \in DOMAIN order' : order'[i] = k
        BY <1>1, <1>2, <1>9 DEF Sound, Fit, Working
      <3>2. old.by \in User
        BY <1>2 DEF Sound, Fit
      <3> QED
        BY <1>5, <1>9, <1>14, <1>15, <3>1, <3>2 DEF Fit, Working
    <2>2. Todo(m)'
      <3>1. \A u \in m.todo : u \in User /\ u = row'[k].to /\ u # row'[k].by
        BY <1>2, <1>5, <1>9, <1>14 DEF RequestRec
      <3> QED
        BY <1>14, <1>15, <3>1 DEF Todo, Concerned
    <2>3. Full(m)'
      BY <1>2, <1>5, <1>9, <1>14 DEF Full, Due, RequestRec
    <2> QED
      BY <2>1, <2>2, <2>3 DEF Sound
  <1>17. \A q \in Request \ {r} : req[q].row # k
    BY <1>1, AllSound
  <1>18. \A e \in Row, u \in User : Heard(u, e)' => Heard(u, e)
    BY <1>9 DEF Heard
  <1>19. m.pc \in {"list", "notify"}
    BY <1>14
  <1>20. k = req[r].row /\ m.row = k /\ \A e \in Row : e # req[r].row => row'[e] = row[e]
    BY <1>1, <1>9, <1>14
  <1>21. IInv'
    BY <1>8, <1>10, <1>11, <1>12, <1>13, <1>16, <1>17, <1>18, <1>19, <1>20, Frame
  <1> QED
    BY <1>11, <1>21

\* The steps that only mark a row as cut.
LEMMA CutStays ==
  ASSUME IInv, NEW k \in Row, row[k].kind # "none", NEW c \in BOOLEAN,
         row' = [row EXCEPT ![k].cut = c], order' = order, inbox' = inbox
  PROVE  /\ row' \in [Row -> RowRec] /\ row'[k].cut = c /\ Same(k)
         /\ \A e \in Row \ {k} : row'[e] = row[e]
         /\ Grows /\ RowsFit' /\ InboxFits'
  <1>1. row \in [Row -> RowRec]
    BY DEF IInv, TypeOK
  <1>2. PICK n \in RowRec : n = [row[k] EXCEPT !.cut = c]
    BY <1>1 DEF RowRec
  <1>3. row' = [row EXCEPT ![k] = n]
    BY <1>1, <1>2
  <1>4. row' \in [Row -> RowRec] /\ row'[k] = n /\ \A e \in Row \ {k} : row'[e] = row[e]
    BY <1>1, <1>3
  <1>5. n.cut = c /\ Same(k)
    BY <1>1, <1>2, <1>4 DEF Same, RowRec
  <1>6. \A e \in Row : row'[e] = row[e] \/ (row[e].kind # "none" /\ Same(e))
    BY <1>4, <1>5
  <1>7. Grows
    BY <1>6 DEF Grows, Same, Heard
  <1>8. RowsFit'
    BY <1>6, RowsStay
  <1> QED
    BY <1>4, <1>5, <1>7, <1>8, InboxStays

LEMMA ListParticipantsKeeps ==
  ASSUME IInv, NEW r \in Request, ListParticipants(r)
  PROVE  IInv' /\ Grows
  <1>1. PICK k \in Row : k = req[r].row
    BY AllSound DEF ListParticipants, Working
  <1>2. PICK old \in RequestRec : old = req[r] /\ Sound(old) /\ old.pc = "list" /\ old.row = k
    BY <1>1, AllSound DEF ListParticipants
  <1>3. PICK s \in Surat : s = old.surat
    BY <1>2 DEF Sound, Fit
  <1>4. PICK found : found = ListDisposisi(s, TRUE)
    OBVIOUS
  <1>5. found \subseteq DisposisiOf(s) /\ \A d \in found : Parties(d) \subseteq User
    BY <1>4, SetAssumption DEF ListDisposisi, DisposisiOf, Parties, IInv, RowsFit
  <1>6. PICK todo \in SUBSET User : todo = (UNION {Parties(d) : d \in found}) \ {old.by}
    BY <1>5
  <1>7. PICK m \in RequestRec : m = [old EXCEPT !.pc = "notify", !.todo = todo]
    BY <1>2 DEF RequestRec
  <1>8. req' = [req EXCEPT ![r] = m]
    BY <1>2, <1>3, <1>4, <1>6, <1>7 DEF ListParticipants, IInv, TypeOK
  <1>9. PICK c \in BOOLEAN : c = ~live[s]
    OBVIOUS
  <1>10. row' = [row EXCEPT ![k].cut = c] /\ order' = order /\ inbox' = inbox
    BY <1>1, <1>2, <1>3, <1>9 DEF ListParticipants
  <1>11. /\ row[k].kind = "komentar" /\ row[k].surat = s /\ row[k].by = old.by
         /\ old.by \in User /\ \E i \in DOMAIN order : order[i] = k
         /\ old.to = None /\ \A u \in User : ~Heard(u, k)
    BY <1>2, <1>3 DEF Sound, Fit, Working
  <1>12. /\ row' \in [Row -> RowRec] /\ row'[k].cut = c /\ Same(k)
         /\ \A e \in Row \ {k} : row'[e] = row[e]
         /\ Grows /\ RowsFit' /\ InboxFits'
    BY <1>10, <1>11, CutStays
  <1>13. TypeOK'
    <2>1. req' \in [Request -> RequestRec]
      BY <1>8 DEF IInv, TypeOK
    <2> QED
      BY <1>12, <2>1 DEF ListParticipants, IInv, TypeOK
  <1>14. /\ m.row = k /\ m.surat = s /\ m.by = old.by /\ m.to = None
         /\ m.pc = "notify" /\ m.todo = todo
    BY <1>2, <1>3, <1>7, <1>11 DEF RequestRec
  <1>15. \A e \in Row, u \in User : Heard(u, e)' <=> Heard(u, e)
    BY <1>10 DEF Heard
  <1>16. Fit(m)'
    BY <1>10, <1>11, <1>12, <1>14 DEF Fit, Working, Same
  <1>17. Todo(m)'
    <2>1. ASSUME NEW u \in todo
          PROVE  (~Heard(u, k) /\ u # row[k].by /\ Concerned(u, k))'
      <3>1. PICK d \in found : u \in Parties(d) /\ u # old.by /\ u \in User
        BY <1>6
      <3>2. d \in DisposisiOf(row[k].surat)
        BY <1>5, <1>11
      <3>3. Concerned(u, k)
        BY <3>1, <3>2 DEF Concerned
      <3>4. Concerned(u, k)'
        BY <1>11, <1>12, <3>3, ConcernStays
      <3> QED
        BY <1>11, <1>12, <1>15, <3>1, <3>4 DEF Same
    <2> QED
      BY <1>14, <2>1 DEF Todo
  <1>18. Full(m)'
    <2>1. ASSUME ~row'[k].cut, NEW u \in Due(k)'
          PROVE  u \in todo
      <3>1. live[s]
        BY <1>9, <1>12, <2>1
      <3>2. u \in Due(k)
        BY <1>11, <1>12, <2>1, DueShrinks
      <3>3. PICK b \in row[k].before :
              Cardinality(Newer(b, DisposisiOf(s))) < Limit /\ u \in Parties(b) /\ u # old.by
        BY <1>11, <3>2 DEF Due
      <3>4. b \in DisposisiOf(s)
        BY <1>11, <3>3 DEF IInv, RowsFit
      <3>5. b \in found
        BY <1>4, <3>1, <3>3, <3>4 DEF ListDisposisi
      <3> QED
        BY <1>6, <3>3, <3>5
    <2> QED
      BY <1>14, <2>1 DEF Full
  <1>19. Sound(m)'
    BY <1>16, <1>17, <1>18 DEF Sound
  <1>20. \A q \in Request \ {r} : req[q].row # k
    BY <1>1, AllSound
  <1>21. \A e \in Row : e # req[r].row => row'[e] = row[e]
    BY <1>1, <1>12
  <1>22. IInv'
    BY <1>1, <1>8, <1>12, <1>13, <1>14, <1>15, <1>19, <1>20, <1>21, Frame
  <1> QED
    BY <1>12, <1>22

\* A request that notifies of row k, before (old) and after (m) it has dealt with u.
Tells(r, u, k, old, m) ==
  /\ k = req[r].row /\ old = req[r] /\ Sound(old) /\ old.pc = "notify" /\ old.row = k
  /\ m.row = k /\ m.pc = "notify" /\ m.todo = old.todo \ {u}
  /\ m.surat = old.surat /\ m.by = old.by /\ m.to = old.to
  /\ [req EXCEPT ![r].todo = req[r].todo \ {u}] = [req EXCEPT ![r] = m]
  /\ [req EXCEPT ![r] = m] \in [Request -> RequestRec]
  /\ row[k].kind # "none" /\ row[k].by = old.by
  /\ \A q \in Request \ {r} : req[q].row # k

LEMMA Notifying ==
  ASSUME IInv, NEW r \in Request, NEW u, req[r].pc = "notify", u \in req[r].todo
  PROVE  u \in User /\ \E k \in Row, old, m \in RequestRec : Tells(r, u, k, old, m)
  <1>1. PICK k \in Row : k = req[r].row
    BY AllSound DEF Working
  <1>2. PICK old \in RequestRec : old = req[r] /\ Sound(old) /\ old.pc = "notify" /\ old.row = k
    BY <1>1, AllSound
  <1>3. u \in User
    BY <1>2 DEF RequestRec
  <1>4. PICK m \in RequestRec : m = [old EXCEPT !.todo = old.todo \ {u}]
    BY <1>2 DEF RequestRec
  <1>5. /\ m.row = k /\ m.pc = "notify" /\ m.todo = old.todo \ {u}
        /\ m.surat = old.surat /\ m.by = old.by /\ m.to = old.to
    BY <1>2, <1>4 DEF RequestRec
  <1>6. [req EXCEPT ![r].todo = req[r].todo \ {u}] = [req EXCEPT ![r] = m]
    BY <1>2, <1>4 DEF IInv, TypeOK
  <1>7. row[k].kind # "none" /\ row[k].by = old.by
    BY <1>2 DEF Sound, Fit
  <1>8. \A q \in Request \ {r} : req[q].row # k
    BY <1>1, AllSound
  <1>9. [req EXCEPT ![r] = m] \in [Request -> RequestRec]
    BY DEF IInv, TypeOK
  <1>10. Tells(r, u, k, old, m)
    BY <1>1, <1>2, <1>5, <1>6, <1>7, <1>8, <1>9 DEF Tells
  <1> QED
    BY <1>3, <1>10

LEMMA NotifyFailsKeeps ==
  ASSUME IInv, NEW r \in Request, NEW u, NotifyFails(r, u)
  PROVE  IInv' /\ Grows
  <1>1. req[r].pc = "notify" /\ u \in req[r].todo
    BY DEF NotifyFails
  <1>2. PICK k \in Row, old, m \in RequestRec : Tells(r, u, k, old, m)
    BY <1>1, Notifying
  <1>3. /\ k = req[r].row /\ Sound(old) /\ old.pc = "notify" /\ old.row = k
        /\ m.row = k /\ m.pc = "notify" /\ m.todo = old.todo \ {u}
        /\ m.surat = old.surat /\ m.by = old.by /\ m.to = old.to
        /\ row[k].kind # "none" /\ row[k].by = old.by /\ old = req[r]
    BY <1>2 DEF Tells
  <1>4. \A q \in Request \ {r} : req[q].row # m.row
    BY <1>2 DEF Tells
  <1>5. m.pc \in {"list", "notify"}
    BY <1>3
  <1>6. row' = [row EXCEPT ![k].cut = TRUE] /\ order' = order /\ inbox' = inbox
    BY <1>3 DEF NotifyFails
  <1>7. /\ row' \in [Row -> RowRec] /\ row'[k].cut = TRUE /\ Same(k)
        /\ \A e \in Row \ {k} : row'[e] = row[e]
        /\ Grows /\ RowsFit' /\ InboxFits'
    BY <1>3, <1>6, CutStays
  <1>8. req' = [req EXCEPT ![r] = m]
    BY <1>2 DEF Tells, NotifyFails
  <1>9. TypeOK'
    <2>1. req' \in [Request -> RequestRec]
      BY <1>2, <1>8 DEF Tells
    <2> QED
      BY <1>7, <2>1 DEF NotifyFails, Fault, IInv, TypeOK
  <1>10. \A e \in Row, v \in User : Heard(v, e)' <=> Heard(v, e)
    BY <1>6 DEF Heard
  <1>11. Fit(m)'
    BY <1>3, <1>6, <1>7 DEF Sound, Fit, Working, Same
  <1>12. Todo(m)'
    <2>1. ASSUME NEW v \in m.todo
          PROVE  (~Heard(v, k) /\ v # row[k].by /\ Concerned(v, k))'
      <3>1. ~Heard(v, k) /\ v # row[k].by /\ Concerned(v, k) /\ v \in User
        BY <1>3, <2>1 DEF Sound, Todo, RequestRec
      <3>2. Concerned(v, k)'
        BY <1>3, <1>7, <3>1, ConcernStays
      <3> QED
        BY <1>7, <1>10, <3>1, <3>2 DEF Same
    <2> QED
      BY <1>3, <2>1 DEF Todo
  <1>13. Sound(m)'
    BY <1>3, <1>7, <1>11, <1>12 DEF Sound, Full
  <1>14. \A e \in Row : e # req[r].row => row'[e] = row[e]
    BY <1>3, <1>7
  <1>15. IInv'
    BY <1>3, <1>4, <1>5, <1>7, <1>8, <1>9, <1>10, <1>13, <1>14, Frame
  <1> QED
    BY <1>7, <1>15

LEMMA NotifyKeeps ==
  ASSUME IInv, NEW r \in Request, NEW u, Notify(r, u)
  PROVE  IInv' /\ Grows
  <1>1. req[r].pc = "notify" /\ u \in req[r].todo
    BY DEF Notify
  <1>2. PICK k \in Row, old, m \in RequestRec : Tells(r, u, k, old, m)
    BY <1>1, Notifying
  <1>3. /\ k = req[r].row /\ Sound(old) /\ old.pc = "notify" /\ old.row = k
        /\ m.row = k /\ m.pc = "notify" /\ m.todo = old.todo \ {u}
        /\ m.surat = old.surat /\ m.by = old.by /\ m.to = old.to
        /\ row[k].kind # "none" /\ row[k].by = old.by /\ old = req[r]
    BY <1>2 DEF Tells
  <1>4. \A q \in Request \ {r} : req[q].row # m.row
    BY <1>2 DEF Tells
  <1>5. m.pc \in {"list", "notify"}
    BY <1>3
  <1>6. u \in User
    BY <1>1, Notifying
  <1>7. row' = row /\ order' = order /\ inbox' = [inbox EXCEPT ![u] = Append(inbox[u], k)]
    BY <1>3 DEF Notify
  <1>8. inbox \in [User -> Seq(Row)] /\ inbox[u] \in Seq(Row)
    BY <1>6 DEF IInv, TypeOK
  <1>9. /\ inbox'[u] = Append(inbox[u], k)
        /\ \A v \in User \ {u} : inbox'[v] = inbox[v]
        /\ inbox' \in [User -> Seq(Row)]
    <2>1. Append(inbox[u], k) \in Seq(Row)
      BY <1>8
    <2>2. PICK q \in Seq(Row) : q = Append(inbox[u], k)
      BY <2>1
    <2>3. inbox' = [inbox EXCEPT ![u] = q]
      BY <1>7, <2>2
    <2> QED
      BY <1>6, <1>8, <2>2, <2>3
  <1>10. /\ DOMAIN inbox'[u] = DOMAIN inbox[u] \cup {Len(inbox[u]) + 1}
         /\ inbox'[u][Len(inbox[u]) + 1] = k
         /\ \A i \in DOMAIN inbox[u] : inbox'[u][i] = inbox[u][i]
    BY <1>8, <1>9
  <1>11. /\ Heard(u, k)'
         /\ \A e \in Row \ {k} : Heard(u, e)' <=> Heard(u, e)
         /\ \A v \in User \ {u}, e \in Row : Heard(v, e)' <=> Heard(v, e)
    BY <1>9, <1>10 DEF Heard
  <1>12. Grows
    BY <1>7, <1>11 DEF Grows, Same
  <1>13. RowsFit'
    BY <1>7 DEF IInv, RowsFit, DisposisiOf
  <1>14. ~Heard(u, k) /\ u # row[k].by /\ Concerned(u, k)
    BY <1>1, <1>3 DEF Sound, Todo
  <1>15. InboxFits'
    <2>1. \A e \in Row, v \in User : Concerned(v, e)' <=> Concerned(v, e)
      BY <1>7 DEF Concerned, DisposisiOf, Parties
    <2>2. \A v \in User \ {u} : \A i \in DOMAIN inbox'[v] :
            /\ \A j \in DOMAIN inbox'[v] : inbox'[v][i] = inbox'[v][j] => i = j
            /\ row'[inbox'[v][i]].kind # "none" /\ row'[inbox'[v][i]].by # v
            /\ Concerned(v, inbox[v][i]) /\ inbox[v][i] = inbox'[v][i] /\ inbox[v][i] \in Row
      BY <1>7, <1>8, <1>9 DEF IInv, InboxFits
    <2>3. \A i \in DOMAIN inbox[u] :
            /\ \A j \in DOMAIN inbox[u] : inbox[u][i] = inbox[u][j] => i = j
            /\ row'[inbox[u][i]].kind # "none" /\ row'[inbox[u][i]].by # u
            /\ Concerned(u, inbox[u][i]) /\ inbox[u][i] \in Row /\ inbox[u][i] # k
      BY <1>6, <1>7, <1>8, <1>14 DEF IInv, InboxFits, Heard
    <2>4. ASSUME NEW v \in User, NEW i \in DOMAIN inbox'[v]
          PROVE  /\ \A j \in DOMAIN inbox'[v] : inbox'[v][i] = inbox'[v][j] => i = j
                 /\ \E e \in Row :
                      /\ e = inbox'[v][i] /\ Concerned(v, e)
                      /\ row'[e].kind # "none" /\ row'[e].by # v
      <3>1. CASE v # u
        BY <2>2, <2>4, <3>1
      <3>2. CASE v = u /\ i \in DOMAIN inbox[u]
        BY <1>10, <2>3, <3>2
      <3>3. CASE v = u /\ i = Len(inbox[u]) + 1
        BY <1>3, <1>7, <1>10, <1>14, <2>3, <3>3
      <3> QED
        BY <1>10, <2>4, <3>1, <3>2, <3>3
    <2>5. ASSUME NEW v \in User, NEW i \in DOMAIN inbox'[v]
          PROVE  Concerned(v, inbox[v][i])' /\ row'[inbox'[v][i]].kind # "none"
                   /\ row'[inbox'[v][i]].by # v
      <3>1. PICK e \in Row : /\ e = inbox'[v][i] /\ Concerned(v, e)
                             /\ row'[e].kind # "none" /\ row'[e].by # v
        BY <2>4
      <3>2. Concerned(v, e)'
        BY <2>1, <3>1
      <3> QED
        BY <3>1, <3>2
    <2> QED
      BY <2>4, <2>5 DEF InboxFits
  <1>16. req' = [req EXCEPT ![r] = m]
    BY <1>2 DEF Tells, Notify
  <1>17. TypeOK'
    <2>1. req' \in [Request -> RequestRec]
      BY <1>2, <1>16 DEF Tells
    <2> QED
      BY <1>7, <1>9, <2>1 DEF Notify, IInv, TypeOK
  <1>18. Fit(m)'
    BY <1>3, <1>7 DEF Sound, Fit, Working
  <1>19. Todo(m)'
    <2>1. ASSUME NEW v \in m.todo
          PROVE  (~Heard(v, k) /\ v # row[k].by /\ Concerned(v, k))'
      <3>1. ~Heard(v, k) /\ v # row[k].by /\ Concerned(v, k) /\ v \in User \ {u}
        BY <1>3, <2>1 DEF Sound, Todo, RequestRec
      <3>2. Concerned(v, k)'
        BY <1>3, <1>12, <3>1, ConcernStays
      <3> QED
        BY <1>7, <1>11, <3>1, <3>2
    <2> QED
      BY <1>3, <2>1 DEF Todo
  <1>20. Full(m)'
    <2>1. ASSUME ~row'[k].cut, NEW v \in Due(k)'
          PROVE  Heard(v, k)' \/ v \in m.todo
      <3>1. v \in Due(k) /\ v \in User
        BY <1>3, <1>12, <2>1, DueShrinks, DueUsers
      <3>2. Heard(v, k) \/ v \in old.todo
        BY <1>3, <1>7, <2>1, <3>1 DEF Sound, Full
      <3> QED
        BY <1>3, <1>11, <3>1, <3>2
    <2> QED
      BY <1>3, <2>1 DEF Full
  <1>21. Sound(m)'
    BY <1>18, <1>19, <1>20 DEF Sound
  <1>22. \A e \in Row : e # req[r].row =>
           row'[e] = row[e] /\ \A v \in User : Heard(v, e)' => Heard(v, e)
    BY <1>3, <1>7, <1>11
  <1>23. IInv'
    BY <1>3, <1>4, <1>5, <1>12, <1>13, <1>15, <1>16, <1>17, <1>21, <1>22, Frame
  <1> QED
    BY <1>12, <1>23

LEMMA AbortKeeps ==
  ASSUME IInv, NEW r \in Request, Abort(r)
  PROVE  IInv' /\ Grows
  <1>1. PICK old \in RequestRec : old = req[r] /\ Sound(old) /\ old.pc # "idle"
    BY AllSound DEF Abort
  <1>2. req' = [req EXCEPT ![r] = IdleReq] /\ order' = order /\ inbox' = inbox
    BY DEF Abort
  <1>3. req' \in [Request -> RequestRec]
    BY <1>2, IdleType DEF IInv, TypeOK
  <1>4. old.row \in Row <=> old.pc \in Working
    BY <1>1, AllSound
  <1>5. CASE Broken(r)
    <2>1. old.pc \in {"list", "notify"}
      BY <1>1, <1>5 DEF Broken, Sound, Todo
    <2>2. PICK k \in Row : k = req[r].row
      BY <1>1, <1>4, <2>1 DEF Working
    <2>3. row[k].kind # "none"
      BY <1>1, <2>1, <2>2 DEF Sound, Fit
    <2>4. row' = [row EXCEPT ![k].cut = TRUE]
      BY <1>5, <2>2 DEF Abort
    <2>5. /\ row' \in [Row -> RowRec] /\ row'[k].cut = TRUE
          /\ \A e \in Row \ {k} : row'[e] = row[e]
          /\ Grows /\ RowsFit'
      BY <1>2, <2>3, <2>4, CutStays
    <2>6. TypeOK'
      BY <1>3, <2>5 DEF Abort, Fault, IInv, TypeOK
    <2>7. \A e \in Row : e # req[r].row => row'[e] = row[e]
      BY <2>2, <2>5
    <2>8. IInv'
      BY <1>2, <2>2, <2>5, <2>6, <2>7, IdleKeeps
    <2> QED
      BY <2>5, <2>8
  <1>6. CASE ~Broken(r)
    <2>1. row' = row
      BY <1>6 DEF Abort
    <2>2. TypeOK'
      <3>1. row' \in [Row -> RowRec]
        BY <2>1 DEF IInv, TypeOK
      <3> QED
        BY <1>3, <3>1 DEF Abort, Fault, IInv, TypeOK
    <2>3. Grows /\ RowsFit'
      BY <1>2, <2>1, Quiet
    <2>4. PICK k : k = req[r].row
      OBVIOUS
    <2>5. ASSUME k \in Row, row[k].kind # "none", ~row[k].cut
          PROVE  (\A u \in Due(k) : Heard(u, k))'
      <3>1. old.pc \in Working /\ old.row = k /\ old.pc # "insert" /\ old.pc # "list"
        BY <1>1, <1>4, <1>6, <2>4, <2>5 DEF Broken, Sound, Fit, NoRow
      <3>2. old.pc = "notify" /\ old.todo = {}
        BY <1>1, <1>6, <3>1 DEF Working, Broken
      <3>3. \A u \in Due(k) : Heard(u, k)
        BY <1>1, <2>5, <3>1, <3>2 DEF Sound, Full
      <3>4. Due(k)' \subseteq Due(k)
        BY <2>3, <2>5, DueShrinks
      <3> QED
        BY <1>2, <3>3, <3>4 DEF Heard
    <2>6. k \in Row => \/ row'[k].kind = "none" \/ row'[k].cut
                       \/ (\A u \in Due(k) : Heard(u, k))'
      BY <2>1, <2>5
    <2>7. \A e \in Row : row'[e] = row[e]
      BY <2>1
    <2>8. IInv'
      BY <1>2, <2>2, <2>3, <2>4, <2>6, <2>7, IdleKeeps
    <2> QED
      BY <2>3, <2>8
  <1> QED
    BY <1>5, <1>6

\* The steps that touch no row, order or inbox, and no request in what matters.
LEMMA Bystanders ==
  ASSUME IInv, row' = row, order' = order, inbox' = inbox, TypeOK',
         \A q \in Request : \E n \in RequestRec :
           /\ n = req'[q] /\ n.pc = req[q].pc /\ n.surat = req[q].surat /\ n.by = req[q].by
           /\ n.to = req[q].to /\ n.row = req[q].row /\ n.todo = req[q].todo
           /\ n.pc = "idle" => n = IdleReq
  PROVE  IInv'
  <1>1. Grows /\ RowsFit' /\ InboxFits'
    BY Quiet
  <1>2. ASSUME NEW q \in Request
        PROVE  Sound(req[q])'
    <2>1. PICK n \in RequestRec :
            /\ n = req'[q] /\ n.pc = req[q].pc /\ n.surat = req[q].surat /\ n.by = req[q].by
            /\ n.to = req[q].to /\ n.row = req[q].row /\ n.todo = req[q].todo
            /\ n.pc = "idle" => n = IdleReq
      OBVIOUS
    <2>2. PICK m \in RequestRec : m = req[q] /\ Sound(m)
      BY AllSound
    <2>3. Sound(n)
      BY <2>1, <2>2 DEF Sound, Fit, Todo, Full
    <2>4. Sound(n)'
      BY <1>1, <2>3, OthersSound DEF Heard
    <2> QED
      BY <2>1, <2>4 DEF Sound, Fit, Todo, Full
  <1>3. \A q \in Request : req'[q].row = req[q].row /\ req'[q].pc = req[q].pc
    OBVIOUS
  <1>4. ASSUME NEW q \in Request, req'[q].pc \in Working, NEW p \in Request \ {q}
        PROVE  req'[p].row # req'[q].row
    BY <1>3, <1>4, AllSound
  <1>5. Notified'
    <2>1. ASSUME NEW e \in Row, row'[e].kind # "none"
          PROVE  (Pending(e) \/ row[e].cut \/ \A u \in Due(e) : Heard(u, e))'
      <3>1. CASE Pending(e)
        BY <1>3, <3>1 DEF Pending
      <3>2. CASE row[e].cut
        BY <3>2
      <3>3. CASE \A u \in Due(e) : Heard(u, e)
        BY <1>1, <2>1, <3>3, DueShrinks DEF Heard
      <3> QED
        BY <2>1, <3>1, <3>2, <3>3 DEF IInv, Notified
    <2> QED
      BY <2>1 DEF Notified
  <1> QED
    BY <1>1, <1>2, <1>4, <1>5, Assemble

LEMMA EditKeeps ==
  ASSUME IInv, NEW s \in Surat, Edit(s)
  PROVE  IInv'
  <1>1. CASE DeleteSurat(s)
    <2>1. ASSUME NEW q \in Request
          PROVE  \E n \in RequestRec :
                   /\ n = req'[q] /\ n.pc = req[q].pc /\ n.surat = req[q].surat
                   /\ n.by = req[q].by /\ n.to = req[q].to /\ n.row = req[q].row
                   /\ n.todo = req[q].todo
                   /\ n.pc = "idle" => n = IdleReq
      <3>1. PICK m \in RequestRec : m = req[q] /\ Sound(m)
        BY AllSound
      <3>2. PICK n \in RequestRec :
              n = IF m.pc = "insert" /\ m.surat = s THEN [m EXCEPT !.late = TRUE] ELSE m
        BY <3>1 DEF RequestRec
      <3>3. n = req'[q]
        BY <1>1, <3>1, <3>2 DEF DeleteSurat
      <3>4. /\ n.pc = m.pc /\ n.surat = m.surat /\ n.by = m.by /\ n.to = m.to
            /\ n.row = m.row /\ n.todo = m.todo
            /\ n.pc = "idle" => n = IdleReq
        BY <3>1, <3>2 DEF RequestRec, Sound, Fit
      <3> QED
        BY <3>1, <3>3, <3>4
    <2>2. TypeOK'
      <3>1. req' \in [Request -> RequestRec]
        BY <1>1, <2>1 DEF DeleteSurat
      <3> QED
        BY <1>1, <3>1 DEF DeleteSurat, IInv, TypeOK
    <2>3. row' = row /\ order' = order /\ inbox' = inbox
      BY <1>1 DEF DeleteSurat
    <2> QED
      BY <2>1, <2>2, <2>3, Bystanders
  <1>2. CASE RestoreSurat(s)
    <2>1. row' = row /\ order' = order /\ inbox' = inbox /\ req' = req
      BY <1>2 DEF RestoreSurat
    <2>2. TypeOK'
      BY <1>2 DEF RestoreSurat, IInv, TypeOK
    <2> QED
      BY <2>1, <2>2, AllSound, Bystanders DEF Sound, Fit
  <1> QED
    BY <1>1, <1>2 DEF Edit

LEMMA StutterKeeps ==
  ASSUME IInv, UNCHANGED rowVars
  PROVE  IInv'
  <1>1. row' = row /\ order' = order /\ inbox' = inbox /\ req' = req
    BY DEF rowVars
  <1>2. TypeOK'
    BY DEF rowVars, IInv, TypeOK
  <1> QED
    BY <1>1, <1>2, AllSound, Bystanders DEF Sound, Fit

-----------------------------------------------------------------------------
\* The theorems

LEMMA InitKeeps ==
  ASSUME RowInit
  PROVE  IInv
  <1>1. TypeOK
    BY IdleType, NoRowType DEF RowInit, TypeOK
  <1>2. RequestsFit /\ RowsFit /\ TodoFits /\ InboxFits /\ NobodyForgotten /\ Notified
    BY DEF RowInit, RequestsFit, RowsFit, TodoFits, InboxFits, NobodyForgotten, Notified,
           IdleReq, NoRow
  <1> QED
    BY <1>1, <1>2 DEF IInv

LEMMA NextKeeps ==
  ASSUME IInv, [RowNext]_rowVars
  PROVE  IInv'
  <1>1. ASSUME NEW r \in Request, NEW u \in User, Begin(r, u)
        PROVE  IInv'
    BY <1>1, BeginDisposisiKeeps, BeginKomentarKeeps DEF Begin
  <1>2. ASSUME NEW r \in Request, Serve(r)
        PROVE  IInv'
    BY <1>2, VerifyKeeps, RefuseKeeps, InsertKeeps, ListParticipantsKeeps, NotifyKeeps,
       AnswerKeeps DEF Serve
  <1>3. ASSUME NEW r \in Request, Fail(r)
        PROVE  IInv'
    BY <1>3, AbortKeeps, NotifyFailsKeeps DEF Fail
  <1> QED
    BY <1>1, <1>2, <1>3, EditKeeps, StutterKeeps DEF RowNext

\* What the requests, rows and inboxes are stays consistent, however the requests
\* interleave, fail and meet the deletion of their surat.
THEOREM Invariance == RowSpec => []IInv
  <1> QED
    BY InitKeeps, NextKeeps, PTL DEF RowSpec

\* A committed disposisi or komentar has reached everyone it concerns, unless its
\* request is still at it or a failure or a deletion cut it short
\* (disposisi.go:164-185, komentar.go:125-186).
THEOREM EveryoneIsNotified == RowSpec => []Notified
  <1>1. IInv => Notified
    BY DEF IInv
  <1> QED
    BY <1>1, Invariance, PTL

\* A transaction that inserts had found its surat live.
LateFits == \A r \in Request : req[r].pc = "insert" => live[req[r].surat] \/ req[r].late

LEMMA LateStays ==
  ASSUME IInv, LateFits, [RowNext]_rowVars
  PROVE  LateFits'
  <1>1. req \in [Request -> RequestRec] /\ live \in [Surat -> BOOLEAN]
    BY DEF IInv, TypeOK
  <1>2. ASSUME NEW r \in Request, NEW u \in User, Begin(r, u)
        PROVE  LateFits'
    <2>1. live' = live /\ \A q \in Request \ {r} : req'[q] = req[q]
      BY <1>1, <1>2 DEF Begin, BeginDisposisi, BeginKomentar
    <2>2. req[r] \in RequestRec
      BY <1>1
    <2>3. req'[r].pc = "verify"
      <3>1. ASSUME NEW s \in Surat, NEW t \in User, BeginDisposisi(r, u, s, t)
            PROVE  req'[r].pc = "verify"
        BY <1>1, <2>2, <3>1 DEF BeginDisposisi, RequestRec
      <3>2. ASSUME NEW s \in Surat, BeginKomentar(r, u, s)
            PROVE  req'[r].pc = "verify"
        BY <1>1, <2>2, <3>2 DEF BeginKomentar, RequestRec
      <3> QED
        BY <1>2, <3>1, <3>2 DEF Begin
    <2> QED
      BY <2>1, <2>3 DEF LateFits
  <1>3. ASSUME NEW r \in Request, Serve(r)
        PROVE  LateFits'
    <2>1. CASE Verify(r)
      <3>1. PICK e : req' = [req EXCEPT ![r].pc = "insert", ![r].row = e]
        BY <2>1 DEF Verify
      <3>2. req'[r].surat = req[r].surat /\ live' = live /\ live[req[r].surat]
        BY <1>1, <2>1, <3>1 DEF Verify, RequestRec
      <3>3. \A q \in Request \ {r} : req'[q] = req[q]
        BY <1>1, <3>1
      <3> QED
        BY <3>2, <3>3 DEF LateFits
    <2>2. CASE Refuse(r)
      BY <1>1, <2>2 DEF Refuse, LateFits, IdleReq
    <2>3. CASE Insert(r)
      BY <1>1, <2>3 DEF Insert, LateFits
    <2>4. CASE ListParticipants(r)
      BY <1>1, <2>4 DEF ListParticipants, LateFits
    <2>5. ASSUME NEW u \in User, Notify(r, u)
          PROVE  LateFits'
      BY <1>1, <2>5 DEF Notify, LateFits
    <2>6. CASE Answer(r)
      BY <1>1, <2>6 DEF Answer, LateFits, IdleReq
    <2> QED
      BY <1>3, <2>1, <2>2, <2>3, <2>4, <2>5, <2>6 DEF Serve
  <1>4. ASSUME NEW r \in Request, Fail(r)
        PROVE  LateFits'
    <2>1. CASE Abort(r)
      BY <1>1, <2>1 DEF Abort, LateFits, IdleReq
    <2>2. ASSUME NEW u \in User, NotifyFails(r, u)
          PROVE  LateFits'
      BY <1>1, <2>2 DEF NotifyFails, LateFits
    <2> QED
      BY <1>4, <2>1, <2>2 DEF Fail
  <1>5. ASSUME NEW s \in Surat, Edit(s)
        PROVE  LateFits'
    <2>1. CASE DeleteSurat(s)
      <3>1. ASSUME NEW q \in Request, req'[q].pc = "insert"
            PROVE  live'[req'[q].surat] \/ req'[q].late
        <4>1. PICK m \in RequestRec : m = req[q]
          BY <1>1
        <4>2. req'[q] = IF m.pc = "insert" /\ m.surat = s THEN [m EXCEPT !.late = TRUE] ELSE m
          BY <2>1, <4>1 DEF DeleteSurat
        <4>3. CASE m.pc = "insert" /\ m.surat = s
          BY <4>2, <4>3 DEF RequestRec
        <4>4. CASE ~(m.pc = "insert" /\ m.surat = s)
          <5>1. req'[q] = m /\ m.surat # s /\ (live[m.surat] \/ m.late) /\ m.surat \in Surat
            BY <3>1, <4>1, <4>2, <4>4 DEF LateFits, IInv, RequestsFit
          <5>2. live'[m.surat] = live[m.surat]
            BY <1>1, <2>1, <5>1 DEF DeleteSurat
          <5> QED
            BY <5>1, <5>2
        <4> QED
          BY <4>3, <4>4
      <3> QED
        BY <3>1 DEF LateFits
    <2>2. CASE RestoreSurat(s)
      BY <1>1, <2>2 DEF RestoreSurat, LateFits
    <2> QED
      BY <1>5, <2>1, <2>2 DEF Edit
  <1>6. CASE UNCHANGED rowVars
    BY <1>6 DEF rowVars, LateFits
  <1> QED
    BY <1>2, <1>3, <1>4, <1>5, <1>6 DEF RowNext

\* The step inserts the row of a request, or makes none.
LEMMA MakesOne ==
  ASSUME IInv, [RowNext]_rowVars
  PROVE  \/ \A e \in Row : /\ row'[e].kind = row[e].kind
                           /\ row'[e].by = row[e].by /\ row'[e].to = row[e].to
         \/ \E r \in Request : Insert(r)
  <1> DEFINE SameMade == \A e \in Row : /\ row'[e].kind = row[e].kind
                                        /\ row'[e].by = row[e].by /\ row'[e].to = row[e].to
  <1>1. row \in [Row -> RowRec]
    BY DEF IInv, TypeOK
  <1>2. ASSUME NEW k, NEW c, row' = [row EXCEPT ![k].cut = c]
        PROVE  SameMade
    <2>1. ASSUME NEW e \in Row
          PROVE  /\ row'[e].kind = row[e].kind
                 /\ row'[e].by = row[e].by /\ row'[e].to = row[e].to
      <3>1. row[e] \in RowRec
        BY <1>1
      <3>2. row'[e] = row[e] \/ row'[e] = [row[e] EXCEPT !.cut = c]
        BY <1>1, <1>2
      <3> QED
        BY <3>1, <3>2 DEF RowRec
    <2> QED
      BY <2>1
  <1>3. row' = row => SameMade
    OBVIOUS
  <1> HIDE DEF SameMade
  <1>4. ASSUME NEW r \in Request, NEW u \in User, Begin(r, u)
        PROVE  SameMade
    BY <1>3, <1>4 DEF Begin, BeginDisposisi, BeginKomentar
  <1>5. ASSUME NEW r \in Request, Serve(r)
        PROVE  SameMade \/ Insert(r)
    BY <1>2, <1>3, <1>5 DEF Serve, Verify, Refuse, ListParticipants, Notify, Answer
  <1>6. ASSUME NEW r \in Request, Fail(r)
        PROVE  SameMade
    BY <1>2, <1>3, <1>6 DEF Fail, Abort, NotifyFails
  <1>7. ASSUME NEW s \in Surat, Edit(s)
        PROVE  SameMade
    BY <1>3, <1>7 DEF Edit, DeleteSurat, RestoreSurat
  <1>8. ASSUME UNCHANGED rowVars
        PROVE  SameMade
    BY <1>3, <1>8 DEF rowVars
  <1>9. SameMade \/ \E r \in Request : Insert(r)
    BY <1>4, <1>5, <1>6, <1>7, <1>8 DEF RowNext
  <1> QED
    BY <1>9 DEF SameMade

\* The step notifies a user of the row of a request, or nobody.
LEMMA NotifiesOne ==
  ASSUME [RowNext]_rowVars
  PROVE  inbox' = inbox \/ \E r \in Request, u \in User : Notify(r, u)
  <1>1. ASSUME NEW r \in Request, NEW u \in User, Begin(r, u)
        PROVE  inbox' = inbox
    BY <1>1 DEF Begin, BeginDisposisi, BeginKomentar
  <1>2. ASSUME NEW r \in Request, Serve(r)
        PROVE  inbox' = inbox \/ \E u \in User : Notify(r, u)
    BY <1>2 DEF Serve, Verify, Refuse, Insert, ListParticipants, Answer
  <1>3. ASSUME NEW r \in Request, Fail(r)
        PROVE  inbox' = inbox
    BY <1>3 DEF Fail, Abort, NotifyFails
  <1>4. ASSUME NEW s \in Surat, Edit(s)
        PROVE  inbox' = inbox
    BY <1>4 DEF Edit, DeleteSurat, RestoreSurat
  <1>5. ASSUME UNCHANGED rowVars
        PROVE  inbox' = inbox
    BY <1>5 DEF rowVars
  <1> QED
    BY <1>1, <1>2, <1>3, <1>4, <1>5 DEF RowNext

\* A deleted surat gets a new row only from a transaction that had found it live
\* (store/disposisi.go:52-58, store/komentar.go:43-49).
THEOREM RowsOfLiveSurat == RowSpec => InsertedOnlyLive
  <1>1. RowInit => LateFits
    BY DEF RowInit, LateFits, IdleReq
  <1>2. ASSUME IInv, LateFits, [RowNext]_rowVars,
               NEW e \in Row, row[e].kind = "none", row'[e].kind # "none"
        PROVE  \/ live[row'[e].surat]
               \/ \E r \in Request : req[r].row = e /\ req[r].late
    <2>1. PICK r \in Request : Insert(r)
      BY <1>2, MakesOne
    <2>2. row' = [row EXCEPT ![req[r].row] = NewRow(r)] /\ req[r].pc = "insert"
      BY <2>1 DEF Insert
    <2>3. e = req[r].row /\ row'[e] = NewRow(r)
      BY <1>2, <2>2 DEF IInv, TypeOK
    <2>4. row'[e].surat = req[r].surat
      BY <2>3 DEF NewRow, NoRow
    <2> QED
      BY <1>2, <2>2, <2>3, <2>4 DEF LateFits
  <1>3. IInv /\ LateFits /\ [RowNext]_rowVars =>
          [\A e \in Row :
             row[e].kind = "none" /\ row'[e].kind # "none" =>
               \/ live[row'[e].surat]
               \/ \E r \in Request : req[r].row = e /\ req[r].late]_rowVars
    BY <1>2
  <1>4. IInv /\ LateFits /\ [RowNext]_rowVars => LateFits'
    BY LateStays
  <1> QED
    BY <1>1, <1>3, <1>4, Invariance, PTL DEF RowSpec, InsertedOnlyLive

MadeOf == [e \in Row |-> [kind |-> row[e].kind, by |-> row[e].by, to |-> row[e].to]]

\* A step of a request, or none, is one that Announcements knows, or none.
LEMMA StepIsKnown ==
  ASSUME IInv, [RowNext]_rowVars
  PROVE  [Promise!Step]_<<MadeOf, inbox>>
  <1> DEFINE made == [e \in Row |-> [kind |-> row[e].kind, by |-> row[e].by, to |-> row[e].to]]
  <1> SUFFICES [Promise!Step]_<<made, inbox>>
    BY DEF MadeOf
  <1>1. CASE \E r \in Request : Insert(r)
    <2>1. PICK r \in Request : Insert(r)
      BY <1>1
    <2>2. PICK k \in Row : k = req[r].row
      BY <2>1, AllSound DEF Insert, Working
    <2>3. PICK old \in RequestRec : old = req[r] /\ Sound(old) /\ old.pc = "insert"
      BY <2>1, AllSound DEF Insert
    <2>4. PICK m : m = [kind |-> IF old.to = None THEN "komentar" ELSE "disposisi",
                        by |-> old.by, to |-> old.to]
      OBVIOUS
    <2>5. m \in Promise!Made
      BY <2>3, <2>4 DEF Promise!Made, Sound, Fit, RequestRec
    <2>6. PICK n : n = NewRow(r)
      OBVIOUS
    <2>7. [kind |-> n.kind, by |-> n.by, to |-> n.to] = m
      BY <2>3, <2>4, <2>6 DEF NewRow, NoRow
    <2>8. /\ row' = [row EXCEPT ![k] = n] /\ inbox' = inbox
          /\ row'[k] = n /\ \A e \in Row \ {k} : row'[e] = row[e]
      BY <2>1, <2>2, <2>6 DEF Insert, IInv, TypeOK
    <2>9. row[k] = NoRow
      BY <2>2, <2>3 DEF Sound, Fit
    <2>10. made[k] = Promise!NotMade
      BY <2>9 DEF Promise!NotMade, NoRow
    <2>11. made' = [made EXCEPT ![k] = m]
      BY <2>7, <2>8
    <2>12. Promise!Make(k, m)
      BY <2>8, <2>10, <2>11 DEF Promise!Make
    <2> QED
      BY <2>5, <2>12 DEF Promise!Step
  <1>2. CASE \A e \in Row : /\ row'[e].kind = row[e].kind
                            /\ row'[e].by = row[e].by /\ row'[e].to = row[e].to
    <2>1. made' = made
      BY <1>2
    <2>2. CASE inbox' = inbox
      BY <2>1, <2>2
    <2>3. CASE inbox' # inbox
      <3>1. PICK r \in Request, u \in User : Notify(r, u)
        BY <2>3, NotifiesOne
      <3>2. PICK k \in Row : k = req[r].row
        BY <3>1, AllSound DEF Notify, Working
      <3>3. PICK old \in RequestRec : old = req[r] /\ Sound(old) /\ old.pc = "notify"
        BY <3>1, AllSound DEF Notify
      <3>4. u \in old.todo /\ inbox' = [inbox EXCEPT ![u] = Append(inbox[u], k)]
        BY <3>1, <3>2, <3>3 DEF Notify
      <3>5. ~Heard(u, k) /\ u # row[k].by /\ row[k].kind # "none"
        BY <3>2, <3>3, <3>4 DEF Sound, Fit, Todo
      <3>6. made[k] # Promise!NotMade /\ u # made[k].by
        BY <3>5 DEF Promise!NotMade
      <3>7. ~Promise!Heard(u, k)
        BY <3>5 DEF Heard, Promise!Heard
      <3>8. Promise!Arrive(u, k)
        BY <2>1, <3>4, <3>6, <3>7 DEF Promise!Arrive
      <3> QED
        BY <3>8 DEF Promise!Step
    <2> QED
      BY <2>2, <2>3
  <1> QED
    BY <1>1, <1>2, MakesOne

LEMMA StartIsKnown ==
  ASSUME RowInit
  PROVE  Promise!Start
  BY DEF RowInit, Promise!Start, Promise!NotMade, NoRow

\* The rows and inboxes are what Announcements promises to the pages: a row is made
\* once, and each of the others hears of it at most once and after it was made.
THEOREM PromiseKept == RowSpec => Promised
  <1>1. IInv /\ [RowNext]_rowVars => [Promise!Step]_<<MadeOf, inbox>>
    BY StepIsKnown
  <1> QED
    BY <1>1, StartIsKnown, Invariance, PTL DEF RowSpec, Promised, Promise!Promised, MadeOf

-----------------------------------------------------------------------------
\* With the cards on top

Fetching == \E u \in Viewer, s \in Surat : FetchDisposisi(u, s)
Pressing == \E u \in Viewer, e \in Row, new \in Status : Press(u, e, new)
Updating == \E c \in sent : UpdateStatus(c)

\* A step is one of the requests, or none, or one of the cards.
LEMMA Steps ==
  ASSUME [Next]_vars
  PROVE  ([RowNext]_rowVars /\ UNCHANGED cardVars) \/ Fetching \/ Pressing \/ Updating
  BY DEF Next, vars, Viewing, Fetching, Pressing, Updating

\* Neither what is displayed nor a status has anything to do with the requests.
LEMMA RowsKeep ==
  ASSUME IInv, [Next]_vars
  PROVE  IInv'
  <1>1. CASE [RowNext]_rowVars
    BY <1>1, NextKeeps
  <1>2. CASE Fetching \/ Updating
    BY <1>2, StutterKeeps DEF Fetching, Updating, FetchDisposisi, UpdateStatus
  <1>3. CASE Pressing
    <2>1. /\ live' = live /\ row' = row /\ order' = order /\ inbox' = inbox /\ req' = req
          /\ faults' = faults /\ edits' = edits + 1
      BY <1>3 DEF Pressing, Press
    <2>2. TypeOK'
      BY <2>1 DEF IInv, TypeOK
    <2> QED
      BY <2>1, <2>2, AllSound, Bystanders DEF Sound, Fit
  <1> QED
    BY <1>1, <1>2, <1>3, Steps

\* A row that is a disposisi remains one.
LEMMA DisposisiRemain ==
  ASSUME IInv, [Next]_vars, NEW e \in Row, row[e].kind = "disposisi"
  PROVE  row'[e].kind = "disposisi"
  <1>1. CASE row' = row
    BY <1>1
  <1>2. CASE [RowNext]_rowVars
    <2>1. CASE \E r \in Request : Insert(r)
      <3>1. PICK r \in Request : Insert(r)
        BY <2>1
      <3>2. req[r].pc = "insert" /\ row' = [row EXCEPT ![req[r].row] = NewRow(r)]
        BY <3>1 DEF Insert
      <3>3. row[req[r].row] = NoRow
        BY <3>2, AllSound DEF Sound, Fit
      <3> QED
        BY <3>2, <3>3 DEF IInv, TypeOK, NoRow
    <2> QED
      BY <1>2, <2>1, MakesOne
  <1>3. Fetching \/ Pressing \/ Updating => row' = row
    BY DEF Fetching, Pressing, Updating, FetchDisposisi, Press, UpdateStatus, rowVars
  <1> QED
    BY <1>1, <1>2, <1>3, Steps

\* A new list is what there is.
LEMMA ListedIsTruthful ==
  ASSUME CardInv, NEW u \in Viewer, NEW s \in Surat
  PROVE  Listed(u, s) \in Display /\ Truthful(Listed(u, s))
  <1>1. ASSUME NEW e \in Row
        PROVE  /\ Listed(u, s)[e] \in [shown : Status \cup {"unlisted"}, ver : Nat]
               /\ Listed(u, s)[e].shown # "unlisted" =>
                    /\ row[e].kind = "disposisi"
                    /\ Listed(u, s)[e].ver <= work[e].ver
                    /\ Listed(u, s)[e].ver = work[e].ver => Listed(u, s)[e].shown = work[e].status
    <2>1. work[e].status \in Status /\ work[e].ver \in Nat
      BY DEF CardInv, CardTypeOK, Work
    <2>2. CASE e \in ListDisposisi(s, u \in Reader)
      <3>1. Listed(u, s)[e] = [shown |-> work[e].status, ver |-> work[e].ver]
        BY <2>2 DEF Listed
      <3>2. row[e].kind = "disposisi"
        BY <2>2 DEF ListDisposisi, DisposisiOf
      <3> QED
        BY <2>1, <3>1, <3>2
    <2>3. CASE e \notin ListDisposisi(s, u \in Reader)
      BY <2>3 DEF Listed, Nothing
    <2> QED
      BY <2>2, <2>3
  <1>2. Listed(u, s) \in Display
    BY <1>1 DEF Listed, Display
  <1> QED
    BY <1>1, <1>2 DEF Truthful

LEMMA PressKeeps ==
  ASSUME CardInv, edits \in Nat,
         NEW u \in Viewer, NEW e \in Row, NEW new \in Status, Press(u, e, new)
  PROVE  CardInv'
  <1>1. PICK d : d = card[u][e] /\ d \in [shown : Status \cup {"unlisted"}, ver : Nat]
    BY DEF CardInv, CardTypeOK, Display
  <1>2. PICK c : c = [no |-> edits, by |-> u, row |-> e, new |-> new, ver |-> d.ver]
    OBVIOUS
  <1>3. sent' = sent \cup {c} /\ work' = work /\ card' = card /\ row' = row
    BY <1>1, <1>2 DEF Press
  <1>4. c \in Click
    BY <1>1, <1>2 DEF Click
  <1>5. new \in Buttons(d.shown) /\ d.shown \in {"pending", "in_progress"}
    BY <1>1 DEF Press, Buttons
  <1>6. /\ row[e].kind = "disposisi" /\ d.ver <= work[e].ver
        /\ d.ver = work[e].ver => d.shown = work[e].status
    BY <1>1, <1>5 DEF CardInv, Truthful
  <1>7. <<d.shown, new>> \in Lifecycle
    BY <1>5 DEF Buttons, Lifecycle
  <1> QED
    BY <1>2, <1>3, <1>4, <1>6, <1>7 DEF CardInv, CardTypeOK, Truthful

LEMMA UpdateKeeps ==
  ASSUME CardInv, NEW c \in sent, UpdateStatus(c)
  PROVE  CardInv'
  <1>1. PICK k \in Row : k = c.row /\ row[k].kind = "disposisi"
    BY DEF CardInv, CardTypeOK, Click
  <1>2. PICK w \in Work : w = work[k]
    BY DEF CardInv, CardTypeOK
  <1>3. PICK n : n = [status |-> c.new, completed |-> (c.new = "done"), ver |-> w.ver + 1]
    OBVIOUS
  <1>4. /\ card' = card /\ row' = row /\ sent' = sent \ {c}
        /\ work'[k] = n /\ \A e \in Row \ {k} : work'[e] = work[e]
    BY <1>1, <1>2, <1>3 DEF UpdateStatus, Updated, CardInv, CardTypeOK, rowVars
  <1>5. n \in Work
    BY <1>2, <1>3 DEF Work, CardInv, CardTypeOK, Click
  <1>6. work' \in [Row -> Work]
    BY <1>4, <1>5 DEF UpdateStatus, CardInv, CardTypeOK
  <1>7. CardTypeOK'
    BY <1>4, <1>6 DEF CardInv, CardTypeOK
  <1>8. ASSUME NEW u \in Viewer
        PROVE  Truthful(card[u])'
    <2>1. ASSUME NEW e \in Row, card[u][e].shown # "unlisted"
          PROVE  /\ row[e].kind = "disposisi"
                 /\ card[u][e].ver <= work'[e].ver
                 /\ card[u][e].ver = work'[e].ver => card[u][e].shown = work'[e].status
      <3>1. card[u][e].ver \in Nat
        BY DEF CardInv, CardTypeOK, Display
      <3>2. /\ row[e].kind = "disposisi" /\ card[u][e].ver <= work[e].ver
            /\ card[u][e].ver = work[e].ver => card[u][e].shown = work[e].status
        BY <2>1 DEF CardInv, Truthful
      <3>3. CASE e = k
        <4>1. card[u][e].ver <= w.ver /\ w.ver \in Nat /\ work'[e].ver = w.ver + 1
          BY <1>2, <1>3, <1>4, <3>2, <3>3 DEF Work
        <4> QED
          BY <3>1, <3>2, <4>1
      <3>4. CASE e # k
        BY <1>4, <3>2, <3>4
      <3> QED
        BY <3>3, <3>4
    <2> QED
      BY <1>4, <2>1 DEF Truthful
  <1>9. ASSUME NEW d \in sent
        PROVE  /\ row[d.row].kind = "disposisi"
               /\ d.ver <= work'[d.row].ver
               /\ d.ver = work'[d.row].ver => <<work'[d.row].status, d.new>> \in Lifecycle
    <2>1. /\ row[d.row].kind = "disposisi" /\ d.ver <= work[d.row].ver
          /\ d.ver = work[d.row].ver => <<work[d.row].status, d.new>> \in Lifecycle
      BY DEF CardInv
    <2>2. d.row \in Row /\ d.ver \in Nat
      BY DEF CardInv, CardTypeOK, Click
    <2>3. CASE d.row = k
      <3>1. d.ver <= w.ver /\ w.ver \in Nat /\ work'[d.row].ver = w.ver + 1
        BY <1>2, <1>3, <1>4, <2>1, <2>3 DEF Work
      <3> QED
        BY <2>1, <2>2, <3>1
    <2>4. CASE d.row # k
      BY <1>4, <2>1, <2>2, <2>4
    <2> QED
      BY <2>3, <2>4
  <1>10. ASSUME NEW e \in Row
         PROVE  /\ work'[e].completed = (work'[e].status = "done")
                /\ work'[e].status # "pending" => row[e].kind = "disposisi"
    <2>1. CASE e = k
      BY <1>1, <1>3, <1>4, <2>1
    <2>2. CASE e # k
      BY <1>4, <2>2 DEF CardInv
    <2> QED
      BY <2>1, <2>2
  <1> QED
    BY <1>4, <1>7, <1>8, <1>9, <1>10 DEF CardInv

LEMMA CardKeeps ==
  ASSUME IInv, CardInv, [Next]_vars
  PROVE  CardInv'
  <1>1. CASE UNCHANGED cardVars
    <2>1. \A e \in Row : row[e].kind = "disposisi" => row'[e].kind = "disposisi"
      BY DisposisiRemain
    <2>2. \A c \in sent : c.row \in Row
      BY DEF CardInv, CardTypeOK, Click
    <2>3. work' = work /\ card' = card /\ sent' = sent
      BY <1>1 DEF cardVars
    <2> QED
      BY <2>1, <2>2, <2>3 DEF CardInv, CardTypeOK, Truthful
  <1>2. ASSUME NEW u \in Viewer, NEW s \in Surat, FetchDisposisi(u, s)
        PROVE  CardInv'
    <2>1. PICK list \in Display : list = Listed(u, s) /\ Truthful(list)
      BY ListedIsTruthful
    <2>2. /\ work' = work /\ row' = row /\ sent' = sent
          /\ card' = [card EXCEPT ![u] = list]
      BY <1>2, <2>1 DEF FetchDisposisi, rowVars
    <2>3. \A v \in Viewer : card'[v] \in Display /\ Truthful(card'[v])
      BY <2>1, <2>2 DEF CardInv, CardTypeOK
    <2>4. card' \in [Viewer -> Display]
      BY <2>1, <2>2 DEF CardInv, CardTypeOK
    <2> QED
      BY <2>2, <2>3, <2>4 DEF CardInv, CardTypeOK, Truthful
  <1>3. CASE Pressing
    BY <1>3, PressKeeps DEF Pressing, IInv, TypeOK
  <1>4. CASE Updating
    BY <1>4, UpdateKeeps DEF Updating
  <1> QED
    BY <1>1, <1>2, <1>3, <1>4, Steps DEF Fetching

LEMMA CardInit ==
  ASSUME Init
  PROVE  CardIInv
  <1>1. IInv
    BY InitKeeps DEF Init
  <1>2. CardTypeOK
    BY DEF Init, CardTypeOK, Status, Work, Display, Nothing
  <1>3. CardInv
    BY <1>2 DEF Init, CardInv, Truthful, Nothing
  <1> QED
    BY <1>1, <1>3 DEF CardIInv

\* Requests, rows, inboxes, cards and clicks stay consistent.
THEOREM CardInvariance == Spec => []CardIInv
  <1>1. CardIInv /\ [Next]_vars => CardIInv'
    BY RowsKeep, CardKeeps DEF CardIInv
  <1> QED
    BY <1>1, CardInit, PTL DEF Spec

\* With the cards on top, too, everyone a row concerns hears of it unless a failure
\* or a deletion cut it short (disposisi.go:164-185, komentar.go:125-186).
THEOREM AllHear == Spec => []Notified
  <1>1. CardIInv => Notified
    BY DEF CardIInv, IInv
  <1> QED
    BY <1>1, CardInvariance, PTL

\* With the cards on top, too, the pages get what Announcements promises.
THEOREM PagesGetPromise == Spec => Promised
  <1>1. Init => RowInit
    BY DEF Init
  <1>2. CardIInv /\ [Next]_vars => [Promise!Step]_<<MadeOf, inbox>>
    <2>1. ASSUME Fetching \/ Pressing \/ Updating
          PROVE  UNCHANGED <<MadeOf, inbox>>
      BY <2>1 DEF Fetching, Pressing, Updating, FetchDisposisi, Press, UpdateStatus, rowVars,
                  MadeOf
    <2> QED
      BY <2>1, Steps, StepIsKnown DEF CardIInv
  <1> QED
    BY <1>1, <1>2, StartIsKnown, CardInvariance, PTL
       DEF Spec, Promised, Promise!Promised, MadeOf

\* Whatever the age of cards and the order in which clicks reach the server, a status
\* leaves the Lifecycle, and finished or cancelled work is taken up again, only by a
\* click on a card from before the last change (store/disposisi.go:89-117,
\* SuratDetailView.vue:448-457).
THEOREM OnlyOvertakenClicksStray == Spec => LifecycleUnlessOvertaken
  <1>1. ASSUME CardIInv, [Next]_vars, NEW e \in Row, work'[e].status # work[e].status
        PROVE  \/ <<work[e].status, work'[e].status>> \in Lifecycle
               \/ \E c \in sent \ sent' : c.row = e /\ c.ver < work[e].ver
    <2>1. PICK c \in sent : UpdateStatus(c)
      BY <1>1, Steps DEF Fetching, Pressing, Updating, FetchDisposisi, Press, cardVars
    <2>2. c.row = e /\ c \in sent \ sent'
      BY <1>1, <2>1 DEF UpdateStatus, CardIInv, CardInv, CardTypeOK
    <2>3. work'[e].status = c.new
      BY <1>1, <2>1, <2>2 DEF UpdateStatus, Updated, CardIInv, CardInv, CardTypeOK
    <2>4. c.ver \in Nat /\ work[e].ver \in Nat
      BY <1>1 DEF CardIInv, CardInv, CardTypeOK, Click, Work
    <2>5. c.ver <= work[e].ver /\ (c.ver = work[e].ver => <<work[e].status, c.new>> \in Lifecycle)
      BY <1>1, <2>2 DEF CardIInv, CardInv
    <2> QED
      BY <2>2, <2>3, <2>4, <2>5
  <1>2. CardIInv /\ [Next]_vars =>
          [\A e \in Row :
             work'[e].status # work[e].status =>
               \/ <<work[e].status, work'[e].status>> \in Lifecycle
               \/ \E c \in sent \ sent' : c.row = e /\ c.ver < work[e].ver]_vars
    BY <1>1
  <1> QED
    BY <1>2, CardInvariance, PTL DEF Spec, LifecycleUnlessOvertaken
=============================================================================
