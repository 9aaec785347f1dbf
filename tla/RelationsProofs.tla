--------------------------- MODULE RelationsProofs ---------------------------
(***************************************************************************)
(* Theorems about Relations, for every set of surat, rows and requests and *)
(* every bound: the order of the tembusan, the ends of new references, and  *)
(* the surat that a thread reaches.                                        *)
(***************************************************************************)
EXTENDS Relations, WellFoundedInduction, TLAPS

\* What LivedFits and AfterFits say of one request.
Lived(m) ==
  m.pc # "idle" => /\ live \subseteq m.lived
                   /\ m.surat \in m.lived
                   /\ m.pc = "ref" => {m.to} \ {None} \subseteq m.lived

After(m) ==
  \A c \in m.after :
    /\ cc[c].st # "none"
    /\ cc[c].st = "there" =>
         /\ cc[c].surat = m.surat
         /\ m.pc = "cc" /\ m.auto => cc[c].urutan < m.urutan

LEMMA IdleType == IdleReq \in Req
  BY DEF IdleReq, Req, Target

LEMMA RowTypes == NoRef \in RefRow /\ NoCc \in CcRow
  BY DEF NoRef, RefRow, NoCc, CcRow, Target

LEMMA IdleFits == Lived(IdleReq) /\ After(IdleReq)
  BY DEF Lived, After, IdleReq

\* A step that moves one request and leaves surat and tembusan alone.
LEMMA Moves ==
  ASSUME IInv, NEW r \in Request, NEW m \in Req, Lived(m), After(m),
         req' = [req EXCEPT ![r] = m], live' = live, cc' = cc,
         ref' \in [Ref -> RefRow], edits' \in Nat
  PROVE  IInv'
  <1>1. TypeOK'
    BY DEF IInv, TypeOK
  <1>2. \A q \in Request : req'[q] = IF q = r THEN m ELSE req[q]
    BY DEF IInv, TypeOK
  <1>3. LivedFits'
    BY <1>2 DEF IInv, LivedFits, Lived
  <1>4. AfterFits'
    BY <1>2 DEF IInv, AfterFits, After
  <1>5. TembusanInOrder'
    BY DEF IInv, TembusanInOrder, ListedBefore
  <1> QED
    BY <1>1, <1>3, <1>4, <1>5 DEF IInv

-----------------------------------------------------------------------------
\* References

LEMMA StepBeginReference ==
  ASSUME IInv, NEW r \in Request, NEW s \in Surat, NEW t \in Target, BeginReference(r, s, t)
  PROVE  IInv'
  <1> DEFINE m == [IdleReq EXCEPT !.pc = "from", !.surat = s, !.to = t, !.lived = live]
  <1>1. m \in Req
    BY DEF IInv, TypeOK, IdleReq, Req, Target
  <1>2. Lived(m) /\ After(m)
    BY DEF BeginReference, Lived, After, IdleReq
  <1>3. /\ req' = [req EXCEPT ![r] = m] /\ live' = live /\ cc' = cc
        /\ ref' \in [Ref -> RefRow] /\ edits' \in Nat
    BY DEF BeginReference, Edit, IInv, TypeOK
  <1> HIDE DEF m
  <1> QED
    BY <1>1, <1>2, <1>3, Moves

LEMMA StepVerifyFrom ==
  ASSUME IInv, NEW r \in Request, VerifyFrom(r)
  PROVE  IInv'
  <1> DEFINE m == [req[r] EXCEPT !.pc = IF req[r].to = None THEN "ref" ELSE "to"]
  <1>1. m \in Req
    BY DEF IInv, TypeOK, Req
  <1>2. req[r] \in Req /\ req[r].pc = "from" /\ Lived(req[r]) /\ After(req[r])
    BY DEF IInv, TypeOK, VerifyFrom, LivedFits, AfterFits, Lived, After
  <1>3. Lived(m)
    BY <1>2 DEF Lived, Req
  <1>4. After(m)
    BY <1>2 DEF After, Req
  <1>5. /\ req' = [req EXCEPT ![r] = m] /\ live' = live /\ cc' = cc
        /\ ref' \in [Ref -> RefRow] /\ edits' \in Nat
    BY DEF VerifyFrom, Move, IInv, TypeOK
  <1> HIDE DEF m
  <1> QED
    BY <1>1, <1>3, <1>4, <1>5, Moves

LEMMA StepVerifyTo ==
  ASSUME IInv, NEW r \in Request, VerifyTo(r)
  PROVE  IInv'
  <1> DEFINE m == [req[r] EXCEPT !.pc = "ref"]
  <1>1. m \in Req
    BY DEF IInv, TypeOK, Req
  <1>2. req[r] \in Req /\ req[r].pc = "to" /\ Lived(req[r]) /\ After(req[r])
    BY DEF IInv, TypeOK, VerifyTo, LivedFits, AfterFits, Lived, After
  <1>3. Lived(m)
    BY <1>2 DEF Lived, Req, VerifyTo
  <1>4. After(m)
    BY <1>2 DEF After, Req
  <1>5. /\ req' = [req EXCEPT ![r] = m] /\ live' = live /\ cc' = cc
        /\ ref' \in [Ref -> RefRow] /\ edits' \in Nat
    BY DEF VerifyTo, Move, IInv, TypeOK
  <1> HIDE DEF m
  <1> QED
    BY <1>1, <1>3, <1>4, <1>5, Moves

LEMMA StepInsertReference ==
  ASSUME IInv, NEW r \in Request, NEW e \in Ref, InsertReference(r, e)
  PROVE  IInv'
  <1> DEFINE n == [st |-> "there", from |-> req[r].surat, to |-> req[r].to]
  <1>1. n \in RefRow
    BY DEF IInv, TypeOK, Req, RefRow
  <1>2. ref' = [ref EXCEPT ![e] = n]
    BY DEF InsertReference
  <1> HIDE DEF n
  <1>3. ref' \in [Ref -> RefRow]
    BY <1>1, <1>2 DEF IInv, TypeOK
  <1>4. req' = [req EXCEPT ![r] = IdleReq] /\ live' = live /\ cc' = cc /\ edits' \in Nat
    BY DEF InsertReference, End, IInv, TypeOK
  <1> QED
    BY <1>3, <1>4, IdleType, IdleFits, Moves

-----------------------------------------------------------------------------
\* Tembusan

LEMMA StepBeginTembusan ==
  ASSUME IInv, NEW r \in Request, NEW s \in Surat, NEW u \in {0} \cup Explicit,
         BeginTembusan(r, s, u)
  PROVE  IInv'
  <1> DEFINE m == [IdleReq EXCEPT !.pc = "surat", !.surat = s, !.urutan = u,
                                  !.auto = (u = 0), !.lived = live, !.after = CcOf(s)]
  <1>1. u \in Nat
    BY NumberAssumption
  <1>2. CcOf(s) \subseteq Cc /\ (u = 0) \in BOOLEAN
    BY DEF CcOf
  <1>3. m \in Req
    BY <1>1, <1>2 DEF IInv, TypeOK, IdleReq, Req, Target
  <1>4. Lived(m)
    BY DEF BeginTembusan, Lived, IdleReq
  <1>5. After(m)
    BY DEF After, IdleReq, CcOf
  <1>6. /\ req' = [req EXCEPT ![r] = m] /\ live' = live /\ cc' = cc
        /\ ref' \in [Ref -> RefRow] /\ edits' \in Nat
    BY DEF BeginTembusan, Edit, IInv, TypeOK
  <1> HIDE DEF m
  <1> QED
    BY <1>3, <1>4, <1>5, <1>6, Moves

LEMMA StepVerifySurat ==
  ASSUME IInv, NEW r \in Request, VerifySurat(r)
  PROVE  IInv'
  <1> DEFINE m == [req[r] EXCEPT !.pc = IF req[r].auto THEN "urutan" ELSE "cc"]
  <1>1. m \in Req
    BY DEF IInv, TypeOK, Req
  <1>2. req[r] \in Req /\ req[r].pc = "surat" /\ Lived(req[r]) /\ After(req[r])
    BY DEF IInv, TypeOK, VerifySurat, LivedFits, AfterFits, Lived, After
  <1>3. Lived(m)
    BY <1>2 DEF Lived, Req
  <1>4. After(m)
    BY <1>2 DEF After, Req
  <1>5. /\ req' = [req EXCEPT ![r] = m] /\ live' = live /\ cc' = cc
        /\ ref' \in [Ref -> RefRow] /\ edits' \in Nat
    BY DEF VerifySurat, Move, IInv, TypeOK
  <1> HIDE DEF m
  <1> QED
    BY <1>1, <1>3, <1>4, <1>5, Moves

\* The next number is one above those of all rows.
LEMMA NextIsAbove ==
  ASSUME TypeOK, NEW s, NEW n \in NextUrutan(s)
  PROVE  n \in Nat /\ \A c \in CcOf(s) : cc[c].urutan < n
  <1>1. \A c \in CcOf(s) : cc[c].urutan + 1 \in Nat
    BY DEF TypeOK, CcOf, CcRow
  <1> QED
    BY <1>1 DEF NextUrutan

LEMMA StepReadUrutan ==
  ASSUME IInv, NEW r \in Request, ReadUrutan(r)
  PROVE  IInv'
  <1>1. PICK n \in NextUrutan(req[r].surat) :
          req' = [req EXCEPT ![r].pc = "cc", ![r].urutan = n]
    BY DEF ReadUrutan
  <1>2. n \in Nat /\ \A c \in CcOf(req[r].surat) : cc[c].urutan < n
    BY <1>1, NextIsAbove DEF IInv
  <1> DEFINE m == [req[r] EXCEPT !.pc = "cc", !.urutan = n]
  <1>3. m \in Req
    BY <1>2 DEF IInv, TypeOK, Req
  <1>4. req[r] \in Req /\ req[r].pc = "urutan" /\ Lived(req[r]) /\ After(req[r])
    BY DEF IInv, TypeOK, ReadUrutan, LivedFits, AfterFits, Lived, After
  <1>5. Lived(m)
    BY <1>4 DEF Lived, Req
  <1>6. After(m)
    BY <1>2, <1>4 DEF After, Req, CcOf
  <1>7. /\ req' = [req EXCEPT ![r] = m] /\ live' = live /\ cc' = cc
        /\ ref' \in [Ref -> RefRow] /\ edits' \in Nat
    BY <1>1 DEF ReadUrutan, IInv, TypeOK
  <1> HIDE DEF m
  <1> QED
    BY <1>3, <1>5, <1>6, <1>7, Moves

LEMMA StepInsertTembusan ==
  ASSUME IInv, NEW r \in Request, NEW c \in Cc, InsertTembusan(r, c)
  PROVE  IInv'
  <1> DEFINE n == [st |-> "there", surat |-> req[r].surat, urutan |-> req[r].urutan,
                   auto |-> req[r].auto, after |-> req[r].after]
  <1>1. n \in CcRow
    BY DEF IInv, TypeOK, Req, CcRow
  <1>2. cc' = [cc EXCEPT ![c] = n]
    BY DEF InsertTembusan
  <1>3. /\ n.st = "there" /\ n.urutan = req[r].urutan
        /\ n.auto = req[r].auto /\ n.after = req[r].after
    OBVIOUS
  <1> HIDE DEF n
  <1>4. /\ req' = [req EXCEPT ![r] = IdleReq] /\ live' = live /\ ref' = ref /\ edits' = edits
        /\ req[r].pc = "cc" /\ cc[c].st = "none"
    BY DEF InsertTembusan, End
  <1>5. TypeOK'
    BY <1>1, <1>2, <1>4, IdleType DEF IInv, TypeOK
  <1>6. \A d \in Cc : cc'[d] = IF d = c THEN n ELSE cc[d]
    BY <1>2 DEF IInv, TypeOK
  <1>7. \A q \in Request : req'[q] = IF q = r THEN IdleReq ELSE req[q]
    BY <1>4 DEF IInv, TypeOK
  <1>8. LivedFits'
    BY <1>4, <1>7 DEF IInv, LivedFits, IdleReq
  <1>9. \A q \in Request : req[q].after \subseteq Cc
    BY DEF IInv, TypeOK, Req
  <1>10. \A d \in Cc : cc[d].after \subseteq Cc
    BY DEF IInv, TypeOK, CcRow
  <1>11. \A q \in Request : c \notin req[q].after
    BY <1>4 DEF IInv, AfterFits
  <1>12. \A d \in Cc : c \notin cc[d].after
    BY <1>4 DEF IInv, AfterFits
  <1>13. \A d \in Cc : \A b \in cc'[d].after : b \in Cc \ {c} /\ cc'[b].st # "none"
    BY <1>3, <1>6, <1>9, <1>10, <1>11, <1>12 DEF IInv, AfterFits
  <1>14. \A q \in Request : \A b \in req'[q].after :
           /\ cc'[b] = cc[b] /\ req'[q] = req[q] /\ b \in req[q].after
    BY <1>6, <1>7, <1>9, <1>11 DEF IdleReq
  <1>15. AfterFits'
    BY <1>13, <1>14 DEF IInv, AfterFits
  <1>16. ASSUME NEW d \in Cc, cc'[d].st = "there", cc'[d].auto,
                NEW b \in cc'[d].after, cc'[b].st = "there"
         PROVE  cc'[b].urutan < cc'[d].urutan
    <2>1. cc'[b] = cc[b] /\ b \in Cc
      BY <1>6, <1>13
    <2>2. CASE d = c
      BY <1>3, <1>4, <1>6, <1>16, <2>1, <2>2 DEF IInv, AfterFits
    <2>3. CASE d # c
      BY <1>6, <1>16, <2>1, <2>3 DEF IInv, TembusanInOrder, ListedBefore
    <2> QED
      BY <2>2, <2>3
  <1>17. TembusanInOrder'
    BY <1>16 DEF TembusanInOrder, ListedBefore
  <1> QED
    BY <1>5, <1>8, <1>15, <1>17 DEF IInv

LEMMA StepDeleteTembusan ==
  ASSUME IInv, NEW c \in Cc, DeleteTembusan(c)
  PROVE  IInv'
  <1> DEFINE n == [NoCc EXCEPT !.st = "gone"]
  <1>1. n \in CcRow /\ n.st = "gone" /\ n.after = {}
    BY DEF NoCc, CcRow, Target
  <1>2. cc' = [cc EXCEPT ![c] = n] /\ live' = live /\ ref' = ref /\ req' = req /\ edits' \in Nat
    BY DEF DeleteTembusan, Edit, IInv, TypeOK
  <1> HIDE DEF n
  <1>3. TypeOK'
    BY <1>1, <1>2 DEF IInv, TypeOK
  <1>4. \A d \in Cc : cc'[d] = IF d = c THEN n ELSE cc[d]
    BY <1>2 DEF IInv, TypeOK
  <1>5. LivedFits'
    BY <1>2 DEF IInv, LivedFits
  <1>6. /\ \A q \in Request : req[q].after \subseteq Cc
        /\ \A d \in Cc : cc[d].after \subseteq Cc
    BY DEF IInv, TypeOK, Req, CcRow
  <1>7. AfterFits'
    BY <1>1, <1>2, <1>4, <1>6 DEF IInv, AfterFits
  <1>8. TembusanInOrder'
    BY <1>1, <1>4, <1>6 DEF IInv, TembusanInOrder, ListedBefore
  <1> QED
    BY <1>3, <1>5, <1>7, <1>8 DEF IInv

-----------------------------------------------------------------------------
\* The other steps

LEMMA StepDeleteReference ==
  ASSUME IInv, NEW e \in Ref, DeleteReference(e)
  PROVE  IInv'
  <1>1. [NoRef EXCEPT !.st = "gone"] \in RefRow
    BY DEF NoRef, RefRow, Target
  <1>2. ref' = [ref EXCEPT ![e] = [NoRef EXCEPT !.st = "gone"]]
    BY DEF DeleteReference
  <1>3. ref' \in [Ref -> RefRow]
    BY <1>1, <1>2 DEF IInv, TypeOK
  <1>4. live' = live /\ cc' = cc /\ req' = req /\ edits' \in Nat
    BY DEF DeleteReference, Edit, IInv, TypeOK
  <1> QED
    BY <1>3, <1>4 DEF IInv, TypeOK, LivedFits, AfterFits, TembusanInOrder, ListedBefore

LEMMA StepAbort ==
  ASSUME IInv, NEW r \in Request, Abort(r)
  PROVE  IInv'
  <1>1. /\ req' = [req EXCEPT ![r] = IdleReq] /\ live' = live /\ cc' = cc
        /\ ref' \in [Ref -> RefRow] /\ edits' \in Nat
    BY DEF Abort, End, IInv, TypeOK
  <1> QED
    BY <1>1, IdleType, IdleFits, Moves

LEMMA StepDeleteSurat ==
  ASSUME IInv, NEW s \in Surat, DeleteSurat(s)
  PROVE  IInv'
  <1>1. live' \subseteq live /\ ref' = ref /\ cc' = cc /\ req' = req /\ edits' \in Nat
    BY DEF DeleteSurat, Edit, IInv, TypeOK
  <1>2. TypeOK'
    BY <1>1 DEF IInv, TypeOK
  <1>3. LivedFits'
    BY <1>1 DEF IInv, LivedFits
  <1> QED
    BY <1>1, <1>2, <1>3 DEF IInv, AfterFits, TembusanInOrder, ListedBefore

LEMMA StepRestoreSurat ==
  ASSUME IInv, NEW s \in Surat, RestoreSurat(s)
  PROVE  IInv'
  <1> DEFINE more(q) == [req[q] EXCEPT !.lived = req[q].lived \cup {s}]
  <1>1. \A q \in Request : req[q] \in Req
    BY DEF IInv, TypeOK
  <1>2. \A q \in Request : more(q) \in Req
    BY <1>1 DEF Req
  <1>3. \A q \in Request : req'[q] = IF req[q].pc = "idle" THEN req[q] ELSE more(q)
    BY DEF RestoreSurat
  <1>4. req' \in [Request -> Req]
    <2>1. req' = [q \in Request |-> IF req[q].pc = "idle" THEN req[q] ELSE more(q)]
      BY DEF RestoreSurat
    <2> QED
      BY <1>1, <1>2, <2>1
  <1>5. \A q \in Request :
          /\ more(q).pc = req[q].pc /\ more(q).surat = req[q].surat /\ more(q).to = req[q].to
          /\ more(q).urutan = req[q].urutan /\ more(q).auto = req[q].auto
          /\ more(q).after = req[q].after /\ more(q).lived = req[q].lived \cup {s}
    BY <1>1 DEF Req
  <1> HIDE DEF more
  <1>6. live' = live \cup {s} /\ ref' = ref /\ cc' = cc /\ edits' \in Nat
    BY DEF RestoreSurat, Edit, IInv, TypeOK
  <1>7. TypeOK'
    BY <1>4, <1>6 DEF IInv, TypeOK
  <1>8. LivedFits'
    BY <1>3, <1>5, <1>6 DEF IInv, LivedFits
  <1>9. AfterFits'
    BY <1>3, <1>5, <1>6 DEF IInv, AfterFits
  <1>10. TembusanInOrder'
    BY <1>6 DEF IInv, TembusanInOrder, ListedBefore
  <1> QED
    BY <1>7, <1>8, <1>9, <1>10 DEF IInv

-----------------------------------------------------------------------------
\* Recursive functions: the depth of a walk is bounded, so induction up to it is
\* enough, and that needs sets only.

LEMMA Induction ==
  ASSUME NEW T, 0 \in T, \A n \in Nat : n \in T => n + 1 \in T
  PROVE  Nat \subseteq T
  <1> DEFINE R == OpToRel(<, Nat)
             U == Nat \ T
  <1>1. ASSUME U # {} PROVE FALSE
    <2>1. PICK x \in U : \A y \in U : <<y, x>> \notin R
      <3>1. IsWellFoundedOn(R, Nat)
        BY NatLessThanWellFounded
      <3>2. U \subseteq Nat
        OBVIOUS
      <3> HIDE DEF U, R
      <3> QED BY <1>1, <3>1, <3>2, WFMin
    <2>2. x \in Nat /\ x # 0 /\ x - 1 \in Nat
      OBVIOUS
    <2>3. <<x - 1, x>> \in R
      BY <2>2 DEF OpToRel
    <2>4. x - 1 \in T
      BY <2>1, <2>2, <2>3
    <2> QED BY <2>2, <2>4
  <1> QED BY <1>1

\* What is true at 0 and passed on up to a bound is true up to it.
LEMMA UpTo ==
  ASSUME NEW N \in Nat, NEW T, 0 \in T, \A n \in 0 .. N - 1 : n \in T => n + 1 \in T
  PROVE  0 .. N \subseteq T
  <1> DEFINE U == {n \in Nat : n <= N => n \in T}
  <1>1. 0 \in U /\ \A n \in Nat : n \in U => n + 1 \in U
    OBVIOUS
  <1>2. Nat \subseteq U
    <2> HIDE DEF U
    <2> QED BY <1>1, Induction
  <1> QED BY <1>2

\* A function can be iterated as often as one likes.
Iteration(f, c, d, n) == f[0] = c /\ \A i \in 1 .. n : f[i] = d[f[i - 1]]

LEMMA Iterates ==
  ASSUME NEW X, NEW c \in X, NEW d \in [X -> X], NEW N \in Nat
  PROVE  \E f \in [0 .. N -> X] : Iteration(f, c, d, N)
  <1> DEFINE T == {n \in Nat : \E f \in [0 .. n -> X] : Iteration(f, c, d, n)}
  <1>1. 0 \in T
    <2> DEFINE f == [i \in 0 .. 0 |-> c]
    <2>1. f \in [0 .. 0 -> X] /\ Iteration(f, c, d, 0)
      BY DEF Iteration
    <2> HIDE DEF f
    <2> QED BY <2>1
  <1>2. ASSUME NEW n \in Nat, n \in T PROVE n + 1 \in T
    <2>1. PICK f \in [0 .. n -> X] : Iteration(f, c, d, n)
      BY <1>2
    <2> DEFINE g == [i \in 0 .. n + 1 |-> IF i = n + 1 THEN d[f[n]] ELSE f[i]]
    <2>2. g \in [0 .. n + 1 -> X] /\ Iteration(g, c, d, n + 1)
      BY <2>1 DEF Iteration
    <2> HIDE DEF g
    <2> QED BY <2>2
  <1>3. Nat \subseteq T
    <2> HIDE DEF T
    <2> QED BY <1>1, <1>2, Induction
  <1> QED BY <1>3

-----------------------------------------------------------------------------
\* The thread

StepRec == [surat : Surat, by : Ref \cup {None}, dir : {"predecessor", "successor", "self"}]

\* A step leads to a live surat on the page, and to each of them there is one.
LEMMA StepsAre ==
  ASSUME TypeOK, NEW s
  PROVE  /\ \A x \in Steps(s) : x \in StepRec /\ x.surat \in live \cap OnPage(s)
         /\ \A t \in live \cap OnPage(s) : \E x \in Steps(s) : x.surat = t
  <1>1. live \subseteq Surat /\ Refs \subseteq Ref
    BY DEF TypeOK, Refs
  <1>2. ASSUME NEW x \in Steps(s)
        PROVE  x \in StepRec /\ x.surat \in live \cap OnPage(s)
    <2>1. CASE \E e \in Refs : /\ ref[e].from = s /\ ref[e].to \in live
                               /\ x = [surat |-> ref[e].to, by |-> e, dir |-> "predecessor"]
      <3>1. PICK e \in Refs : /\ ref[e].from = s /\ ref[e].to \in live
                              /\ x = [surat |-> ref[e].to, by |-> e, dir |-> "predecessor"]
        BY <2>1
      <3> QED BY <1>1, <3>1 DEF StepRec, OnPage, Predecessors
    <2>2. CASE \E e \in Refs : /\ ref[e].to = s /\ ref[e].from \in live
                               /\ x = [surat |-> ref[e].from, by |-> e, dir |-> "successor"]
      <3>1. PICK e \in Refs : /\ ref[e].to = s /\ ref[e].from \in live
                              /\ x = [surat |-> ref[e].from, by |-> e, dir |-> "successor"]
        BY <2>2
      <3> QED BY <1>1, <3>1 DEF StepRec, OnPage, Successors
    <2> QED BY <2>1, <2>2 DEF Steps
  <1>3. ASSUME NEW t \in live \cap OnPage(s)
        PROVE  \E x \in Steps(s) : x.surat = t
    <2>1. CASE \E e \in Predecessors(s) : t = ref[e].to
      <3>1. PICK e \in Predecessors(s) : t = ref[e].to
        BY <2>1
      <3>2. [surat |-> ref[e].to, by |-> e, dir |-> "predecessor"] \in Steps(s)
        BY <3>1 DEF Steps, Predecessors
      <3> QED BY <3>1, <3>2
    <2>2. CASE \E e \in Successors(s) : t = ref[e].from
      <3>1. PICK e \in Successors(s) : t = ref[e].from
        BY <2>2
      <3>2. [surat |-> ref[e].from, by |-> e, dir |-> "successor"] \in Steps(s)
        BY <3>1 DEF Steps, Successors
      <3> QED BY <3>1, <3>2
    <2> QED BY <2>1, <2>2 DEF OnPage
  <1> QED BY <1>2, <1>3

\* One more step of every walk of W that meets no surat twice.
Onward(w) == {Append(w, x) : x \in {y \in Steps(Last(w).surat) : y.surat \notin Visited(w)}}

LEMMA WalksAre ==
  ASSUME TypeOK, NEW s \in live
  PROVE  /\ \A n \in 0 .. Depth : Walks(s)[n] \in SUBSET Seq(StepRec)
         /\ Walks(s)[0] = {<<Here(s)>>}
         /\ \A n \in 1 .. Depth : Walks(s)[n] = UNION {Onward(w) : w \in Walks(s)[n - 1]}
  <1> DEFINE Fn(g) == [n \in 0 .. Depth |->
                         IF n = 0 THEN {<<Here(x)>> : x \in live \cap {s}}
                         ELSE UNION {{Append(w, x) : x \in {y \in Steps(Last(w).surat) :
                                                              y.surat \notin Visited(w)}} :
                                       w \in g[n - 1]}]
  <1>1. PICK X, c, d : /\ X = SUBSET Seq(StepRec) /\ c = {<<Here(s)>>}
                       /\ d = [W \in X |-> UNION {Onward(w) : w \in W}]
    OBVIOUS
  <1>2. Here(s) \in StepRec /\ Depth \in Nat
    BY NumberAssumption DEF Here, StepRec, TypeOK
  <1>3. c \in X
    BY <1>1, <1>2
  <1>4. d \in [X -> X]
    <2>1. \A w \in Seq(StepRec) : Onward(w) \subseteq Seq(StepRec)
      BY StepsAre DEF Onward
    <2> QED BY <1>1, <2>1
  <1>5. PICK f \in [0 .. Depth -> X] : Iteration(f, c, d, Depth)
    BY <1>2, <1>3, <1>4, Iterates
  <1>6. f = Fn(f)
    <2>1. \A i \in 1 .. Depth : d[f[i - 1]] = UNION {Onward(w) : w \in f[i - 1]}
      BY <1>1, <1>2
    <2>2. c = {<<Here(x)>> : x \in live \cap {s}}
      BY <1>1
    <2>3. \A i \in 0 .. Depth : f[i] = IF i = 0 THEN {<<Here(x)>> : x \in live \cap {s}}
                                       ELSE UNION {Onward(w) : w \in f[i - 1]}
      <3>1. f[0] = c /\ \A i \in 1 .. Depth : f[i] = d[f[i - 1]]
        BY <1>5 DEF Iteration
      <3> SUFFICES ASSUME NEW i \in 1 .. Depth
                   PROVE  f[i] = UNION {Onward(w) : w \in f[i - 1]}
        BY <1>2, <2>2, <3>1
      <3> QED BY <2>1, <3>1
    <2> QED BY <2>3 DEF Onward
  <1>7. Walks(s) = CHOOSE g : g = Fn(g)
    BY DEF Walks
  <1>8. Walks(s) = Fn(Walks(s))
    <2> HIDE DEF Fn
    <2> QED BY <1>6, <1>7
  <1>9. /\ Walks(s)[0] = {<<Here(s)>>}
        /\ \A n \in 1 .. Depth : Walks(s)[n] = UNION {Onward(w) : w \in Walks(s)[n - 1]}
    <2>1. Walks(s)[0] = {<<Here(x)>> : x \in live \cap {s}}
      BY <1>2, <1>8
    <2>2. ASSUME NEW n \in 1 .. Depth
          PROVE  Walks(s)[n] = UNION {Onward(w) : w \in Walks(s)[n - 1]}
      <3> DEFINE G(k) == IF k = 0 THEN {<<Here(x)>> : x \in live \cap {s}}
                         ELSE UNION {{Append(w, x) : x \in {y \in Steps(Last(w).surat) :
                                                              y.surat \notin Visited(w)}} :
                                       w \in Walks(s)[k - 1]}
      <3>1. Walks(s) = [k \in 0 .. Depth |-> G(k)]
        BY <1>8
      <3>2. Walks(s)[n] = G(n)
        <4> HIDE DEF G
        <4> QED BY <1>2, <3>1
      <3> QED BY <3>2 DEF Onward
    <2> QED BY <2>1, <2>2
  <1>10. \A n \in 0 .. Depth : Walks(s)[n] \in X
    <2> DEFINE T == {n \in 0 .. Depth : Walks(s)[n] \in X}
    <2>1. 0 \in T
      <3>1. Walks(s)[0] = c
        BY <1>1, <1>9
      <3> QED BY <1>2, <1>3, <3>1
    <2>2. \A W \in X : d[W] = UNION {Onward(w) : w \in W}
      BY <1>1
    <2>3. ASSUME NEW n \in 0 .. Depth - 1, n \in T PROVE n + 1 \in T
      <3>1. n + 1 \in 1 .. Depth /\ (n + 1) - 1 = n
        BY <1>2
      <3>2. Walks(s)[n + 1] = d[Walks(s)[n]]
        BY <1>9, <2>3, <2>2, <3>1
      <3> QED BY <1>2, <1>4, <2>3, <3>2
    <2>4. 0 .. Depth \subseteq T
      <3> HIDE DEF T
      <3> QED BY <1>2, <2>1, <2>3, UpTo
    <2> QED BY <2>4
  <1> QED BY <1>1, <1>9, <1>10

LEMMA WithinIs ==
  ASSUME TypeOK, NEW s \in live
  PROVE  /\ Within(s)[0] = {s}
         /\ \A n \in 1 .. Depth :
              Within(s)[n] = Within(s)[n - 1]
                               \cup (live \cap UNION {OnPage(x) : x \in Within(s)[n - 1]})
  <1> DEFINE Fn(g) == [n \in 0 .. Depth |->
                         IF n = 0 THEN {s}
                         ELSE g[n - 1] \cup (live \cap UNION {OnPage(x) : x \in g[n - 1]})]
  <1>1. PICK X, c, d : /\ X = SUBSET live /\ c = {s}
                       /\ d = [S \in X |-> S \cup (live \cap UNION {OnPage(x) : x \in S})]
    OBVIOUS
  <1>2. c \in X /\ d \in [X -> X] /\ Depth \in Nat
    BY <1>1, NumberAssumption
  <1>3. PICK f \in [0 .. Depth -> X] : Iteration(f, c, d, Depth)
    BY <1>2, Iterates
  <1>4. f = Fn(f)
    <2>1. \A i \in 1 .. Depth :
            d[f[i - 1]] = f[i - 1] \cup (live \cap UNION {OnPage(x) : x \in f[i - 1]})
      BY <1>1, <1>2
    <2>2. \A i \in 0 .. Depth :
            f[i] = IF i = 0 THEN {s}
                   ELSE f[i - 1] \cup (live \cap UNION {OnPage(x) : x \in f[i - 1]})
      <3>1. f[0] = {s} /\ \A i \in 1 .. Depth : f[i] = d[f[i - 1]]
        BY <1>1, <1>3 DEF Iteration
      <3> SUFFICES ASSUME NEW i \in 1 .. Depth
                   PROVE  f[i] = f[i - 1] \cup (live \cap UNION {OnPage(x) : x \in f[i - 1]})
        BY <1>2, <3>1
      <3> QED BY <2>1, <3>1
    <2> QED BY <2>2
  <1>5. Within(s) = CHOOSE g : g = Fn(g)
    BY DEF Within
  <1>6. Within(s) = Fn(Within(s))
    <2> HIDE DEF Fn
    <2> QED BY <1>4, <1>5
  <1>7. Within(s)[0] = {s}
    BY <1>2, <1>6
  <1>8. ASSUME NEW n \in 1 .. Depth
        PROVE  Within(s)[n] = Within(s)[n - 1]
                                \cup (live \cap UNION {OnPage(x) : x \in Within(s)[n - 1]})
    <2> DEFINE G(k) == IF k = 0 THEN {s}
                       ELSE Within(s)[k - 1]
                              \cup (live \cap UNION {OnPage(x) : x \in Within(s)[k - 1]})
    <2>1. Within(s) = [k \in 0 .. Depth |-> G(k)]
      BY <1>6
    <2>2. Within(s)[n] = G(n)
      <3> HIDE DEF G
      <3> QED BY <1>2, <2>1
    <2> QED BY <2>2
  <1> QED BY <1>7, <1>8

\* A surat that n pages lead to is one that n + 1 pages lead to.
LEMMA WithinGrows ==
  ASSUME TypeOK, NEW s \in live, NEW n \in 0 .. Depth, NEW m \in 0 .. n
  PROVE  Within(s)[m] \subseteq Within(s)[n]
  <1> DEFINE T == {k \in 0 .. Depth : \A i \in 0 .. k : Within(s)[i] \subseteq Within(s)[k]}
  <1>1. Depth \in Nat
    BY NumberAssumption
  <1>2. 0 \in T
    BY <1>1
  <1>3. ASSUME NEW k \in 0 .. Depth - 1, k \in T PROVE k + 1 \in T
    <2>1. Within(s)[k] \subseteq Within(s)[k + 1]
      <3>1. k + 1 \in 1 .. Depth /\ (k + 1) - 1 = k
        BY <1>1
      <3> QED BY <3>1, WithinIs
    <2> QED BY <1>1, <1>3, <2>1
  <1>4. 0 .. Depth \subseteq T
    <2> HIDE DEF T
    <2> QED BY <1>1, <1>2, <1>3, UpTo
  <1> QED BY <1>1, <1>4

\* A walk of n steps ends at a surat that n pages lead to, and each of its surat ends
\* a walk that is as long as the way there.
Proper(s, n, w) ==
  /\ Len(w) = n + 1 /\ Last(w).surat \in Within(s)[n]
  /\ \A i \in 1 .. n + 1 : \E v \in Walks(s)[i - 1] : Last(v) = w[i]

LEMMA WalksAreProper ==
  ASSUME TypeOK, NEW s \in live, NEW n \in 0 .. Depth, NEW w \in Walks(s)[n]
  PROVE  Proper(s, n, w)
  <1> DEFINE T == {k \in 0 .. Depth : \A u \in Walks(s)[k] : Proper(s, k, u)}
  <1>1. Depth \in Nat
    BY NumberAssumption
  <1>2. 0 \in T
    <2> SUFFICES ASSUME NEW u \in Walks(s)[0] PROVE Proper(s, 0, u)
      BY <1>1
    <2>1. u = <<Here(s)>> /\ s \in Within(s)[0]
      BY WalksAre, WithinIs
    <2>2. Len(u) = 1 /\ u[1] = Here(s) /\ Last(u) = Here(s) /\ Here(s).surat = s
      BY <2>1 DEF Last, Here
    <2> QED BY <2>1, <2>2 DEF Proper
  <1>3. ASSUME NEW k \in 0 .. Depth - 1, k \in T PROVE k + 1 \in T
    <2> SUFFICES ASSUME NEW u \in Walks(s)[k + 1] PROVE Proper(s, k + 1, u)
      BY <1>1
    <2>1. k + 1 \in 1 .. Depth /\ (k + 1) - 1 = k /\ k \in 0 .. Depth
      BY <1>1
    <2>2. PICK v \in Walks(s)[k] : u \in Onward(v)
      BY <2>1, WalksAre
    <2>3. PICK x \in Steps(Last(v).surat) : u = Append(v, x)
      BY <2>2 DEF Onward
    <2>4. v \in Seq(StepRec) /\ x \in StepRec /\ x.surat \in live \cap OnPage(Last(v).surat)
      BY <2>1, WalksAre, StepsAre
    <2>5. Proper(s, k, v)
      BY <1>3
    <2>6. /\ Len(u) = k + 2 /\ u[k + 2] = x /\ Last(u) = x
          /\ \A i \in 1 .. k + 1 : u[i] = v[i]
      BY <2>3, <2>4, <2>5 DEF Proper, Last
    <2>7. Last(u).surat \in Within(s)[k + 1]
      BY <2>1, <2>4, <2>5, <2>6, WithinIs DEF Proper
    <2>8. ASSUME NEW i \in 1 .. k + 2 PROVE \E t \in Walks(s)[i - 1] : Last(t) = u[i]
      <3>1. CASE i = k + 2
        BY <2>6, <3>1
      <3>2. CASE i # k + 2
        BY <2>5, <2>6, <3>2 DEF Proper
      <3> QED BY <3>1, <3>2
    <2> QED BY <2>6, <2>7, <2>8 DEF Proper
  <1>4. 0 .. Depth \subseteq T
    <2> HIDE DEF T
    <2> QED BY <1>1, <1>2, <1>3, UpTo
  <1> QED BY <1>4

\* The cycle check loses nobody: who is left out of a walk is met on the way.
LEMMA EveryoneIsReached ==
  ASSUME TypeOK, NEW s \in live, NEW n \in 0 .. Depth, NEW x \in Within(s)[n]
  PROVE  \E m \in 0 .. n : \E w \in Walks(s)[m] : Last(w).surat = x
  <1> DEFINE Reached(k, y) == \E m \in 0 .. k : \E w \in Walks(s)[m] : Last(w).surat = y
             T == {k \in 0 .. Depth : \A y \in Within(s)[k] : Reached(k, y)}
  <1>1. Depth \in Nat
    BY NumberAssumption
  <1>2. 0 \in T
    <2>1. Reached(0, s)
      <3>1. <<Here(s)>> \in Walks(s)[0] /\ Last(<<Here(s)>>).surat = s
        BY WalksAre DEF Last, Here
      <3> QED BY <3>1
    <2> HIDE DEF Reached
    <2> QED BY <1>1, <2>1, WithinIs
  <1>3. ASSUME NEW k \in 0 .. Depth - 1, k \in T PROVE k + 1 \in T
    <2> SUFFICES ASSUME NEW y \in Within(s)[k + 1] PROVE Reached(k + 1, y)
      BY <1>1
    <2>1. k + 1 \in 1 .. Depth /\ (k + 1) - 1 = k
      BY <1>1
    <2>2. CASE y \in Within(s)[k]
      BY <1>3, <2>2
    <2>3. CASE y \notin Within(s)[k]
      <3>1. y \in live /\ \E z \in Within(s)[k] : y \in OnPage(z)
        BY <2>1, <2>3, WithinIs
      <3>2. PICK z \in Within(s)[k] : y \in OnPage(z)
        BY <3>1
      <3>3. PICK m \in 0 .. k : \E w \in Walks(s)[m] : Last(w).surat = z
        BY <1>3
      <3>4. PICK w \in Walks(s)[m] : Last(w).surat = z
        BY <3>3
      <3>5. PICK t \in Steps(Last(w).surat) : t.surat = y
        BY <3>1, <3>2, <3>4, StepsAre
      <3>6. w \in Seq(StepRec) /\ t \in StepRec /\ Proper(s, m, w)
        BY <1>1, <3>4, <3>5, WalksAre, StepsAre, WalksAreProper
      <3>7. CASE y \notin Visited(w)
        <4>1. Append(w, t) \in Walks(s)[m + 1]
          <5>1. Append(w, t) \in Onward(w)
            BY <3>5, <3>7 DEF Onward
          <5>2. m + 1 \in 1 .. Depth /\ (m + 1) - 1 = m
            BY <1>1
          <5> QED BY <5>1, <5>2, WalksAre
        <4>2. Last(Append(w, t)) = t
          BY <3>6 DEF Last
        <4> QED BY <3>5, <4>1, <4>2
      <3>8. CASE y \in Visited(w)
        <4>1. PICK i \in 1 .. m + 1 : w[i].surat = y
          BY <3>6, <3>8 DEF Visited, Proper
        <4>2. PICK v \in Walks(s)[i - 1] : Last(v) = w[i]
          BY <3>6 DEF Proper
        <4>3. i - 1 \in 0 .. k + 1
          OBVIOUS
        <4> QED BY <4>1, <4>2, <4>3
      <3> QED BY <3>7, <3>8
    <2> QED BY <2>2, <2>3
  <1>4. 0 .. Depth \subseteq T
    <2> HIDE DEF T
    <2> QED BY <1>1, <1>2, <1>3, UpTo
  <1> QED BY <1>4

LEMMA ThreadIsComplete ==
  ASSUME TypeOK
  PROVE  ThreadIsNeighbourhood
  <1> SUFFICES ASSUME NEW s \in live, NEW secret \in BOOLEAN, NEW n \in 0 .. Depth
               PROVE  {Last(w).surat : w \in {v \in Thread(s, secret) : Len(v) <= n + 1}}
                        = Within(s)[n] \ (IF secret THEN {} ELSE Secret)
    BY DEF ThreadIsNeighbourhood
  <1> DEFINE Rows == {v \in Thread(s, secret) : Len(v) <= n + 1}
             Near == Within(s)[n] \ (IF secret THEN {} ELSE Secret)
  <1>1. Depth \in Nat
    BY NumberAssumption
  <1>2. ASSUME NEW v \in Rows PROVE Last(v).surat \in Near
    <2>1. PICK m \in 0 .. Depth : v \in Walks(s)[m] /\ (secret \/ Last(v).surat \notin Secret)
      BY DEF Thread
    <2>2. Proper(s, m, v)
      BY <2>1, WalksAreProper
    <2>3. m \in 0 .. n
      BY <1>1, <1>2, <2>2 DEF Proper
    <2>4. Within(s)[m] \subseteq Within(s)[n]
      BY <2>3, WithinGrows
    <2> QED BY <2>1, <2>2, <2>4 DEF Proper
  <1>3. ASSUME NEW x \in Near PROVE \E v \in Rows : Last(v).surat = x
    <2>1. PICK m \in 0 .. n : \E w \in Walks(s)[m] : Last(w).surat = x
      BY EveryoneIsReached
    <2>2. m \in 0 .. Depth
      BY <1>1
    <2>3. PICK w \in Walks(s)[m] : Last(w).surat = x
      BY <2>1
    <2>4. Len(w) <= n + 1
      BY <2>1, <2>2, <2>3, WalksAreProper DEF Proper
    <2>5. w \in Thread(s, secret)
      BY <2>1, <2>2, <2>3, <1>3 DEF Thread
    <2> QED BY <2>4, <2>5, <2>3
  <1> QED BY <1>2, <1>3

-----------------------------------------------------------------------------
\* The theorems

LEMMA Initial == Init => IInv
  <1> SUFFICES ASSUME Init PROVE IInv
    OBVIOUS
  <1>1. TypeOK
    BY IdleType, RowTypes DEF Init, TypeOK
  <1>2. LivedFits
    BY DEF Init, LivedFits, IdleReq
  <1>3. AfterFits
    BY DEF Init, AfterFits, IdleReq, NoCc
  <1>4. TembusanInOrder
    BY DEF Init, TembusanInOrder, NoCc
  <1> QED
    BY <1>1, <1>2, <1>3, <1>4 DEF IInv

LEMMA Inductive == IInv /\ [Next]_vars => IInv'
  <1>1. ASSUME IInv, NEW r \in Request, Add(r) PROVE IInv'
    BY <1>1, StepBeginReference, StepBeginTembusan, StepVerifyFrom, StepVerifyTo,
       StepInsertReference, StepVerifySurat, StepReadUrutan, StepInsertTembusan, StepAbort
       DEF Add
  <1>2. ASSUME IInv, Next PROVE IInv'
    BY <1>1, <1>2, StepDeleteReference, StepDeleteTembusan, StepDeleteSurat, StepRestoreSurat
       DEF Next
  <1>3. ASSUME IInv, UNCHANGED vars PROVE IInv'
    BY <1>3 DEF vars, IInv, TypeOK, LivedFits, AfterFits, TembusanInOrder, ListedBefore
  <1> QED
    BY <1>2, <1>3

\* Requests, surat and rows agree at all times.
THEOREM Invariance == Spec => []IInv
  <1> QED
    BY Initial, Inductive, PTL DEF Spec

\* Additions that do not overlap are listed in their order, with whatever deletions
\* in between: max(urutan) + 1 needs no lock for that.
THEOREM TembusanKeepOrder == Spec => []TembusanInOrder
  <1>1. IInv => TembusanInOrder
    BY DEF IInv
  <1> QED
    BY <1>1, Invariance, PTL

\* Only InsertReference makes a reference.
LEMMA LinkStep ==
  ASSUME IInv, Next, NEW e \in Ref, ref[e].st = "none", ref'[e].st = "there"
  PROVE  \E r \in Request : {ref'[e].from, ref'[e].to} \ {None} \subseteq req[r].lived
  <1>1. ASSUME ref' = ref PROVE FALSE
    BY <1>1
  <1>2. ASSUME NEW f \in Ref, DeleteReference(f) PROVE FALSE
    <2>1. ref'[e] = ref[e] \/ ref'[e] = [NoRef EXCEPT !.st = "gone"]
      BY <1>2 DEF DeleteReference, IInv, TypeOK
    <2> QED
      BY <2>1 DEF NoRef
  <1>3. ASSUME NEW r \in Request, NEW f \in Ref, InsertReference(r, f)
        PROVE  {ref'[e].from, ref'[e].to} \ {None} \subseteq req[r].lived
    <2>1. ref'[e] = [st |-> "there", from |-> req[r].surat, to |-> req[r].to]
      BY <1>3 DEF InsertReference, IInv, TypeOK
    <2>2. req[r].pc = "ref"
      BY <1>3 DEF InsertReference
    <2> QED
      BY <2>1, <2>2 DEF IInv, LivedFits
  <1>4. \/ ref' = ref
        \/ \E f \in Ref : DeleteReference(f)
        \/ \E r \in Request, f \in Ref : InsertReference(r, f)
    BY DEF Next, Add, BeginReference, BeginTembusan, VerifyFrom, VerifyTo, VerifySurat,
           ReadUrutan, InsertTembusan, DeleteTembusan, Abort, DeleteSurat, RestoreSurat
  <1> QED
    BY <1>1, <1>2, <1>3, <1>4

\* AddReference links no surat that was deleted all the time.
THEOREM LinksAreGrounded == Spec => LinkEndsWereLive
  <1>1. IInv /\ [Next]_vars =>
          [\A e \in Ref : ref[e].st = "none" /\ ref'[e].st = "there" =>
             \E r \in Request : {ref'[e].from, ref'[e].to} \ {None} \subseteq req[r].lived]_vars
    BY LinkStep
  <1> QED
    BY <1>1, Invariance, PTL DEF Spec, LinkEndsWereLive

\* The thread of a surat has exactly its neighbourhood at every depth: no surat is
\* lost to the cycle check, which leaves a surat out only where a shorter walk has
\* reached it (GetSuratThread, reference.go:100-193).  External references lead to no
\* surat and are in no thread.
THEOREM ThreadsAreComplete == Spec => []ThreadIsNeighbourhood
  <1>1. IInv => ThreadIsNeighbourhood
    BY ThreadIsComplete DEF IInv
  <1> QED
    BY <1>1, Invariance, PTL
=============================================================================
