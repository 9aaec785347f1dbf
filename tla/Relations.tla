------------------------------ MODULE Relations ------------------------------
(***************************************************************************)
(* What hangs on a surat besides its files: references to other surat and  *)
(* the thread that follows them, and the list of tembusan (store and       *)
(* server: reference.go, tembusan.go; GetSuratByID of store/surat.go).     *)
(*                                                                         *)
(* An addition is a transaction of several statements at READ COMMITTED    *)
(* that locks nothing: each statement sees what is committed by then, and  *)
(* surat may be deleted and restored, and other additions committed, in    *)
(* between.                                                                *)
(***************************************************************************)
EXTENDS Integers, Sequences, FiniteSets

CONSTANTS
  Surat,      \* identifiers of surat
  Secret,     \* those with access_level 'secret'
  Ref,        \* identifiers of rows of surat_references
  Cc,         \* identifiers of rows of surat_tembusan
  Request,    \* slots for requests in progress
  None,       \* no surat: the target of an external reference
  Explicit,   \* values of urutan that a caller may ask for
  Depth,      \* how deep a thread is followed (50 in the code)
  MaxEdits    \* bound: additions begun, rows deleted, surat deleted and restored

ASSUME SetAssumption == Secret \subseteq Surat /\ None \notin Surat
ASSUME NumberAssumption == Explicit \subseteq Nat \ {0} /\ Depth \in Nat /\ MaxEdits \in Nat
ASSUME CcAssumption == IsFiniteSet(Cc)

VARIABLES
  live,   \* surat that are not deleted
  ref,    \* ref[e]: a row of surat_references
  cc,     \* cc[c]: a row of surat_tembusan
  req,    \* req[r]: an addition on its way
  edits   \* edits so far

vars == <<live, ref, cc, req, edits>>

Target == Surat \cup {None}
RefRow == [st : {"none", "there", "gone"}, from : Target, to : Target]
NoRef == [st |-> "none", from |-> None, to |-> None]

\* after: the rows of the same surat that were there when the addition began (history)
CcRow == [st : {"none", "there", "gone"}, surat : Target, urutan : Nat, auto : BOOLEAN,
          after : SUBSET Cc]
NoCc == [st |-> "none", surat |-> None, urutan |-> 0, auto |-> FALSE, after |-> {}]

\* lived: the surat that were live at some moment since the request began, and
\* after: the tembusan there were when it began (history)
Req == [pc : {"idle", "from", "to", "ref", "surat", "urutan", "cc"},
        surat : Target, to : Target, urutan : Nat, auto : BOOLEAN,
        lived : SUBSET Surat, after : SUBSET Cc]
IdleReq == [pc |-> "idle", surat |-> None, to |-> None, urutan |-> 0, auto |-> FALSE,
            lived |-> {}, after |-> {}]

TypeOK ==
  /\ live \subseteq Surat
  /\ ref \in [Ref -> RefRow]
  /\ cc \in [Cc -> CcRow]
  /\ req \in [Request -> Req]
  /\ edits \in Nat

Init ==
  /\ live = Surat
  /\ ref = [e \in Ref |-> NoRef]
  /\ cc = [c \in Cc |-> NoCc]
  /\ req = [r \in Request |-> IdleReq]
  /\ edits = 0

-----------------------------------------------------------------------------
\* Helpers

Refs == {e \in Ref : ref[e].st = "there"}
CcOf(s) == {c \in Cc : cc[c].st = "there" /\ cc[c].surat = s}

Move(r, pc) == req' = [req EXCEPT ![r].pc = pc]
End(r) == req' = [req EXCEPT ![r] = IdleReq]

Edit == edits < MaxEdits /\ edits' = edits + 1

-----------------------------------------------------------------------------
\* POST /api/surat/{id}/references

\* The handler finds the surat readable.
BeginReference(r, s, t) ==
  /\ req[r].pc = "idle" /\ s \in live
  /\ Edit
  /\ req' = [req EXCEPT ![r] = [IdleReq EXCEPT !.pc = "from", !.surat = s, !.to = t,
                                               !.lived = live]]
  /\ UNCHANGED <<live, ref, cc>>

\* AddReference looks for the surat again, and for the target of an internal link.
VerifyFrom(r) ==
  /\ req[r].pc = "from" /\ req[r].surat \in live
  /\ Move(r, IF req[r].to = None THEN "ref" ELSE "to")
  /\ UNCHANGED <<live, ref, cc, edits>>

\* Mutant of VerifyTo: a row is enough, deleted or not, as for the foreign key.
VerifyToAnyRow(r) ==
  /\ req[r].pc = "to"
  /\ Move(r, "ref")
  /\ UNCHANGED <<live, ref, cc, edits>>

VerifyTo(r) ==
  /\ req[r].pc = "to" /\ req[r].to \in live
  /\ Move(r, "ref")
  /\ UNCHANGED <<live, ref, cc, edits>>

InsertReference(r, e) ==
  /\ req[r].pc = "ref" /\ ref[e].st = "none"
  /\ ref' = [ref EXCEPT ![e] = [st |-> "there", from |-> req[r].surat, to |-> req[r].to]]
  /\ End(r)
  /\ UNCHANGED <<live, cc, edits>>

DeleteReference(e) ==
  /\ ref[e].st = "there" /\ Edit
  /\ ref' = [ref EXCEPT ![e] = [NoRef EXCEPT !.st = "gone"]]
  /\ UNCHANGED <<live, cc, req>>

-----------------------------------------------------------------------------
\* POST /api/surat/{id}/tembusan

\* u is 0 when the caller leaves the number to the server.
BeginTembusan(r, s, u) ==
  /\ req[r].pc = "idle" /\ s \in live
  /\ Edit
  /\ req' = [req EXCEPT ![r] = [IdleReq EXCEPT !.pc = "surat", !.surat = s, !.urutan = u,
                                               !.auto = (u = 0), !.lived = live,
                                               !.after = CcOf(s)]]
  /\ UNCHANGED <<live, ref, cc>>

VerifySurat(r) ==
  /\ req[r].pc = "surat" /\ req[r].surat \in live
  /\ Move(r, IF req[r].auto THEN "urutan" ELSE "cc")
  /\ UNCHANGED <<live, ref, cc, edits>>

\* Mutant of NextUrutan: the rows are counted.
NextUrutanCounted(s) == {Cardinality(CcOf(s)) + 1}

\* COALESCE(MAX(urutan), 0) + 1, as the set of that one number.
NextUrutan(s) ==
  {n \in {1} \cup {cc[c].urutan + 1 : c \in CcOf(s)} : \A c \in CcOf(s) : cc[c].urutan < n}

ReadUrutan(r) ==
  /\ req[r].pc = "urutan"
  /\ \E n \in NextUrutan(req[r].surat) :
       req' = [req EXCEPT ![r].pc = "cc", ![r].urutan = n]
  /\ UNCHANGED <<live, ref, cc, edits>>

InsertTembusan(r, c) ==
  /\ req[r].pc = "cc" /\ cc[c].st = "none"
  /\ cc' = [cc EXCEPT ![c] = [st |-> "there", surat |-> req[r].surat,
                              urutan |-> req[r].urutan, auto |-> req[r].auto,
                              after |-> req[r].after]]
  /\ End(r)
  /\ UNCHANGED <<live, ref, edits>>

DeleteTembusan(c) ==
  /\ cc[c].st = "there" /\ Edit
  /\ cc' = [cc EXCEPT ![c] = [NoCc EXCEPT !.st = "gone"]]
  /\ UNCHANGED <<live, ref, req>>

-----------------------------------------------------------------------------
\* Not found, an error, a lost connection, a crash: the transaction is undone.
Abort(r) ==
  /\ req[r].pc # "idle"
  /\ End(r)
  /\ UNCHANGED <<live, ref, cc, edits>>

\* Rows of a surat that is deleted stay, and come back with it.
DeleteSurat(s) ==
  /\ s \in live /\ Edit
  /\ live' = live \ {s}
  /\ UNCHANGED <<ref, cc, req>>

RestoreSurat(s) ==
  /\ s \notin live /\ Edit
  /\ live' = live \cup {s}
  /\ req' = [r \in Request |-> IF req[r].pc = "idle" THEN req[r]
                               ELSE [req[r] EXCEPT !.lived = req[r].lived \cup {s}]]
  /\ UNCHANGED <<ref, cc>>

Add(r) ==
  \/ \E s \in Surat : \/ \E t \in Target : BeginReference(r, s, t)
                      \/ \E u \in {0} \cup Explicit : BeginTembusan(r, s, u)
  \/ VerifyFrom(r) \/ VerifyTo(r) \/ \E e \in Ref : InsertReference(r, e)
  \/ VerifySurat(r) \/ ReadUrutan(r) \/ \E c \in Cc : InsertTembusan(r, c)
  \/ Abort(r)

Next ==
  \/ \E r \in Request : Add(r)
  \/ \E e \in Ref : DeleteReference(e)
  \/ \E c \in Cc : DeleteTembusan(c)
  \/ \E s \in Surat : DeleteSurat(s) \/ RestoreSurat(s)

Spec == Init /\ [][Next]_vars

-----------------------------------------------------------------------------
\* What the page of a surat and its thread show

\* queryReferences: an outgoing reference is listed whatever became of its target,
\* an incoming one while its source is live.
Predecessors(s) == {e \in Refs : ref[e].from = s}
Successors(s)   == {e \in Refs : ref[e].to = s /\ ref[e].from \in live}

\* The order of the list of tembusan, up to the identifiers of equal numbers.
ListedBefore(c, d) == cc[c].urutan < cc[d].urutan

\* Along a reference in either direction to a surat that is live; an external reference,
\* whose target is None, is joined with no surat and leads nowhere.
Steps(s) ==
  {[surat |-> ref[e].to, by |-> e, dir |-> "predecessor"] :
     e \in {f \in Refs : ref[f].from = s /\ ref[f].to \in live}}
  \cup
  {[surat |-> ref[e].from, by |-> e, dir |-> "successor"] :
     e \in {f \in Refs : ref[f].to = s /\ ref[f].from \in live}}

Here(s) == [surat |-> s, by |-> None, dir |-> "self"]
Last(w) == w[Len(w)]
Visited(w) == {w[i].surat : i \in DOMAIN w}

\* Walks(s)[n]: the walks of n steps from s that meet no surat twice, which is what
\* the recursive term makes of the visited array.
Walks(s) ==
  LET walk[n \in 0 .. Depth] ==
        IF n = 0 THEN {<<Here(x)>> : x \in live \cap {s}}
        ELSE UNION {{Append(w, x) :
                       x \in {y \in Steps(Last(w).surat) : y.surat \notin Visited(w)}} :
                      w \in walk[n - 1]}
  IN walk

\* Mutant of Thread: what is secret is left out while walking.
ThreadAround(s, secret) ==
  UNION {{w \in Walks(s)[n] : secret \/ Visited(w) \cap Secret = {}} : n \in 0 .. Depth}

\* GetSuratThread: a row for every walk, at the surat where it ends; its depth is the
\* walk's length.  Secret surat are left out of the answer and not of the walks.
Thread(s, secret) ==
  UNION {{w \in Walks(s)[n] : secret \/ Last(w).surat \notin Secret} : n \in 0 .. Depth}

-----------------------------------------------------------------------------
\* Properties

\* The surat that the page of s leads to.
OnPage(s) == {ref[e].to : e \in Predecessors(s)} \cup {ref[e].from : e \in Successors(s)}

\* The live surat that at most n pages lead to from s.
Within(s) ==
  LET near[n \in 0 .. Depth] ==
        IF n = 0 THEN {s} ELSE near[n - 1] \cup (live \cap UNION {OnPage(x) : x \in near[n - 1]})
  IN near

\* Up to every depth the thread has exactly the surat that so many pages lead to, and
\* without the permission exactly those of them that are not secret: no link between
\* surat is lost to the cycle check, and a surat's first row gives its distance
\* (reference.go:100-193, surat.go:259-281).  It is about surat only: the external
\* references that the pages list are in no thread, because the query joins surat
\* (reference.go:151-153); the comment above it, that they become terminal nodes
\* (reference.go:107-108), does not describe it.
ThreadIsNeighbourhood ==
  \A s \in live, secret \in BOOLEAN : \A n \in 0 .. Depth :
    {Last(w).surat : w \in {v \in Thread(s, secret) : Len(v) <= n + 1}}
      = Within(s)[n] \ (IF secret THEN {} ELSE Secret)

\* A tembusan without a number of its own is listed after all that were there when
\* its request came, whatever was deleted and added meanwhile; only those added at
\* the same time share a number (tembusan.go:88-97, 42).
TembusanInOrder ==
  \A d \in Cc : cc[d].st = "there" /\ cc[d].auto =>
    \A c \in cc[d].after : cc[c].st = "there" => ListedBefore(c, d)

\* A new reference connects surat each of which was live at some moment since its
\* request came, not necessarily the same one (reference.go:33-49).
LinkEndsWereLive ==
  [][\A e \in Ref : ref[e].st = "none" /\ ref'[e].st = "there" =>
       \E r \in Request : {ref'[e].from, ref'[e].to} \ {None} \subseteq req[r].lived]_vars

-----------------------------------------------------------------------------
\* The inductive invariant

\* A request has seen live what its statements have found so far.
LivedFits ==
  \A r \in Request : req[r].pc # "idle" =>
    /\ live \subseteq req[r].lived
    /\ req[r].surat \in req[r].lived
    /\ req[r].pc = "ref" => {req[r].to} \ {None} \subseteq req[r].lived

\* The rows that an addition has before it existed when it began, and a number that
\* was read is above theirs.
AfterFits ==
  /\ \A d \in Cc : \A c \in cc[d].after : cc[c].st # "none"
  /\ \A r \in Request : \A c \in req[r].after :
       /\ cc[c].st # "none"
       /\ cc[c].st = "there" =>
            /\ cc[c].surat = req[r].surat
            /\ req[r].pc = "cc" /\ req[r].auto => cc[c].urutan < req[r].urutan

IInv == TypeOK /\ LivedFits /\ AfterFits /\ TembusanInOrder

=============================================================================
