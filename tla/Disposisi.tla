------------------------------ MODULE Disposisi ------------------------------
(***************************************************************************)
(* Assignments (disposisi) and comments (komentar) on a surat, and the     *)
(* notifications that follow them: the create and append handlers of       *)
(* internal/server/disposisi.go and komentar.go, and their stores.         *)
(*                                                                         *)
(* A request reads the surat for its access check, inserts its row in a    *)
(* transaction of its own and then, with nothing to hold the three         *)
(* together, notifies the others one statement at a time.  What the pages  *)
(* do with it is in DisposisiCard and NotificationBell.                    *)
(***************************************************************************)
EXTENDS Integers, Sequences, FiniteSets

CONSTANTS
  Surat,      \* surat that exist
  Secret,     \* those whose access_level is secret
  User,       \* users
  Active,     \* those with is_active
  Assigner,   \* those with the role staf, camat or admin
  Writer,     \* those requireWriter lets through
  Reader,     \* those hasReadSecret lets through
  Row,        \* identifiers of disposisi and komentar
  Request,    \* requests that can be in progress
  None,       \* the NULL of the records
  Limit,      \* rows that ListDisposisi returns at most (50 in the code)
  MaxEdits,   \* bound: surat deleted or restored, and buttons clicked
  MaxFaults   \* bound: failures, lost connections and crashes

ASSUME SetAssumption ==
  Secret \subseteq Surat /\ Active \cup Assigner \cup Writer \cup Reader \subseteq User
ASSUME NullAssumption == None \notin Surat \cup User \cup Row
ASSUME RowAssumption == IsFiniteSet(Row)
ASSUME BoundAssumption == Limit \in Nat \ {0} /\ MaxEdits \in Nat /\ MaxFaults \in Nat

VARIABLES
  live,     \* live[s]: the surat is not deleted
  row,      \* row[e]: a disposisi or a komentar
  order,    \* rows by created_at: the begin of their transactions
  inbox,    \* inbox[u]: notifications of u by created_at
  req,      \* req[r]: a request and where it is
  edits,    \* deletions, restores and clicks so far
  faults    \* failures so far

rowVars == <<live, row, order, inbox, req, edits, faults>>

\* before are the disposisi a komentar found committed, and cut that an error or
\* a deletion kept its participants from being notified (history).
RowRec == [kind : {"none", "disposisi", "komentar"}, surat : Surat \cup {None},
           by : User \cup {None}, to : User \cup {None},
           before : SUBSET Row, cut : BOOLEAN]
NoRow == [kind |-> "none", surat |-> None, by |-> None, to |-> None,
          before |-> {}, cut |-> FALSE]

\* pc is what the request does next; late says that its surat was deleted after
\* its liveness check (history).
RequestRec == [pc : {"idle", "verify", "insert", "list", "notify"},
               surat : Surat \cup {None}, by : User \cup {None}, to : User \cup {None},
               row : Row \cup {None}, todo : SUBSET User, late : BOOLEAN]
IdleReq == [pc |-> "idle", surat |-> None, by |-> None, to |-> None, row |-> None,
            todo |-> {}, late |-> FALSE]

TypeOK ==
  /\ live \in [Surat -> BOOLEAN]
  /\ row \in [Row -> RowRec]
  /\ order \in Seq(Row)
  /\ inbox \in [User -> Seq(Row)]
  /\ req \in [Request -> RequestRec]
  /\ edits \in Nat /\ faults \in Nat

RowInit ==
  /\ live = [s \in Surat |-> TRUE]
  /\ row = [e \in Row |-> NoRow]
  /\ order = <<>>
  /\ inbox = [u \in User |-> <<>>]
  /\ req = [r \in Request |-> IdleReq]
  /\ edits = 0 /\ faults = 0

-----------------------------------------------------------------------------
\* Helpers

\* GetSuratByID and the access check that follows it.
MayRead(u, s) == live[s] /\ (s \in Secret => u \in Reader)

DisposisiOf(s) == {e \in Row : row[e].kind = "disposisi" /\ row[e].surat = s}

\* The rows of D that were created after e.
Newer(e, D) == {d \in D : \E i, j \in DOMAIN order : i < j /\ order[i] = e /\ order[j] = d}

\* ListDisposisi of one surat: the newest ones, while the surat is live.
ListDisposisi(s, includeSecret) ==
  {e \in DisposisiOf(s) : /\ live[s] /\ (s \in Secret => includeSecret)
                          /\ Cardinality(Newer(e, DisposisiOf(s))) < Limit}

\* Identifiers are UUIDs: no transaction has used a new one.
Unused == {e \in Row : \A i \in DOMAIN order : order[i] # e}

Heard(u, e) == \E i \in DOMAIN inbox[u] : inbox[u][i] = e

Parties(e) == {row[e].to, row[e].by}

Fault == faults < MaxFaults /\ faults' = faults + 1

-----------------------------------------------------------------------------
\* Creating a disposisi, appending a komentar

\* disposisiCreateHandler up to its store call.
BeginDisposisi(r, u, s, t) ==
  /\ req[r].pc = "idle" /\ u \in Assigner /\ MayRead(u, s)
  /\ req' = [req EXCEPT ![r].pc = "verify", ![r].surat = s, ![r].by = u, ![r].to = t]
  /\ UNCHANGED <<live, row, order, inbox, edits, faults>>

\* komentarAppendHandler up to its store call.
BeginKomentar(r, u, s) ==
  /\ req[r].pc = "idle" /\ u \in Writer /\ MayRead(u, s)
  /\ req' = [req EXCEPT ![r].pc = "verify", ![r].surat = s, ![r].by = u]
  /\ UNCHANGED <<live, row, order, inbox, edits, faults>>

\* The transaction begins and finds its surat live, and the assignee active ...
Verify(r) ==
  /\ req[r].pc = "verify"
  /\ live[req[r].surat]
  /\ req[r].to \in Active \cup {None}
  /\ \E e \in Unused :
       /\ order' = Append(order, e)
       /\ req' = [req EXCEPT ![r].pc = "insert", ![r].row = e]
  /\ UNCHANGED <<live, row, inbox, edits, faults>>

\* ... or the answer is an error.
Refuse(r) ==
  /\ req[r].pc = "verify"
  /\ ~live[req[r].surat] \/ req[r].to \notin Active \cup {None}
  /\ req' = [req EXCEPT ![r] = IdleReq]
  /\ UNCHANGED <<live, row, order, inbox, edits, faults>>

NewRow(r) ==
  [NoRow EXCEPT !.kind = IF req[r].to = None THEN "komentar" ELSE "disposisi",
                !.surat = req[r].surat, !.by = req[r].by, !.to = req[r].to,
                !.before = IF req[r].to = None THEN DisposisiOf(req[r].surat) ELSE {}]

\* The row is inserted and committed.  A disposisi has its assignee to notify, a
\* komentar has yet to look up its participants.
Insert(r) ==
  /\ req[r].pc = "insert"
  /\ row' = [row EXCEPT ![req[r].row] = NewRow(r)]
  /\ req' = [req EXCEPT ![r].pc = IF req[r].to = None THEN "list" ELSE "notify",
                        ![r].todo = {req[r].to} \ {None, req[r].by}]
  /\ UNCHANGED <<live, order, inbox, edits, faults>>

\* Mutants of ListParticipants: the author is not left out; only assignees are told.
ListParticipantsAuthorToo(r) ==
  /\ req[r].pc = "list"
  /\ LET found == ListDisposisi(req[r].surat, TRUE)
     IN req' = [req EXCEPT ![r].pc = "notify", ![r].todo = UNION {Parties(e) : e \in found}]
  /\ row' = [row EXCEPT ![req[r].row].cut = ~live[req[r].surat]]
  /\ UNCHANGED <<live, order, inbox, edits, faults>>

ListParticipantsAssignees(r) ==
  /\ req[r].pc = "list"
  /\ LET found == ListDisposisi(req[r].surat, TRUE)
     IN req' = [req EXCEPT ![r].pc = "notify",
                           ![r].todo = {row[e].to : e \in found} \ {req[r].by}]
  /\ row' = [row EXCEPT ![req[r].row].cut = ~live[req[r].surat]]
  /\ UNCHANGED <<live, order, inbox, edits, faults>>

\* notifyKomentarParticipants: who takes part in the surat's disposisi.
ListParticipants(r) ==
  /\ req[r].pc = "list"
  /\ LET found == ListDisposisi(req[r].surat, TRUE)
     IN req' = [req EXCEPT ![r].pc = "notify",
                           ![r].todo = (UNION {Parties(e) : e \in found}) \ {req[r].by}]
  /\ row' = [row EXCEPT ![req[r].row].cut = ~live[req[r].surat]]
  /\ UNCHANGED <<live, order, inbox, edits, faults>>

\* Mutant of Notify: a notification whose insertion took effect is tried again.
NotifyAgain(r, u) ==
  /\ req[r].pc = "notify" /\ u \in req[r].todo /\ Len(inbox[u]) < 2
  /\ inbox' = [inbox EXCEPT ![u] = Append(inbox[u], req[r].row)]
  /\ \E left \in {req[r].todo, req[r].todo \ {u}} : req' = [req EXCEPT ![r].todo = left]
  /\ UNCHANGED <<live, row, order, edits, faults>>

\* CreateNotification for one of them: map iteration has no order.
Notify(r, u) ==
  /\ req[r].pc = "notify" /\ u \in req[r].todo
  /\ inbox' = [inbox EXCEPT ![u] = Append(inbox[u], req[r].row)]
  /\ req' = [req EXCEPT ![r].todo = req[r].todo \ {u}]
  /\ UNCHANGED <<live, row, order, edits, faults>>

\* A failed insertion is logged, and the others are still notified.
NotifyFails(r, u) ==
  /\ Fault
  /\ req[r].pc = "notify" /\ u \in req[r].todo
  /\ row' = [row EXCEPT ![req[r].row].cut = TRUE]
  /\ req' = [req EXCEPT ![r].todo = req[r].todo \ {u}]
  /\ UNCHANGED <<live, order, inbox, edits>>

Answer(r) ==
  /\ req[r].pc = "notify" /\ req[r].todo = {}
  /\ req' = [req EXCEPT ![r] = IdleReq]
  /\ UNCHANGED <<live, row, order, inbox, edits, faults>>

\* The process dies, or the connection closes and cancels the request's context:
\* a transaction rolls back and nothing more is notified.
Broken(r) == req[r].pc = "list" \/ req[r].todo # {}
Abort(r) ==
  /\ Fault
  /\ req[r].pc # "idle"
  /\ row' = IF Broken(r) THEN [row EXCEPT ![req[r].row].cut = TRUE] ELSE row
  /\ req' = [req EXCEPT ![r] = IdleReq]
  /\ UNCHANGED <<live, order, inbox, edits>>

-----------------------------------------------------------------------------
\* SoftDeleteSurat and RestoreSurat

DeleteSurat(s) ==
  /\ live[s] /\ edits < MaxEdits
  /\ live' = [live EXCEPT ![s] = FALSE]
  /\ req' = [r \in Request |->
       IF req[r].pc = "insert" /\ req[r].surat = s THEN [req[r] EXCEPT !.late = TRUE] ELSE req[r]]
  /\ edits' = edits + 1
  /\ UNCHANGED <<row, order, inbox, faults>>

RestoreSurat(s) ==
  /\ ~live[s] /\ edits < MaxEdits
  /\ live' = [live EXCEPT ![s] = TRUE]
  /\ edits' = edits + 1
  /\ UNCHANGED <<row, order, inbox, req, faults>>

-----------------------------------------------------------------------------
\* What the server does for a request, and who may begin one.

Serve(r) ==
  \/ Verify(r) \/ Refuse(r) \/ Insert(r) \/ ListParticipants(r)
  \/ \E u \in User : Notify(r, u)
  \/ Answer(r)

Begin(r, u) == \E s \in Surat :
  BeginKomentar(r, u, s) \/ \E t \in User : BeginDisposisi(r, u, s, t)

Fail(r) == Abort(r) \/ \E u \in User : NotifyFails(r, u)

Edit(s) == DeleteSurat(s) \/ RestoreSurat(s)

RowNext ==
  \/ \E r \in Request, u \in User : Begin(r, u)
  \/ \E r \in Request : Serve(r) \/ Fail(r)
  \/ \E s \in Surat : Edit(s)

RowSpec == RowInit /\ [][RowNext]_rowVars

-----------------------------------------------------------------------------
\* Properties

Pending(e) == \E r \in Request : req[r].row = e /\ req[r].pc \in {"list", "notify"}

\* Who is to hear of the row e: a disposisi's assignee, and those who take part in
\* a disposisi that the komentar found committed and Limit newer ones do not hide.
Due(e) ==
  IF row[e].kind = "disposisi" THEN {row[e].to} \ {row[e].by}
  ELSE (UNION {Parties(d) : d \in {b \in row[e].before :
                 Cardinality(Newer(b, DisposisiOf(row[e].surat))) < Limit}}) \ {row[e].by}

\* A committed disposisi or komentar has reached the inbox of everyone it concerns,
\* unless its request is still at it, a failure cut it short, or its surat was
\* deleted when the participants were looked up (disposisi.go:164-185,
\* komentar.go:125-186).
Notified ==
  \A e \in Row : row[e].kind # "none" =>
    \/ Pending(e) \/ row[e].cut
    \/ \A u \in Due(e) : Heard(u, e)

\* What the rows and inboxes are to the pages.
Promise == INSTANCE Announcements WITH
  made <- [e \in Row |-> [kind |-> row[e].kind, by |-> row[e].by, to |-> row[e].to]]

\* Rows are made once and nobody hears twice of one, or of his own, or of one that
\* is not committed: the inserts of a notification are outside the row's transaction
\* and of no unique index (notification.go:33-42).
Promised == Promise!Promised

\* A surat that is deleted gets a new row only from a transaction that had found
\* it live: the handler's own check is older (store/disposisi.go:52-58,
\* store/komentar.go:43-49).
InsertedOnlyLive ==
  [][\A e \in Row :
       row[e].kind = "none" /\ row'[e].kind # "none" =>
         \/ live[row'[e].surat]
         \/ \E r \in Request : req[r].row = e /\ req[r].late]_rowVars

-----------------------------------------------------------------------------
\* The inductive invariant

\* The surat of e concerns u.
Concerned(u, e) == u = row[e].to \/ \E d \in DisposisiOf(row[e].surat) : u \in Parties(d)

\* A transaction works on an identifier that is its own.
RequestsFit ==
  \A r \in Request :
    /\ req[r].pc = "idle" => req[r] = IdleReq
    /\ req[r].pc # "idle" => req[r].surat \in Surat /\ req[r].by \in User
    /\ req[r].pc = "verify" => req[r].row = None
    /\ req[r].pc \in {"insert", "list", "notify"} =>
         /\ req[r].row \in Row /\ \E i \in DOMAIN order : order[i] = req[r].row
         /\ \A q \in Request \ {r} : req[q].row # req[r].row
    /\ req[r].pc \in {"verify", "insert"} =>
         req[r].by \in IF req[r].to = None THEN Writer ELSE Assigner
    /\ req[r].pc = "insert" =>
         /\ row[req[r].row] = NoRow
         /\ \A u \in User : ~Heard(u, req[r].row)
    /\ req[r].pc \in {"list", "notify"} =>
         /\ row[req[r].row].kind = IF req[r].to = None THEN "komentar" ELSE "disposisi"
         /\ row[req[r].row].surat = req[r].surat
         /\ row[req[r].row].by = req[r].by
    /\ req[r].pc = "list" => req[r].to = None /\ \A u \in User : ~Heard(u, req[r].row)

\* A row that exists was given its identifier, and knows its surat and its parties.
RowsFit ==
  /\ \A i, j \in DOMAIN order : order[i] = order[j] => i = j
  /\ \A e \in Row :
       /\ row[e].kind = "none" => row[e] = NoRow
       /\ row[e].kind # "none" =>
            /\ row[e].surat \in Surat
            /\ \E i \in DOMAIN order : order[i] = e
       /\ row[e].kind = "disposisi" => row[e].by \in Assigner /\ row[e].to \in User
       /\ row[e].kind = "komentar" =>
            /\ row[e].by \in Writer /\ row[e].to = None
            /\ row[e].before \subseteq DisposisiOf(row[e].surat)

\* Who is still to be notified has not been, and has a part in the surat.
TodoFits ==
  \A r \in Request :
    /\ req[r].pc # "notify" => req[r].todo = {}
    /\ \A u \in req[r].todo :
         ~Heard(u, req[r].row) /\ u # row[req[r].row].by /\ Concerned(u, req[r].row)

\* Nobody hears twice of a row, of one of his own or of one that does not concern
\* him.
InboxFits ==
  \A u \in User : \A i \in DOMAIN inbox[u] :
    /\ \A j \in DOMAIN inbox[u] : inbox[u][i] = inbox[u][j] => i = j
    /\ row[inbox[u][i]].kind # "none" /\ row[inbox[u][i]].by # u
    /\ Concerned(u, inbox[u][i])

\* A request that notifies has everyone on its list whom the row still misses.
NobodyForgotten ==
  \A r \in Request :
    req[r].pc = "notify" /\ ~row[req[r].row].cut =>
      \A u \in Due(req[r].row) : Heard(u, req[r].row) \/ u \in req[r].todo

IInv == TypeOK /\ RequestsFit /\ RowsFit /\ TodoFits /\ InboxFits /\ NobodyForgotten /\ Notified

=============================================================================
