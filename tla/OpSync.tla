------------------------------- MODULE OpSync -------------------------------
(***************************************************************************)
(* The offline write path: the browser's operation queue                   *)
(* (web/src/offline/opqueue.ts, a Dexie table that survives reloads), the  *)
(* HTTP requests it makes, and the server's idempotent operation log       *)
(* (internal/store/oplog.go) with last-write-wins on the surat row.        *)
(*                                                                         *)
(* Several requests may carry the same operation at once: enqueue sends it *)
(* at once, the 30 s drainer, the "Sync" button and the pending-sync badge *)
(* all drain the same table and nothing excludes one from another.  The    *)
(* server runs each request in its own goroutine and each operation in its *)
(* own transaction.  The web form's other writers of the row (PUT, DELETE, *)
(* restore) run beside it.                                                 *)
(***************************************************************************)
EXTENDS Integers, Sequences, FiniteSets

CONSTANTS
  Device,     \* browsers: one IndexedDB each
  User,       \* people who log in
  NoUser,     \* nobody
  NoTx,       \* no open web transaction
  Surat,      \* rows of table surat
  Op,         \* client_op_id values: UUIDv7, so each is generated once ...
  OpDevice,   \* ... by one device ...
  OpSurat,    \* ... for one entity_id
  Request,    \* requests that can be outstanding at the same time
  Skew,       \* Skew[d]: how far the clock of device d is ahead of the server's
  MaxBatch,   \* operations per drain request (50 in the code)
  MaxClock,   \* bound: the server clock stops here
  MaxFaults,  \* bound: failures, reloads and logouts in a behaviour
  MaxWeb      \* bound: web (PUT/DELETE/restore) transactions in a behaviour

Web == "web"  \* the writer of a row that is not an operation

ASSUME UserAssumption == NoUser \notin User
ASSUME OpAssumption == /\ IsFiniteSet(Op)
                       /\ Web \notin Op
                       /\ OpDevice \in [Op -> Device]
                       /\ OpSurat \in [Op -> Surat]
ASSUME ClockAssumption == Skew \in [Device -> Int] /\ NoTx \notin Int
ASSUME BoundAssumption == /\ MaxBatch \in Nat \ {0}
                          /\ MaxClock \in Nat /\ MaxFaults \in Nat /\ MaxWeb \in Nat

VARIABLES
  clock,    \* the database server's clock
  user,     \* user[d]: who is logged in on device d (auth store)
  ops,      \* ops[o]: the Dexie row of operation o, "absent" before enqueue
  submit,   \* operations whose enqueue() has added the row and not sent it yet
  req,      \* req[r]: one POST /api/sync/operations, both ends of it
  surat,    \* surat[s]: the committed row
  oplog,    \* oplog[o]: user_id of o's row in operation_log, NoUser if none
  effects,  \* effects[o]: how often o's changes were committed (history)
  put,      \* put[s]: NOW() of an open web transaction on s, or NoTx
  webs,     \* web transactions begun
  faults    \* failures so far

vars == <<clock, user, ops, submit, req, surat, oplog, effects, put, webs, faults>>

IdleReq == [cl |-> "idle", sv |-> "idle", batch |-> <<>>, by |-> NoUser,
            res |-> <<>>, ack |-> 0]

OpRow == [st  : {"absent", "queued", "synced"},
          ts  : Int,                                \* client_timestamp
          err : {"none", "rejected", "network"},    \* what field error was set by
          due : BOOLEAN]                            \* next_retry_at is unset or past

\* cl is the browser's end: idle (nobody waits), wait, ok and fail (working
\* through the outcome, ack rows done).  sv is the server's end: the step of
\* applyOneOp it is in, with the results so far in res.
RequestRec == [cl    : {"idle", "wait", "ok", "fail"},
               sv    : {"idle", "check", "lock", "insert", "done"},
               batch : Seq(Op),
               by    : User \cup {NoUser},          \* claims.Sub
               res   : Seq({"applied", "duplicate", "rejected"}),
               ack   : Nat]

SuratRow == [deleted : BOOLEAN,
             upd     : Int,                         \* updated_at
             by      : Op \cup {Web}]               \* whose content it is

TypeOK ==
  /\ clock \in Nat
  /\ user \in [Device -> User \cup {NoUser}]
  /\ ops \in [Op -> OpRow]
  /\ submit \in SUBSET Op
  /\ req \in [Request -> RequestRec]
  /\ surat \in [Surat -> SuratRow]
  /\ oplog \in [Op -> User \cup {NoUser}]
  /\ effects \in [Op -> Nat]
  /\ put \in [Surat -> Int \cup {NoTx}]
  /\ webs \in Nat
  /\ faults \in Nat

Init ==
  /\ clock = 0
  /\ user = [d \in Device |-> NoUser]
  /\ ops = [o \in Op |-> [st |-> "absent", ts |-> 0, err |-> "none", due |-> TRUE]]
  /\ submit = {}
  /\ req = [r \in Request |-> IdleReq]
  /\ surat = [s \in Surat |-> [deleted |-> FALSE, upd |-> 0, by |-> Web]]
  /\ oplog = [o \in Op |-> NoUser]
  /\ effects = [o \in Op |-> 0]
  /\ put = [s \in Surat |-> NoTx]
  /\ webs = 0
  /\ faults = 0

-----------------------------------------------------------------------------
\* Helpers

Logged(o) == oplog[o] # NoUser

Free(r) == req[r].cl = "idle" /\ req[r].sv = "idle"

\* The operation the server is working on in request r.
Current(r) == req[r].batch[Len(req[r].res) + 1]

\* SELECT ... FOR UPDATE: the row stays locked until the transaction ends.
RowLocked(s) == \E r \in Request : req[r].sv = "insert" /\ OpSurat[Current(r)] = s

\* A slot is reusable once neither end holds it.
Tidy(q) == IF q.cl = "idle" /\ q.sv \in {"idle", "done"} THEN IdleReq ELSE q

Fault == faults < MaxFaults /\ faults' = faults + 1

-----------------------------------------------------------------------------
\* The environment: time, people, the browser tab

Tick ==
  /\ clock < MaxClock
  /\ clock' = clock + 1
  /\ UNCHANGED <<user, ops, submit, req, surat, oplog, effects, put, webs, faults>>

Login(d, u) ==
  /\ user[d] = NoUser
  /\ user' = [user EXCEPT ![d] = u]
  /\ UNCHANGED <<clock, ops, submit, req, surat, oplog, effects, put, webs, faults>>

\* logout() drops the token and calls resetCache(), which clears the cached
\* tables and leaves the ops table as it is.
Logout(d) ==
  /\ user[d] # NoUser
  /\ Fault
  /\ user' = [user EXCEPT ![d] = NoUser]
  /\ UNCHANGED <<clock, ops, submit, req, surat, oplog, effects, put, webs>>

\* The tab is closed or reloaded: every pending continuation is gone, the Dexie
\* rows stay.  The server goes on with the requests it already has.
Reload(d) ==
  /\ Fault
  /\ submit' = {o \in submit : OpDevice[o] # d}
  /\ req' = [r \in Request |->
               IF req[r].cl # "idle" /\ OpDevice[req[r].batch[1]] = d
               THEN Tidy([req[r] EXCEPT !.cl = "idle"]) ELSE req[r]]
  /\ UNCHANGED <<clock, user, ops, surat, oplog, effects, put, webs>>

-----------------------------------------------------------------------------
\* The browser: enqueue, tryApplyOne, drainQueue

\* enqueue: the row is added to Dexie before anything is sent.
Enqueue(o) ==
  /\ ops[o].st = "absent"
  /\ user[OpDevice[o]] # NoUser
  /\ ops' = [ops EXCEPT ![o] = [st |-> "queued", ts |-> clock + Skew[OpDevice[o]],
                                err |-> "none", due |-> TRUE]]
  /\ submit' = submit \cup {o}
  /\ UNCHANGED <<clock, user, req, surat, oplog, effects, put, webs, faults>>

\* apiClient.post under whatever token the device holds now.  Without one the
\* middleware answers 401 and the call throws.
Post(d, r, batch) ==
  req' = [req EXCEPT ![r] = [cl    |-> IF user[d] = NoUser THEN "fail" ELSE "wait",
                             sv    |-> IF user[d] = NoUser THEN "idle" ELSE "check",
                             batch |-> batch,
                             by    |-> user[d],
                             res   |-> <<>>,
                             ack   |-> 0]]

\* enqueue goes on to tryApplyOne, whatever else is still queued.
SubmitNow(o, r) ==
  /\ o \in submit
  /\ Free(r)
  /\ submit' = submit \ {o}
  /\ Post(OpDevice[o], r, <<o>>)
  /\ UNCHANGED <<clock, user, ops, surat, oplog, effects, put, webs, faults>>

\* navigator.onLine is false: enqueue returns, the drainer has to send it.
SubmitLater(o) ==
  /\ o \in submit
  /\ submit' = submit \ {o}
  /\ UNCHANGED <<clock, user, ops, req, surat, oplog, effects, put, webs, faults>>

\* Mutants of Pending: a failed send is never due again; a refusal is final.
PendingNeverRetried(d) == {o \in Op : OpDevice[o] = d /\ ops[o].st = "queued"
                                     /\ ops[o].err # "network"}
PendingNotRejected(d) == {o \in Op : OpDevice[o] = d /\ ops[o].st = "queued" /\ ops[o].due
                                    /\ ops[o].err # "rejected"}

\* drainQueue's filter: not synced and past its next_retry_at.
Pending(d) == {o \in Op : OpDevice[o] = d /\ ops[o].st = "queued" /\ ops[o].due}

\* The first n of S by client_timestamp; ties in any order.
OldestFirst(S, n) ==
  {b \in [1..n -> S] :
     /\ \A i, j \in 1..n : i < j => b[i] # b[j] /\ ops[b[i]].ts <= ops[b[j]].ts
     /\ \A o \in S, i \in 1..n : (\A j \in 1..n : b[j] # o) => ops[b[i]].ts <= ops[o].ts}

BatchSize(S) == IF Cardinality(S) < MaxBatch THEN Cardinality(S) ELSE MaxBatch

Drain(d) ==
  /\ Pending(d) # {}
  /\ \E r \in Request, b \in OldestFirst(Pending(d), BatchSize(Pending(d))) :
       Free(r) /\ Post(d, r, b)
  /\ UNCHANGED <<clock, user, ops, submit, surat, oplog, effects, put, webs, faults>>

\* The loop over the results moves on; the request is over after the last one.
NextResult(r) ==
  req' = [req EXCEPT ![r] =
            Tidy([req[r] EXCEPT
                    !.ack = req[r].ack + 1,
                    !.cl = IF req[r].ack + 1 = Len(req[r].batch) THEN "idle" ELSE req[r].cl])]

\* Mutant of Settle: every row gets the first result, as tryApplyOne reads it.
SettleFirst(r) ==
  LET o == req[r].batch[req[r].ack + 1]
  IN  /\ req[r].cl = "ok"
      /\ ops' = IF req[r].res[1] \in {"applied", "duplicate"}
                THEN [ops EXCEPT ![o].st = "synced", ![o].err = "none"]
                ELSE [ops EXCEPT ![o].err = "rejected"]
      /\ NextResult(r)
      /\ UNCHANGED <<clock, user, submit, surat, oplog, effects, put, webs, faults>>

\* One db.ops.update of a successful response.
Settle(r) ==
  LET i == req[r].ack + 1
      o == req[r].batch[i]
  IN  /\ req[r].cl = "ok"
      /\ ops' = IF req[r].res[i] \in {"applied", "duplicate"}
                THEN [ops EXCEPT ![o].st = "synced", ![o].err = "none"]
                ELSE [ops EXCEPT ![o].err = "rejected"]
      /\ NextResult(r)
      /\ UNCHANGED <<clock, user, submit, surat, oplog, effects, put, webs, faults>>

\* One db.ops.update of the catch block: next_retry_at moves into the future.
Backoff(r) ==
  LET o == req[r].batch[req[r].ack + 1]
  IN  /\ req[r].cl = "fail"
      /\ ops' = [ops EXCEPT ![o].due = FALSE, ![o].err = "network"]
      /\ NextResult(r)
      /\ UNCHANGED <<clock, user, submit, surat, oplog, effects, put, webs, faults>>

\* next_retry_at passes: at most 60 s after it was set, whatever retry_count is.
RetryDue(o) ==
  /\ ops[o].st = "queued" /\ ~ops[o].due
  /\ ops' = [ops EXCEPT ![o].due = TRUE]
  /\ UNCHANGED <<clock, user, submit, req, surat, oplog, effects, put, webs, faults>>

-----------------------------------------------------------------------------
\* The network

\* Mutant of Deliver: a response cut short is taken for a whole one.
DeliverPartial(r) ==
  /\ req[r].cl = "wait" /\ req[r].sv # "check"
  /\ req' = [req EXCEPT ![r].cl = "ok", ![r].sv = "idle",
                        ![r].res = [i \in 1..Len(req[r].batch) |-> "applied"]]
  /\ UNCHANGED <<clock, user, ops, submit, surat, oplog, effects, put, webs, faults>>

\* The whole response arrives.
Deliver(r) ==
  /\ req[r].cl = "wait" /\ req[r].sv = "done"
  /\ req' = [req EXCEPT ![r].cl = "ok", ![r].sv = "idle"]
  /\ UNCHANGED <<clock, user, ops, submit, surat, oplog, effects, put, webs, faults>>

\* The connection breaks: fetch throws; the server may still be working.
Break(r) ==
  /\ req[r].cl = "wait"
  /\ Fault
  /\ req' = [req EXCEPT ![r].cl = "fail"]
  /\ UNCHANGED <<clock, user, ops, submit, surat, oplog, effects, put, webs>>

\* The request never arrives, the process stops, or the request's context is
\* cancelled: the open transaction rolls back, the committed ones stay.
Abort(r) ==
  /\ req[r].sv \notin {"idle", "done"}
  /\ Fault
  /\ req' = [req EXCEPT ![r] =
               Tidy([req[r] EXCEPT !.sv = "idle",
                                   !.cl = IF req[r].cl = "wait" THEN "fail" ELSE req[r].cl])]
  /\ UNCHANGED <<clock, user, ops, submit, surat, oplog, effects, put, webs>>

-----------------------------------------------------------------------------
\* The server: applyOneOp, one transaction per operation of the batch

Answer(r, status) ==
  req' = [req EXCEPT ![r] =
            Tidy([req[r] EXCEPT
                    !.res = Append(req[r].res, status),
                    !.sv = IF Len(req[r].res) + 1 = Len(req[r].batch) THEN "done" ELSE "check"])]

\* SELECT EXISTS(... operation_log ...), which takes no lock.
Check(r) ==
  /\ req[r].sv = "check"
  /\ IF Logged(Current(r)) THEN Answer(r, "duplicate")
                           ELSE req' = [req EXCEPT ![r].sv = "lock"]
  /\ UNCHANGED <<clock, user, ops, submit, surat, oplog, effects, put, webs, faults>>

\* Mutant of Stale: the timestamps are not compared.
StaleIgnored(o) == surat[OpSurat[o]].deleted

\* After(): a row with the very same timestamp is not newer.
Stale(o) == surat[OpSurat[o]].upd > ops[o].ts

\* Mutant of Lock: SELECT without FOR UPDATE.
LockWithoutLock(r) ==
  LET o == Current(r)
  IN  /\ req[r].sv = "lock"
      /\ IF surat[OpSurat[o]].deleted \/ Stale(o) THEN Answer(r, "rejected")
                                                  ELSE req' = [req EXCEPT ![r].sv = "insert"]
      /\ UNCHANGED <<clock, user, ops, submit, surat, oplog, effects, put, webs, faults>>

\* applySuratUpdate up to its UPDATE: wait for the row lock, then decide.
Lock(r) ==
  LET o == Current(r)
  IN  /\ req[r].sv = "lock"
      /\ ~RowLocked(OpSurat[o])
      /\ IF surat[OpSurat[o]].deleted \/ Stale(o) THEN Answer(r, "rejected")
                                                  ELSE req' = [req EXCEPT ![r].sv = "insert"]
      /\ UNCHANGED <<clock, user, ops, submit, surat, oplog, effects, put, webs, faults>>

\* What a commit makes visible: the row, backdated to the client's timestamp,
\* and the operation_log entry under the sender's user id.
Effect(r, o) ==
  /\ oplog' = [oplog EXCEPT ![o] = req[r].by]
  /\ surat' = [surat EXCEPT ![OpSurat[o]].upd = ops[o].ts, ![OpSurat[o]].by = o]
  /\ effects' = [effects EXCEPT ![o] = effects[o] + 1]

\* Mutant of Commit: no primary key on client_op_id.
CommitWithoutKey(r) ==
  LET o == Current(r)
  IN  /\ req[r].sv = "insert"
      /\ Answer(r, "applied") /\ Effect(r, o)
      /\ UNCHANGED <<clock, user, ops, submit, put, webs, faults>>

\* INSERT INTO operation_log and COMMIT; the primary key refuses a second row.
Commit(r) ==
  LET o == Current(r)
  IN  /\ req[r].sv = "insert"
      /\ IF Logged(o)
         THEN Answer(r, "rejected") /\ UNCHANGED <<surat, oplog, effects>>
         ELSE Answer(r, "applied") /\ Effect(r, o)
      /\ UNCHANGED <<clock, user, ops, submit, put, webs, faults>>

\* Any statement fails (lost connection, a constraint on the row): the
\* transaction rolls back and the operation is reported as rejected.
DbError(r) ==
  /\ req[r].sv \in {"check", "lock", "insert"}
  /\ Fault
  /\ Answer(r, "rejected")
  /\ UNCHANGED <<clock, user, ops, submit, surat, oplog, effects, put, webs>>

\* The connection fails while COMMIT runs: it took effect, tx.Commit reports an
\* error and the operation is reported as rejected.
CommitUnknown(r) ==
  LET o == Current(r)
  IN  /\ req[r].sv = "insert"
      /\ ~Logged(o)
      /\ Fault
      /\ Answer(r, "rejected")
      /\ Effect(r, o)
      /\ UNCHANGED <<clock, user, ops, submit, put, webs>>

-----------------------------------------------------------------------------
\* The other writers of the row: UpdateSurat, SoftDeleteSurat, RestoreSurat.
\* NOW() is the time the transaction began, not the time it got the row lock.

WebBegin(s) ==
  /\ webs < MaxWeb /\ put[s] = NoTx
  /\ put' = [put EXCEPT ![s] = clock]
  /\ webs' = webs + 1
  /\ UNCHANGED <<clock, user, ops, submit, req, surat, oplog, effects, faults>>

\* UPDATE ... WHERE NOT is_deleted (or, to restore, WHERE is_deleted) and commit.
WebWrite(s) ==
  /\ put[s] # NoTx
  /\ ~RowLocked(s)
  /\ \E del \in BOOLEAN :
       /\ del => ~surat[s].deleted
       /\ surat' = [surat EXCEPT ![s] = [deleted |-> del, upd |-> put[s], by |-> Web]]
  /\ put' = [put EXCEPT ![s] = NoTx]
  /\ UNCHANGED <<clock, user, ops, submit, req, oplog, effects, webs, faults>>

\* No row matched, or the statement failed: nothing is written.
WebFail(s) ==
  /\ put[s] # NoTx
  /\ put' = [put EXCEPT ![s] = NoTx]
  /\ UNCHANGED <<clock, user, ops, submit, req, surat, oplog, effects, webs, faults>>

-----------------------------------------------------------------------------
Browser == \/ \E d \in Device : Drain(d)
           \/ \E o \in Op : Enqueue(o) \/ SubmitLater(o) \/ RetryDue(o)
           \/ \E o \in Op, r \in Request : SubmitNow(o, r)
           \/ \E r \in Request : Settle(r) \/ Backoff(r)

Network == \E r \in Request : Deliver(r) \/ Break(r) \/ Abort(r)

Server == \E r \in Request : \/ Check(r) \/ Lock(r) \/ Commit(r)
                             \/ DbError(r) \/ CommitUnknown(r)

Writers == \E s \in Surat : WebBegin(s) \/ WebWrite(s) \/ WebFail(s)

People == \/ Tick
          \/ \E d \in Device : Logout(d) \/ Reload(d) \/ \E u \in User : Login(d, u)

Next == Browser \/ Network \/ Server \/ Writers \/ People

Spec == Init /\ [][Next]_vars

(***************************************************************************)
(* Fairness.  The drainer's interval fires for ever and finds a slot again *)
(* and again (browsers have no such limit); a callback that is due runs; a *)
(* response that was written and not lost arrives; the server's goroutines *)
(* run, and PostgreSQL hands a row lock to its waiters in turn.  Nothing   *)
(* is assumed of people, of the clock, of the web writers or of failures.  *)
(***************************************************************************)
Fairness ==
  /\ \A d \in Device : SF_vars(Drain(d))
  /\ \A o \in Op : /\ WF_vars(SubmitLater(o))
                   /\ WF_vars(RetryDue(o))
  /\ \A r \in Request : /\ WF_vars(Settle(r)) /\ WF_vars(Backoff(r))
                        /\ WF_vars(Deliver(r))
                        /\ WF_vars(Check(r)) /\ WF_vars(Commit(r))
                        /\ SF_vars(Lock(r))

FairSpec == Spec /\ Fairness

-----------------------------------------------------------------------------
\* Safety

\* The queue never forgets an edit the server does not have: a row of the ops
\* table is marked synced only when operation_log holds its client_op_id,
\* whatever was retried, lost, answered twice or answered late.
SyncedImpliesLogged == \A o \in Op : ops[o].st = "synced" => Logged(o)

\* "Server pasti tidak apply ganda" (0001_init.sql:278): however many requests
\* carry an operation at the same time, its changes are committed once if it is
\* in operation_log and never otherwise.
AppliedOnce == \A o \in Op : effects[o] = IF Logged(o) THEN 1 ELSE 0

\* An operation never replaces a row that is newer than itself: what was read
\* under FOR UPDATE still holds when the transaction commits.  A row's updated_at
\* goes back only to the begin of a web transaction (surat_write.go:90), and not
\* while an operation that has compared itself with it is still at it.
NoStaleOverwrite ==
  [][/\ \A o \in Op : Logged(o)' /\ ~Logged(o) =>
          /\ ~surat[OpSurat[o]].deleted
          /\ surat[OpSurat[o]].upd <= ops[o].ts
     /\ \A s \in Surat : surat'[s].upd < surat[s].upd =>
          /\ surat'[s].by = Web /\ surat'[s].upd = put[s]
          /\ ~RowLocked(s)]_vars

\* Last write wins: as long as only operations write, the row carries the
\* changes of an operation with the newest timestamp of all that were applied,
\* in whatever order the devices' requests reached the server.
NewestLoggedWins ==
  webs = 0 => \A o \in Op : Logged(o) =>
                LET w == surat[OpSurat[o]].by
                IN  w \in Op /\ Logged(w) /\ ops[o].ts <= ops[w].ts

-----------------------------------------------------------------------------
\* Why these hold: what is true of every request and every row at all times

\* A request knows no more than the log: a positive result in it, delivered or
\* not, is about an operation that is in operation_log.
ResultsInv ==
  \A r \in Request : \A i \in DOMAIN req[r].res :
    req[r].res[i] \in {"applied", "duplicate"} => Logged(req[r].batch[i])

\* Both ends of a request stay within its batch, and only operations that were
\* enqueued are sent.
RequestInv ==
  /\ \A o \in submit : ops[o].st # "absent"
  /\ \A r \in Request :
      /\ \A i \in DOMAIN req[r].batch : ops[req[r].batch[i]].st # "absent"
      /\ DOMAIN req[r].res \subseteq DOMAIN req[r].batch
      /\ req[r].cl # "idle" => req[r].ack < Len(req[r].batch)
      /\ req[r].cl = "ok" => Len(req[r].res) = Len(req[r].batch) /\ req[r].sv = "idle"
      /\ req[r].sv = "done" => Len(req[r].res) = Len(req[r].batch)
      /\ req[r].sv \in {"check", "lock", "insert"} =>
           Len(req[r].res) < Len(req[r].batch) /\ req[r].by # NoUser

\* A transaction that holds a row lock holds it alone, and what it read of the
\* row before deciding is still so.
LockInv ==
  /\ \A r \in Request : req[r].sv = "insert" =>
       ~surat[OpSurat[Current(r)]].deleted /\ ~Stale(Current(r))
  /\ \A r, q \in Request :
       req[r].sv = "insert" /\ req[q].sv = "insert"
         /\ OpSurat[Current(r)] = OpSurat[Current(q)] => r = q

\* A row written last by an operation carries its timestamp, and the operation
\* is in the log.
RowInv ==
  /\ \A o \in Op : Logged(o) => ops[o].st # "absent"
  /\ \A s \in Surat : surat[s].by \in Op =>
       /\ Logged(surat[s].by)
       /\ OpSurat[surat[s].by] = s
       /\ surat[s].upd = ops[surat[s].by].ts
  /\ webs = 0 => \A s \in Surat : put[s] = NoTx

\* The inductive invariant behind the safety properties.
IInv == /\ TypeOK /\ RequestInv /\ ResultsInv /\ LockInv /\ RowInv
        /\ SyncedImpliesLogged /\ AppliedOnce /\ NewestLoggedWins

-----------------------------------------------------------------------------
\* Liveness, under FairSpec

LoggedOut(o) == user[OpDevice[o]] = NoUser

\* Every edit gets an answer from the server, applied or refused, once failures
\* stop and while somebody stays logged in on its device.
EventuallyAnswered ==
  \A o \in Op : ops[o].st = "queued" ~>
                 ops[o].st = "synced" \/ ops[o].err = "rejected" \/ LoggedOut(o)

\* An edit the server has applied does not stay in the pending badge: also when
\* its answer was lost, or said "rejected" because a concurrent request carrying
\* the same operation committed first.
AppliedIsAcknowledged ==
  \A o \in Op : Logged(o) ~> ops[o].st = "synced" \/ LoggedOut(o)

-----------------------------------------------------------------------------
\* The abstract specification this module implements

Status(o) == CASE ops[o].st = "absent" -> "absent"
               [] ops[o].st = "synced" -> "acked"
               [] OTHER -> IF Logged(o) THEN "applied" ELSE "pending"

Abs == INSTANCE ExactlyOnce WITH status <- [o \in Op |-> Status(o)],
                                 writer <- [s \in Surat |-> surat[s].by]

\* Queue, network and log together make each edit take effect exactly once and
\* be acknowledged only after it has.
ExactlyOnceEdits == Abs!Spec
=============================================================================
