---------------------------- MODULE OpSyncProofs ----------------------------
(***************************************************************************)
(* Theorems about OpSync, for every set of devices, people, rows,          *)
(* operations and request slots, every clock skew and every bound.         *)
(***************************************************************************)
EXTENDS OpSync, FiniteSetTheorems, TLAPS

LEMMA TidyType == ASSUME NEW q \in RequestRec PROVE Tidy(q) \in RequestRec
  BY DEF Tidy, IdleReq, RequestRec

\* What the server writes into a request is a request.
LEMMA AnswerType ==
  ASSUME TypeOK, NEW r \in Request,
         NEW status \in {"applied", "duplicate", "rejected"}, Answer(r, status)
  PROVE  req' \in [Request -> RequestRec]
  <1> DEFINE sv == IF Len(req[r].res) + 1 = Len(req[r].batch) THEN "done" ELSE "check"
             q == [req[r] EXCEPT !.res = Append(req[r].res, status), !.sv = sv]
  <1>1. req[r] \in RequestRec
    BY DEF TypeOK
  <1>2. Append(req[r].res, status) \in Seq({"applied", "duplicate", "rejected"})
    BY <1>1 DEF RequestRec
  <1>3. sv \in {"done", "check"}
    OBVIOUS
  <1>4. q \in RequestRec
    <2> HIDE DEF sv
    <2> QED BY <1>1, <1>2, <1>3 DEF RequestRec
  <1>5. req' = [req EXCEPT ![r] = Tidy(q)]
    BY DEF Answer
  <1> HIDE DEF q
  <1> QED
    BY <1>4, <1>5, TidyType DEF TypeOK

LEMMA SvType ==
  ASSUME TypeOK, NEW r \in Request, NEW sv \in {"lock", "insert"},
         req' = [req EXCEPT ![r].sv = sv]
  PROVE  req' \in [Request -> RequestRec]
  <1> DEFINE q == [req[r] EXCEPT !.sv = sv]
  <1>1. q \in RequestRec
    BY DEF TypeOK, RequestRec
  <1>2. req' = [req EXCEPT ![r] = q]
    OBVIOUS
  <1> HIDE DEF q
  <1> QED
    BY <1>1, <1>2 DEF TypeOK

\* The effect of a commit is well typed.
LEMMA EffectType ==
  ASSUME TypeOK, NEW r \in Request, NEW o \in Op, Effect(r, o)
  PROVE  /\ surat' \in [Surat -> SuratRow]
         /\ oplog' \in [Op -> User \cup {NoUser}]
         /\ effects' \in [Op -> Nat]
  <1>1. req[r].by \in User \cup {NoUser} /\ ops[o].ts \in Int
    BY DEF TypeOK, RequestRec, OpRow
  <1>2. surat[OpSurat[o]] \in SuratRow
    BY OpAssumption DEF TypeOK
  <1>3. surat' \in [Surat -> SuratRow]
    BY <1>1, <1>2, OpAssumption DEF Effect, TypeOK, SuratRow
  <1> QED
    BY <1>1, <1>3 DEF Effect, TypeOK

\* So is what the browser's loop over the results leaves.
LEMMA NextResultType ==
  ASSUME TypeOK, NEW r \in Request, NextResult(r)
  PROVE  req' \in [Request -> RequestRec]
  <1> DEFINE cl == IF req[r].ack + 1 = Len(req[r].batch) THEN "idle" ELSE req[r].cl
             q == [req[r] EXCEPT !.ack = req[r].ack + 1, !.cl = cl]
  <1>1. req[r] \in RequestRec
    BY DEF TypeOK
  <1>2. cl \in {"idle", "wait", "ok", "fail"} /\ req[r].ack + 1 \in Nat
    BY <1>1 DEF RequestRec
  <1>3. q \in RequestRec
    <2> HIDE DEF cl
    <2> QED BY <1>1, <1>2 DEF RequestRec
  <1>4. req' = [req EXCEPT ![r] = Tidy(q)]
    BY DEF NextResult
  <1> HIDE DEF q
  <1> QED
    BY <1>3, <1>4, TidyType DEF TypeOK

LEMMA PostType ==
  ASSUME TypeOK, NEW d \in Device, NEW r \in Request, NEW b \in Seq(Op), Post(d, r, b)
  PROVE  req' \in [Request -> RequestRec]
  BY DEF TypeOK, Post, RequestRec, IdleReq

\* A drain sends operations of the device that are pending, at least one.
LEMMA BatchType ==
  ASSUME TypeOK, NEW d \in Device, Pending(d) # {},
         NEW b \in OldestFirst(Pending(d), BatchSize(Pending(d)))
  PROVE  /\ b \in Seq(Op) /\ Len(b) >= 1
         /\ \A i \in DOMAIN b : b[i] \in Pending(d)
  <1> DEFINE S == Pending(d)
             n == BatchSize(S)
  <1>1. IsFiniteSet(S) /\ S \subseteq Op
    BY OpAssumption, FS_Subset DEF Pending
  <1>2. Cardinality(S) \in Nat /\ Cardinality(S) # 0
    BY <1>1, FS_CardinalityType, FS_EmptySet
  <1>3. n \in Nat /\ n >= 1
    BY <1>2, BoundAssumption DEF BatchSize
  <1>4. b \in [1..n -> S]
    BY DEF OldestFirst
  <1> QED
    BY <1>1, <1>3, <1>4

\* A request in the server's hands has a next operation.
LEMMA CurrentType ==
  ASSUME TypeOK, RequestInv, NEW r \in Request, req[r].sv \in {"check", "lock", "insert"}
  PROVE  /\ Current(r) \in Op
         /\ Len(req[r].res) + 1 \in DOMAIN req[r].batch
         /\ ops[Current(r)].st # "absent"
         /\ req[r].by # NoUser
  <1>1. req[r].batch \in Seq(Op) /\ req[r].res \in Seq({"applied", "duplicate", "rejected"})
    BY DEF TypeOK, RequestRec
  <1>2. Len(req[r].res) < Len(req[r].batch) /\ req[r].by # NoUser
    BY DEF RequestInv
  <1>3. Len(req[r].res) + 1 \in DOMAIN req[r].batch
    BY <1>1, <1>2
  <1> QED
    BY <1>1, <1>2, <1>3 DEF Current, RequestInv

-----------------------------------------------------------------------------
\* Every step keeps the state well typed.

LEMMA TypeStep == TypeOK /\ RequestInv /\ [Next]_vars => TypeOK'
  <1> SUFFICES ASSUME TypeOK, RequestInv, [Next]_vars PROVE TypeOK'
    OBVIOUS
  <1> USE UserAssumption, OpAssumption, ClockAssumption, BoundAssumption
  <1>1. ASSUME NEW d \in Device, Drain(d) PROVE TypeOK'
    <2>1. PICK r \in Request, b \in OldestFirst(Pending(d), BatchSize(Pending(d))) :
            Post(d, r, b)
      BY <1>1 DEF Drain
    <2>2. b \in Seq(Op)
      BY <1>1, BatchType DEF Drain
    <2> QED
      BY <1>1, <2>1, <2>2, PostType DEF Drain, TypeOK
  <1>2. ASSUME NEW o \in Op, Enqueue(o) PROVE TypeOK'
    BY <1>2 DEF Enqueue, TypeOK, OpRow
  <1>3. ASSUME NEW o \in Op, SubmitLater(o) PROVE TypeOK'
    BY <1>3 DEF SubmitLater, TypeOK
  <1>4. ASSUME NEW o \in Op, RetryDue(o) PROVE TypeOK'
    BY <1>4 DEF RetryDue, TypeOK, OpRow
  <1>5. ASSUME NEW o \in Op, NEW r \in Request, SubmitNow(o, r) PROVE TypeOK'
    <2>1. <<o>> \in Seq(Op)
      OBVIOUS
    <2> QED
      BY <1>5, <2>1, PostType DEF SubmitNow, TypeOK
  <1>6. ASSUME NEW r \in Request, Settle(r) PROVE TypeOK'
    <2> DEFINE o == req[r].batch[req[r].ack + 1]
    <2>1. ops' \in [Op -> OpRow]
      <3>1. \/ ops' = [ops EXCEPT ![o].st = "synced", ![o].err = "none"]
            \/ ops' = [ops EXCEPT ![o].err = "rejected"]
        BY <1>6 DEF Settle
      <3>2. o \in Op => ops[o] \in OpRow
        BY DEF TypeOK
      <3> HIDE DEF o
      <3>3. CASE ops' = [ops EXCEPT ![o].st = "synced", ![o].err = "none"]
        BY <3>2, <3>3 DEF TypeOK, OpRow
      <3>4. CASE ops' = [ops EXCEPT ![o].err = "rejected"]
        BY <3>2, <3>4 DEF TypeOK, OpRow
      <3> QED
        BY <3>1, <3>3, <3>4
    <2> QED
      BY <1>6, <2>1, NextResultType DEF Settle, TypeOK
  <1>7. ASSUME NEW r \in Request, Backoff(r) PROVE TypeOK'
    <2> DEFINE o == req[r].batch[req[r].ack + 1]
    <2>1. ops' \in [Op -> OpRow]
      <3>1. ops' = [ops EXCEPT ![o].due = FALSE, ![o].err = "network"]
        BY <1>7 DEF Backoff
      <3>2. o \in Op => ops[o] \in OpRow
        BY DEF TypeOK
      <3> HIDE DEF o
      <3> QED
        BY <3>1, <3>2 DEF TypeOK, OpRow
    <2> QED
      BY <1>7, <2>1, NextResultType DEF Backoff, TypeOK
  <1>8. ASSUME NEW r \in Request, Deliver(r) PROVE TypeOK'
    <2>1. req[r] \in RequestRec
      BY DEF TypeOK
    <2>2. req' \in [Request -> RequestRec]
      BY <1>8, <2>1 DEF Deliver, TypeOK, RequestRec
    <2> QED
      BY <1>8, <2>2 DEF Deliver, TypeOK
  <1>9. ASSUME NEW r \in Request, Break(r) PROVE TypeOK'
    <2>1. req[r] \in RequestRec
      BY DEF TypeOK
    <2>2. req' \in [Request -> RequestRec]
      BY <1>9, <2>1 DEF Break, TypeOK, RequestRec
    <2> QED
      BY <1>9, <2>2 DEF Break, Fault, TypeOK
  <1>10. ASSUME NEW r \in Request, Abort(r) PROVE TypeOK'
    <2> DEFINE cl == IF req[r].cl = "wait" THEN "fail" ELSE req[r].cl
               q == [req[r] EXCEPT !.sv = "idle", !.cl = cl]
    <2>1. req[r] \in RequestRec /\ cl \in {"idle", "wait", "ok", "fail"}
      BY DEF TypeOK, RequestRec
    <2>2. q \in RequestRec
      <3> HIDE DEF cl
      <3> QED BY <2>1 DEF RequestRec
    <2>3. req' = [req EXCEPT ![r] = Tidy(q)]
      BY <1>10 DEF Abort
    <2>4. req' \in [Request -> RequestRec]
      <3> HIDE DEF q
      <3> QED BY <2>2, <2>3, TidyType DEF TypeOK
    <2> QED
      BY <1>10, <2>4 DEF Abort, Fault, TypeOK
  <1>11. ASSUME NEW r \in Request, Check(r) PROVE TypeOK'
    <2>1. req' \in [Request -> RequestRec]
      <3>1. CASE Logged(Current(r))
        BY <1>11, <3>1, AnswerType DEF Check
      <3>2. CASE ~Logged(Current(r))
        BY <1>11, <3>2, SvType DEF Check
      <3> QED BY <3>1, <3>2
    <2> QED
      BY <1>11, <2>1 DEF Check, TypeOK
  <1>12. ASSUME NEW r \in Request, Lock(r) PROVE TypeOK'
    <2>1. req' \in [Request -> RequestRec]
      <3>1. CASE Answer(r, "rejected")
        BY <3>1, AnswerType
      <3>2. CASE req' = [req EXCEPT ![r].sv = "insert"]
        BY <3>2, SvType
      <3> QED BY <1>12, <3>1, <3>2 DEF Lock
    <2> QED
      BY <1>12, <2>1 DEF Lock, TypeOK
  <1>13. ASSUME NEW r \in Request, Commit(r) PROVE TypeOK'
    <2>1. Current(r) \in Op
      BY <1>13, CurrentType DEF Commit
    <2>2. req' \in [Request -> RequestRec]
      BY <1>13, AnswerType DEF Commit
    <2>3. CASE Logged(Current(r))
      BY <1>13, <2>2, <2>3 DEF Commit, TypeOK
    <2>4. CASE ~Logged(Current(r))
      BY <1>13, <2>1, <2>2, <2>4, EffectType DEF Commit, TypeOK
    <2> QED BY <2>3, <2>4
  <1>14. ASSUME NEW r \in Request, DbError(r) PROVE TypeOK'
    BY <1>14, AnswerType DEF DbError, Fault, TypeOK
  <1>15. ASSUME NEW r \in Request, CommitUnknown(r) PROVE TypeOK'
    <2>1. Current(r) \in Op
      BY <1>15, CurrentType DEF CommitUnknown
    <2>2. req' \in [Request -> RequestRec]
      BY <1>15, AnswerType DEF CommitUnknown
    <2> QED
      BY <1>15, <2>1, <2>2, EffectType DEF CommitUnknown, Fault, TypeOK
  <1>16. ASSUME NEW s \in Surat, WebBegin(s) PROVE TypeOK'
    BY <1>16 DEF WebBegin, TypeOK
  <1>17. ASSUME NEW s \in Surat, WebWrite(s) PROVE TypeOK'
    BY <1>17 DEF WebWrite, TypeOK, SuratRow
  <1>18. ASSUME NEW s \in Surat, WebFail(s) PROVE TypeOK'
    BY <1>18 DEF WebFail, TypeOK
  <1>19. ASSUME Tick PROVE TypeOK'
    BY <1>19 DEF Tick, TypeOK
  <1>20. ASSUME NEW d \in Device, Logout(d) PROVE TypeOK'
    BY <1>20 DEF Logout, Fault, TypeOK
  <1>21. ASSUME NEW d \in Device, Reload(d) PROVE TypeOK'
    <2>1. ASSUME NEW r \in Request
          PROVE  Tidy([req[r] EXCEPT !.cl = "idle"]) \in RequestRec
      <3>0. req[r] \in RequestRec
        BY DEF TypeOK
      <3>1. [req[r] EXCEPT !.cl = "idle"] \in RequestRec
        BY <3>0 DEF RequestRec
      <3> QED BY <3>1, TidyType
    <2>2. req' \in [Request -> RequestRec]
      BY <1>21, <2>1 DEF Reload, TypeOK
    <2> QED
      BY <1>21, <2>2 DEF Reload, Fault, TypeOK
  <1>22. ASSUME NEW d \in Device, NEW u \in User, Login(d, u) PROVE TypeOK'
    BY <1>22 DEF Login, TypeOK
  <1>23. CASE UNCHANGED vars
    BY <1>23 DEF vars, TypeOK
  <1> QED
    BY <1>1, <1>2, <1>3, <1>4, <1>5, <1>6, <1>7, <1>8, <1>9, <1>10, <1>11, <1>12, <1>13,
       <1>14, <1>15, <1>16, <1>17, <1>18, <1>19, <1>20, <1>21, <1>22, <1>23
    DEF Next, Browser, Network, Server, Writers, People

-----------------------------------------------------------------------------
\* What one step may do to the operations, the log and a request slot.

\* An operation that exists keeps existing, under the same timestamp.
OpsKept == \A o \in Op : ops[o].st # "absent" => ops'[o].st # "absent" /\ ops'[o].ts = ops[o].ts

LogKept == \A o \in Op : Logged(o) => Logged(o)'

\* A new request carries at least one operation, all of them enqueued.
Posted(r) ==
  /\ req'[r].res = <<>> /\ req'[r].ack = 0
  /\ Len(req'[r].batch) >= 1
  /\ \A i \in DOMAIN req'[r].batch : ops[req'[r].batch[i]].st # "absent"
  /\ \/ req'[r].cl = "wait" /\ req'[r].sv = "check" /\ req'[r].by # NoUser
     \/ req'[r].cl = "fail" /\ req'[r].sv = "idle"

\* The server adds a result and goes on with the next operation, if any.
Answered(r) ==
  /\ req[r].sv \in {"check", "lock", "insert"}
  /\ req'[r].batch = req[r].batch /\ req'[r].by = req[r].by
  /\ req'[r].cl = req[r].cl /\ req'[r].ack = req[r].ack
  /\ req'[r].sv = IF Len(req[r].res) + 1 = Len(req[r].batch) THEN "done" ELSE "check"
  /\ \E status \in {"applied", "duplicate", "rejected"} :
       /\ req'[r].res = Append(req[r].res, status)
       /\ status # "rejected" => oplog'[Current(r)] # NoUser

\* The server goes on with the same operation; to hold its row, nobody else may.
Advanced(r) ==
  /\ req[r].sv \in {"check", "lock"}
  /\ req'[r].sv = IF req[r].sv = "check" THEN "lock" ELSE "insert"
  /\ req'[r].batch = req[r].batch /\ req'[r].by = req[r].by /\ req'[r].res = req[r].res
  /\ req'[r].cl = req[r].cl /\ req'[r].ack = req[r].ack
  /\ req[r].sv = "lock" =>
       /\ ~RowLocked(OpSurat[Current(r)])
       /\ ~surat[OpSurat[Current(r)]].deleted /\ ~Stale(Current(r))
       /\ surat' = surat /\ ops' = ops
       /\ \A q \in Request \ {r} : req'[q] = req[q]

\* The browser goes on with the next row, if any.
WorkedThrough(r) ==
  /\ req[r].cl \in {"ok", "fail"}
  /\ req'[r].batch = req[r].batch /\ req'[r].by = req[r].by /\ req'[r].res = req[r].res
  /\ req'[r].sv = req[r].sv /\ req'[r].ack = req[r].ack + 1
  /\ req'[r].cl = IF req[r].ack + 1 = Len(req[r].batch) THEN "idle" ELSE req[r].cl

\* The two ends part: a response arrives, a connection breaks, a tab closes, the
\* server gives up.
Parted(r) ==
  /\ req'[r].batch = req[r].batch /\ req'[r].by = req[r].by /\ req'[r].res = req[r].res
  /\ req'[r].ack = req[r].ack
  /\ req'[r].sv \in {req[r].sv, "idle"}
  /\ \/ req'[r].cl = "ok" /\ req[r].cl = "wait" /\ req[r].sv = "done" /\ req'[r].sv = "idle"
     \/ req'[r].cl = "fail" /\ req[r].cl = "wait"
     \/ req'[r].cl = "idle"
     \/ req'[r].cl = req[r].cl /\ req'[r].sv = "idle"

SlotStep(r) == \/ req'[r] = req[r]
               \/ req'[r] = IdleReq
               \/ Posted(r) \/ Answered(r) \/ Advanced(r) \/ WorkedThrough(r) \/ Parted(r)

LEMMA OpsStep == TypeOK /\ RequestInv /\ [Next]_vars => OpsKept /\ LogKept
  <1> SUFFICES ASSUME TypeOK, RequestInv, [Next]_vars, NEW o \in Op
               PROVE  /\ ops[o].st # "absent" => ops'[o].st # "absent" /\ ops'[o].ts = ops[o].ts
                      /\ Logged(o) => Logged(o)'
    BY DEF OpsKept, LogKept
  <1> DEFINE Kept == ops[o].st # "absent" => ops'[o].st # "absent" /\ ops'[o].ts = ops[o].ts
             Log  == Logged(o) => Logged(o)'
  <1>1. ops[o] \in OpRow
    BY DEF TypeOK
  <1>2. ASSUME UNCHANGED ops PROVE Kept
    BY <1>2
  <1>3. ASSUME UNCHANGED oplog PROVE Log
    BY <1>3 DEF Logged
  <1>4. ASSUME NEW r \in Request, NEW p \in Op, req[r].by # NoUser, Effect(r, p) PROVE Log
    BY <1>4 DEF Effect, Logged, TypeOK
  <1>5. CASE Browser
    <2>1. ASSUME NEW p \in Op, Enqueue(p) PROVE Kept
      BY <2>1, <1>1 DEF Enqueue, TypeOK
    <2>2. ASSUME NEW p \in Op, RetryDue(p) PROVE Kept
      BY <2>2, <1>1 DEF RetryDue, TypeOK, OpRow
    <2>3. ASSUME NEW r \in Request, Settle(r) PROVE Kept
      <3> DEFINE p == req[r].batch[req[r].ack + 1]
      <3>1. \/ ops' = [ops EXCEPT ![p].st = "synced", ![p].err = "none"]
            \/ ops' = [ops EXCEPT ![p].err = "rejected"]
        BY <2>3 DEF Settle
      <3> HIDE DEF p
      <3>2. CASE ops' = [ops EXCEPT ![p].st = "synced", ![p].err = "none"]
        BY <1>1, <3>2 DEF TypeOK, OpRow
      <3>3. CASE ops' = [ops EXCEPT ![p].err = "rejected"]
        BY <1>1, <3>3 DEF TypeOK, OpRow
      <3> QED
        BY <3>1, <3>2, <3>3
    <2>4. ASSUME NEW r \in Request, Backoff(r) PROVE Kept
      <3> DEFINE p == req[r].batch[req[r].ack + 1]
      <3>1. ops' = [ops EXCEPT ![p].due = FALSE, ![p].err = "network"]
        BY <2>4 DEF Backoff
      <3> HIDE DEF p
      <3> QED
        BY <1>1, <3>1 DEF TypeOK, OpRow
    <2> QED
      BY <1>2, <1>3, <1>5, <2>1, <2>2, <2>3, <2>4
      DEF Browser, Drain, Enqueue, SubmitLater, RetryDue, SubmitNow, Settle, Backoff
  <1>6. CASE Server
    <2>1. PICK r \in Request : Check(r) \/ Lock(r) \/ Commit(r) \/ DbError(r) \/ CommitUnknown(r)
      BY <1>6 DEF Server
    <2>2. CASE Commit(r)
      <3>1. Current(r) \in Op /\ req[r].by # NoUser
        BY <2>2, CurrentType DEF Commit
      <3> QED
        BY <1>2, <1>3, <1>4, <2>2, <3>1 DEF Commit
    <2>3. CASE CommitUnknown(r)
      <3>1. Current(r) \in Op /\ req[r].by # NoUser
        BY <2>3, CurrentType DEF CommitUnknown
      <3> QED
        BY <1>2, <1>4, <2>3, <3>1 DEF CommitUnknown
    <2> QED
      BY <1>2, <1>3, <2>1, <2>2, <2>3 DEF Check, Lock, DbError
  <1> QED
    BY <1>2, <1>3, <1>5, <1>6
    DEF Next, vars, Network, Writers, People, Deliver, Break, Abort, WebBegin, WebWrite,
        WebFail, Tick, Logout, Reload, Login

LEMMA TidyCases == ASSUME NEW q PROVE Tidy(q) \in {q, IdleReq}
  BY DEF Tidy

LEMMA AnswerStep ==
  ASSUME TypeOK, NEW p \in Request, NEW r \in Request,
         NEW status \in {"applied", "duplicate", "rejected"},
         req[p].sv \in {"check", "lock", "insert"}, Answer(p, status),
         status # "rejected" => oplog'[Current(p)] # NoUser
  PROVE  SlotStep(r)
  <1> DEFINE sv == IF Len(req[p].res) + 1 = Len(req[p].batch) THEN "done" ELSE "check"
             q == [req[p] EXCEPT !.res = Append(req[p].res, status), !.sv = sv]
  <1>1. req[p] \in RequestRec
    BY DEF TypeOK
  <1>2. /\ q.res = Append(req[p].res, status) /\ q.sv = sv
        /\ q.batch = req[p].batch /\ q.by = req[p].by /\ q.cl = req[p].cl /\ q.ack = req[p].ack
    <2> HIDE DEF sv
    <2> QED BY <1>1 DEF RequestRec
  <1>3. req' = [req EXCEPT ![p] = Tidy(q)]
    BY DEF Answer
  <1> HIDE DEF q
  <1>4. CASE r # p
    BY <1>3, <1>4 DEF SlotStep
  <1>5. CASE r = p
    <2>1. req'[p] \in {q, IdleReq}
      BY <1>3, TidyCases DEF TypeOK
    <2>2. CASE req'[p] = q
      BY <1>2, <1>5, <2>2 DEF SlotStep, Answered
    <2> QED
      BY <1>5, <2>1, <2>2 DEF SlotStep
  <1> QED
    BY <1>4, <1>5

LEMMA NextResultStep ==
  ASSUME TypeOK, NEW p \in Request, NEW r \in Request,
         req[p].cl \in {"ok", "fail"}, NextResult(p)
  PROVE  SlotStep(r)
  <1> DEFINE cl == IF req[p].ack + 1 = Len(req[p].batch) THEN "idle" ELSE req[p].cl
             q == [req[p] EXCEPT !.ack = req[p].ack + 1, !.cl = cl]
  <1>1. req[p] \in RequestRec
    BY DEF TypeOK
  <1>2. /\ q.ack = req[p].ack + 1 /\ q.cl = cl
        /\ q.batch = req[p].batch /\ q.by = req[p].by /\ q.res = req[p].res /\ q.sv = req[p].sv
    <2> HIDE DEF cl
    <2> QED BY <1>1 DEF RequestRec
  <1>3. req' = [req EXCEPT ![p] = Tidy(q)]
    BY DEF NextResult
  <1> HIDE DEF q
  <1>4. CASE r # p
    BY <1>3, <1>4 DEF SlotStep
  <1>5. CASE r = p
    <2>1. req'[p] \in {q, IdleReq}
      BY <1>3, TidyCases DEF TypeOK
    <2>2. CASE req'[p] = q
      BY <1>2, <1>5, <2>2 DEF SlotStep, WorkedThrough
    <2> QED
      BY <1>5, <2>1, <2>2 DEF SlotStep
  <1> QED
    BY <1>4, <1>5

LEMMA PostStep ==
  ASSUME TypeOK, NEW d \in Device, NEW p \in Request, NEW r \in Request, NEW b \in Seq(Op),
         Len(b) >= 1, \A i \in DOMAIN b : ops[b[i]].st # "absent", Post(d, p, b)
  PROVE  SlotStep(r)
  BY DEF TypeOK, Post, SlotStep, Posted

LEMMA SlotStepAlways ==
  ASSUME TypeOK, RequestInv, [Next]_vars, NEW r \in Request PROVE SlotStep(r)
  <1> USE OpAssumption, BoundAssumption
  <1>1. req[r] \in RequestRec
    BY DEF TypeOK
  <1>2. ASSUME UNCHANGED req PROVE SlotStep(r)
    BY <1>2 DEF SlotStep
  <1>3. CASE Browser
    <2>1. ASSUME NEW d \in Device, Drain(d) PROVE SlotStep(r)
      <3>1. PICK p \in Request, b \in OldestFirst(Pending(d), BatchSize(Pending(d))) :
              Post(d, p, b)
        BY <2>1 DEF Drain
      <3>2. b \in Seq(Op) /\ Len(b) >= 1 /\ \A i \in DOMAIN b : b[i] \in Pending(d)
        BY <2>1, BatchType DEF Drain
      <3>3. \A i \in DOMAIN b : ops[b[i]].st # "absent"
        BY <3>2 DEF Pending
      <3> QED
        BY <3>1, <3>2, <3>3, PostStep
    <2>2. ASSUME NEW o \in Op, NEW p \in Request, SubmitNow(o, p)
          PROVE  SlotStep(r)
      <3>1. ops[o].st # "absent"
        BY <2>2 DEF SubmitNow, RequestInv
      <3> DEFINE b == <<o>>
      <3>2. b \in Seq(Op) /\ Len(b) >= 1 /\ \A i \in DOMAIN b : b[i] = o
        OBVIOUS
      <3>3. OpDevice[o] \in Device /\ Post(OpDevice[o], p, b)
        BY <2>2 DEF SubmitNow
      <3> HIDE DEF b
      <3> QED
        BY <3>1, <3>2, <3>3, PostStep
    <2>3. ASSUME NEW p \in Request, Settle(p) \/ Backoff(p) PROVE SlotStep(r)
      BY <2>3, NextResultStep DEF Settle, Backoff
    <2> QED
      BY <1>2, <1>3, <2>1, <2>2, <2>3 DEF Browser, Enqueue, SubmitLater, RetryDue
  <1>4. CASE Network
    <2>1. PICK p \in Request : Deliver(p) \/ Break(p) \/ Abort(p)
      BY <1>4 DEF Network
    <2>2. CASE Deliver(p)
      BY <1>1, <2>2 DEF Deliver, SlotStep, Parted, TypeOK, RequestRec
    <2>3. CASE Break(p)
      BY <1>1, <2>3 DEF Break, SlotStep, Parted, TypeOK, RequestRec
    <2>4. CASE Abort(p)
      <3> DEFINE cl == IF req[p].cl = "wait" THEN "fail" ELSE req[p].cl
                 q == [req[p] EXCEPT !.sv = "idle", !.cl = cl]
      <3>1. req[p] \in RequestRec
        BY DEF TypeOK
      <3>2. /\ q.sv = "idle" /\ q.cl = cl
            /\ q.batch = req[p].batch /\ q.by = req[p].by /\ q.res = req[p].res
            /\ q.ack = req[p].ack
        <4> HIDE DEF cl
        <4> QED BY <3>1 DEF RequestRec
      <3>3. req' = [req EXCEPT ![p] = Tidy(q)]
        BY <2>4 DEF Abort
      <3> HIDE DEF q
      <3>4. req'[p] \in {q, IdleReq}
        BY <3>3, TidyCases DEF TypeOK
      <3>5. CASE r = p /\ req'[p] = q
        BY <3>2, <3>5 DEF SlotStep, Parted
      <3> QED
        BY <3>3, <3>4, <3>5 DEF SlotStep
    <2> QED
      BY <2>1, <2>2, <2>3, <2>4
  <1>5. CASE Server
    <2>1. PICK p \in Request : Check(p) \/ Lock(p) \/ Commit(p) \/ DbError(p) \/ CommitUnknown(p)
      BY <1>5 DEF Server
    <2>2. CASE Check(p)
      <3>1. CASE Logged(Current(p))
        BY <2>2, <3>1, AnswerStep DEF Check, Logged
      <3>2. CASE ~Logged(Current(p))
        BY <1>1, <2>2, <3>2 DEF Check, SlotStep, Advanced, TypeOK, RequestRec
      <3> QED
        BY <3>1, <3>2
    <2>3. CASE Lock(p)
      <3>1. CASE Answer(p, "rejected")
        BY <2>3, <3>1, AnswerStep DEF Lock
      <3>2. CASE req' = [req EXCEPT ![p].sv = "insert"]
                 /\ ~surat[OpSurat[Current(p)]].deleted /\ ~Stale(Current(p))
        BY <1>1, <2>3, <3>2 DEF Lock, SlotStep, Advanced, TypeOK, RequestRec
      <3> QED
        BY <2>3, <3>1, <3>2 DEF Lock
    <2>4. CASE Commit(p)
      <3>1. Current(p) \in Op /\ req[p].by # NoUser
        BY <2>4, CurrentType DEF Commit
      <3>2. CASE Logged(Current(p))
        BY <2>4, <3>2, AnswerStep DEF Commit
      <3>3. CASE ~Logged(Current(p))
        <4>1. oplog'[Current(p)] # NoUser
          BY <2>4, <3>1, <3>3 DEF Commit, Effect, TypeOK
        <4> QED
          BY <2>4, <3>3, <4>1, AnswerStep DEF Commit
      <3> QED
        BY <3>2, <3>3
    <2>5. CASE DbError(p)
      BY <2>5, AnswerStep DEF DbError
    <2>6. CASE CommitUnknown(p)
      BY <2>6, AnswerStep DEF CommitUnknown
    <2> QED
      BY <2>1, <2>2, <2>3, <2>4, <2>5, <2>6
  <1>6. CASE People
    <2>1. ASSUME NEW d \in Device, Reload(d) PROVE SlotStep(r)
      <3> DEFINE q == [req[r] EXCEPT !.cl = "idle"]
      <3>1. req'[r] = Tidy(q) \/ req'[r] = req[r]
        BY <2>1 DEF Reload
      <3>2. /\ q.cl = "idle" /\ q.sv = req[r].sv
            /\ q.batch = req[r].batch /\ q.by = req[r].by /\ q.res = req[r].res
            /\ q.ack = req[r].ack
        BY <1>1 DEF RequestRec
      <3> HIDE DEF q
      <3>3. CASE req'[r] = q
        BY <3>2, <3>3 DEF SlotStep, Parted
      <3> QED
        BY <3>1, <3>3, TidyCases DEF SlotStep
    <2> QED
      BY <1>2, <1>6, <2>1 DEF People, Tick, Login, Logout
  <1>7. CASE Writers
    BY <1>2, <1>7 DEF Writers, WebBegin, WebWrite, WebFail
  <1> QED
    BY <1>2, <1>3, <1>4, <1>5, <1>6, <1>7 DEF Next, vars

-----------------------------------------------------------------------------
\* What one step may do to the rows, the log and the web transactions.

\* Request p's transaction commits the changes of its operation.
Applied(p) ==
  LET o == Current(p)
  IN  /\ req[p].sv = "insert" /\ req'[p].sv # "insert"
      /\ ~Logged(o) /\ oplog'[o] # NoUser
      /\ surat'[OpSurat[o]].upd = ops[o].ts /\ surat'[OpSurat[o]].by = o

LogStep(o) ==
  \/ oplog'[o] = oplog[o] /\ effects'[o] = effects[o]
  \/ /\ effects'[o] = effects[o] + 1
     /\ \E p \in Request : Applied(p) /\ Current(p) = o

RowStep(s) ==
  \/ surat'[s] = surat[s]
  \/ /\ put[s] # NoTx /\ ~RowLocked(s)
     /\ surat'[s].by = Web /\ surat'[s].upd = put[s]
  \/ \E p \in Request : Applied(p) /\ OpSurat[Current(p)] = s

WebStep ==
  \/ webs' = webs /\ \A s \in Surat : put'[s] \in {put[s], NoTx}
  \/ webs' = webs + 1

\* Answering ends the transaction.
LEMMA AnswerEnds ==
  ASSUME TypeOK, NEW p \in Request,
         NEW status \in {"applied", "duplicate", "rejected"}, Answer(p, status)
  PROVE  req'[p].sv # "insert"
  <1> DEFINE sv == IF Len(req[p].res) + 1 = Len(req[p].batch) THEN "done" ELSE "check"
             q == [req[p] EXCEPT !.res = Append(req[p].res, status), !.sv = sv]
  <1>1. req[p] \in RequestRec
    BY DEF TypeOK
  <1>2. q.sv = sv
    BY <1>1 DEF RequestRec
  <1>3. q.sv # "insert"
    BY <1>2
  <1>4. req' = [req EXCEPT ![p] = Tidy(q)]
    BY DEF Answer
  <1> HIDE DEF q
  <1>5. req'[p] \in {q, IdleReq}
    BY <1>4, TidyCases DEF TypeOK
  <1> QED
    BY <1>3, <1>5 DEF IdleReq

LEMMA EffectStep ==
  ASSUME TypeOK, RequestInv, NEW p \in Request, req[p].sv = "insert", ~Logged(Current(p)),
         NEW status \in {"applied", "duplicate", "rejected"}, Answer(p, status),
         Effect(p, Current(p))
  PROVE  /\ Applied(p)
         /\ \A o \in Op : LogStep(o)
         /\ \A s \in Surat : RowStep(s)
  <1> DEFINE c == Current(p)
  <1>1. c \in Op /\ req[p].by # NoUser /\ OpSurat[c] \in Surat
    BY CurrentType, OpAssumption
  <1>2. req'[p].sv # "insert"
    BY AnswerEnds
  <1>3. surat[OpSurat[c]] \in SuratRow
    BY <1>1 DEF TypeOK
  <1>4. /\ oplog' = [oplog EXCEPT ![c] = req[p].by]
        /\ surat' = [surat EXCEPT ![OpSurat[c]].upd = ops[c].ts, ![OpSurat[c]].by = c]
        /\ effects' = [effects EXCEPT ![c] = effects[c] + 1]
    BY DEF Effect
  <1>5. ~Logged(c)
    OBVIOUS
  <1> HIDE DEF c
  <1>6. /\ oplog'[c] # NoUser /\ surat'[OpSurat[c]].upd = ops[c].ts
        /\ surat'[OpSurat[c]].by = c
    BY <1>1, <1>3, <1>4 DEF TypeOK, SuratRow
  <1>7. Applied(p)
    <2> USE DEF c
    <2> QED BY <1>2, <1>5, <1>6 DEF Applied
  <1>8. ASSUME NEW o \in Op PROVE LogStep(o)
    <2>1. CASE o = c
      <3>1. Current(p) = o
        BY <2>1 DEF c
      <3>2. effects'[o] = effects[o] + 1
        BY <1>1, <1>4, <2>1 DEF TypeOK
      <3> QED
        BY <1>7, <3>1, <3>2 DEF LogStep
    <2>2. CASE o # c
      BY <1>4, <2>2 DEF TypeOK, LogStep
    <2> QED
      BY <2>1, <2>2
  <1>9. ASSUME NEW s \in Surat PROVE RowStep(s)
    <2>1. CASE s = OpSurat[c]
      <3>1. OpSurat[Current(p)] = s
        BY <2>1 DEF c
      <3> QED
        BY <1>7, <3>1 DEF RowStep
    <2>2. CASE s # OpSurat[c]
      BY <1>4, <2>2 DEF TypeOK, RowStep
    <2> QED
      BY <2>1, <2>2
  <1> QED
    BY <1>7, <1>8, <1>9

LEMMA StoreStep ==
  ASSUME TypeOK, RequestInv, [Next]_vars
  PROVE  /\ \A o \in Op : LogStep(o)
         /\ \A s \in Surat : RowStep(s)
         /\ WebStep
  <1> DEFINE Goal == (\A o \in Op : LogStep(o)) /\ (\A s \in Surat : RowStep(s)) /\ WebStep
  <1>1. ASSUME UNCHANGED <<surat, oplog, effects, put, webs>> PROVE Goal
    BY <1>1 DEF LogStep, RowStep, WebStep
  <1>2. CASE Server
    <2>1. PICK p \in Request : Check(p) \/ Lock(p) \/ Commit(p) \/ DbError(p) \/ CommitUnknown(p)
      BY <1>2 DEF Server
    <2>2. ASSUME UNCHANGED <<put, webs>> PROVE WebStep
      BY <2>2 DEF WebStep
    <2>3. CASE Commit(p)
      <3>1. CASE Logged(Current(p))
        BY <1>1, <2>3, <3>1 DEF Commit
      <3>2. CASE ~Logged(Current(p))
        BY <2>2, <2>3, <3>2, EffectStep DEF Commit
      <3> QED
        BY <3>1, <3>2
    <2>4. CASE CommitUnknown(p)
      BY <2>2, <2>4, EffectStep DEF CommitUnknown
    <2> QED
      BY <1>1, <2>1, <2>3, <2>4 DEF Check, Lock, DbError
  <1>3. CASE Writers
    <2>1. PICK s \in Surat : WebBegin(s) \/ WebWrite(s) \/ WebFail(s)
      BY <1>3 DEF Writers
    <2>2. CASE WebBegin(s)
      BY <2>2 DEF WebBegin, LogStep, RowStep, WebStep
    <2>3. CASE WebWrite(s)
      <3>1. PICK del \in BOOLEAN :
              surat' = [surat EXCEPT ![s] = [deleted |-> del, upd |-> put[s], by |-> Web]]
        BY <2>3 DEF WebWrite
      <3>2. ASSUME NEW t \in Surat PROVE RowStep(t)
        BY <2>3, <3>1 DEF WebWrite, RowStep, TypeOK
      <3>3. WebStep
        BY <2>3 DEF WebWrite, WebStep, TypeOK
      <3> QED
        BY <2>3, <3>2, <3>3 DEF WebWrite, LogStep
    <2>4. CASE WebFail(s)
      BY <2>4 DEF WebFail, LogStep, RowStep, WebStep, TypeOK
    <2> QED
      BY <2>1, <2>2, <2>3, <2>4
  <1> QED
    BY <1>1, <1>2, <1>3
    DEF Next, vars, Browser, Network, People, Drain, Enqueue, SubmitLater, RetryDue, SubmitNow,
        Settle, Backoff, Deliver, Break, Abort, Tick, Logout, Reload, Login

-----------------------------------------------------------------------------
\* Each part of the invariant is preserved, because of how slots, rows and log move.

LEMMA RequestStep == TypeOK /\ RequestInv /\ [Next]_vars => RequestInv'
  <1> SUFFICES ASSUME TypeOK, RequestInv, [Next]_vars PROVE RequestInv'
    OBVIOUS
  <1>1. TypeOK' /\ OpsKept
    BY TypeStep, OpsStep
  <1>2. ASSUME NEW o \in submit' PROVE ops'[o].st # "absent"
    <2>1. o \in Op
      BY <1>1 DEF TypeOK
    <2>2. CASE o \in submit
      BY <1>1, <2>1, <2>2 DEF OpsKept, RequestInv
    <2>3. CASE o \notin submit
      <3>1. Enqueue(o)
        BY <2>3
        DEF Next, vars, Browser, Network, Server, Writers, People, Drain, Enqueue,
            SubmitLater, RetryDue, SubmitNow, Settle, Backoff, Deliver, Break, Abort, Check,
            Lock, Commit, DbError, CommitUnknown, WebBegin, WebWrite, WebFail, Tick, Logout,
            Reload, Login
      <3> QED
        BY <2>1, <3>1 DEF Enqueue, TypeOK
    <2> QED
      BY <2>2, <2>3
  <1>3. ASSUME NEW r \in Request
        PROVE  /\ \A i \in DOMAIN req'[r].batch : ops'[req'[r].batch[i]].st # "absent"
               /\ DOMAIN req'[r].res \subseteq DOMAIN req'[r].batch
               /\ req'[r].cl # "idle" => req'[r].ack < Len(req'[r].batch)
               /\ req'[r].cl = "ok" => Len(req'[r].res) = Len(req'[r].batch) /\ req'[r].sv = "idle"
               /\ req'[r].sv = "done" => Len(req'[r].res) = Len(req'[r].batch)
               /\ req'[r].sv \in {"check", "lock", "insert"} =>
                    Len(req'[r].res) < Len(req'[r].batch) /\ req'[r].by # NoUser
    <2>1. req[r] \in RequestRec /\ req'[r] \in RequestRec
      BY <1>1 DEF TypeOK
    <2>2. /\ req[r].batch \in Seq(Op) /\ req'[r].batch \in Seq(Op)
          /\ req[r].res \in Seq({"applied", "duplicate", "rejected"})
          /\ req'[r].res \in Seq({"applied", "duplicate", "rejected"})
          /\ req[r].ack \in Nat
      BY <2>1 DEF RequestRec
    <2>3. /\ \A i \in DOMAIN req[r].batch : ops[req[r].batch[i]].st # "absent"
          /\ DOMAIN req[r].res \subseteq DOMAIN req[r].batch
          /\ req[r].cl # "idle" => req[r].ack < Len(req[r].batch)
          /\ req[r].cl = "ok" => Len(req[r].res) = Len(req[r].batch) /\ req[r].sv = "idle"
          /\ req[r].sv = "done" => Len(req[r].res) = Len(req[r].batch)
          /\ req[r].sv \in {"check", "lock", "insert"} =>
               Len(req[r].res) < Len(req[r].batch) /\ req[r].by # NoUser
      BY DEF RequestInv
    <2>4. ASSUME req'[r].batch = req[r].batch
          PROVE  \A i \in DOMAIN req'[r].batch : ops'[req'[r].batch[i]].st # "absent"
      BY <1>1, <2>2, <2>3, <2>4 DEF OpsKept
    <2>5. SlotStep(r)
      BY SlotStepAlways
    <2>6. CASE req'[r] = req[r]
      BY <2>3, <2>4, <2>6
    <2>7. CASE req'[r] = IdleReq
      BY <2>7 DEF IdleReq
    <2>8. CASE Posted(r)
      <3>1. \A i \in DOMAIN req'[r].batch : ops'[req'[r].batch[i]].st # "absent"
        BY <1>1, <2>2, <2>8 DEF Posted, OpsKept
      <3> QED
        BY <2>2, <2>8, <3>1 DEF Posted
    <2>9. CASE Answered(r)
      <3>1. Len(req'[r].res) = Len(req[r].res) + 1
        BY <2>2, <2>9 DEF Answered
      <3>2. req[r].cl # "ok"
        BY <2>3, <2>9 DEF Answered
      <3>3. Len(req[r].res) < Len(req[r].batch) /\ req[r].by # NoUser
        BY <2>3, <2>9 DEF Answered
      <3>4. DOMAIN req'[r].res \subseteq DOMAIN req'[r].batch
        BY <2>2, <2>9, <3>1, <3>3 DEF Answered
      <3> QED
        BY <2>2, <2>3, <2>4, <2>9, <3>1, <3>2, <3>3, <3>4 DEF Answered
    <2>10. CASE Advanced(r)
      BY <2>3, <2>4, <2>10 DEF Advanced
    <2>11. CASE WorkedThrough(r)
      BY <2>2, <2>3, <2>4, <2>11 DEF WorkedThrough
    <2>12. CASE Parted(r)
      BY <2>3, <2>4, <2>12 DEF Parted
    <2> QED
      BY <2>5, <2>6, <2>7, <2>8, <2>9, <2>10, <2>11, <2>12 DEF SlotStep
  <1> QED
    BY <1>2, <1>3 DEF RequestInv

LEMMA ResultsStep == TypeOK /\ RequestInv /\ ResultsInv /\ [Next]_vars => ResultsInv'
  <1> SUFFICES ASSUME TypeOK, RequestInv, ResultsInv, [Next]_vars,
                      NEW r \in Request, NEW i \in DOMAIN req'[r].res,
                      req'[r].res[i] \in {"applied", "duplicate"}
               PROVE  oplog'[req'[r].batch[i]] # NoUser
    BY DEF ResultsInv, Logged
  <1>1. req[r] \in RequestRec /\ LogKept /\ SlotStep(r)
    BY OpsStep, SlotStepAlways DEF TypeOK
  <1>2. /\ req[r].batch \in Seq(Op)
        /\ req[r].res \in Seq({"applied", "duplicate", "rejected"})
        /\ DOMAIN req[r].res \subseteq DOMAIN req[r].batch
    BY <1>1 DEF RequestRec, RequestInv
  <1>3. ASSUME i \in DOMAIN req[r].res, req'[r].res[i] = req[r].res[i],
               req'[r].batch = req[r].batch
        PROVE  oplog'[req'[r].batch[i]] # NoUser
    <2>1. Logged(req[r].batch[i]) /\ req[r].batch[i] \in Op
      BY <1>2, <1>3 DEF ResultsInv
    <2> QED
      BY <1>1, <1>3, <2>1 DEF LogKept, Logged
  <1>4. CASE req'[r].res = <<>>
    BY <1>4
  <1>5. CASE Answered(r)
    <2>1. PICK status \in {"applied", "duplicate", "rejected"} :
            /\ req'[r].res = Append(req[r].res, status)
            /\ status # "rejected" => oplog'[Current(r)] # NoUser
      BY <1>5 DEF Answered
    <2>2. CASE i \in DOMAIN req[r].res
      BY <1>2, <1>3, <1>5, <2>1, <2>2 DEF Answered
    <2>3. CASE i = Len(req[r].res) + 1
      BY <1>2, <1>5, <2>1, <2>3 DEF Answered, Current
    <2> QED
      BY <1>2, <2>1, <2>2, <2>3
  <1>6. CASE req'[r].res = req[r].res /\ req'[r].batch = req[r].batch
    BY <1>3, <1>6
  <1> QED
    BY <1>1, <1>4, <1>5, <1>6
    DEF SlotStep, IdleReq, Posted, Advanced, WorkedThrough, Parted

\* A row is marked synced on the strength of a positive result only.
LEMMA SyncedStep ==
  TypeOK /\ RequestInv /\ ResultsInv /\ SyncedImpliesLogged /\ [Next]_vars => SyncedImpliesLogged'
  <1> SUFFICES ASSUME TypeOK, RequestInv, ResultsInv, SyncedImpliesLogged, [Next]_vars,
                      NEW o \in Op, ops'[o].st = "synced"
               PROVE  Logged(o)
    BY OpsStep DEF SyncedImpliesLogged, LogKept
  <1>1. CASE ops[o].st = "synced"
    BY <1>1 DEF SyncedImpliesLogged
  <1>2. CASE ops[o].st # "synced"
    <2>1. ops' # ops
      BY <1>2
    <2>2. \/ \E p \in Op : Enqueue(p) \/ RetryDue(p)
          \/ \E r \in Request : Settle(r) \/ Backoff(r)
      BY <2>1
      DEF Next, vars, Browser, Network, Server, Writers, People, Drain, SubmitLater,
          SubmitNow, Deliver, Break, Abort, Check, Lock, Commit, DbError, CommitUnknown,
          WebBegin, WebWrite, WebFail, Tick, Logout, Reload, Login
    <2>3. ops[o] \in OpRow
      BY DEF TypeOK
    <2>4. ASSUME NEW p \in Op, Enqueue(p) \/ RetryDue(p) PROVE FALSE
      BY <1>2, <2>3, <2>4 DEF Enqueue, RetryDue, TypeOK, OpRow
    <2>5. ASSUME NEW r \in Request, Backoff(r) PROVE FALSE
      <3> DEFINE p == req[r].batch[req[r].ack + 1]
      <3>1. ops' = [ops EXCEPT ![p].due = FALSE, ![p].err = "network"]
        BY <2>5 DEF Backoff
      <3> HIDE DEF p
      <3> QED
        BY <1>2, <2>3, <3>1 DEF TypeOK, OpRow
    <2>6. ASSUME NEW r \in Request, Settle(r) PROVE Logged(o)
      <3> DEFINE i == req[r].ack + 1
                 p == req[r].batch[i]
      <3>1. /\ req[r].cl = "ok"
            /\ \/ /\ req[r].res[i] \in {"applied", "duplicate"}
                  /\ ops' = [ops EXCEPT ![p].st = "synced", ![p].err = "none"]
               \/ ops' = [ops EXCEPT ![p].err = "rejected"]
        BY <2>6 DEF Settle
      <3>2. req[r] \in RequestRec
        BY DEF TypeOK
      <3>3. /\ req[r].res \in Seq({"applied", "duplicate", "rejected"})
            /\ req[r].ack \in Nat /\ req[r].ack < Len(req[r].res)
        BY <3>1, <3>2 DEF RequestRec, RequestInv
      <3>4. i \in DOMAIN req[r].res
        BY <3>3
      <3>5. req[r].res[i] \in {"applied", "duplicate"} => Logged(p)
        BY <3>4 DEF ResultsInv
      <3> HIDE DEF p, i
      <3>6. CASE ops' = [ops EXCEPT ![p].err = "rejected"]
        BY <1>2, <2>3, <3>6 DEF TypeOK, OpRow
      <3>7. CASE /\ req[r].res[i] \in {"applied", "duplicate"}
                 /\ ops' = [ops EXCEPT ![p].st = "synced", ![p].err = "none"]
        <4>1. o = p
          BY <1>2, <2>3, <3>7 DEF TypeOK, OpRow
        <4> QED
          BY <3>5, <3>7, <4>1
      <3> QED
        BY <3>1, <3>6, <3>7
    <2> QED
      BY <2>2, <2>4, <2>5, <2>6
  <1> QED
    BY <1>1, <1>2

\* Who holds a row after a step held it before, or found it free in this step.
LEMMA HoldStep ==
  ASSUME TypeOK, RequestInv, [Next]_vars, NEW r \in Request, req'[r].sv = "insert"
  PROVE  /\ Current(r)' = Current(r)
         /\ req[r].sv \in {"lock", "insert"}
         /\ req[r].sv = "lock" => Advanced(r)
  <1>1. SlotStep(r)
    BY SlotStepAlways
  <1> QED
    BY <1>1
    DEF SlotStep, IdleReq, Posted, Answered, Advanced, WorkedThrough, Parted, Current

\* A held row does not change under its holder.
LEMMA RowKept ==
  ASSUME TypeOK, RequestInv, LockInv, [Next]_vars, NEW r \in Request,
         req[r].sv = "insert", req'[r].sv = "insert"
  PROVE  surat'[OpSurat[Current(r)]] = surat[OpSurat[Current(r)]]
  <1>1. OpSurat[Current(r)] \in Surat
    BY CurrentType, OpAssumption
  <1>2. RowLocked(OpSurat[Current(r)])
    BY DEF RowLocked
  <1>3. ASSUME NEW p \in Request, Applied(p), OpSurat[Current(p)] = OpSurat[Current(r)]
        PROVE  FALSE
    BY <1>3 DEF Applied, LockInv
  <1>4. RowStep(OpSurat[Current(r)])
    BY <1>1, StoreStep
  <1> QED
    BY <1>2, <1>3, <1>4 DEF RowStep

LEMMA LockStep == TypeOK /\ RequestInv /\ LockInv /\ [Next]_vars => LockInv'
  <1> SUFFICES ASSUME TypeOK, RequestInv, LockInv, [Next]_vars PROVE LockInv'
    OBVIOUS
  <1>1. ASSUME NEW r \in Request, req'[r].sv = "insert"
        PROVE  /\ ~surat'[OpSurat[Current(r)']].deleted
               /\ ~(surat'[OpSurat[Current(r)']].upd > ops'[Current(r)'].ts)
    <2> DEFINE c == Current(r)
    <2>1. Current(r)' = c /\ req[r].sv \in {"lock", "insert"} /\ (req[r].sv = "lock" => Advanced(r))
      BY <1>1, HoldStep
    <2>2. c \in Op /\ ops[c].st # "absent"
      BY <2>1, CurrentType
    <2>3. CASE req[r].sv = "insert"
      <3>1. surat'[OpSurat[c]] = surat[OpSurat[c]]
        BY <1>1, <2>3, RowKept
      <3>2. ops'[c].ts = ops[c].ts
        BY <2>2, OpsStep DEF OpsKept
      <3>3. ~surat[OpSurat[c]].deleted /\ ~(surat[OpSurat[c]].upd > ops[c].ts)
        BY <2>3 DEF LockInv, Stale
      <3> HIDE DEF c
      <3> QED
        BY <2>1, <3>1, <3>2, <3>3
    <2>4. CASE req[r].sv = "lock"
      BY <2>1, <2>4 DEF Advanced, Stale
    <2> QED
      BY <2>1, <2>3, <2>4
  <1>2. ASSUME NEW r \in Request, NEW q \in Request,
               req'[r].sv = "insert", req'[q].sv = "insert",
               OpSurat[Current(r)'] = OpSurat[Current(q)']
        PROVE  r = q
    <2>1. /\ Current(r)' = Current(r) /\ Current(q)' = Current(q)
          /\ req[r].sv \in {"lock", "insert"} /\ (req[r].sv = "lock" => Advanced(r))
          /\ req[q].sv \in {"lock", "insert"} /\ (req[q].sv = "lock" => Advanced(q))
      BY <1>2, HoldStep
    <2>2. CASE req[r].sv = "insert" /\ req[q].sv = "insert"
      BY <1>2, <2>1, <2>2 DEF LockInv
    <2>3. CASE req[r].sv = "lock" /\ r # q
      <3>1. ~RowLocked(OpSurat[Current(r)]) /\ req'[q] = req[q]
        BY <2>1, <2>3 DEF Advanced
      <3>2. req[q].sv = "insert"
        BY <1>2, <3>1
      <3> QED
        BY <1>2, <2>1, <3>1, <3>2 DEF RowLocked
    <2>4. CASE req[q].sv = "lock" /\ r # q
      <3>1. ~RowLocked(OpSurat[Current(q)]) /\ req'[r] = req[r]
        BY <2>1, <2>4 DEF Advanced
      <3>2. req[r].sv = "insert"
        BY <1>2, <3>1
      <3> QED
        BY <1>2, <2>1, <3>1, <3>2 DEF RowLocked
    <2> QED
      BY <2>1, <2>2, <2>3, <2>4
  <1> QED
    BY <1>1, <1>2 DEF LockInv, Stale

\* What is logged was logged before, or is what a request commits in this step.
LEMMA LoggedStep ==
  ASSUME TypeOK, RequestInv, [Next]_vars, NEW o \in Op, oplog'[o] # NoUser
  PROVE  \/ Logged(o)
         \/ \E p \in Request : Applied(p) /\ Current(p) = o
  BY StoreStep DEF LogStep, Logged

LEMMA RowInvStep == TypeOK /\ RequestInv /\ RowInv /\ [Next]_vars => RowInv'
  <1> SUFFICES ASSUME TypeOK, RequestInv, RowInv, [Next]_vars PROVE RowInv'
    OBVIOUS
  <1>1. OpsKept /\ LogKept
    BY OpsStep
  <1>2. ASSUME NEW p \in Request, Applied(p)
        PROVE  Current(p) \in Op /\ ops[Current(p)].st # "absent"
    BY <1>2, CurrentType DEF Applied
  <1>3. ASSUME NEW o \in Op, oplog'[o] # NoUser PROVE ops'[o].st # "absent"
    <2>1. ops[o].st # "absent"
      BY <1>2, <1>3, LoggedStep DEF RowInv
    <2> QED
      BY <1>1, <2>1 DEF OpsKept
  <1>4. ASSUME NEW s \in Surat, surat'[s].by \in Op
        PROVE  /\ oplog'[surat'[s].by] # NoUser
               /\ OpSurat[surat'[s].by] = s
               /\ surat'[s].upd = ops'[surat'[s].by].ts
    <2>1. RowStep(s)
      BY StoreStep
    <2>2. CASE surat'[s] = surat[s]
      <3>1. /\ Logged(surat[s].by) /\ OpSurat[surat[s].by] = s
            /\ surat[s].upd = ops[surat[s].by].ts
            /\ ops[surat[s].by].st # "absent"
        BY <1>4, <2>2 DEF RowInv
      <3> QED
        BY <1>1, <1>4, <2>2, <3>1 DEF OpsKept, LogKept, Logged
    <2>3. CASE surat'[s].by = Web
      BY <1>4, <2>3, OpAssumption
    <2>4. CASE \E p \in Request : Applied(p) /\ OpSurat[Current(p)] = s
      <3>1. PICK p \in Request : Applied(p) /\ OpSurat[Current(p)] = s
        BY <2>4
      <3> DEFINE c == Current(p)
      <3>2. c \in Op /\ ops[c].st # "absent"
        BY <1>2, <3>1
      <3>3. surat'[s].by = c /\ surat'[s].upd = ops[c].ts /\ oplog'[c] # NoUser /\ OpSurat[c] = s
        BY <3>1 DEF Applied
      <3> HIDE DEF c
      <3> QED
        BY <1>1, <3>2, <3>3 DEF OpsKept
    <2> QED
      BY <2>1, <2>2, <2>3, <2>4 DEF RowStep
  <1>5. ASSUME webs' = 0, NEW s \in Surat PROVE put'[s] = NoTx
    <2>1. webs \in Nat /\ WebStep
      BY StoreStep DEF TypeOK
    <2> QED
      BY <1>5, <2>1 DEF WebStep, RowInv
  <1> QED
    BY <1>3, <1>4, <1>5 DEF RowInv, Logged

LEMMA AppliedOnceStep == TypeOK /\ RequestInv /\ AppliedOnce /\ [Next]_vars => AppliedOnce'
  <1> SUFFICES ASSUME TypeOK, RequestInv, AppliedOnce, [Next]_vars, NEW o \in Op
               PROVE  effects'[o] = IF oplog'[o] # NoUser THEN 1 ELSE 0
    BY DEF AppliedOnce, Logged
  <1>1. LogStep(o)
    BY StoreStep
  <1>2. effects[o] = IF Logged(o) THEN 1 ELSE 0
    BY DEF AppliedOnce
  <1>3. CASE oplog'[o] = oplog[o] /\ effects'[o] = effects[o]
    BY <1>2, <1>3 DEF Logged
  <1>4. CASE effects'[o] = effects[o] + 1 /\ \E p \in Request : Applied(p) /\ Current(p) = o
    BY <1>2, <1>4 DEF Applied
  <1> QED
    BY <1>1, <1>3, <1>4 DEF LogStep

\* A commit replaces a row that is not newer, so the newest one stays.
LEMMA NewestStep ==
  /\ TypeOK /\ RequestInv /\ LockInv /\ RowInv /\ NewestLoggedWins /\ [Next]_vars
  => NewestLoggedWins'
  <1> SUFFICES ASSUME TypeOK, RequestInv, LockInv, RowInv, NewestLoggedWins, [Next]_vars,
                      webs' = 0, NEW o \in Op, oplog'[o] # NoUser
               PROVE  LET w == surat'[OpSurat[o]].by
                      IN  w \in Op /\ oplog'[w] # NoUser /\ ops'[o].ts <= ops'[w].ts
    BY DEF NewestLoggedWins, Logged
  <1> DEFINE s == OpSurat[o]
             w == surat[s].by
  <1>1. OpsKept /\ LogKept /\ TypeOK'
    BY OpsStep, TypeStep
  <1>2. s \in Surat /\ WebStep /\ RowStep(s)
    BY OpAssumption, StoreStep
  <1>3. webs = 0 /\ put[s] = NoTx
    BY <1>2 DEF WebStep, TypeOK, RowInv
  <1>4. ops'[o].ts \in Int
    BY <1>1 DEF TypeOK, OpRow
  <1>5. CASE \E p \in Request : Applied(p) /\ Current(p) = o
    BY <1>4, <1>5 DEF Applied
  <1>6. CASE Logged(o)
    <2>1. w \in Op /\ Logged(w) /\ ops[o].ts <= ops[w].ts
      BY <1>3, <1>6 DEF NewestLoggedWins
    <2>2. /\ ops[o].st # "absent" /\ ops[w].st # "absent"
          /\ surat[s].upd = ops[w].ts
      BY <1>2, <1>6, <2>1 DEF RowInv
    <2>3. CASE surat'[s] = surat[s]
      BY <1>1, <2>1, <2>2, <2>3 DEF OpsKept, LogKept, Logged
    <2>4. CASE \E p \in Request : Applied(p) /\ OpSurat[Current(p)] = s
      <3>1. PICK p \in Request : Applied(p) /\ OpSurat[Current(p)] = s
        BY <2>4
      <3> DEFINE c == Current(p)
      <3>2. c \in Op /\ ops[c].st # "absent"
        BY <3>1, CurrentType DEF Applied
      <3>3. ~(surat[s].upd > ops[c].ts)
        BY <3>1 DEF Applied, LockInv, Stale
      <3>4. surat'[s].by = c /\ oplog'[c] # NoUser
        BY <3>1 DEF Applied
      <3> HIDE DEF c, s, w
      <3>5. ops[o].ts \in Int /\ ops[w].ts \in Int /\ ops[c].ts \in Int
        BY <2>1, <3>2 DEF TypeOK, OpRow
      <3>6. ops[o].ts <= ops[c].ts
        BY <2>1, <2>2, <3>3, <3>5
      <3>7. ops'[o].ts <= ops'[c].ts
        BY <1>1, <2>2, <3>2, <3>6 DEF OpsKept
      <3> QED
        BY <3>2, <3>4, <3>7 DEF s
    <2> QED
      BY <1>2, <1>3, <2>3, <2>4 DEF RowStep
  <1> QED
    BY <1>5, <1>6, LoggedStep

-----------------------------------------------------------------------------
\* The theorems

LEMMA InitIInv == Init => IInv
  <1> SUFFICES ASSUME Init PROVE IInv
    OBVIOUS
  <1> USE UserAssumption, OpAssumption DEF Init
  <1>1. TypeOK
    BY DEF TypeOK, OpRow, RequestRec, SuratRow, IdleReq
  <1>2. RequestInv /\ ResultsInv /\ LockInv
    BY DEF RequestInv, ResultsInv, LockInv, IdleReq
  <1>3. RowInv /\ SyncedImpliesLogged /\ AppliedOnce /\ NewestLoggedWins
    BY DEF RowInv, SyncedImpliesLogged, AppliedOnce, NewestLoggedWins, Logged
  <1> QED
    BY <1>1, <1>2, <1>3 DEF IInv

LEMMA IInvStep == IInv /\ [Next]_vars => IInv'
  BY TypeStep, RequestStep, ResultsStep, LockStep, RowInvStep, SyncedStep, AppliedOnceStep,
     NewestStep
  DEF IInv

\* IInv is an inductive invariant, and everything below follows from it.
THEOREM Invariance == Spec => []IInv
  BY InitIInv, IInvStep, PTL DEF Spec

\* Every reachable state is well typed.
THEOREM TypeCorrect == Spec => []TypeOK
  BY Invariance, PTL DEF IInv

\* The queue never marks a row synced that operation_log does not hold.
THEOREM NoLostEdit == Spec => []SyncedImpliesLogged
  BY Invariance, PTL DEF IInv

\* The server never applies an operation twice.
THEOREM NoDoubleApply == Spec => []AppliedOnce
  BY Invariance, PTL DEF IInv

\* Among the operations that were applied to a row, the newest one is what it shows.
THEOREM LastWriteWins == Spec => []NewestLoggedWins
  BY Invariance, PTL DEF IInv

\* An operation is applied only to a live row that is not newer than itself, and only
\* web transactions that began earlier take a row back in time
\* (store/oplog.go:152-170, surat_write.go:90).
THEOREM NeverOverwritesNewer == Spec => NoStaleOverwrite
  <1> DEFINE Fresh == \A o \in Op : Logged(o)' /\ ~Logged(o) =>
                        /\ ~surat[OpSurat[o]].deleted
                        /\ surat[OpSurat[o]].upd <= ops[o].ts
             Backwards == \A s \in Surat : surat'[s].upd < surat[s].upd =>
                            /\ surat'[s].by = Web /\ surat'[s].upd = put[s]
                            /\ ~RowLocked(s)
  <1>1. ASSUME IInv, [Next]_vars, NEW p \in Request, Applied(p), NEW o, o = Current(p)
        PROVE  /\ o \in Op /\ ~surat[OpSurat[o]].deleted
               /\ surat[OpSurat[o]].upd <= ops[o].ts
    <2>1. TypeOK /\ RequestInv /\ LockInv
      BY <1>1 DEF IInv
    <2>2. o \in Op
      BY <1>1, <2>1, CurrentType DEF Applied
    <2>3. ~surat[OpSurat[o]].deleted /\ ~(surat[OpSurat[o]].upd > ops[o].ts)
      BY <1>1, <2>1 DEF Applied, LockInv, Stale
    <2>4. surat[OpSurat[o]].upd \in Int /\ ops[o].ts \in Int
      BY <2>1, <2>2, OpAssumption DEF TypeOK, SuratRow, OpRow
    <2> QED
      BY <2>2, <2>3, <2>4
  <1>2. ASSUME IInv, [Next]_vars PROVE Fresh
    <2> SUFFICES ASSUME NEW o \in Op, oplog'[o] # NoUser, ~Logged(o)
                 PROVE  /\ ~surat[OpSurat[o]].deleted
                        /\ surat[OpSurat[o]].upd <= ops[o].ts
      BY DEF Logged
    <2>1. PICK p \in Request : Applied(p) /\ Current(p) = o
      BY <1>2, LoggedStep DEF IInv
    <2> QED
      BY <1>1, <1>2, <2>1
  <1>3. ASSUME IInv, [Next]_vars PROVE Backwards
    <2> SUFFICES ASSUME NEW s \in Surat, surat'[s].upd < surat[s].upd
                 PROVE  surat'[s].by = Web /\ surat'[s].upd = put[s] /\ ~RowLocked(s)
      OBVIOUS
    <2>1. surat[s].upd \in Int
      BY <1>3 DEF IInv, TypeOK, SuratRow
    <2>2. surat'[s] # surat[s]
      BY <2>1
    <2>3. ASSUME NEW p \in Request, Applied(p), OpSurat[Current(p)] = s
          PROVE  FALSE
      <3>1. PICK o : o = Current(p)
        OBVIOUS
      <3>2. o \in Op /\ surat[s].upd <= ops[o].ts
        BY <1>1, <1>3, <2>3, <3>1
      <3>3. surat'[s].upd = ops[o].ts
        BY <2>3, <3>1 DEF Applied
      <3>4. ops[o].ts \in Int
        BY <1>3, <3>2 DEF IInv, TypeOK, OpRow
      <3> QED
        BY <2>1, <3>2, <3>3, <3>4
    <2>4. RowStep(s)
      BY <1>3, StoreStep DEF IInv
    <2> QED
      BY <2>2, <2>3, <2>4 DEF RowStep
  <1>4. IInv /\ [Next]_vars => [Fresh /\ Backwards]_vars
    BY <1>2, <1>3
  <1> QED
    BY <1>4, Invariance, PTL DEF Spec, NoStaleOverwrite

-----------------------------------------------------------------------------
\* Refinement: queue, network and log implement ExactlyOnce.

\* Every step is a step of ExactlyOnce or leaves the abstract state alone.
LEMMA AbsStep == IInv /\ [Next]_vars => [Abs!Next]_(Abs!absvars)
  <1> SUFFICES ASSUME IInv, [Next]_vars PROVE [Abs!Next]_(Abs!absvars)
    OBVIOUS
  <1> DEFINE status == [o \in Op |-> Status(o)]
             writer == [s \in Surat |-> surat[s].by]
  <1>1. /\ TypeOK /\ RequestInv /\ ResultsInv /\ LockInv /\ RowInv
        /\ SyncedImpliesLogged /\ TypeOK'
    BY TypeStep DEF IInv
  <1>2. ASSUME UNCHANGED <<ops, oplog>> PROVE status' = status
    BY <1>2 DEF Status, Logged
  <1>3. ASSUME UNCHANGED surat PROVE writer' = writer
    BY <1>3
  <1>4. ASSUME status' = status, writer' = writer PROVE [Abs!Next]_(Abs!absvars)
    BY <1>4 DEF Abs!absvars
  <1>5. CASE Server
    <2>1. PICK p \in Request : Check(p) \/ Lock(p) \/ Commit(p) \/ DbError(p) \/ CommitUnknown(p)
      BY <1>5 DEF Server
    <2>2. ASSUME req[p].sv = "insert", ~Logged(Current(p)), Effect(p, Current(p)),
                 UNCHANGED ops
          PROVE  [Abs!Next]_(Abs!absvars)
      <3>0. PICK c \in Op : c = Current(p)
        BY <1>1, <2>2, CurrentType
      <3>1. ops[c].st # "absent" /\ req[p].by # NoUser /\ ~Logged(c)
        BY <1>1, <2>2, <3>0, CurrentType
      <3>2. ops[c].st = "queued"
        BY <1>1, <3>1 DEF SyncedImpliesLogged, TypeOK, OpRow
      <3>3. /\ oplog' = [oplog EXCEPT ![c] = req[p].by]
            /\ surat' = [surat EXCEPT ![OpSurat[c]].upd = ops[c].ts, ![OpSurat[c]].by = c]
            /\ ops' = ops
        BY <2>2, <3>0 DEF Effect
      <3>4. status[c] = "pending"
        BY <3>1, <3>2 DEF Status
      <3>5. status' = [status EXCEPT ![c] = "applied"]
        BY <1>1, <3>1, <3>2, <3>3 DEF Status, Logged, TypeOK
      <3>6. writer' = [writer EXCEPT ![OpSurat[c]] = c]
        BY <1>1, <3>3 DEF TypeOK, SuratRow
      <3>7. Abs!Apply(c)
        BY <3>4, <3>5, <3>6 DEF Abs!Apply, Abs!Move
      <3> QED
        BY <3>7 DEF Abs!Next
    <2>3. CASE Commit(p)
      <3>1. CASE Logged(Current(p))
        BY <1>2, <1>3, <1>4, <2>3, <3>1 DEF Commit
      <3>2. CASE ~Logged(Current(p))
        BY <2>2, <2>3, <3>2 DEF Commit
      <3> QED
        BY <3>1, <3>2
    <2>4. CASE CommitUnknown(p)
      BY <2>2, <2>4 DEF CommitUnknown
    <2> QED
      BY <1>2, <1>3, <1>4, <2>1, <2>3, <2>4 DEF Check, Lock, DbError
  <1>6. ASSUME NEW o \in Op, Enqueue(o) PROVE [Abs!Next]_(Abs!absvars)
    <2>1. ~Logged(o) /\ status[o] = "absent"
      BY <1>1, <1>6 DEF Enqueue, RowInv, Status
    <2>2. status' = [status EXCEPT ![o] = "pending"]
      BY <1>1, <1>6, <2>1 DEF Enqueue, Status, Logged, TypeOK
    <2>3. Abs!Make(o)
      BY <1>3, <1>6, <2>1, <2>2 DEF Enqueue, Abs!Make, Abs!Move
    <2> QED
      BY <2>3 DEF Abs!Next
  <1>7. ASSUME NEW o \in Op, RetryDue(o) PROVE [Abs!Next]_(Abs!absvars)
    <2>1. status' = status
      BY <1>1, <1>7 DEF RetryDue, Status, Logged, TypeOK, OpRow
    <2> QED
      BY <1>3, <1>4, <1>7, <2>1 DEF RetryDue
  <1>8. ASSUME NEW r \in Request, Backoff(r) PROVE [Abs!Next]_(Abs!absvars)
    <2> DEFINE p == req[r].batch[req[r].ack + 1]
    <2>1. ops' = [ops EXCEPT ![p].due = FALSE, ![p].err = "network"] /\ oplog' = oplog
      BY <1>8 DEF Backoff
    <2> HIDE DEF p
    <2>2. status' = status
      BY <1>1, <2>1 DEF Status, Logged, TypeOK, OpRow
    <2> QED
      BY <1>3, <1>4, <1>8, <2>2 DEF Backoff
  <1>9. ASSUME NEW r \in Request, Settle(r) PROVE [Abs!Next]_(Abs!absvars)
    <2> DEFINE i == req[r].ack + 1
    <2>1. /\ req[r].cl = "ok" /\ oplog' = oplog
          /\ \/ /\ req[r].res[i] \in {"applied", "duplicate"}
                /\ ops' = [ops EXCEPT ![req[r].batch[i]].st = "synced",
                                      ![req[r].batch[i]].err = "none"]
             \/ ops' = [ops EXCEPT ![req[r].batch[i]].err = "rejected"]
      BY <1>9 DEF Settle
    <2>2. req[r] \in RequestRec
      BY <1>1 DEF TypeOK
    <2>3. /\ req[r].res \in Seq({"applied", "duplicate", "rejected"})
          /\ req[r].batch \in Seq(Op)
          /\ req[r].ack \in Nat /\ req[r].ack < Len(req[r].batch)
          /\ Len(req[r].res) = Len(req[r].batch)
      BY <1>1, <2>1, <2>2 DEF RequestRec, RequestInv
    <2>4. i \in DOMAIN req[r].res /\ i \in DOMAIN req[r].batch
      BY <2>3
    <2>5. PICK p \in Op : p = req[r].batch[i]
      BY <2>3, <2>4
    <2>6. req[r].res[i] \in {"applied", "duplicate"} => Logged(p)
      BY <1>1, <2>4, <2>5 DEF ResultsInv
    <2>7. ops[p].st \in {"queued", "synced"}
      <3>1. ops[p] \in OpRow /\ ops[p].st # "absent"
        BY <1>1, <2>4, <2>5 DEF RequestInv, TypeOK
      <3> QED
        BY <3>1 DEF OpRow
    <2>8. writer' = writer
      BY <1>3, <1>9 DEF Settle
    <2> HIDE DEF i
    <2>9. CASE ops' = [ops EXCEPT ![p].err = "rejected"]
      <3>1. status' = status
        BY <1>1, <2>1, <2>9 DEF Status, Logged, TypeOK, OpRow
      <3> QED
        BY <1>4, <2>8, <3>1
    <2>10. CASE /\ req[r].res[i] \in {"applied", "duplicate"}
                /\ ops' = [ops EXCEPT ![p].st = "synced", ![p].err = "none"]
      <3>1. status' = [status EXCEPT ![p] = "acked"]
        <4>1. ASSUME NEW o \in Op PROVE Status(o)' = IF o = p THEN "acked" ELSE Status(o)
          <5>1. ops[o] \in OpRow /\ ops[p] \in OpRow
            BY <1>1 DEF TypeOK
          <5>2. CASE o = p
            <6>1. ops'[p].st = "synced"
              BY <1>1, <2>10, <5>1 DEF TypeOK, OpRow
            <6> QED
              BY <5>2, <6>1 DEF Status
          <5>3. CASE o # p
            <6>1. ops'[o] = ops[o] /\ oplog'[o] = oplog[o]
              BY <1>1, <2>1, <2>10, <5>3 DEF TypeOK
            <6> QED
              BY <5>3, <6>1 DEF Status, Logged
          <5> QED
            BY <5>2, <5>3
        <4> QED
          BY <4>1
      <3>2. status[p] = IF ops[p].st = "synced" THEN "acked" ELSE "applied"
        BY <2>6, <2>7, <2>10 DEF Status
      <3>3. CASE ops[p].st = "synced"
        BY <1>4, <2>8, <3>1, <3>2, <3>3
      <3>4. CASE ops[p].st # "synced"
        <4>1. Abs!Acknowledge(p)
          BY <2>8, <3>1, <3>2, <3>4 DEF Abs!Acknowledge, Abs!Move
        <4> QED
          BY <4>1 DEF Abs!Next
      <3> QED
        BY <3>3, <3>4
    <2> QED
      BY <2>1, <2>5, <2>9, <2>10
  <1>10. ASSUME NEW s \in Surat, WebWrite(s) PROVE [Abs!Next]_(Abs!absvars)
    <2>1. PICK del \in BOOLEAN :
            surat' = [surat EXCEPT ![s] = [deleted |-> del, upd |-> put[s], by |-> Web]]
      BY <1>10 DEF WebWrite
    <2>2. writer' = [writer EXCEPT ![s] = Web]
      BY <1>1, <2>1 DEF TypeOK
    <2>3. Abs!WebWrite(s)
      BY <1>2, <1>10, <2>2 DEF WebWrite, Abs!WebWrite
    <2> QED
      BY <2>3 DEF Abs!Next
  <1> QED
    BY <1>2, <1>3, <1>4, <1>5, <1>6, <1>7, <1>8, <1>9, <1>10
    DEF Next, vars, Browser, Network, Writers, People, Drain, SubmitLater, SubmitNow,
        Deliver, Break, Abort, WebBegin, WebFail, Tick, Logout, Reload, Login

\* Whatever is retried, lost, repeated or interleaved, each edit takes effect once
\* and is acknowledged after that.
THEOREM Refinement == Spec => ExactlyOnceEdits
  <1>1. Init => Abs!Init
    BY DEF Init, Abs!Init, Status
  <1> QED
    BY <1>1, AbsStep, Invariance, PTL DEF Spec, ExactlyOnceEdits, Abs!Spec
=============================================================================
