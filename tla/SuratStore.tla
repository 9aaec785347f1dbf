------------------------------ MODULE SuratStore ------------------------------
(***************************************************************************)
(* The transactions that write a surat, and its audit log:                 *)
(* internal/store/surat_write.go with the handlers of                      *)
(* internal/server/surat_write.go, and the two writers that keep no audit, *)
(* applySuratUpdate of store/oplog.go and the soft delete of a merge in    *)
(* store/reconciliation.go.                                                *)
(*                                                                         *)
(* At READ COMMITTED a transaction reads its before-image, waits for the   *)
(* row's lock, evaluates its WHERE on what was committed meanwhile, and    *)
(* waits again where the unique index shows it a number of someone who has *)
(* not committed.  The index knows the numbers of live outgoing surat only.*)
(***************************************************************************)
EXTENDS Integers, FiniteSets

CONSTANTS
  Surat,    \* identifiers of surat
  Keluar,   \* those that are outgoing (jenis = 'keluar')
  Nomor,    \* values of nomor_surat
  Tx,       \* transactions that can be in progress
  None,     \* the NULL of the records
  MaxTx     \* bound: transactions begun

ASSUME KeluarAssumption == Keluar \subseteq Surat
ASSUME NullAssumption == None \notin Surat \cup Nomor
ASSUME BoundAssumption == MaxTx \in Nat

VARIABLES
  surat,    \* surat[s]: the committed row
  log,      \* log[s]: the rows of audit_log about s, which created_at alone orders
  tx,       \* tx[t]: a transaction and where it is
  silent,   \* surat that were changed without an entry since their last one (history)
  begun     \* transactions begun so far

vars == <<surat, log, tx, silent, begun>>

\* ver is the transaction that wrote the row: it stands for the columns without an
\* index and for updated_at.  Transactions are numbered as they begin, as NOW() is.
Row == [st : {"none", "live", "deleted"}, nomor : Nomor \cup {None}, ver : Nat]
NoRow == [st |-> "none", nomor |-> None, ver |-> 0]

Kind == {"create", "update", "delete", "restore", "offline", "merge"}
Audited == {"create", "update", "delete", "restore"}

\* at is created_at, the begin of the entry's transaction.  late says that s was changed
\* between that begin and the before-image, stale that it was changed between that image
\* and the lock, and silent that the last change of s left no entry (history).
Entry == [act : Audited, at : Nat, before : Row, after : Row,
          late : BOOLEAN, stale : BOOLEAN, silent : BOOLEAN]

TxRec == [pc : {"idle", "read", "lock", "index", "commit"}, kind : Kind,
          surat : Surat \cup {None}, nomor : Nomor \cup {None}, ver : Nat,
          before : Row, late : BOOLEAN, stale : BOOLEAN]
IdleTx == [pc |-> "idle", kind |-> "create", surat |-> None, nomor |-> None, ver |-> 0,
           before |-> NoRow, late |-> FALSE, stale |-> FALSE]

TypeOK ==
  /\ surat \in [Surat -> Row]
  /\ log \in [Surat -> SUBSET Entry]
  /\ tx \in [Tx -> TxRec]
  /\ silent \in SUBSET Surat
  /\ begun \in Nat

Init ==
  /\ surat = [s \in Surat |-> NoRow]
  /\ log = [s \in Surat |-> {}]
  /\ tx = [t \in Tx |-> IdleTx]
  /\ silent = {}
  /\ begun = 0

-----------------------------------------------------------------------------
\* Helpers

\* Whoever has written a row keeps its lock to the end.
Locked(s, t) ==
  \E u \in Tx \ {t} : tx[u].surat = s /\ tx[u].pc \in {"index", "commit"}

\* The row that t leaves behind.
After(t) ==
  LET s == tx[t].surat IN
    CASE tx[t].kind \in {"delete", "merge"} ->
                   [surat[s] EXCEPT !.st = "deleted", !.ver = tx[t].ver]
      [] tx[t].kind = "restore" -> [surat[s] EXCEPT !.st = "live", !.ver = tx[t].ver]
      [] OTHER -> [st |-> "live", ver |-> tx[t].ver,
                   nomor |-> IF tx[t].nomor = None THEN surat[s].nomor ELSE tx[t].nomor]

\* Is the row r of s in the unique index under n?
Holds(s, r, n) == s \in Keluar /\ r.st = "live" /\ r.nomor = n

\* The entries of the index that t has to mind: committed ones and those of others
\* that have not committed.
Rivals(t) == {s \in Surat \ {tx[t].surat} : Holds(s, surat[s], After(t).nomor)}
Claimed(t) == \E u \in Tx \ {t} :
  /\ tx[u].pc = "commit" /\ tx[u].surat # tx[t].surat
  /\ Holds(tx[u].surat, After(u), After(t).nomor)
Indexed(t) == Holds(tx[t].surat, After(t), After(t).nomor)

End(t) == tx' = [tx EXCEPT ![t] = IdleTx]

-----------------------------------------------------------------------------
\* A request begins its transaction

Begin(t, kind, s, n) ==
  /\ tx[t].pc = "idle" /\ begun < MaxTx
  /\ begun' = begun + 1
  /\ tx' = [tx EXCEPT ![t] =
       [pc |-> IF kind \in {"create", "offline", "merge"} THEN "lock" ELSE "read",
        kind |-> kind, surat |-> s, nomor |-> n, ver |-> begun + 1,
        before |-> NoRow, late |-> FALSE, stale |-> FALSE]]
  /\ UNCHANGED <<surat, log, silent>>

\* An identifier is new, as UUIDs are.
BeginCreate(t, s, n) ==
  /\ surat[s].st = "none" /\ \A u \in Tx : tx[u].surat # s
  /\ Begin(t, "create", s, n)

\* A patch names the number or leaves it; one that names nothing changes nothing.
BeginUpdate(t, s, n) ==
  /\ surat[s].st # "none"
  /\ Begin(t, "update", s, n)

BeginDelete(t, s) == surat[s].st # "none" /\ Begin(t, "delete", s, None)

BeginRestore(t, s) == surat[s].st # "none" /\ Begin(t, "restore", s, None)

\* applySuratUpdate has read the row FOR UPDATE and found it older than the edit.
BeginOffline(t, s, n) == surat[s].st # "none" /\ Begin(t, "offline", s, n)

\* A loser of MergeReconciliationGroup.
BeginMerge(t, s) == surat[s].st # "none" /\ Begin(t, "merge", s, None)

-----------------------------------------------------------------------------
\* Its statements

\* Mutant of Snapshot: a restore looks for a live row as the others do.
SnapshotLiveOnly(kind, r) == IF r.st = "live" THEN r ELSE NoRow

\* fetchSuratSnapshot, for a restore fetchSuratSnapshotIncludeDeleted.
Snapshot(kind, r) == IF r.st = "live" \/ kind = "restore" THEN r ELSE NoRow

ReadBefore(t) ==
  /\ tx[t].pc = "read"
  /\ tx' = [tx EXCEPT ![t].pc = "lock",
                      ![t].before = Snapshot(tx[t].kind, surat[tx[t].surat])]
  /\ UNCHANGED <<surat, log, silent, begun>>

\* The statement's WHERE, on the row as it is once the lock is free.
Applies(kind, r) ==
  CASE kind = "create"  -> r.st = "none"
    [] kind = "restore" -> r.st = "deleted"
    [] OTHER            -> r.st = "live"

\* Mutant of LockRow: the row is locked as the before-image found it.
LockUnchecked(t) ==
  /\ tx[t].pc = "lock" /\ ~Locked(tx[t].surat, t)
  /\ tx[t].before.st # "none" \/ Applies(tx[t].kind, surat[tx[t].surat])
  /\ tx' = [tx EXCEPT ![t].pc = "index"]
  /\ UNCHANGED <<surat, log, silent, begun>>

LockRow(t) ==
  /\ tx[t].pc = "lock" /\ ~Locked(tx[t].surat, t)
  /\ Applies(tx[t].kind, surat[tx[t].surat])
  /\ tx' = [tx EXCEPT ![t].pc = "index"]
  /\ UNCHANGED <<surat, log, silent, begun>>

\* No row: ErrNotFound.
NotFound(t) ==
  /\ tx[t].pc = "lock" /\ ~Locked(tx[t].surat, t)
  /\ ~Applies(tx[t].kind, surat[tx[t].surat])
  /\ End(t)
  /\ UNCHANGED <<surat, log, silent, begun>>

\* Mutant of EnterIndex: only committed numbers count, as in a check by a query.
EnterIndexByQuery(t) ==
  /\ tx[t].pc = "index"
  /\ Indexed(t) => Rivals(t) = {}
  /\ tx' = [tx EXCEPT ![t].pc = "commit"]
  /\ UNCHANGED <<surat, log, silent, begun>>

\* The row's entry goes into the unique index, after the end of whoever might still
\* free or take the number.
EnterIndex(t) ==
  /\ tx[t].pc = "index"
  /\ Indexed(t) => Rivals(t) = {} /\ ~Claimed(t)
  /\ tx' = [tx EXCEPT ![t].pc = "commit"]
  /\ UNCHANGED <<surat, log, silent, begun>>

\* ErrConflict, or a restore's or an offline edit's plain error.
Conflict(t) ==
  /\ tx[t].pc = "index" /\ Indexed(t)
  /\ \E s \in Rivals(t) : ~Locked(s, t)
  /\ End(t)
  /\ UNCHANGED <<surat, log, silent, begun>>

\* recordAudit: a deleted row has no after-image.
NewEntry(t) ==
  [act |-> tx[t].kind, at |-> tx[t].ver, before |-> tx[t].before,
   after |-> IF tx[t].kind = "delete" THEN NoRow ELSE After(t),
   late |-> tx[t].late, stale |-> tx[t].stale, silent |-> tx[t].surat \in silent]

\* Of the transactions on s that are open, some have an outdated image of it now.
Outdated(s) == [u \in Tx |->
  IF tx[u].surat # s THEN tx[u]
  ELSE [tx[u] EXCEPT !.late = @ \/ tx[u].pc = "read", !.stale = @ \/ tx[u].pc = "lock"]]

Commit(t) ==
  LET s == tx[t].surat IN
    /\ tx[t].pc = "commit"
    /\ surat' = [surat EXCEPT ![s] = After(t)]
    /\ IF tx[t].kind \in Audited
       THEN log' = [log EXCEPT ![s] = log[s] \cup {NewEntry(t)}] /\ silent' = silent \ {s}
       ELSE silent' = silent \cup {s} /\ UNCHANGED log
    /\ tx' = [Outdated(s) EXCEPT ![t] = IdleTx]
    /\ UNCHANGED begun

\* Mutant of Rollback: the entry is written outside the transaction.
RollbackKeepsEntry(t) ==
  /\ tx[t].pc # "idle"
  /\ End(t)
  /\ log' = IF tx[t].pc = "commit" /\ tx[t].kind \in Audited
            THEN [log EXCEPT ![tx[t].surat] = log[tx[t].surat] \cup {NewEntry(t)}] ELSE log
  /\ UNCHANGED <<surat, silent, begun>>

\* An error, a lost connection, a crash, a deadlock found: everything is undone.
Rollback(t) ==
  /\ tx[t].pc # "idle"
  /\ End(t)
  /\ UNCHANGED <<surat, log, silent, begun>>

-----------------------------------------------------------------------------
BeginOne(t) == \E s \in Surat :
  \/ BeginDelete(t, s) \/ BeginRestore(t, s) \/ BeginMerge(t, s)
  \/ \E n \in Nomor : BeginCreate(t, s, n)
  \/ \E n \in Nomor \cup {None} : BeginUpdate(t, s, n) \/ BeginOffline(t, s, n)

Proceed(t) ==
  \/ ReadBefore(t) \/ LockRow(t) \/ NotFound(t) \/ EnterIndex(t) \/ Conflict(t) \/ Commit(t)

Next == \E t \in Tx : BeginOne(t) \/ Proceed(t) \/ Rollback(t)

Spec == Init /\ [][Next]_vars

-----------------------------------------------------------------------------
\* Properties

\* Two live outgoing surat never share a number, however creations, renumberings and
\* restores overlap and whoever of them is undone (schema 0001_init.sql:127-128,
\* surat_write.go:46-49, 131-133, 208-210).
NomorUnique ==
  \A s, o \in Keluar :
    surat[s].st = "live" /\ surat[o].st = "live" /\ surat[s].nomor = surat[o].nomor => s = o

\* Another transaction on the surat was committed while the one of e was open, so
\* that created_at need not show which of the two came first.
Overtaken(e) == e.late \/ e.stale

\* What e left, as its after-image shows it or, for a deletion, the before-image; the
\* row that a deletion leaves is in no image.
Left(e, r) ==
  /\ r.ver = e.at
  /\ IF e.act = "delete"
     THEN r.st = "deleted" /\ (e.stale \/ r = [e.before EXCEPT !.st = "deleted", !.ver = r.ver])
     ELSE r = e.after

\* The log of a surat reads as its history.  The change before e is the entry d whose
\* created_at is the updated_at of e's before-image, and e begins where d ended, unless
\* e's image was outdated or the change before e was one that keeps no audit
\* (surat_write.go:83-87, 160-163, 198-201).  By created_at e comes after d, and next
\* after it, unless e, d or an entry between them was overtaken.
LogReadsOn ==
  \A s \in Surat : \A e \in log[s] :
    e.act = "create" \/ e.stale \/ e.silent
    \/ \E d \in log[s] :
         /\ Left(d, e.before)
         /\ d.at < e.at \/ e.late
         /\ \A f \in log[s] : d.at < f.at /\ f.at < e.at => Overtaken(d) \/ Overtaken(f)

\* The entry with the created_at of the row's last change is there and about the row, and
\* it is the newest one unless it was overtaken: an entry and its change are committed
\* together or not at all (surat_write.go:227-238).  A writer that keeps no audit may
\* have come later.
LastEntryIsTrue ==
  \A s \in Surat \ silent :
    IF log[s] = {} THEN surat[s] = NoRow
    ELSE \E d \in log[s] : /\ Left(d, surat[s])
                           /\ \A f \in log[s] : f.at <= d.at \/ Overtaken(d)

-----------------------------------------------------------------------------
\* The inductive invariant

\* A transaction that has a row's lock has it alone, and the row is still what its
\* WHERE found.
LocksHold ==
  \A t \in Tx : tx[t].pc \in {"index", "commit"} =>
    /\ ~Locked(tx[t].surat, t)
    /\ Applies(tx[t].kind, surat[tx[t].surat])

\* Whoever is in the index has his number for himself.
NumbersClaimed ==
  \A t \in Tx : tx[t].pc = "commit" /\ Indexed(t) => Rivals(t) = {} /\ ~Claimed(t)

\* A before-image that is not outdated is of the row that is there.
ImagesFit ==
  \A t \in Tx : tx[t].pc \in {"lock", "index", "commit"} /\ ~tx[t].stale
                 /\ tx[t].kind \notin {"create", "offline", "merge"} =>
    tx[t].before = Snapshot(tx[t].kind, surat[tx[t].surat])

\* A transaction is about a surat, with what its kind brings along; rows that are
\* missing have no trace.
TxFits ==
  /\ \A t \in Tx : IF tx[t].pc = "idle" THEN tx[t] = IdleTx
                    ELSE /\ tx[t].surat \in Surat
                         /\ tx[t].kind = "create" => tx[t].nomor \in Nomor
  /\ \A s \in Surat :
       /\ surat[s].st = "none" => surat[s] = NoRow /\ log[s] = {} /\ s \notin silent
       /\ surat[s].st # "none" => surat[s].nomor \in Nomor

\* No two transactions begin at one moment, and whoever committed on a surat after a
\* transaction on it had begun has overtaken it.
TurnsKnown ==
  /\ \A t \in Tx : tx[t].pc # "idle" =>
       /\ tx[t].ver <= begun
       /\ \A u \in Tx : tx[u].pc # "idle" /\ tx[u].ver = tx[t].ver => u = t
       /\ \A f \in log[tx[t].surat] :
            f.at # tx[t].ver /\ (f.at > tx[t].ver => tx[t].late \/ tx[t].stale)
  /\ \A s \in Surat : \A f \in log[s] : f.at <= begun

IInv ==
  /\ TypeOK /\ TxFits /\ LocksHold /\ NumbersClaimed /\ ImagesFit /\ TurnsKnown
  /\ NomorUnique /\ LogReadsOn /\ LastEntryIsTrue

=============================================================================
