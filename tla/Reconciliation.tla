--------------------------- MODULE Reconciliation ---------------------------
(***************************************************************************)
(* Duplicates of incoming surat: internal/store/reconciliation.go and its  *)
(* callers in internal/server.                                             *)
(*                                                                         *)
(* After CreateSurat has committed, the handler runs a second transaction  *)
(* that looks for live surat with the same key (instansi_id, nomor_surat,  *)
(* tanggal_terima) and puts all of them into reconciliation_queue, in the  *)
(* pending group of one of them or in a new group.  A supervisor merges a  *)
(* group, which soft-deletes all but one, or keeps everything.  All of it  *)
(* is READ COMMITTED: a statement sees what is committed when it runs.     *)
(***************************************************************************)
EXTENDS Integers, FiniteSets

CONSTANTS
  Surat,      \* incoming surat that may be created
  Key,        \* values of (instansi_id, nomor_surat, tanggal_terima)
  Merger,     \* merge requests that can be in progress
  NoSurat,    \* nobody
  NoKey,      \* the key of a surat that does not exist
  MaxHand     \* bound: deletions, restores and edits of a surat by hand

ASSUME SuratAssumption == NoSurat \notin Surat /\ NoKey \notin Key
ASSUME BoundAssumption == MaxHand \in Nat

VARIABLES
  surat,    \* surat[s]: the row
  detect,   \* detect[s]: the duplicate check of the request that created s
  queue,    \* queue[b][s]: the entry for s that the check of b inserted
  merge,    \* merge[m]: a merge transaction
  canon,    \* canon[g]: the canonical surat of the last merge of group g (history)
  hand,     \* surat deleted, restored or edited by hand (history)
  hands,    \* how often that happened so far
  mixed     \* two transactions on the queue have overlapped (history)

vars == <<surat, detect, queue, merge, canon, hand, hands, mixed>>

\* A new group's identifier is generated: the check of s calls it s.
Entry == [status : {"none", "pending", "merged", "kept_both"},
          group : Surat \cup {NoSurat}, key : Key \cup {NoKey}]
NoEntry == [status |-> "none", group |-> NoSurat, key |-> NoKey]

SuratRow == [st : {"none", "live", "deleted"}, key : Key \cup {NoKey}]

\* pc is the next statement of CreateReconciliationGroupIfDuplicate.
Detection == [pc : {"none", "own", "siblings", "group", "entries", "done", "failed"},
              key : Key \cup {NoKey},
              sibs : SUBSET Surat,             \* siblingIDs not yet gone through
              group : Surat \cup {NoSurat},    \* groupID
              adds : SUBSET Surat]             \* entries inserted, not yet committed
NoDetection == [pc |-> "none", key |-> NoKey, sibs |-> {}, group |-> NoSurat, adds |-> {}]

Merging == [open : BOOLEAN, group : Surat \cup {NoSurat}, canon : Surat \cup {NoSurat},
            todo : SUBSET Surat,               \* losers not yet gone through
            held : SUBSET Surat]               \* losers deleted, not yet committed
NoMerging == [open |-> FALSE, group |-> NoSurat, canon |-> NoSurat, todo |-> {}, held |-> {}]

TypeOK ==
  /\ surat \in [Surat -> SuratRow]
  /\ detect \in [Surat -> Detection]
  /\ queue \in [Surat -> [Surat -> Entry]]
  /\ merge \in [Merger -> Merging]
  /\ canon \in [Surat -> Surat \cup {NoSurat}]
  /\ hand \in SUBSET Surat
  /\ hands \in Nat
  /\ mixed \in BOOLEAN

Init ==
  /\ surat = [s \in Surat |-> [st |-> "none", key |-> NoKey]]
  /\ detect = [s \in Surat |-> NoDetection]
  /\ queue = [b \in Surat |-> [s \in Surat |-> NoEntry]]
  /\ merge = [m \in Merger |-> NoMerging]
  /\ canon = [g \in Surat |-> NoSurat]
  /\ hand = {}
  /\ hands = 0
  /\ mixed = FALSE

-----------------------------------------------------------------------------
\* Helpers

Live(s) == surat[s].st = "live"

\* Surat with a pending entry in group g, and groups where s is pending.
Members(g) == {s \in Surat : \E b \in Surat : queue[b][s].status = "pending"
                                              /\ queue[b][s].group = g}
PendingIn(s) == {g \in Surat : s \in Members(g)}

\* The row of s is locked by the UPDATE of an open merge.
Locked(s) == \E m \in Merger : s \in merge[m].held

Detecting == {s \in Surat : detect[s].pc \in {"siblings", "group", "entries"}}
Merges    == {m \in Merger : merge[m].open}

\* A transaction on the queue begins while another one is open.
Overlap == mixed' = (mixed \/ Detecting # {} \/ Merges # {})

-----------------------------------------------------------------------------
\* suratCreateHandler: create, then look for duplicates

Create(s, k) ==
  /\ surat[s].st = "none"
  /\ surat' = [surat EXCEPT ![s] = [st |-> "live", key |-> k]]
  /\ detect' = [detect EXCEPT ![s].pc = "own"]
  /\ UNCHANGED <<queue, merge, canon, hand, hands, mixed>>

\* The surat's own row; it may have been deleted already.
ReadOwn(s) ==
  /\ detect[s].pc = "own"
  /\ detect' = [detect EXCEPT ![s].pc = IF Live(s) THEN "siblings" ELSE "failed",
                              ![s].key = IF Live(s) THEN surat[s].key ELSE NoKey]
  /\ Overlap
  /\ UNCHANGED <<surat, queue, merge, canon, hand, hands>>

\* Mutant of Siblings: nomor_surat and the other columns are not compared.
SiblingsOfAnyKey(s) == {t \in Surat \ {s} : Live(t)}

\* Mutant of Siblings: the surat itself is not left out.
SiblingsAndItself(s) == {t \in Surat : Live(t) /\ surat[t].key = detect[s].key}

Siblings(s) == {t \in Surat \ {s} : Live(t) /\ surat[t].key = detect[s].key}

ReadSiblings(s) ==
  /\ detect[s].pc = "siblings"
  /\ detect' = [detect EXCEPT ![s].pc = IF Siblings(s) = {} THEN "done" ELSE "group",
                              ![s].sibs = Siblings(s)]
  /\ UNCHANGED <<surat, queue, merge, canon, hand, hands, mixed>>

\* Mutant of PickGroup: groups are not reused.
PickGroupNew(s) ==
  /\ detect[s].pc = "group"
  /\ detect' = [detect EXCEPT ![s].pc = "entries", ![s].group = s, ![s].adds = {s}]
  /\ UNCHANGED <<surat, queue, merge, canon, hand, hands, mixed>>

\* Any pending group of a sibling, or else a new one; the entry for s itself.
PickGroup(s) ==
  LET found == UNION {PendingIn(t) : t \in detect[s].sibs}
  IN  /\ detect[s].pc = "group"
      /\ \E g \in IF found = {} THEN {s} ELSE found :
           detect' = [detect EXCEPT ![s].pc = "entries", ![s].group = g, ![s].adds = {s}]
      /\ UNCHANGED <<surat, queue, merge, canon, hand, hands, mixed>>

\* Mutant of QueueSibling: the test is the wrong way round.
QueueSiblingIfQueued(s, t) ==
  /\ detect[s].pc = "entries" /\ t \in detect[s].sibs
  /\ detect' = [detect EXCEPT ![s].sibs = detect[s].sibs \ {t},
                              ![s].adds = IF PendingIn(t) # {} THEN detect[s].adds \cup {t}
                                                               ELSE detect[s].adds]
  /\ UNCHANGED <<surat, queue, merge, canon, hand, hands, mixed>>

\* One turn of the loop: a sibling gets an entry unless it has a pending one.
QueueSibling(s, t) ==
  /\ detect[s].pc = "entries" /\ t \in detect[s].sibs
  /\ detect' = [detect EXCEPT ![s].sibs = detect[s].sibs \ {t},
                              ![s].adds = IF PendingIn(t) = {} THEN detect[s].adds \cup {t}
                                                               ELSE detect[s].adds]
  /\ UNCHANGED <<surat, queue, merge, canon, hand, hands, mixed>>

\* ON CONFLICT DO NOTHING changes nothing: the table has no key to conflict with.
CommitEntries(s) ==
  /\ detect[s].pc = "entries" /\ detect[s].sibs = {}
  /\ queue' = [queue EXCEPT ![s] = [t \in Surat |->
                 IF t \in detect[s].adds
                 THEN [status |-> "pending", group |-> detect[s].group, key |-> detect[s].key]
                 ELSE queue[s][t]]]
  /\ detect' = [detect EXCEPT ![s] = [NoDetection EXCEPT !.pc = "done"]]
  /\ UNCHANGED <<surat, merge, canon, hand, hands, mixed>>

\* A statement fails, the client has gone, or the process stops: the surat stays
\* and is not checked again.
DetectFail(s) ==
  /\ detect[s].pc \in {"own", "siblings", "group", "entries"}
  /\ detect' = [detect EXCEPT ![s] = [NoDetection EXCEPT !.pc = "failed"]]
  /\ UNCHANGED <<surat, queue, merge, canon, hand, hands, mixed>>

-----------------------------------------------------------------------------
\* The supervisor

\* Mutant of MergeBegin: the loop over the losers stops at the canonical surat.
MergeBeginBreaks(m, g, c) ==
  /\ ~merge[m].open
  /\ c \in Members(g)
  /\ \E before \in SUBSET (Members(g) \ {c}) :
       merge' = [merge EXCEPT ![m] = [open |-> TRUE, group |-> g, canon |-> c,
                                      todo |-> before, held |-> {}]]
  /\ Overlap
  /\ UNCHANGED <<surat, detect, queue, canon, hand, hands>>

\* The pending members are read, and the canonical surat must be one of them.
MergeBegin(m, g, c) ==
  /\ ~merge[m].open
  /\ c \in Members(g)
  /\ merge' = [merge EXCEPT ![m] = [open |-> TRUE, group |-> g, canon |-> c,
                                    todo |-> Members(g) \ {c}, held |-> {}]]
  /\ Overlap
  /\ UNCHANGED <<surat, detect, queue, canon, hand, hands>>

\* UPDATE surat ... WHERE NOT is_deleted waits for the row.
MergeDelete(m, s) ==
  /\ s \in merge[m].todo
  /\ ~Locked(s)
  /\ merge' = [merge EXCEPT ![m].todo = merge[m].todo \ {s},
                            ![m].held = IF Live(s) THEN merge[m].held \cup {s}
                                                   ELSE merge[m].held]
  /\ UNCHANGED <<surat, detect, queue, canon, hand, hands, mixed>>

\* Mutant of Resolved: the UPDATE has no AND status = 'pending'.
ResolvedAgain(g, status) ==
  [b \in Surat |-> [s \in Surat |->
     IF queue[b][s].group = g THEN [queue[b][s] EXCEPT !.status = status] ELSE queue[b][s]]]

\* UPDATE reconciliation_queue ... WHERE group_id = g AND status = 'pending'.
Resolved(g, status) ==
  [b \in Surat |-> [s \in Surat |->
     IF queue[b][s].status = "pending" /\ queue[b][s].group = g
     THEN [queue[b][s] EXCEPT !.status = status] ELSE queue[b][s]]]

\* The entries are marked and everything is committed.  The merge writes nothing
\* to audit_log.
MergeCommit(m) ==
  LET g == merge[m].group
  IN  /\ merge[m].open /\ merge[m].todo = {}
      /\ surat' = [s \in Surat |-> IF s \in merge[m].held
                                   THEN [surat[s] EXCEPT !.st = "deleted"] ELSE surat[s]]
      /\ queue' = Resolved(g, "merged")
      /\ canon' = [canon EXCEPT ![g] = merge[m].canon]
      /\ merge' = [merge EXCEPT ![m] = NoMerging]
      /\ UNCHANGED <<detect, hand, hands, mixed>>

MergeFail(m) ==
  /\ merge[m].open
  /\ merge' = [merge EXCEPT ![m] = NoMerging]
  /\ UNCHANGED <<surat, detect, queue, canon, hand, hands, mixed>>

\* One statement.
KeepBoth(g) ==
  /\ Members(g) # {}
  /\ queue' = Resolved(g, "kept_both")
  /\ Overlap
  /\ UNCHANGED <<surat, detect, merge, canon, hand, hands>>

-----------------------------------------------------------------------------
\* What people do to single surat; none of it looks for duplicates

ByHand(s) == ~Locked(s) /\ hands < MaxHand /\ hands' = hands + 1 /\ hand' = hand \cup {s}

SoftDelete(s) ==
  /\ Live(s) /\ ByHand(s)
  /\ surat' = [surat EXCEPT ![s].st = "deleted"]
  /\ UNCHANGED <<detect, queue, merge, canon, mixed>>

Restore(s) ==
  /\ surat[s].st = "deleted" /\ ByHand(s)
  /\ surat' = [surat EXCEPT ![s].st = "live"]
  /\ UNCHANGED <<detect, queue, merge, canon, mixed>>

\* UpdateSurat and applySuratUpdate change the columns of the key.
EditKey(s, k) ==
  /\ Live(s) /\ surat[s].key # k /\ ByHand(s)
  /\ surat' = [surat EXCEPT ![s].key = k]
  /\ UNCHANGED <<detect, queue, merge, canon, mixed>>

-----------------------------------------------------------------------------
Writers == \E s \in Surat :
             \/ \E k \in Key : Create(s, k) \/ EditKey(s, k)
             \/ SoftDelete(s)
             \/ Restore(s)

Checks == \E s \in Surat :
            \/ ReadOwn(s) \/ ReadSiblings(s) \/ PickGroup(s)
            \/ \E t \in Surat : QueueSibling(s, t)
            \/ CommitEntries(s) \/ DetectFail(s)

Supervisors == \/ \E m \in Merger :
                    \/ \E g, c \in Surat : MergeBegin(m, g, c)
                    \/ \E s \in Surat : MergeDelete(m, s)
                    \/ MergeCommit(m) \/ MergeFail(m)
               \/ \E g \in Surat : KeepBoth(g)

Next == Writers \/ Checks \/ Supervisors

Spec == Init /\ [][Next]_vars

-----------------------------------------------------------------------------
\* Safety

Queued(s) == \E b \in Surat : queue[b][s].status # "none"

\* However creations overlap, no two duplicates miss each other: when both checks
\* have ended well, both surat are in the queue.  (The check runs after the
\* commit of its surat, so that of the surat committed last sees the others.)
DetectedPairsQueued ==
  \A s, t \in Surat :
    /\ s # t /\ Live(s) /\ Live(t) /\ surat[s].key = surat[t].key
    /\ {s, t} \cap hand = {}
    /\ detect[s].pc = "done" /\ detect[t].pc = "done"
    => Queued(s) /\ Queued(t)

\* A decision stands: an entry that was merged or kept is not touched again by
\* the other supervisor or by a later duplicate.
ResolvedOnce ==
  [][\A b, s \in Surat : queue[b][s].status \in {"merged", "kept_both"} =>
                           queue'[b][s] = queue[b][s]]_vars

\* A surat is pending in at most one group, as long as the transactions on the
\* queue do not overlap and nothing is edited or deleted between them.
OneGroupIfSerial == ~mixed /\ hand = {} => \A s \in Surat : Cardinality(PendingIn(s)) <= 1

\* Without overlap a group gets one verdict: it is merged or kept as a whole, and
\* of a merged group nothing is left but the canonical surat.
OneVerdictIfSerial ==
  ~mixed =>
    \A b, s, e, t \in Surat :
      /\ queue[b][s].status # "none" /\ queue[e][t].status # "none"
      /\ queue[b][s].group = queue[e][t].group
      => /\ queue[b][s].status = queue[e][t].status
         /\ queue[b][s].status = "merged" =>
              \/ s = canon[queue[b][s].group]
              \/ ~Live(s) \/ s \in hand

\* Entries of a group carry one key, while nothing is edited by hand.
GroupKeysIfUnedited ==
  hand = {} => \A b, s, e, t \in Surat :
                 /\ queue[b][s].status # "none" /\ queue[e][t].status # "none"
                 /\ queue[b][s].group = queue[e][t].group
                 => queue[b][s].key = queue[e][t].key

-----------------------------------------------------------------------------
\* The inductive invariant

In(b, s)      == queue[b][s].status # "none"
Pending(b, s) == queue[b][s].status = "pending"

\* A check inserts its entries once, at its end: one for its own surat among them,
\* all with one group and one key.  A group's name is that of a finished check.
CheckInv ==
  /\ \A s \in Surat :
       /\ surat[s].st = "none" => detect[s].pc = "none"
       /\ \A t \in detect[s].sibs \cup detect[s].adds : surat[t].st # "none"
       /\ s \notin detect[s].sibs
       /\ detect[s].pc \in {"none", "own", "siblings"} => detect[s].sibs \cup detect[s].adds = {}
       /\ detect[s].pc = "entries" => s \in detect[s].adds /\ detect[s].group \in Surat
       /\ detect[s].pc = "entries" /\ detect[s].group # s => detect[detect[s].group].pc = "done"
  /\ \A b, s \in Surat : In(b, s) =>
       /\ detect[b].pc = "done" /\ surat[s].st # "none"
       /\ queue[b][s].group \in Surat /\ detect[queue[b][s].group].pc = "done"
       /\ In(b, b) /\ queue[b][b].group = queue[b][s].group /\ queue[b][b].key = queue[b][s].key

\* What is not edited by hand has the key under which it was queued.
KeyInv ==
  /\ \A s \in Surat : detect[s].pc \in {"siblings", "group", "entries"} =>
       /\ s \notin hand => detect[s].key = surat[s].key
       /\ \A t \in (detect[s].sibs \cup detect[s].adds) \ hand : detect[s].key = surat[t].key
       /\ detect[s].pc = "entries" /\ hand = {} => detect[s].key = surat[detect[s].group].key
  /\ \A b, s \in Surat : In(b, s) =>
       /\ s \notin hand => queue[b][s].key = surat[s].key
       /\ hand = {} => queue[b][s].key = surat[queue[b][s].group].key

\* A merge in progress has a group, and goes through surat that exist.
MergeInv ==
  \A m \in Merger :
    /\ merge[m].open => merge[m].group \in Surat /\ merge[m].canon \in Surat
    /\ ~merge[m].open => merge[m].todo = {}
    /\ \A s \in merge[m].todo \cup merge[m].held : surat[s].st # "none"

Read == {"group", "entries", "done"}

\* The check of s has t in view, or both are queued already.
Sees(s, t) ==
  \/ detect[s].pc = "group" /\ t \in detect[s].sibs
  \/ detect[s].pc = "entries" /\ (t \in detect[s].sibs \cup detect[s].adds \/ Queued(t))
  \/ detect[s].pc = "done" /\ Queued(s) /\ Queued(t)

\* Of two duplicates, the one that looked last has seen the other.
CoverInv ==
  \A s, t \in Surat :
    /\ s # t /\ Live(s) /\ Live(t) /\ surat[s].key = surat[t].key
    /\ {s, t} \cap hand = {}
    /\ detect[s].pc \in Read /\ detect[t].pc \in Read
    => Sees(s, t) \/ Sees(t, s)

\* Without overlap one transaction at a time works on the queue; a check adds to
\* groups that are pending as a whole, and a merge goes through all of its group.
SerialInv ==
  ~mixed =>
    /\ \A s, t \in Detecting : s = t
    /\ \A m, n \in Merges : m = n
    /\ Detecting = {} \/ Merges = {}
    /\ \A s, b, t \in Surat : detect[s].pc = "entries" /\ In(b, t)
                               /\ queue[b][t].group = detect[s].group => Pending(b, t)
    /\ \A m \in Merges :
         /\ merge[m].canon \in Members(merge[m].group)
         /\ merge[m].todo \cup merge[m].held \subseteq Members(merge[m].group)
         /\ \A s \in Members(merge[m].group) :
              s = merge[m].canon \/ s \in merge[m].todo \cup merge[m].held \cup hand \/ ~Live(s)

\* ... and if moreover nothing is done by hand, a key has one pending group, whose
\* members are live; a check in progress knows of it.
OneGroupInv ==
  ~mixed /\ hand = {} =>
    /\ \A b, s, e, t \in Surat : Pending(b, s) /\ Pending(e, t)
                                  /\ queue[b][s].key = queue[e][t].key
                                  => queue[b][s].group = queue[e][t].group
    /\ \A b, s \in Surat : Pending(b, s) => Live(s)
    /\ \A s \in Detecting : \A t \in detect[s].sibs \cup detect[s].adds \cup {s} : Live(t)
    /\ \A s, b, t \in Surat :
         /\ detect[s].pc = "group" /\ Pending(b, t) /\ queue[b][t].key = detect[s].key
              => t \in detect[s].sibs \cup {s}
         /\ detect[s].pc = "entries" /\ Pending(b, t) /\ queue[b][t].key = detect[s].key
              => queue[b][t].group = detect[s].group

\* All of it; the runs check it, ReconciliationProofs proves it.
IInv == /\ TypeOK /\ CheckInv /\ MergeInv /\ KeyInv /\ CoverInv /\ SerialInv
        /\ OneVerdictIfSerial /\ OneGroupInv

-----------------------------------------------------------------------------
\* A statement of the repository that the code contradicts

\* 06-camat-rekonsiliasi.md:42 "Surat kanonik tetap aktif".
CanonicalStaysAlive ==
  \A g \in Surat : canon[g] # NoSurat =>
                     Live(canon[g]) \/ canon[g] \in hand

=============================================================================
