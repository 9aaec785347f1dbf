---------------------------- MODULE SnapshotSync ----------------------------
(***************************************************************************)
(* The read cache: the browser keeps the list of surat in IndexedDB and    *)
(* brings it up to date from GET /api/sync/snapshot?since=<watermark>      *)
(* (web/src/offline/sync.ts, internal/store/sync.go).                      *)
(*                                                                         *)
(* The server answers with the rows whose updated_at is later than since,  *)
(* the identifiers of those soft-deleted later than since, and a new       *)
(* watermark: NOW(), the start of the transaction that reads them.  The    *)
(* transaction is READ COMMITTED, so every SELECT sees what is committed   *)
(* when it runs.  Writers stamp updated_at with the start of their own     *)
(* transaction, or, for an offline edit, with the client's timestamp.      *)
(***************************************************************************)
EXTENDS Integers, FiniteSets

CONSTANTS
  Device,     \* browsers, one tab each
  Surat,      \* rows of table surat
  Call,       \* calls of runSync that can be in flight
  NoDevice,   \* a call that is not in flight
  Ahead,      \* how far a client's clock may run ahead of the server's
  MaxClock,   \* bound: transactions that are begun
  MaxOps,     \* bound: offline edits that are applied
  MaxFaults   \* bound: failed calls, reloads, logouts and triggers while offline

ASSUME DeviceAssumption == NoDevice \notin Device
ASSUME BoundAssumption ==
  MaxClock \in Nat /\ Ahead \in Nat /\ MaxOps \in Nat /\ MaxFaults \in Nat

VARIABLES
  clock,    \* NOW() of the transaction that was begun last; no two are equal
  row,      \* row[s]: the committed row
  open,     \* <<s, t>>: a web transaction on row s that began at t
  opsDone,  \* offline edits applied so far
  user,     \* user[d]: role of who is logged in, "none" if nobody
  busy,     \* busy[d]: the syncing flag of the offline store
  asked,    \* asked[d]: syncTriggered of the router
  call,     \* call[c]: a call of runSync with its request
  cache,    \* cache[d][s]: version of s in IndexedDB, 0 if it is not there
  mark,     \* mark[d]: the stored watermark, 0 if there is none
  late,     \* rows last written behind a watermark already used (history)
  read,     \* the latest watermark whose rows were read (history)
  wiping,   \* devices where a resetCache that logout started has not ended
  sess,     \* sess[d]: logouts so far on d (history)
  owner,    \* owner[d]: hasReadSecret of whoever the cache was fetched for (history)
  torn,     \* devices whose cache got a delta of another cache (history)
  faults    \* failures, reloads, logouts and triggers while offline so far

vars == <<clock, row, open, opsDone, user, busy, asked, call, cache, mark, late, read,
          wiping, sess, owner, torn, faults>>

Role == {"staf", "camat"}

\* ver counts the row's committed writes; updated_at and, for a deleted row,
\* deleted_at are upd.
Row == [st : {"none", "live", "deleted"}, secret : BOOLEAN, upd : Nat, ver : Nat]

\* A call: the transaction has begun, rows are read, tombstones are read and the
\* reply is on its way; or there was no token and the answer is 401.
CallRec == [dev   : Device \cup {NoDevice},
            pc    : {"idle", "refused", "rows", "tombstones", "reply"},
            since : Nat,                   \* watermark sent, 0 for a full snapshot
            at    : Nat,                   \* watermark returned
            sees  : BOOLEAN,               \* hasReadSecret of the sender's roles
            got   : [Surat -> Nat],        \* versions returned, 0 if not returned
            gone  : SUBSET Surat,          \* surat_deleted_ids
            sess  : Nat]

IdleCall == [dev |-> NoDevice, pc |-> "idle", since |-> 0, at |-> 0, sees |-> FALSE,
             got |-> [s \in Surat |-> 0], gone |-> {}, sess |-> 0]

TypeOK ==
  /\ clock \in Nat
  /\ row \in [Surat -> Row]
  /\ open \in SUBSET (Surat \X Nat)
  /\ opsDone \in Nat
  /\ user \in [Device -> Role \cup {"none"}]
  /\ busy \in [Device -> BOOLEAN]
  /\ asked \in [Device -> BOOLEAN]
  /\ call \in [Call -> CallRec]
  /\ cache \in [Device -> [Surat -> Nat]]
  /\ mark \in [Device -> Nat]
  /\ late \in SUBSET Surat
  /\ read \in Nat
  /\ wiping \in SUBSET Device
  /\ sess \in [Device -> Nat]
  /\ owner \in [Device -> BOOLEAN]
  /\ torn \in SUBSET Device
  /\ faults \in Nat

Init ==
  /\ clock = 1
  /\ row \in [Surat -> {[st |-> "none", secret |-> FALSE, upd |-> 0, ver |-> 0],
                        [st |-> "live", secret |-> FALSE, upd |-> 1, ver |-> 1]}]
  /\ open = {}
  /\ opsDone = 0
  /\ user = [d \in Device |-> "none"]
  /\ busy = [d \in Device |-> FALSE]
  /\ asked = [d \in Device |-> FALSE]
  /\ call = [c \in Call |-> IdleCall]
  /\ cache = [d \in Device |-> [s \in Surat |-> 0]]
  /\ mark = [d \in Device |-> 0]
  /\ late = {}
  /\ read = 0
  /\ wiping = {}
  /\ sess = [d \in Device |-> 0]
  /\ owner = [d \in Device |-> FALSE]
  /\ torn = {}
  /\ faults = 0

-----------------------------------------------------------------------------
\* Helpers

\* Whoever may read secret surat sees every live row.
Visible(sees, s) == row[s].st = "live" /\ (row[s].secret => sees)

Begin == clock < MaxClock /\ clock' = clock + 1

Fault == faults < MaxFaults /\ faults' = faults + 1

\* The row is written with timestamp t, and whether that is behind a watermark.
Write(s, st, secret, t) ==
  /\ row' = [row EXCEPT ![s] = [st |-> st, secret |-> secret, upd |-> t,
                                ver |-> row[s].ver + 1]]
  /\ late' = IF t <= read THEN late \cup {s} ELSE late \ {s}

\* Nobody waits for call c any more.
Drop(c) == call' = [call EXCEPT ![c] = IdleCall]

-----------------------------------------------------------------------------
\* The writers

\* CreateSurat, UpdateSurat, SoftDeleteSurat, RestoreSurat and the merge of
\* duplicates: NOW() is fixed when the transaction begins.
WebBegin(s) ==
  /\ Begin
  /\ open' = open \cup {<<s, clock + 1>>}
  /\ UNCHANGED <<row, opsDone, user, busy, asked, call, cache, mark, late, read, wiping, sess,
                 owner, torn, faults>>

\* ... and the row changes for everybody when it commits.
WebCommit(s, t) ==
  /\ <<s, t>> \in open
  /\ \E st \in {"live", "deleted"}, secret \in BOOLEAN :
       /\ st = "deleted" => row[s].st = "live"
       /\ (st = "deleted" \/ row[s].st = "deleted") => secret = row[s].secret
       /\ Write(s, st, secret, t)
  /\ open' = open \ {<<s, t>>}
  /\ UNCHANGED <<clock, opsDone, user, busy, asked, call, cache, mark, read, wiping, sess,
                 owner, torn, faults>>

WebAbort(s, t) ==
  /\ <<s, t>> \in open
  /\ open' = open \ {<<s, t>>}
  /\ UNCHANGED <<clock, row, opsDone, user, busy, asked, call, cache, mark, late, read,
                 wiping, sess, owner, torn, faults>>

\* applySuratUpdate: updated_at becomes the time the edit was made on a client.
OpCommit(s, ts) ==
  /\ opsDone < MaxOps
  /\ row[s].st = "live" /\ row[s].upd <= ts
  /\ \E secret \in BOOLEAN : Write(s, "live", secret, ts)
  /\ opsDone' = opsDone + 1
  /\ UNCHANGED <<clock, open, user, busy, asked, call, cache, mark, read, wiping, sess, owner,
                 torn, faults>>

-----------------------------------------------------------------------------
\* One call of runSync and its request

\* The request of somebody logged in: its snapshot's transaction begins.
Snapshot(d) == [dev |-> d, pc |-> "rows", since |-> mark[d], at |-> clock + 1,
                sees |-> user[d] = "camat", got |-> [s \in Surat |-> 0], gone |-> {},
                sess |-> sess[d]]

\* runSync reads the watermark and sends the request, with the token there is.  To
\* read it waits for a resetCache that was begun before and holds the same table.
Ask(d, c) ==
  /\ call[c].pc = "idle"
  /\ d \notin wiping
  /\ \/ /\ user[d] # "none"
        /\ Begin
        /\ call' = [call EXCEPT ![c] = Snapshot(d)]
     \/ /\ user[d] = "none"
        /\ call' = [call EXCEPT ![c] = [IdleCall EXCEPT !.dev = d, !.pc = "refused",
                                                             !.sess = sess[d]]]
        /\ UNCHANGED clock
  /\ busy' = [busy EXCEPT ![d] = TRUE]
  /\ UNCHANGED <<row, open, opsDone, user, cache, mark, late, read, wiping, sess, owner,
                 torn>>

\* Mutant of SyncStart: concurrent triggers are not kept apart.
SyncStartUnguarded(d, c) == Ask(d, c) /\ UNCHANGED <<asked, faults>>

\* sync() of the offline store: at boot, by the Sync button, or when the browser
\* is online again, which may be on the login page.
SyncStart(d, c) == ~busy[d] /\ Ask(d, c) /\ UNCHANGED <<asked, faults>>

\* The router's first protected page since the application was loaded.  Its sync
\* is dropped while another is running, and while the browser is offline.
RouterSync(d, c) ==
  /\ user[d] # "none" /\ ~asked[d]
  /\ asked' = [asked EXCEPT ![d] = TRUE]
  /\ \/ ~busy[d] /\ Ask(d, c) /\ UNCHANGED faults
     \/ /\ \/ busy[d] /\ UNCHANGED faults
           \/ ~busy[d] /\ Fault
        /\ UNCHANGED <<clock, row, open, opsDone, user, busy, call, cache, mark, late, read,
                       wiping, sess, owner, torn>>

\* WHERE updated_at > since, or everything when there is no watermark yet.
Changed(c, s) == call[c].since = 0 \/ row[s].upd > call[c].since

ReadRows(c) ==
  /\ call[c].pc = "rows"
  /\ call' = [call EXCEPT
                ![c].pc = "tombstones",
                ![c].got = [s \in Surat |->
                              IF Visible(call[c].sees, s) /\ Changed(c, s) THEN row[s].ver
                                                                           ELSE 0]]
  /\ read' = IF call[c].at > read THEN call[c].at ELSE read
  /\ UNCHANGED <<clock, row, open, opsDone, user, busy, asked, cache, mark, late, wiping,
                 sess, owner, torn, faults>>

\* Mutant of ReadTombstones: the identifiers are left out.
ReadTombstonesNone(c) ==
  /\ call[c].pc = "tombstones"
  /\ call' = [call EXCEPT ![c].pc = "reply"]
  /\ UNCHANGED <<clock, row, open, opsDone, user, busy, asked, cache, mark, late, read,
                 wiping, sess, owner, torn, faults>>

ReadTombstones(c) ==
  /\ call[c].pc = "tombstones"
  /\ call' = [call EXCEPT
                ![c].pc = "reply",
                ![c].gone = IF call[c].since = 0 THEN {}
                            ELSE {s \in Surat : row[s].st = "deleted"
                                                /\ row[s].upd > call[c].since}]
  /\ UNCHANGED <<clock, row, open, opsDone, user, busy, asked, cache, mark, late, read,
                 wiping, sess, owner, torn, faults>>

\* bulkPut, then bulkDelete.
Merged(old, got, gone) ==
  [s \in Surat |-> IF s \in gone THEN 0 ELSE IF got[s] # 0 THEN got[s] ELSE old[s]]

\* The answer continues what the cache holds: it is the delta since that watermark,
\* for the same rights.
Continues(c) ==
  LET d == call[c].dev
  IN  call[c].since = mark[d] /\ (mark[d] = 0 \/ call[c].sees = owner[d])

\* The Dexie transaction: rows, tombstones and watermark together, whoever is logged
\* in by now; nothing is compared with the watermark that is there.
Apply(c) ==
  LET d == call[c].dev
  IN  /\ call[c].pc = "reply"
      /\ cache' = [cache EXCEPT ![d] = Merged(cache[d], call[c].got, call[c].gone)]
      /\ mark' = [mark EXCEPT ![d] = call[c].at]
      /\ owner' = [owner EXCEPT ![d] = call[c].sees]
      /\ torn' = IF Continues(c) THEN torn ELSE torn \cup {d}
      /\ busy' = [busy EXCEPT ![d] = FALSE]
      /\ Drop(c)
      /\ UNCHANGED <<clock, row, open, opsDone, user, asked, late, read, wiping, sess,
                     faults>>

\* Mutant of SyncFail: the flag is not reset when the call throws.
SyncFailStaysBusy(c) ==
  /\ call[c].pc # "idle"
  /\ IF call[c].pc = "refused" THEN UNCHANGED faults ELSE Fault
  /\ Drop(c)
  /\ UNCHANGED <<clock, row, open, opsDone, user, busy, asked, cache, mark, late, read,
                 wiping, sess, owner, torn>>

\* The answer is 401, the request fails, or the Dexie transaction rolls back.
SyncFail(c) ==
  /\ call[c].pc # "idle"
  /\ IF call[c].pc = "refused" THEN UNCHANGED faults ELSE Fault
  /\ busy' = [busy EXCEPT ![call[c].dev] = FALSE]
  /\ Drop(c)
  /\ UNCHANGED <<clock, row, open, opsDone, user, asked, cache, mark, late, read, wiping,
                 sess, owner, torn>>

-----------------------------------------------------------------------------
\* People

Login(d, u) ==
  /\ user[d] = "none"
  /\ user' = [user EXCEPT ![d] = u]
  /\ UNCHANGED <<clock, row, open, opsDone, busy, asked, call, cache, mark, late, read,
                 wiping, sess, owner, torn, faults>>

\* logout drops the token and starts resetCache, which it does not wait for; then the
\* login page, where the router resets its trigger.  A call in flight goes on.
Logout(d) ==
  /\ user[d] # "none"
  /\ Fault
  /\ user' = [user EXCEPT ![d] = "none"]
  /\ wiping' = wiping \cup {d}
  /\ sess' = [sess EXCEPT ![d] = sess[d] + 1]
  /\ asked' = [asked EXCEPT ![d] = FALSE]
  /\ UNCHANGED <<clock, row, open, opsDone, busy, call, cache, mark, late, read, owner, torn>>

\* Mutant of Reset: the watermark survives the cache.
ResetKeepsMark(d) ==
  /\ d \in wiping
  /\ wiping' = wiping \ {d}
  /\ cache' = [cache EXCEPT ![d] = [s \in Surat |-> 0]]
  /\ torn' = torn \ {d}
  /\ UNCHANGED <<clock, row, open, opsDone, user, busy, asked, call, mark, late, read, sess,
                 owner, faults>>

\* The transaction of resetCache, whoever is logged in by now.
Reset(d) ==
  /\ d \in wiping
  /\ wiping' = wiping \ {d}
  /\ cache' = [cache EXCEPT ![d] = [s \in Surat |-> 0]]
  /\ mark' = [mark EXCEPT ![d] = 0]
  /\ torn' = torn \ {d}
  /\ UNCHANGED <<clock, row, open, opsDone, user, busy, asked, call, late, read, sess, owner,
                 faults>>

\* It fails: logout only logs that, and cache and watermark stay.
ResetFail(d) ==
  /\ d \in wiping
  /\ wiping' = wiping \ {d}
  /\ UNCHANGED <<clock, row, open, opsDone, user, busy, asked, call, cache, mark, late, read,
                 sess, owner, torn, faults>>

\* The application is loaded again: flags, calls and a reset that has not ended are
\* gone, IndexedDB stays.
Reload(d) ==
  /\ Fault
  /\ busy' = [busy EXCEPT ![d] = FALSE]
  /\ asked' = [asked EXCEPT ![d] = FALSE]
  /\ call' = [c \in Call |-> IF call[c].dev = d THEN IdleCall ELSE call[c]]
  /\ wiping' = wiping \ {d}
  /\ UNCHANGED <<clock, row, open, opsDone, user, cache, mark, late, read, sess, owner, torn>>

-----------------------------------------------------------------------------
Writers == \E s \in Surat :
             \/ WebBegin(s)
             \/ \E t \in 1..clock : WebCommit(s, t) \/ WebAbort(s, t)
             \/ \E ts \in 1..(clock + Ahead) : OpCommit(s, ts)

Syncs == \/ \E d \in Device, c \in Call : SyncStart(d, c) \/ RouterSync(d, c)
         \/ \E c \in Call : ReadRows(c) \/ ReadTombstones(c) \/ Apply(c) \/ SyncFail(c)

Logins == \E d \in Device : \/ Logout(d) \/ Reset(d) \/ ResetFail(d) \/ Reload(d)
                            \/ \E u \in Role : Login(d, u)

Next == Writers \/ Syncs \/ Logins

Spec == Init /\ [][Next]_vars

\* The router runs its guard on the first protected page, a request that was sent
\* is answered, and callbacks run.  Nothing is assumed of writers, people and
\* failures, and nothing of the button: the application has no periodic snapshot.
Fairness ==
  /\ \A d \in Device : WF_vars(\E c \in Call : RouterSync(d, c))
  /\ \A c \in Call : /\ WF_vars(ReadRows(c))
                     /\ WF_vars(ReadTombstones(c))
                     /\ WF_vars(Apply(c))
                     /\ WF_vars(call[c].pc = "refused" /\ SyncFail(c))

FairSpec == Spec /\ Fairness

-----------------------------------------------------------------------------
\* Safety

\* What whoever is logged in on d may read.
Sees(d) == user[d] = "camat"

\* What a cache for these rights should show of row s.
View(sees, s) == IF Visible(sees, s) THEN row[s].ver ELSE 0

\* The next snapshot that continues d's watermark returns s or its tombstone.
NextBrings(d, sees, s) ==
  \/ mark[d] = 0 /\ Visible(sees, s)
  \/ /\ mark[d] # 0 /\ row[s].upd > mark[d]
     /\ row[s].st = "deleted" \/ Visible(sees, s)

\* A secret row is not returned to those who may not read it, nor its tombstone.
Withheld(sees, s) == row[s].st = "live" /\ ~Visible(sees, s)

\* The cache on d was fetched for others, with rights that whoever is logged in
\* does not have, or fewer: a logout's reset has not run, or an answer came after it.
Foreign(d) == mark[d] # 0 /\ owner[d] # Sees(d)

\* A cache that differs from the server will be put right by the next snapshot,
\* also when a logout did not clear it.  The only exceptions: rows that were last
\* written with a timestamp behind a watermark already used, rows that became
\* secret, a cache fetched for other rights, and one that got the delta of another.
LostOnlyWhenLate ==
  \A d \in Device, s \in Surat :
    user[d] # "none" /\ cache[d][s] # View(Sees(d), s) =>
      NextBrings(d, Sees(d), s) \/ s \in late \/ Withheld(Sees(d), s) \/ Foreign(d) \/ d \in torn

\* Snapshots never bring back older content: until it is cleared, what a device shows
\* of a row gets newer or goes away, also when a call of an earlier login fills it.
NoOlderContent ==
  [][\A d \in Device, s \in Surat : cache'[d][s] # 0 => cache'[d][s] >= cache[d][s]]_vars

\* The watermark goes back only when a logout's reset clears the cache with it.
MarkMovesForward ==
  [][\A d \in Device : mark'[d] < mark[d] =>
       d \in wiping /\ mark'[d] = 0 /\ \A s \in Surat : cache'[d][s] = 0]_vars

\* A trigger of a sync is only dropped for a while: a running sync comes to an end.
SyncEnds == \A d \in Device : busy[d] ~> ~busy[d]

-----------------------------------------------------------------------------
\* The inductive invariant

\* A row that was never written has no timestamp; others have one.
RowInv ==
  /\ \A s \in Surat : /\ row[s].st = "none" => row[s].upd = 0 /\ row[s].ver = 0 /\ s \notin late
                      /\ row[s].st # "none" => row[s].upd > 0 /\ row[s].ver > 0
  /\ \A w \in open : w[2] > 0

\* A device has at most one call; what was begun is not in the future.
CallInv ==
  /\ clock > 0
  /\ \A c \in Call : call[c].pc # "idle" => call[c].dev \in Device /\ busy[call[c].dev]
  /\ \A c, e \in Call : call[c].pc # "idle" /\ call[e].pc # "idle" /\ call[c].dev = call[e].dev
                         => c = e
  /\ \A c \in Call : call[c].pc \in {"rows", "tombstones", "reply"} =>
                       call[c].at \in 1..clock /\ call[c].sess <= sess[call[c].dev]
  /\ \A c \in Call : call[c].pc = "rows" => call[c].gone = {}

\* Watermarks: a call in flight carries a later one than its device holds; used
\* ones are accounted for in read.
MarkInv ==
  /\ \A d \in Device : mark[d] <= read
  /\ read <= clock
  /\ \A c \in Call : /\ call[c].pc \in {"rows", "tombstones", "reply"} =>
                          call[c].at > mark[call[c].dev]
                     /\ call[c].pc \in {"tombstones", "reply"} => call[c].at <= read

\* A call of the present login asks for its user and continues the watermark: no reset
\* can come between, since it waited for the one of the last logout.
LoginInv ==
  \A c \in Call :
    call[c].pc \in {"rows", "tombstones", "reply"} /\ call[c].sess = sess[call[c].dev] =>
      /\ user[call[c].dev] # "none" /\ call[c].dev \notin wiping
      /\ call[c].sees = Sees(call[c].dev)
      /\ call[c].since = mark[call[c].dev]

\* Without a watermark the cache is empty.
EmptyInv == \A d \in Device : mark[d] = 0 => \A s \in Surat : cache[d][s] = 0

\* With one it is what it should be for those it was fetched for, or their next
\* snapshot brings what it lacks, but for the exceptions.
CacheInv ==
  \A d \in Device, s \in Surat :
    d \notin torn /\ mark[d] # 0 /\ cache[d][s] # View(owner[d], s) =>
      NextBrings(d, owner[d], s) \/ s \in late \/ Withheld(owner[d], s)

\* Versions: a cache is not ahead of the row, nor of what it is about to receive.
VersionInv ==
  /\ \A d \in Device, s \in Surat : cache[d][s] <= row[s].ver
  /\ \A c \in Call, s \in Surat :
       call[c].pc \in {"tombstones", "reply"} /\ call[c].got[s] # 0 =>
         call[c].got[s] \in cache[call[c].dev][s]..row[s].ver

\* The row was not written since c read it, as far as timestamps can tell.
Same(c, s) == s \notin late /\ row[s].upd <= call[c].at

\* What a call has read of a row that is still the same.
SeenInv ==
  \A c \in Call, s \in Surat :
    /\ call[c].pc \in {"tombstones", "reply"} /\ Same(c, s) =>
         /\ Visible(call[c].sees, s) =>
              call[c].got[s] = (IF Changed(c, s) THEN row[s].ver ELSE 0) /\ s \notin call[c].gone
         /\ row[s].st # "live" => call[c].got[s] = 0
    /\ call[c].pc = "reply" /\ Same(c, s) /\ row[s].st = "deleted" =>
         s \in call[c].gone \/ call[c].since = 0 \/ row[s].upd <= call[c].since

\* All of it; the runs check it as an invariant.
IInv == /\ TypeOK /\ RowInv /\ CallInv /\ MarkInv /\ LoginInv /\ EmptyInv /\ CacheInv
        /\ VersionInv /\ SeenInv

=============================================================================
