# Verification of aplikasi-surat-kecamatan

TLA+ models of the letter archive of a kecamatan office: a Go server over
PostgreSQL (`src/internal`, `src/cmd`, `src/db`) and a Vue single-page
application that works offline (`src/web`). The models are about what happens
when people, browsers, requests and transactions overlap or fail; the models
are translated from the code, and the documentation is quoted only where the
code contradicts it.

## 1. The system

| Component | State it keeps | Operations | Interacts with |
|---|---|---|---|
| Offline queue, `web/src/offline/opqueue.ts`, `db.ts` | Dexie table `ops`: one row per edit (`synced_at`, `error`, `retry_count`, `next_retry_at`, `client_timestamp`) | `enqueue`, `tryApplyOne`, `drainQueue`, `startDrainer` | `POST /api/sync/operations`; called by the form, a 30 s interval, the Sync button and the badge |
| Operation log, `internal/server/oplog.go`, `internal/store/oplog.go` | tables `operation_log`, `surat` | `ApplyOperations`, `applyOneOp`, `applySuratUpdate` | the rows that the web form writes too |
| Snapshot sync, `web/src/offline/sync.ts`, `internal/store/sync.go` | cached tables and the `watermark` in IndexedDB | `runSync`, `resetCache`, `GetSyncSnapshot` | reads every table that other components write |
| Reconciliation, `internal/store/reconciliation.go` | `reconciliation_queue` | detect on create, list, merge, keep both | soft-deletes surat |
| Surat write path, `internal/*/surat_write.go` | `surat`, `audit_log`, search index | create, update, delete, restore | calls reconciliation and the index after its commit |
| Surat queries and index, `internal/*/surat.go`, `fts.go` | `search_doc` | keyset list, detail, search, rebuild | rebuilt by the write path and by attachments; the detail reads references and tembusan |
| Attachments, `internal/*/attachment.go` | `surat_attachments` (a chain by `replaced_by`), files on disk | upload, replace, serve, versions | |
| Disposisi, komentar, notifications, `internal/*/disposisi.go`, `komentar.go`, `notification.go`, `web/src/components/NotificationBell.vue` | `disposisi`, `komentar`, `notifications`; what a card and a bell show | create, change status, append, notify, list, mark read | create and append notify after their own commit; the bell polls |
| References, tembusan, direktori, `internal/*/reference.go`, `tembusan.go`, `direktori.go` | links between surat, ordered copies, instansi | add, delete, thread; create and search instansi | shown with their surat, survive its deletion |
| Authentication | JWT in `localStorage`, roles in the token | login, logout, refresh, middleware | every request |
| Teaching structures, `internal/datastruct`, `internal/uuid7` | pure data structures | | not called by the server, except the identifiers |
| Statistics, dashboard, configuration | none of their own | read | |

**What is hard here.** Nothing in the browser excludes one drain from another,
so several requests carry the same edit; a response can be lost after the
server applied it; a tab can close between any two awaits. On the server every
operation of a batch is a transaction of its own at READ COMMITTED, the
idempotency check takes no lock, and other handlers write the same rows with
`NOW()`, which is the start of their transaction. Snapshots use that same
`NOW()` as a watermark. Detection of duplicates, index refresh and
notifications run after the commit they belong to. `PROJECT.json` lists every
such hazard at its line with the property that is about it.

**What makes each component correct.** Queue and log: an edit takes effect
once, is not lost, never replaces something newer, is acknowledged only when it
took effect, and is answered in the end. Snapshot sync: after a sync with a
quiet server the cache equals what the user may see. Reconciliation: a
duplicate is in one pending group, a merge keeps exactly one copy alive.
Write path: every committed change has an audit record with the right images, and
the records read as a history.
Attachments: one active tail per chain, every row has its file. Disposisi and
komentar: everyone concerned hears once, finished work is not reopened by
accident (the code keeps this only for clicks that no other change has overtaken),
and the bell ends up showing what there is. References and tembusan:
the thread loses no linked surat, and additions keep their order.

## 2. Plan

| Order | Module | Status |
|---|---|---|
| 1 | `OpSync`, abstract `ExactlyOnce`, proofs `OpSyncProofs` | done |
| 2 | `SnapshotSync`: writers, watermark, tombstones, cache, logout; proofs `SnapshotSyncProofs` | done |
| 3 | `Reconciliation`: concurrent checks, merges, keep both; proofs `ReconciliationProofs` | done |
| 4 | `Attachments`: upload, replace, version chain, files, search index; proofs `AttachmentsProofs` | done |
| 5 | `SuratStore`: create, update, delete, restore, audit images, unique numbers; proofs `SuratStoreProofs` | done |
| 6 | `Disposisi`, `DisposisiCard`, `NotificationBell`, with what they promise each other in `Announcements`; proofs `DisposisiProofs`, `NotificationBellProofs` | done |
| 7 | `Relations`: references between surat, their thread, ordered tembusan; proofs `RelationsProofs` | done |

Not planned any more: a module of sessions (tokens are checked by a library
against a clock, and no page calls `refresh` of the auth store, so nothing races
with it); a composition of `OpSync` with `SnapshotSync` (they meet in the rows
only, and `OpCommit` of `SnapshotSync` already is any accepted offline edit); the
teaching structures (section 7). Every invariant and every action property that a
run checks is proved; what remains for TLC is liveness (section 5).

## 3. The modules

### OpSync

State and code:

| TLA+ | Code |
|---|---|
| `ops[o]` | the Dexie row of operation `o`: `st` is `synced_at`, `ts` is `client_timestamp`, `err` says what `error` was set by, `due` says whether `next_retry_at` is unset or past |
| `submit` | calls of `enqueue` between `db.ops.add` and `tryApplyOne` |
| `req[r]` | one request, both ends: `cl` where the browser is (waiting, working through the results, in the catch block), `sv` where `applyOneOp` is for the current operation, `res` the results so far, `by` is `claims.Sub` |
| `surat[s]` | `is_deleted`, `updated_at` and whose content the row shows |
| `oplog[o]` | the `user_id` in `operation_log`, or `NoUser` |
| `put[s]` | the `NOW()` of an open transaction of `UpdateSurat`, `SoftDeleteSurat` or `RestoreSurat` |
| `effects[o]` | history: how often the changes were committed |

Each statement that other transactions can interleave with is an action:
`Check` (the idempotency query), `Lock` (`SELECT ... FOR UPDATE` with the
deleted and stale tests), `Commit` (insert into `operation_log`, commit). A
transaction that is past `Lock` holds the row, and no other passes `Lock` or
`WebWrite` for that row until it ends; the UPDATE itself becomes visible with
the commit and is part of it. `DbError` is any statement failing,
`CommitUnknown` a commit that took effect although `tx.Commit` returned an
error, `Abort` a request that never arrives, a cancelled context or a stopped
server. In the browser every await that other callbacks can run in is a step:
`Enqueue`, `SubmitNow`/`SubmitLater`, `Drain`, one `Settle` or `Backoff` per
row. `Reload` ends every pending continuation of a tab.

Abstractions: `backoffDelay` and `retry_count` only decide when an operation is
due again, so `RetryDue` may happen at any later time; `navigator.onLine` is a
free choice between sending now and later; the filter and the post of a drain
are one step (a batch that is posted later is a request whose `Check` runs
later); 401 is the answer when nobody is logged in; field names and values are
left out, so a refusal for its content is `DbError`. Bounds: `MaxBatch` stands
for 50, `MaxClock`, `MaxFaults` and `MaxWeb` cap time, failures (with reloads
and logouts) and web transactions, `Request` caps the requests in flight.

### ExactlyOnce

The promise of the write path without its machinery: an edit is made, applied
to its row, acknowledged, in that order and once; web writes replace rows. An
operation's abstract status is computed from its Dexie row and the log, a row's
abstract writer is its content's writer. `ExactlyOnceEdits` (`Abs!Spec`) is a
property of the run `OpSyncFaults` and a theorem.

### SnapshotSync

| TLA+ | Code |
|---|---|
| `clock` | `NOW()` of the transaction begun last; transactions begin at distinct times |
| `row[s]` | a row of `surat`: `is_deleted`, whether its sifat is secret, `updated_at` (for a deleted row `deleted_at`, which the same statement sets), and a count of its committed contents |
| `open` | web transactions (create, update, delete, restore, merge) between begin and commit |
| `call[c]` | one `runSync` with its request: which query of `GetSyncSnapshot` is next, the `since` it sent, the watermark `at` it will return, the rows `got` and the `surat_deleted_ids` `gone` |
| `cache[d]`, `mark[d]` | IndexedDB: table `surat` by version, and `meta.watermark` |
| `busy[d]`, `asked[d]` | `syncing` of the offline store, `syncTriggered` of the router |
| `wiping` | devices where the `resetCache` that a logout started has not ended |
| `late`, `read`, `torn`, `owner`, `sess` | history: rows last written with a timestamp behind a used watermark; caches that got the delta of another cache; the rights a cache was fetched for; logouts so far |

`WebBegin`/`WebCommit`/`WebAbort` are the handlers that stamp the start of
their transaction, `OpCommit` is `applySuratUpdate`, which stamps the client's
time. `Ask` reads the watermark and sends; `ReadRows` and `ReadTombstones` are
two statements at READ COMMITTED, so writers run between them; `Apply` is the
one Dexie transaction; `SyncFail` any error, after which `finally` releases the
flag. `Logout` drops the token and, on the login page, the router's trigger; it
starts `resetCache` and waits for nothing, so that a call in flight goes on and the
next user may log in before `Reset`, the transaction that clears cache and watermark
together. `ResetFail` leaves both (the error is only logged), and so does a `Reload`
that cuts it. A sync that is asked for meanwhile reads the watermark after the reset,
since IndexedDB runs transactions on one store in the order of their creation (the
guard of `Ask`). Abstractions: the other three tables of
a snapshot are left out, since instansi only gets new rows
(`store/direktori.go`), which come as a surat's creation does, and klasifikasi
and sifat have no writer; reading the watermark, sending and the
begin of the server's transaction are one step; a call without a token is
answered 401 and is `refused`; the trigger that finds the browser offline is
counted as a fault.

### Reconciliation

| TLA+ | Code |
|---|---|
| `surat[s]` | is the incoming surat live, and its key `(instansi_id, nomor_surat, tanggal_terima)` |
| `detect[s]` | `CreateReconciliationGroupIfDuplicate` in the request that created `s`: the next statement, `siblingIDs`, `groupID`, rows inserted and not yet committed |
| `queue[b][s]` | the `reconciliation_queue` row for `s` that the check of `b` inserted; a group is named by the surat whose check created it |
| `merge[m]` | one `MergeReconciliationGroup`: losers to visit, losers deleted and not yet committed (their rows are locked) |
| `canon`, `hand`, `mixed` | history: the canonical surat of a group's last merge; surat touched by people; whether transactions on the queue overlapped |

Every statement that another transaction can interleave with is an action;
`CommitEntries` and `MergeCommit` make a transaction's rows visible. The merge's
failure and the check's failure roll back, and no retry exists. Roles and the
list and detail views are left out: they change nothing.

### Attachments

| TLA+ | Code |
|---|---|
| `att[a]` | a row of `surat_attachments`: `is_active`, `surat_id`, `replaced_by` (`next`); `of` is a history variable: what the upload replaced |
| `files` | the storage directory; a file has the identifier of its row |
| `doc[s]` | which text and which attachments `search_doc` was made from, and (`skipped`, history) which the refresh passed over with nothing but a line in the log |
| `req[r]` | a request: storing a part, in `AddAttachment` or `ReplaceAttachment`, or in `rebuildSearchDoc` |
| `unsure`, `stray`, `behind` | history: rows whose commit was answered with an error; files whose request died or gave up without removing them; surat whose last change no undisturbed refresh has taken up |

`SwapRows` is insert, update and commit of `ReplaceAttachment` while the old row
is locked since `LockOld`; the active version was looked up before the file was
stored (`ReplaceBegin`), and only `LockOld` looks again. `CommitUnknown` is a
commit that took effect with its answer lost: the handler then removes the file
the row names. `LeaveFile` is the upload that gets no identifier for its row and
returns without `os.Remove`, and an `os.Remove` that fails. A refresh takes the text
of an attachment (`Extract`), passes over one whose path cannot be looked up or whose
text cannot be extracted (`Skip`), and breaks off at a megabyte (`Cut`); in all cases
it then writes `search_doc` and reports success. `ListAttachmentVersions` is the operator `Versions`, the two
recursive queries with their depth limit. Abstractions: storing a part is one
step; all attachments are PDFs (others are skipped by the extraction); `role` is
copied along a chain and left out; `Depth` stands for 100.

### SuratStore

| TLA+ | Code |
|---|---|
| `surat[s]` | the committed row: missing, live or deleted, its `nomor_surat`, and `ver`, the transaction that wrote it, for all columns without an index |
| `log[s]` | the rows of `audit_log` about `s`: a set, since their only order is `created_at` (`at`), which is `NOW()`, the begin of the transaction; action, before-image, after-image; `late`, `stale` and `silent` are history: another transaction on the surat committed between the begin and the before-image, or between the before-image and the lock; the surat had been changed without an entry |
| `tx[t]` | a transaction: before its snapshot query, its statement waiting for the row (`lock`), for the unique index (`index`), before its commit |
| `silent` | history: surat whose last change has no entry |

`ReadBefore` is `fetchSuratSnapshot` or, for a restore, the variant that includes
deleted rows; `LockRow` the statement's WHERE on the row as it is once the lock is
free; `EnterIndex` the partial unique index on the numbers of live outgoing
surat, which makes a writer wait for whoever may still free or take its number;
`Commit` makes row and entry visible together. Transactions begin at distinct times
(`begun`); that two `NOW()` are the same microsecond, and the log then has no order at
all between their entries, is left out. A transaction that began earlier and commits later has the earlier
`created_at` all the same, so reading the log by `created_at` (its index, and the
only column that could order it) shows it first. `LogReadsOn` and `LastEntryIsTrue`
say what that reading is worth: the history, next after next, except around entries
that were overtaken this way. Two writers keep no audit: an
accepted offline edit (`applySuratUpdate`) and the deletion of a loser in a merge.
`Rollback` is every failure: an error, a closed connection, a crash, a deadlock
found by PostgreSQL. Abstractions: roles and field validation decide only whether
a request begins; the duplicate check and the index refresh after the commit are
in `Reconciliation` and `Attachments`.

### Disposisi, DisposisiCard, NotificationBell and Announcements

| TLA+ | Code |
|---|---|
| `row[e]` | a committed row of `disposisi` or `komentar` with its surat, author and assignee; `before` and `cut` are history: the disposisi a komentar found, and that its notifications were cut short |
| `order` | `created_at`: rows by the begin of their transaction |
| `inbox[u]` | rows of `notifications` of `u`, by the row they announce |
| `req[r]` | a create or append request: verifying, inserting, looking up participants, notifying whom (`todo`) |
| `work[e]`, `card[u]` | `status` and `completed_at`; the statuses that the cards of `u` display; `ver` is history: changes of the status, and how many of them a display has seen |
| `sent` | clicks between `updateDisposisiStatus` of the page and the UPDATE of the server |
| `read[u]`, `bell[u]`, `fetch[u][f]` | positions of the inbox with `read_at`; list and badge of a bell; a `fetch()` between its two statements and its answer |

`Disposisi` is the server: the handler's access check (`BeginDisposisi`,
`BeginKomentar`), the transaction's own (`Verify`), the row (`Insert`),
`ListDisposisi` with its limit for a komentar (`ListParticipants`), and one INSERT
per notification, each of which may fail alone. `DisposisiCard` adds the card of
`SuratDetailView.vue`: `Press` is a click up to its await, after which the buttons
stay enabled; `UpdateStatus` is the handler that finds the sender entitled and sets
the status, whatever it was; `FetchDisposisi` renews the cards. Between the two,
others click, and so does the same user. `Announcements` is the contract between the server and the pages: rows are made
once, and each of the others hears of a row at most once and never before it is
made. `Disposisi` implements it (`Promised`), and `NotificationBell` takes nothing
else for granted: it EXTENDS the contract and adds the bell's fetches and marks. So
a chain of three properties reaches from a commit to the screen: `Notified` (it is
in the inbox), `Promised` (inboxes behave as the contract says), `Reaches` (the
bell displays it).

Abstractions: the text of instructions and comments, due dates and the target of
a notification are left out; a request for a list that takes long is a list put on display at once and
not renewed, and an older list that overtakes a newer one is one not renewed either:
the cards are then outdated, and their clicks count as overtaken; a click whose
request fails is one that is never served; the handler's read of the disposisi is
part of its UPDATE, since the parties that it compares never change; the
payload of a mark is a position; the list of one's own disposisi and the picker of
assignees only read. `Limit` and `BellLimit` stand for 50.

### Relations

| TLA+ | Code |
|---|---|
| `live` | surat that are not deleted |
| `ref[e]`, `cc[c]` | rows of `surat_references` and `surat_tembusan`; `after` is history: what was listed when the addition began |
| `req[r]` | an addition: which statement is next, and the `urutan` it has read; `lived` is history: surat live at some moment since it began |

Each statement of `AddReference` and `AddTembusan` is an action, the surat may go
and come between them, and nothing is locked. The lists of `GetSuratByID` are
`Predecessors`, `Successors` and `ListedBefore`; `Thread` is the recursive query of
`GetSuratThread`: all walks without a repeated surat, cut at `Depth` (50 in the
code), with secret surat left out of the answer but not of the walks.
Abstractions: the several statements of a page are one read; the relation's kind
and the note of a reference, and the recipient of a tembusan, are left out.

## 4. What is checked

| Run | Question | Instance | Distinct states |
|---|---|---|---|
| `OpSyncRaces` | once-only application, no stale overwrite and who takes a row back in time, newest wins, the inductive invariant | 2 devices (one clock ahead), 2 edits of one row, 2 requests, 1 web transaction | 116 000 |
| `OpSyncFaults` | refinement of `ExactlyOnce`, nothing marked synced too early | 1 device, 2 edits, 2 requests, batches of 2, 1 failure of any kind | 536 000 |
| `OpSyncLive` | every edit is answered in the end, an applied edit leaves the queue, also when two requests race for its `client_op_id` | 1 edit, 2 requests, 2 failures, 1 web transaction | 165 000 |
| `Snapshot` | what a cache lacks is brought by the next delta, but for the exceptions that `LostOnlyWhenLate` names; content never goes back; the flag that keeps other syncs out is released; the inductive invariant | 1 device, 1 surat, 2 calls, 4 transactions, 1 offline edit, clock ahead by 1, 1 fault | 384 000 |
| `ReconSerial` | one group per surat and one verdict per group without overlap, one key per group | 3 surat, 2 keys, 1 merge at a time | 174 000 |
| `ReconRaces` | duplicates do not miss each other, decisions stand, the inductive invariant | 2 surat, 2 keys, 2 merges, 2 actions by hand | 54 000 |
| `Attachments` | version chains, the list of versions, files against rows, search index; the inductive invariant | 1 surat, 3 attachments, 2 requests, depth 1, 2 edits, 1 failure | 575 000 |
| `SuratStore` | unique numbers of live outgoing surat, the audit log by `created_at` as a history, its last entry against the row | 2 outgoing surat, 2 numbers, 2 transactions at a time, 4 in all | 87 000 |
| `Disposisi` | everyone concerned is notified, refinement of `Announcements`, a status leaves the lifecycle only by an overtaken click | 1 secret surat, 2 users, one of them deactivated since his login, 2 rows, 2 requests, list of 1, 2 edits or clicks, 1 failure | 415 000 |
| `NotificationBell` | a notification reaches the bell, and bell and badge settle on what there is; the inductive invariant | 2 users, 1 bell, 2 rows, 2 fetches, list of 1, 2 marks, 1 failed fetch | 253 000 |
| `Relations` | the thread is the neighbourhood, tembusan stay in order, the ends of a link were live | 4 surat, 1 secret, 3 references, 3 tembusan, 2 requests, depth 2, 3 edits | 38 000 |
| `ReconCanonical` | a statement of the manual that the code contradicts (section 6) | 2 surat, 2 merges | |

The invariants that the proofs rest on (`IInv`, `CardIInv`) are checked by a run
as well: TLC agreed with each before it was proved.

**Bounds.** Queue and log: each race of this code is between two requests for
one row, or between a request and one web transaction; a batch of two already
mixes results; one failure of each kind at every point covers the retry path,
because the state after the retry is one the run has already seen. For liveness one
edit is enough, since operations meet only in the batch limit, which the property
leaves aside; its two requests both pass the idempotency check and race for the
`client_op_id`, and two failures let the loser's answer be lost as well. Snapshots:
rows do not influence each other and neither do devices, so one of each is
enough; two calls overlap across a reload or a logout; four transactions allow
two writers around two snapshots. Reconciliation: three surat make two groups
possible when two checks run side by side; the pairwise properties need two.
Attachments: a chain of three is longer than the depth limit of one, so cut lists are reached;
two requests make every race of replacing, adding, refreshing and editing.
SuratStore: every rule is about one row and one other transaction, or about two
rows that want one number; four transactions (`MaxTx`) let a number be freed, taken
and wanted back by a restore, and five were checked once without a difference.
Disposisi: two rows make every race of two requests and of a komentar with the
disposisi it looks up, the surat comes and goes, and a user who was deactivated after
his login goes on acting (`is_active` is looked at only there, server.go:149) and is
refused as an assignee; two clicks are enough to overtake one another;
that the list's limit hides an older disposisi takes three rows, which
one request, or two without failures, were run with once (70 000 and 358 000
states), and the proof holds for every limit. NotificationBell: two fetches are enough to arrive in the
wrong order and more notifications than `BellLimit` arrive. Relations: four surat
and three references make a path longer than `Depth`, a cycle, and a secret surat in the
middle; `Explicit` is one number that a caller chose himself, past the next free
one. `MaxEdits`, `MaxFaults`, `MaxClicks` and `MaxErrors` cap what people and
failures do. What
the bounds leave open is closed by the proofs, for all properties but the
liveness properties (section 5).

`CHECK_DEADLOCK FALSE` is set in every run: when the bounded clock, failures,
edits and identifiers are used up and all requests are over, the bounded system
stops. Symmetry is used in safety runs only, over requests, calls, merges,
surat, keys and operations that `Init` and `Next` treat alike.

**Fairness of `OpSync`** (`FairSpec`): the drainer is an interval that never
ends, so a drain that is possible again and again happens (strong fairness,
because a slot of `Request`, a limit the browser does not have, may be taken in
between); callbacks run, a response that was written and not lost arrives,
goroutines run, and PostgreSQL hands a row lock to its waiters in turn (strong
fairness of `Lock`). Nothing is assumed of people, the clock, web writers or
failures; `SubmitNow` has no fairness since the tab may be offline.
`EventuallyAnswered` holds while no more operations are pending than fit in one
batch; section 6 says what happens beyond.

**Fairness of `SnapshotSync`**: the router's guard runs on the first protected
page, queries and callbacks of a call in flight run. A call may also fail, and a
reload ends it; both release the flag. There is no periodic snapshot in the
code, so no property says that a cache becomes current.

**Fairness of `NotificationBell`**: the interval of a bell goes on as long as its
page is open, so a fetch that is not under way is begun again; its two statements
and its answer come in the end, or the fetch fails, which happens `MaxErrors`
times at most. Nobody has to click, and nothing has to happen on the server.

## 5. What is proved

`OpSyncProofs` proves for all sets of devices, users, rows, operations and
requests, all clock skews and all bounds, from the assumptions named in
`OpSync` only (finitely many operations; an operation has one device and one
row):

- `Invariance`: `IInv` is inductive. The safety properties are not: that no
  row is marked synced early needs `ResultsInv` (a positive result in a request,
  delivered or not, is about a logged operation) and `RequestInv` (both ends
  stay within the batch); that nothing newer is overwritten needs `LockInv`
  (holders of a row are unique, and what they read still holds); that the
  newest wins needs `RowInv` (a row carries the timestamp of the logged
  operation it shows).
- `TypeCorrect`, `NoLostEdit`, `NoDoubleApply`, `LastWriteWins`,
  `NeverOverwritesNewer`: types, the invariants and the action property of the runs.
- `Refinement`: `Spec => ExactlyOnceEdits`.

The argument runs through a few step lemmas that say once what any action may do
to one request slot (`SlotStep`), to a row, the log and the web transactions
(`RowStep`, `LogStep`, `WebStep`) and to the Dexie rows (`OpsStep`); each part
of `IInv` is then preserved for that reason alone.

`AttachmentsProofs` proves for all sets of surat, attachments and requests and
all bounds, from `NullAssumption` and `BoundAssumption`:

- `Invariance`: `IInv` is inductive. That no version is lost is not: two uploads
  must not link the same row, which needs `RequestInv` (one holder per locked
  row, whose row is still active; an identifier is stored by one request and
  unused until then), `RowInv` (a row that is not there has no links) and
  `LinksInv` (active means not replaced, and a link points to a row that says so).
  Files need `FilesInv` besides: the part that a request is at has its file until
  the request's row is there, so that a commit finds it. The index needs
  `ReadsInv`: what an undisturbed refresh has extracted and has still to extract
  are, with what it passed over, the active files of its surat, so that what it writes is right at
  the moment of writing, and a commit in between takes the mark `fresh` away.
- `VersionsAreKept`, `EveryRowHasItsFile`, `NoFileIsLeftOver`, `IndexIsCurrent`: the
  invariants of the run, each with the exceptions that it names (`unsure`, `stray`,
  `behind`, `skipped`).
- `EveryVersionIsListed`: `VersionsListed` in every state with `IInv`, for chains
  of any length against any `Depth`. The walk back has one row at every depth until
  it ends (`BackIs`, `FirstIs`: links have one source), the walk forward from its
  last row returns to the row that was asked for (`ForwardComesBack`), and it stops
  once and for all at a row without a link (`ForwardStops`). Nothing is assumed about
  cycles: a list within the limit has reached both ends.

The lemmas sort the actions by what they do to rows and requests: one request
moves on and the rows stay (`Moves`), requests only learn that what they read is out
of date (`Marks`), a request adds its row (`Commits`), or rows and requests
stay (`SameRows`). Files have the same division (`FilesStay`, `FilesGiven`,
`FilesCommitted`), and the index one lemma for whoever leaves it and what it depends on
alone (`IndexStays`) and one for whoever disturbs a refresh (`Disturbs`).

`Versions` and the thread of `Relations` are recursive functions over `0..Depth`. Both
modules derive what they need of induction once, in terms of sets, from the
well-foundedness of the natural numbers: `Induction` and `UpTo` for the induction,
`Iterates` for the existence of a function with `f[0]` given and `f[n]` computed
from `f[n - 1]`.

`SnapshotSyncProofs` proves for all sets of devices, calls and surat and
all bounds, from `DeviceAssumption` and `BoundAssumption`:

- `Invariance`: `IInv` is inductive. Its `CacheInv` says of a cache what
  `LostOnlyWhenLate` says, for the rights that the cache was fetched for, whoever is
  logged in by now, so that it also holds of a cache that a failed reset has left to
  the next user. That the next delta brings a change needs `SeenInv` (what a
  call in flight has read of a row that nobody wrote since), `LoginInv` (a call
  of the present login continues the device's watermark, and no reset is pending that
  could come between), `MarkInv` (a call in
  flight carries a later watermark than the device holds) and `EmptyInv`
  (without a watermark the cache is empty); that content does not go back needs
  `VersionInv` (what a call brings is not older than the cache) and `CallInv`
  (a device has one call at most, thanks to the flag `syncing`).
- `DeltaRepairs`: `LostOnlyWhenLate`, which follows from `CacheInv` and `EmptyInv`
  when the rights are those of whoever is logged in (otherwise the cache is `Foreign`).
- `ContentNeverGoesBack` and `MarkNeverGoesBack`: content does not go back, and the
  watermark only with the cache, in the transaction of a reset.

Reading is where a call, its rows and the writers meet, so it has lemmas of its
own (`Reading`, `ReadingTombstones`); the other steps are sorted by whether a
writer, a sync or a person makes them.

`ReconciliationProofs` proves for all sets of surat, keys and merges in progress,
from `SuratAssumption`:

- `Invariance`: `IInv` is inductive. `CheckInv` says that a check inserts all its
  entries at its end, with one group and one key; `MergeInv` that a merge works
  on surat that exist; `KeyInv` that what nobody edited has the key it was queued
  under; `CoverInv` that of two duplicates the check that looked last has seen
  the other one, or both are queued; `SerialInv` and `OneGroupInv` what holds as
  long as transactions on the queue do not overlap: a check adds only to groups
  that are pending as a whole, a merge visits all of its group, and a key has
  one pending group.
- `DuplicatesAreQueued` follows from `CoverInv` alone, so it needs no
  serialisation: every interleaving of checks is covered.
- `DecisionsStand`: an entry is written by one check, which is over when the
  entry is visible, and a verdict changes pending entries only.
- `OneVerdict`, `OneGroup`, `GroupKeys`: what serial use of the queue would give;
  the code does not serialise it, and section 6 lists what happens otherwise.

The steps of a check that write to no table change one `detect[s]` (`Moves`);
merges in progress change one `merge[m]` (`MergeMoves`); a merge's commit and
keep both share `Verdict` and `VerdictKeeps`; edits by hand share `HandKeeps`.

`SuratStoreProofs` proves for all sets of surat, numbers and transactions and any
number of them, from `KeluarAssumption`, `NullAssumption` and `BoundAssumption`:

- `Invariance`: `IInv` is inductive. Unique numbers need `NumbersClaimed`: who has
  passed the index has its number for itself against committed rows and against
  everyone else who has passed; that in turn needs `LocksHold` (what a transaction
  found under its lock still holds). The audit log needs `ImagesFit`: a
  before-image is of the row that is there, unless it was marked as outdated. Its
  order by `created_at` needs `TurnsKnown`: transactions begin one after the other, and
  whoever began before an entry of its surat and is still at work knows that it was
  overtaken.
- `NumbersAreUnique`, `LogIsAHistory`, `LastEntryStays`: the invariants of the run.

Steps before the commit move one transaction (`Moves`, `Advance`); the commit has
its facts stated once (`CommitFacts`, `CommitOthers`, `EntryFacts`, `CommitLog`) and then
one lemma for each part of the invariant.

`DisposisiProofs` proves for all sets of users, surat, rows and requests, from the
assumptions of `Disposisi` and from `RoleAssumption`:

- `Invariance` and `EveryoneIsNotified`: `Notified` is part of `IInv`. What makes
  it inductive is `NobodyForgotten` (who is due has heard or is on the request's
  list) with `TodoFits` and `InboxFits` (nobody on a list has heard yet; nobody hears
  twice or of his own) and `RequestsFit` (a request works on an identifier of its
  own). Who is due depends on the list limit, hence on later rows: `DueShrinks`
  says that they only push someone out.
- `PromiseKept`: `RowSpec => Promised`, the refinement of `Announcements`.
- `RowsOfLiveSurat`: a row of a deleted surat comes from a transaction that had
  found it live; no run checks this one, which needs an invariant of its own.

Each step is one request's (`Frame`: that request stays sound, the others keep
theirs because rows, order and inboxes only grow), or nobody's (`Bystanders`).
The second part lifts `IInv`, `Notified` and `Promised` to the module with the cards
(`CardInvariance`, `AllHear`, `PagesGetPromise`: a click or a fetch changes none of
their variables) and proves `OnlyOvertakenClicksStray`, the action property
`LifecycleUnlessOvertaken`: `CardInv` says that a display was true at some time and still
is unless the status was changed since, so that a click in flight, which was a button of
such a display, fits the status of its row as long as nothing has overtaken it.

`NotificationBellProofs` proves for all sets of users, rows, bells and fetches and every
limit, from `RoleAssumption`, `WatcherAssumption` and the contract alone:

- `Invariance`: `IInv` is inductive. An inbox only grows (`InboxGrows`) and announces a
  row once (`InboxKeeps`), so an answer that is as old as it likes is still about
  what has arrived (`ArrivalsKeep`); a count taken by a statement of its own is
  within the length of the inbox at that moment (`CountsFit`) and hence at every
  later one.

`RelationsProofs` proves for all sets of surat, rows and requests and every depth:
`Invariance`; `TembusanKeepOrder`, which needs `AfterFits` (a number that was read is
above all that were listed when the request came, whatever is deleted
meanwhile); `LinksAreGrounded` from `LivedFits`; and `ThreadsAreComplete`, which is about
the query and holds in every state: by induction over the depth, all that the walks
of a depth end in is in the neighbourhood (`WalksAreProper`), and whoever is in the
neighbourhood ends a walk of that depth or of a smaller one (`EveryoneIsReached`): where
the cycle check refuses to go on to a surat, a prefix of the walk ends there.

Model-checked only: the liveness properties `EventuallyAnswered`,
`AppliedIsAcknowledged`, `SyncEnds`, `Reaches` and `BellSettles`; they depend on
fairness and ENABLED, which the prover does not handle.

## 6. Where the code and its documentation disagree

With a run that shows it:

| Run | Statement | Code |
|---|---|---|
| `ReconCanonical` | 06-camat-rekonsiliasi.md:42: the canonical surat stays active | two merges of one group with different choices delete each other's choice |

Met while modelling, visible in the models and without a run of their own:

- Queue: a rejected operation is sent again by every drain (opqueue.ts:87
  against the filter at :120); a new operation goes past older queued ones
  (comment at :115, `enqueue` sends at once); fifty rejected operations at the
  head fill every batch (:50, :127); logout is said to remove all local data
  (sync.ts:71), the queue stays and is sent with the next user's token
  (sync.ts:74, auth.ts:61).
- Log: one transaction per operation, not per batch (store/oplog.go:52, :69);
  a plain INSERT instead of ON CONFLICT DO NOTHING (0001_init.sql:277,
  store/oplog.go:113), so that the loser of a race is told "rejected"; a later
  drain settles it (`AppliedIsAcknowledged`); an edit older than the server's is
  to be refused (12-glosarium.md:75), but `NOW()` of a web transaction that
  waited for the row moves `updated_at` back (surat_write.go:90); `NoStaleOverwrite`
  says that nothing else does.
- Snapshot: the delta is to have all that changed in two days offline
  (08-pwa-offline.md:63), but an offline edit is stamped with the client's time
  (store/oplog.go:175), behind watermarks already handed out (sync.go:63); a
  transaction that began before the watermark and commits after it is in no later
  delta (store/sync.go:33, the exception `late`); rows and tombstones
  are from different moments (:24, :26); a surat that becomes
  secret has no tombstone (`Withheld`); a call in flight fills the cache again after
  `resetCache` (sync.ts:71, the exceptions `Foreign` and `torn`); logout is said to
  clear the cache so that nothing leaks to the next user of the browser
  (08-pwa-offline.md:87, sync.ts:71-72, auth.ts:67), but does not wait for it, only logs
  its failure and loses it in a reload (auth.ts:68), so that cache and watermark of the
  previous user stay (`Foreign`); the router's one trigger is
  dropped when a sync is running (router/index.ts:83, stores/offline.ts:34).
- Reconciliation: with overlapping checks a surat can be in two groups
  (reconciliation.go:106) or twice in one, since each
  check queues the other's surat as well as its own (:126); a group mixes keys after an
  edit (:107); rows that join during a merge are marked merged and stay live,
  and a group that was kept meanwhile loses its surat all the same (:308);
  edits and restores are not checked (06-camat-rekonsiliasi.md:7); the
  soft-deletes of a merge are not in the audit log (md:76, reconciliation.go:297).
- Attachments: search_doc is said to follow the metadata
  (0002_add_fts_surat.sql:3), an offline edit does not refresh it; a refresh is said to
  take the text of all active PDFs (server/fts.go:66), but leaves out, and reports
  success, one whose path could not be looked up for any error of the database
  (:109-115), one whose text cannot be extracted (:88-92), and all after the first
  megabyte (:95); a commit whose answer is lost leaves a row without its file; an upload
  that gets no identifier for its row leaves its file without a row
  (server/attachment.go:151-156), where a replacement removes it (:517-523).
- Surat: every change is to be in the audit log (src/README.md:59,
  12-glosarium.md:11), but offline edits and merges write no entry (the exception
  `silent`), and a before-image can be outdated (`stale`); the log is said to give the
  sequence of changes by its timestamps (11-faq.md:123), but `created_at` is the begin of
  the transaction (0001_init.sql:253) and nothing else orders it: a transaction that
  began earlier and committed later is listed first, and the newest entry need not be
  about the row as it is (the exceptions `Overtaken` of `LogReadsOn` and
  `LastEntryIsTrue`); a restore whose number was
  given away meanwhile is answered 500, unlike the 409 of create and update
  (server/surat_write.go:294-301).
- Disposisi: camat and creator are to hear of progress (03-staf-disposisi.md:31,
  48, 56), but a change of status notifies nobody; a disposisi is said to be a state
  machine with valid transitions (append-only.md:65), but only the buttons know them:
  the server sets any status (store/disposisi.go:89-117), so that a click made on an
  outdated card, or before the answer to another one, cancels or reopens finished work
  (the exception of `LifecycleUnlessOvertaken`); a cancelled one is said to be non-final, with
  an entry in the audit log (03-staf-disposisi.md:54), but no button leads out of it
  (SuratDetailView.vue:763) and no change of status is logged; a user who is deactivated
  keeps acting until his tokens lapse (server.go:149); the Sync button is to bring
  new notifications (01-pengenalan.md:57, 07-notifikasi-sync.md:62,
  11-faq.md:77), but its list is thrown away (useGlobalSync.ts:33); "mark all as
  read" also marks what arrived since the bell was drawn.
- Relations: the thread has a row for every walk, not one per surat, so that its
  work is not the O(V + E) of server/reference.go:190 and recursive-cte.md:40;
  references to a document outside of the archive are said to be terminal nodes of the
  thread (store/reference.go:107-108), but the query joins them away (:151-153), so that
  `ThreadIsNeighbourhood` is about the surat in the archive alone;
  additions at the same time share a number.
- List of surat: an absent limit or one above 100 gives a page without
  `next_cursor` (server/surat.go:116).

## 7. Not modelled

- Rendering, styling, wording and logging; HTTP and JSON encoding;
  configuration; deployment scripts and documentation tools; demo data.
- What only reads: the keyset list of surat with its filters and its page,
  search, statistics and dashboard, the lists of direktori, of one's own
  disposisi and of assignable users, the badges. They keep no state on the
  server, and a page shows the answer that came last (the list of surat may
  append the next page of an older filter to those of a newer one).
- Creating an instansi: one INSERT, whose unique name the database checks.
- Sessions: signature and expiry of tokens are a library's and a clock's; that a
  token lapses in the middle of something is one of the failures of each module.
  Login and logout are in `OpSync` and `SnapshotSync` where they matter, roles in
  `Disposisi`.
- The teaching structures of `internal/datastruct`: sequential, unused by the
  server, with unit tests of their own. UUIDv7: identifiers are distinct values
  in every module, and their order is used only where two rows have the same
  number or time.
- Start-up and shutdown of the server, except as failures of what was going on.
- `GetSuratByID` reads a surat, its attachments, references and tembusan by
  several statements; in `Relations` a page is one read, since no property relates
  parts of a page.

## 8. Running

    tlc -workers 2 -config OpSyncRaces.cfg MCOpSync
    tlc -workers 2 -config OpSyncFaults.cfg MCOpSync
    tlc -workers 2 -config OpSyncLive.cfg MCOpSync
    tlc -workers 2 -config Snapshot.cfg SnapshotSync
    tlc -workers 2 -config ReconSerial.cfg MCReconciliation
    tlc -workers 2 -config ReconRaces.cfg MCReconciliation
    tlc -workers 2 -config ReconCanonical.cfg MCReconciliation
    tlc -workers 2 -config Attachments.cfg MCAttachments
    tlc -workers 2 -config SuratStore.cfg MCSuratStore
    tlc -workers 2 -config Disposisi.cfg MCDisposisi
    tlc -workers 2 -config NotificationBell.cfg NotificationBell
    tlc -workers 2 -config Relations.cfg MCRelations
    tlapm OpSyncProofs.tla
    tlapm SnapshotSyncProofs.tla
    tlapm ReconciliationProofs.tla
    tlapm AttachmentsProofs.tla
    tlapm SuratStoreProofs.tla
    tlapm DisposisiProofs.tla
    tlapm NotificationBellProofs.tla
    tlapm RelationsProofs.tla
