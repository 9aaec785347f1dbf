----------------------------- MODULE Attachments -----------------------------
(***************************************************************************)
(* Files of a surat and what the search finds of them: the upload, replace *)
(* and versions handlers of internal/server/attachment.go, their store,    *)
(* and rebuildSearchDoc of internal/server/fts.go.                         *)
(*                                                                         *)
(* A request writes a file, then the row that names it in a transaction of *)
(* its own, and refreshes the surat's search_doc after that commit from    *)
(* what it then reads.  Replacing a file links the old row to the new one, *)
(* so that the versions of an attachment are a chain whose end is active.  *)
(***************************************************************************)
EXTENDS Integers, Sequences, FiniteSets

CONSTANTS
  Surat,      \* surat that exist
  Att,        \* attachments: a row's identifier and the file it names
  Request,    \* requests that can be in progress
  NoAtt,      \* the NULL of replaced_by
  NoSurat,    \* a request that is not in progress
  Depth,      \* how far the versions query walks (100 in the code)
  MaxEdits,   \* bound: edits, deletions and restores of surat
  MaxFaults   \* bound: failures and crashes

ASSUME NullAssumption == NoAtt \notin Att /\ NoSurat \notin Surat
ASSUME BoundAssumption == Depth \in Nat /\ MaxEdits \in Nat /\ MaxFaults \in Nat

VARIABLES
  surat,    \* surat[s]: is it live, and the version of perihal and nomor_surat
  att,      \* att[a]: the row of surat_attachments
  files,    \* files in the storage directory
  doc,      \* doc[s]: what search_doc was made from, and what it left out
  req,      \* req[r]: a request and where it is
  edits,    \* edits, deletions and restores so far
  faults,   \* failures so far
  unsure,   \* rows whose commit was answered with an error (history)
  stray,    \* files whose request ended without removing them (history)
  behind    \* surat whose last change no refresh has taken up (history)

vars == <<surat, att, files, doc, req, edits, faults, unsure, stray, behind>>

\* of is what the row was uploaded to replace (history).
AttRow == [st : {"none", "active", "replaced"}, surat : Surat \cup {NoSurat},
           next : Att \cup {NoAtt}, of : Att \cup {NoAtt}]

\* What a refresh passed over, which only the log tells, is in skipped (history).
DocRec == [text : Nat, atts : SUBSET Att, skipped : SUBSET Att]

\* pc is what the request does next; added says that an upload has stored a part.
\* A refresh has still to read todo, has the text of got and passed over skipped.
RequestRec == [pc : {"idle", "part", "check", "insert", "lock", "swap", "list", "extract"},
               surat : Surat \cup {NoSurat},
               old : Att \cup {NoAtt}, new : Att \cup {NoAtt}, added : BOOLEAN,
               todo : SUBSET Att, got : SUBSET Att, skipped : SUBSET Att,
               fresh : BOOLEAN]
IdleReq == [pc |-> "idle", surat |-> NoSurat, old |-> NoAtt, new |-> NoAtt, added |-> FALSE,
            todo |-> {}, got |-> {}, skipped |-> {}, fresh |-> FALSE]

TypeOK ==
  /\ surat \in [Surat -> [live : BOOLEAN, text : Nat]]
  /\ att \in [Att -> AttRow]
  /\ files \in SUBSET Att
  /\ doc \in [Surat -> DocRec]
  /\ req \in [Request -> RequestRec]
  /\ edits \in Nat /\ faults \in Nat
  /\ unsure \in SUBSET Att /\ stray \in SUBSET Att
  /\ behind \in SUBSET Surat

\* Surat were just created: the trigger has made search_doc from perihal and
\* nomor_surat.
Init ==
  /\ surat = [s \in Surat |-> [live |-> TRUE, text |-> 0]]
  /\ att = [a \in Att |-> [st |-> "none", surat |-> NoSurat, next |-> NoAtt, of |-> NoAtt]]
  /\ files = {}
  /\ doc = [s \in Surat |-> [text |-> 0, atts |-> {}, skipped |-> {}]]
  /\ req = [r \in Request |-> IdleReq]
  /\ edits = 0 /\ faults = 0
  /\ unsure = {} /\ stray = {}
  /\ behind = {}

-----------------------------------------------------------------------------
\* Helpers

Active(s) == {a \in Att : att[a].st = "active" /\ att[a].surat = s}

\* Identifiers are UUIDs: nothing uses a new one yet.
Unused == {a \in Att : att[a].st = "none" /\ a \notin files
                       /\ \A r \in Request : req[r].new # a}

\* What the others have read of the rows of s is out of date when q changes them.
Outdated(q, s) == [r \in Request |->
  IF r # q /\ req[r].surat = s THEN [req[r] EXCEPT !.fresh = FALSE] ELSE req[r]]

Fault == faults < MaxFaults /\ faults' = faults + 1

\* The answer is an error and the file of the current part is removed; parts
\* stored before stay, without a refresh.
GiveUp(r) ==
  /\ files' = files \ {req[r].new}
  /\ req' = [req EXCEPT ![r] = IdleReq]
  /\ behind' = IF req[r].added THEN behind \cup {req[r].surat} ELSE behind

-----------------------------------------------------------------------------
\* Upload: parts are stored one after the other

UploadBegin(r, s) ==
  /\ req[r].pc = "idle" /\ surat[s].live
  /\ req' = [req EXCEPT ![r].pc = "part", ![r].surat = s]
  /\ UNCHANGED <<surat, att, files, doc, edits, faults, unsure, stray, behind>>

\* streamPartToDisk: the file is complete and of an allowed type.
StorePart(r) ==
  /\ req[r].pc = "part"
  /\ \E a \in Unused :
       /\ files' = files \cup {a}
       /\ req' = [req EXCEPT ![r].new = a,
                             ![r].pc = IF req[r].old = NoAtt THEN "check" ELSE "lock"]
  /\ UNCHANGED <<surat, att, doc, edits, faults, unsure, stray, behind>>

\* Too large, of another type, malformed, or one file too many.
RefusePart(r) ==
  /\ req[r].pc = "part"
  /\ GiveUp(r)
  /\ UNCHANGED <<surat, att, doc, edits, faults, unsure, stray>>

EndOfParts(r) ==
  /\ req[r].pc = "part" /\ req[r].added
  /\ req' = [req EXCEPT ![r].pc = "list", ![r].added = FALSE]
  /\ UNCHANGED <<surat, att, files, doc, edits, faults, unsure, stray, behind>>

\* AddAttachment: the surat must be live ...
CheckSurat(r) ==
  /\ req[r].pc = "check"
  /\ IF surat[req[r].surat].live
     THEN /\ req' = [req EXCEPT ![r].pc = "insert"]
          /\ UNCHANGED <<files, behind>>
     ELSE GiveUp(r)
  /\ UNCHANGED <<surat, att, doc, edits, faults, unsure, stray>>

NewRow(r) == [st |-> "active", surat |-> req[r].surat, next |-> NoAtt, of |-> req[r].old]

\* ... and the row is inserted and committed.
AddRow(r) ==
  /\ req[r].pc = "insert"
  /\ att' = [att EXCEPT ![req[r].new] = NewRow(r)]
  /\ req' = [Outdated(r, req[r].surat) EXCEPT
               ![r] = [req[r] EXCEPT !.pc = "part", !.new = NoAtt, !.added = TRUE]]
  /\ UNCHANGED <<surat, files, doc, edits, faults, unsure, stray, behind>>

-----------------------------------------------------------------------------
\* Replace

ReplaceBegin(r, a) ==
  /\ req[r].pc = "idle" /\ att[a].st = "active" /\ surat[att[a].surat].live
  /\ req' = [req EXCEPT ![r].pc = "part", ![r].surat = att[a].surat, ![r].old = a]
  /\ UNCHANGED <<surat, att, files, doc, edits, faults, unsure, stray, behind>>

\* Mutant of LockOld: no FOR UPDATE.
LockOldNever(r) ==
  /\ req[r].pc = "lock"
  /\ IF att[req[r].old].st = "active"
     THEN /\ req' = [req EXCEPT ![r].pc = "swap"]
          /\ UNCHANGED <<files, behind>>
     ELSE GiveUp(r)
  /\ UNCHANGED <<surat, att, doc, edits, faults, unsure, stray>>

\* ReplaceAttachment: SELECT ... FOR UPDATE; the row may have been replaced
\* while the file was stored.
LockOld(r) ==
  /\ req[r].pc = "lock"
  /\ \A q \in Request : ~(req[q].pc = "swap" /\ req[q].old = req[r].old)
  /\ IF att[req[r].old].st = "active"
     THEN /\ req' = [req EXCEPT ![r].pc = "swap"]
          /\ UNCHANGED <<files, behind>>
     ELSE GiveUp(r)
  /\ UNCHANGED <<surat, att, doc, edits, faults, unsure, stray>>

\* Mutant of Swapped: is_active is left as it was.
SwappedStaysActive(r) == [att EXCEPT ![req[r].new] = NewRow(r),
                                     ![req[r].old].next = req[r].new]

\* The new row, and the old one linked to it.
Swapped(r) == [att EXCEPT ![req[r].new] = NewRow(r),
                          ![req[r].old] = [att[req[r].old] EXCEPT !.st = "replaced",
                                                                  !.next = req[r].new]]

\* Mutant of SwapRows: the handler does not refresh.
SwapRowsOnly(r) ==
  /\ req[r].pc = "swap"
  /\ att' = Swapped(r)
  /\ req' = [Outdated(r, req[r].surat) EXCEPT ![r] = IdleReq]
  /\ UNCHANGED <<surat, files, doc, edits, faults, unsure, stray, behind>>

\* Mutant of SwapRows: the old file is cleaned up.
SwapRowsAndFiles(r) ==
  /\ req[r].pc = "swap"
  /\ att' = Swapped(r)
  /\ files' = files \ {req[r].old}
  /\ req' = [Outdated(r, req[r].surat) EXCEPT
               ![r] = [req[r] EXCEPT !.pc = "list", !.old = NoAtt, !.new = NoAtt]]
  /\ UNCHANGED <<surat, doc, edits, faults, unsure, stray, behind>>

SwapRows(r) ==
  /\ req[r].pc = "swap"
  /\ att' = Swapped(r)
  /\ req' = [Outdated(r, req[r].surat) EXCEPT
               ![r] = [req[r] EXCEPT !.pc = "list", !.old = NoAtt, !.new = NoAtt]]
  /\ UNCHANGED <<surat, files, doc, edits, faults, unsure, stray, behind>>

-----------------------------------------------------------------------------
\* Failures of either

\* Mutant of DbError: the file stays.
DbErrorKeepsFile(r) ==
  /\ req[r].pc \in {"check", "insert", "lock", "swap"} /\ Fault
  /\ req' = [req EXCEPT ![r] = IdleReq]
  /\ behind' = IF req[r].added THEN behind \cup {req[r].surat} ELSE behind
  /\ UNCHANGED <<surat, att, files, doc, edits, unsure, stray>>

DbError(r) ==
  /\ req[r].pc \in {"check", "insert", "lock", "swap"} /\ Fault
  /\ GiveUp(r)
  /\ UNCHANGED <<surat, att, doc, edits, unsure, stray>>

\* The request gives up and its file stays: an upload gets no identifier for its row
\* and returns without os.Remove, or os.Remove fails, whose error is dropped.
LeaveFile(r) ==
  /\ req[r].pc \in {"check", "insert", "lock", "swap"} /\ Fault
  /\ stray' = stray \cup {req[r].new}
  /\ behind' = IF req[r].added THEN behind \cup {req[r].surat} ELSE behind
  /\ req' = [req EXCEPT ![r] = IdleReq]
  /\ UNCHANGED <<surat, att, files, doc, edits, unsure>>

\* The commit took effect and its answer was lost: the handler removes the file
\* that the row names.
CommitUnknown(r) ==
  /\ req[r].pc \in {"insert", "swap"} /\ Fault
  /\ att' = IF req[r].pc = "swap" THEN Swapped(r) ELSE [att EXCEPT ![req[r].new] = NewRow(r)]
  /\ files' = files \ {req[r].new}
  /\ unsure' = unsure \cup {req[r].new}
  /\ behind' = behind \cup {req[r].surat}
  /\ req' = [Outdated(r, req[r].surat) EXCEPT ![r] = IdleReq]
  /\ UNCHANGED <<surat, doc, edits, stray>>

\* The process stops: files without a row stay.
Crash ==
  /\ Fault
  /\ stray' = stray \cup {req[r].new : r \in {q \in Request : req[q].new # NoAtt}}
  /\ behind' = behind \cup {req[r].surat : r \in {q \in Request :
                               req[q].added \/ req[q].pc \in {"list", "extract"}}}
  /\ req' = [r \in Request |-> IdleReq]
  /\ UNCHANGED <<surat, att, files, doc, edits, unsure>>

-----------------------------------------------------------------------------
\* rebuildSearchDoc

\* GetSuratByID lists the active attachments; a deleted surat is not found.
ReadList(r) ==
  LET s == req[r].surat
  IN  /\ req[r].pc = "list"
      /\ IF surat[s].live
         THEN /\ req' = [req EXCEPT ![r].pc = "extract", ![r].todo = Active(s),
                                    ![r].fresh = TRUE]
              /\ UNCHANGED behind
         ELSE /\ req' = [req EXCEPT ![r] = IdleReq]
              /\ behind' = behind \cup {s}
      /\ UNCHANGED <<surat, att, files, doc, edits, faults, unsure, stray>>

\* One turn of the loop: a row that was replaced meanwhile is not found, a file
\* that is missing is skipped.  Of each the first megabyte of text is taken.
Extract(r, a) ==
  /\ a \in req[r].todo
  /\ req' = [req EXCEPT ![r].todo = req[r].todo \ {a},
                        ![r].got = IF att[a].st = "active" /\ a \in files
                                   THEN req[r].got \cup {a} ELSE req[r].got]
  /\ UNCHANGED <<surat, att, files, doc, edits, faults, unsure, stray, behind>>

\* A turn that passes over an attachment with its file: any error of the lookup counts
\* as no path, and a file whose text cannot be extracted is only logged.
Skip(r, a) ==
  /\ a \in req[r].todo
  /\ req' = [req EXCEPT ![r].todo = req[r].todo \ {a},
                        ![r].skipped = req[r].skipped \cup {a}]
  /\ UNCHANGED <<surat, att, files, doc, edits, faults, unsure, stray, behind>>

\* The loop breaks once a megabyte of text has come together.
Cut(r) ==
  /\ req[r].todo # {} /\ req[r].got # {}
  /\ req' = [req EXCEPT ![r].todo = {}, ![r].skipped = req[r].skipped \cup req[r].todo]
  /\ UNCHANGED <<surat, att, files, doc, edits, faults, unsure, stray, behind>>

\* UpdateSearchDoc: perihal and nomor_surat as they are now, the attachments as
\* they were read; whoever writes last stays.
WriteDoc(r) ==
  LET s == req[r].surat
  IN  /\ req[r].pc = "extract" /\ req[r].todo = {}
      /\ doc' = IF surat[s].live
                THEN [doc EXCEPT ![s] = [text |-> surat[s].text, atts |-> req[r].got,
                                         skipped |-> req[r].skipped]]
                ELSE doc
      /\ behind' = IF surat[s].live /\ req[r].fresh THEN behind \ {s} ELSE behind \cup {s}
      /\ req' = [req EXCEPT ![r] = IdleReq]
      /\ UNCHANGED <<surat, att, files, edits, faults, unsure, stray>>

\* Only logged.
RefreshFail(r) ==
  /\ req[r].pc \in {"list", "extract"} /\ Fault
  /\ behind' = behind \cup {req[r].surat}
  /\ req' = [req EXCEPT ![r] = IdleReq]
  /\ UNCHANGED <<surat, att, files, doc, edits, unsure, stray>>

-----------------------------------------------------------------------------
\* Changes of the surat itself

Edited == edits < MaxEdits /\ edits' = edits + 1

\* suratUpdateHandler with perihal or nomor_surat: the form's edit, then a refresh.
EditForm(r, s) ==
  /\ req[r].pc = "idle" /\ surat[s].live /\ Edited
  /\ surat' = [surat EXCEPT ![s].text = surat[s].text + 1]
  /\ req' = [req EXCEPT ![r].pc = "list", ![r].surat = s]
  /\ UNCHANGED <<att, files, doc, faults, unsure, stray, behind>>

\* applySuratUpdate writes the same columns and refreshes nothing.
EditOffline(s) ==
  /\ surat[s].live /\ Edited
  /\ surat' = [surat EXCEPT ![s].text = surat[s].text + 1]
  /\ behind' = behind \cup {s}
  /\ UNCHANGED <<att, files, doc, req, faults, unsure, stray>>

\* SoftDeleteSurat and RestoreSurat leave search_doc as it is.
DeleteOrRestore(s) ==
  /\ Edited
  /\ surat' = [surat EXCEPT ![s].live = ~surat[s].live]
  /\ UNCHANGED <<att, files, doc, req, faults, unsure, stray, behind>>

-----------------------------------------------------------------------------
Uploads(r)   == \/ \E s \in Surat : UploadBegin(r, s)
                \/ StorePart(r) \/ RefusePart(r) \/ EndOfParts(r)
                \/ CheckSurat(r) \/ AddRow(r)
Replaces(r)  == \/ \E a \in Att : ReplaceBegin(r, a)
                \/ LockOld(r) \/ SwapRows(r)
Refreshes(r) == \/ ReadList(r) \/ Cut(r) \/ WriteDoc(r) \/ RefreshFail(r)
                \/ \E a \in Att : Extract(r, a) \/ Skip(r, a)
Fails(r)     == DbError(r) \/ LeaveFile(r) \/ CommitUnknown(r)
Edits        == \E s \in Surat : \/ \E r \in Request : EditForm(r, s)
                                 \/ EditOffline(s) \/ DeleteOrRestore(s)

Next == \/ \E r \in Request : Uploads(r) \/ Replaces(r) \/ Refreshes(r) \/ Fails(r)
        \/ Edits \/ Crash

Spec == Init /\ [][Next]_vars

-----------------------------------------------------------------------------
\* ListAttachmentVersions

\* chain: the rows n links before a.
Back(a) ==
  LET up[n \in 0..Depth] == IF n = 0 THEN {a} ELSE {b \in Att : att[b].next \in up[n - 1]}
  IN  up

\* Mutant of First: the walk forward begins at the row that was asked for.
FirstAsked(a) == a

\* The row of chain with the greatest depth.
First(a) == LET up == Back(a)
            IN  CHOOSE b \in Att : \E n \in 0..Depth :
                  b \in up[n] /\ \A m \in (n + 1)..Depth : up[m] = {}

\* full_chain: from b along replaced_by.
Forward(b) ==
  LET down[n \in 0..Depth] == IF n = 0 THEN b
                              ELSE IF down[n - 1] = NoAtt THEN NoAtt ELSE att[down[n - 1]].next
  IN  down

Versions(a) ==
  LET down == Forward(First(a))
  IN  [i \in 1..Cardinality({n \in 0..Depth : down[n] # NoAtt}) |-> down[i - 1]]

-----------------------------------------------------------------------------
\* Safety

\* Rows and links agree, and no two rows are replaced by the same one; both ends
\* of a link belong to one surat.
LinksInv ==
  /\ \A a \in Att : /\ (att[a].st = "replaced") = (att[a].next # NoAtt)
                    /\ att[a].next # NoAtt => /\ att[att[a].next].st # "none"
                                              /\ att[att[a].next].surat = att[a].surat
                                              /\ att[att[a].next].of = a

\* No version is lost: what was uploaded to replace a row is what that row links
\* to, so the link of a row is written once and no two uploads replace the same
\* row, however long their files took.
NoVersionLost == \A a \in Att : att[a].of # NoAtt => att[att[a].of].next = a

\* From any version the list shows that version, one link after the other, and
\* all of the chain from its first upload to the active row unless it is cut at
\* the depth limit.
VersionsListed ==
  \A a \in Att : att[a].st # "none" =>
    LET v == Versions(a)
    IN  /\ \E i \in DOMAIN v : v[i] = a
        /\ \A i \in 1..(Len(v) - 1) : att[v[i]].next = v[i + 1]
        /\ Len(v) <= Depth => att[v[1]].of = NoAtt /\ att[v[Len(v)]].st = "active"

\* Every row has its file, but for a commit whose answer was lost.
RowsHaveFiles == \A a \in Att : att[a].st # "none" => a \in files \/ a \in unsure

\* A file that no row names belongs to a request in progress, or to one that could
\* not remove it: the process stopped, os.Remove failed, or an upload returned for
\* want of an identifier.
NoStrayFiles == \A a \in files : \/ att[a].st # "none" \/ a \in stray
                                 \/ \E r \in Request : req[r].new = a

\* A request that has changed s will refresh it yet.
Refreshing(s) == \E r \in Request : req[r].surat = s
                                    /\ (req[r].added \/ req[r].pc \in {"list", "extract"})

\* The search finds a surat by its present text and by its active files, once
\* the requests on it are over, but for what its last refresh passed over: files
\* whose text could not be read then and those behind the first megabyte.  The
\* exceptions are an edit that came offline, an upload or a refresh that failed, and
\* a refresh that wrote what another request had changed meanwhile; the next
\* undisturbed refresh repairs each.
IndexCurrent ==
  \A s \in Surat : s \notin behind /\ ~Refreshing(s) =>
    /\ doc[s].text = surat[s].text
    /\ doc[s].atts = (Active(s) \cap files) \ doc[s].skipped

-----------------------------------------------------------------------------
\* The inductive invariant

\* A request owns an unused identifier while it stores a part; the row it is
\* about to link is there and belongs to its surat.
Sound(q) ==
  /\ q.new # NoAtt <=> q.pc \in {"check", "insert", "lock", "swap"}
  /\ q.new # NoAtt => att[q.new].st = "none"
  /\ q.pc # "idle" => q.surat \in Surat
  /\ q.pc \in {"idle", "check", "insert", "list", "extract"} => q.old = NoAtt
  /\ q.pc \in {"lock", "swap"} => q.old # NoAtt
  /\ q.old # NoAtt => att[q.old].st # "none" /\ att[q.old].surat = q.surat
  /\ q.pc = "swap" => att[q.old].st = "active"
  /\ q.added => q.pc # "idle" /\ q.old = NoAtt

\* No two requests store the same part, or have locked the same row.
RequestInv ==
  /\ \A r \in Request : Sound(req[r])
  /\ \A r, q \in Request :
       /\ req[r].new # NoAtt /\ req[r].new = req[q].new => r = q
       /\ req[r].pc = "swap" /\ req[q].pc = "swap" /\ req[r].old = req[q].old => r = q

\* What is not there is not linked.
RowInv ==
  \A a \in Att : /\ att[a].st = "none" => att[a].next = NoAtt /\ att[a].of = NoAtt
                 /\ att[a].st # "none" => att[a].surat \in Surat

\* The file of a part is there until its row is.
FilesInv == /\ RowsHaveFiles /\ NoStrayFiles
            /\ \A r \in Request : req[r].new # NoAtt => req[r].new \in files

\* A refresh that nobody disturbed has read the active files of its surat, but for
\* those it has still to read or has passed over.
Reads(q) ==
  /\ q.pc # "extract" => q.todo = {} /\ q.got = {} /\ q.skipped = {} /\ ~q.fresh
  /\ q.fresh => /\ q.todo \subseteq Active(q.surat) \ q.skipped
                /\ q.got = (Active(q.surat) \cap files) \ (q.todo \cup q.skipped)

ReadsInv == \A r \in Request : Reads(req[r])

\* All of it; the run checks it, AttachmentsProofs proves it.
IInv == /\ TypeOK /\ RowInv /\ LinksInv /\ RequestInv /\ NoVersionLost
        /\ FilesInv /\ ReadsInv /\ IndexCurrent
=============================================================================
