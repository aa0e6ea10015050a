--------------------------- MODULE TransferExecution ---------------------------
(***************************************************************************)
(* What one transfer does to the Drive, to the private store and to the    *)
(* vault: NativeTransferExecutor (transfer_runtime.rs), the Drive's        *)
(* create protocol (myvault-drive, transfer.rs), stages and base objects   *)
(* (myvault-app-service, transfer.rs), and create_content_from_reader      *)
(* (vault.rs), inside the guarded run that decides which transfers are     *)
(* queued and queued again (sync_commands.rs).                             *)
(*                                                                         *)
(* A run executes one transfer at a time.  Between any two of its steps    *)
(* other clients edit the bound folder, the user edits the vault, calls    *)
(* fail and the process dies.  Contents are not empty, there is one        *)
(* folder, and a download is named by the file it downloads, at the        *)
(* revision the mirror first recorded.  Rows are as in TransferLedger with *)
(* their times left out: a row is due, or due later.                       *)
(***************************************************************************)
EXTENDS Naturals, FiniteSets

CONSTANTS Uploads,      \* uploads of files that the mirror does not have
          FileIds,      \* ids of Drive files, and of their downloads
          Paths,        \* names in the folder, paths in the vault
          Digests,      \* contents, told apart by SHA-256
          UploadPath,   \* what each upload uploads, and from where
          UploadSha,
          None,         \* no operation, no file, no content, no marker
          MaxFaults,    \* bound: failed calls, crashes
          MaxEdits      \* bound: edits by other clients and by the user

Ops == Uploads \cup FileIds
Entry == [where : {"absent", "folder", "away"}, name : Paths \cup {None},
          sha : Digests \cup {None}, marker : Uploads \cup {None}, rev : 0 .. MaxEdits]
NoEntry == [where |-> "absent", name |-> None, sha |-> None, marker |-> None, rev |-> 0]
Intent == [path : Paths \cup {None}, sha : Digests \cup {None}, rev : 0 .. MaxEdits]

ASSUME IdsAssumption ==
  /\ Uploads \cap FileIds = {}
  /\ None \notin Ops \cup Paths \cup Digests
ASSUME UploadAssumption ==
  /\ UploadPath \in [Uploads -> Paths]
  /\ UploadSha \in [Uploads -> Digests]
ASSUME BoundsAssumption == MaxFaults \in Nat /\ MaxEdits \in Nat

VARIABLES
  phase,    \* transfers: the phase of each row
  retried,  \* the rows with attempt_count > 0
  mirror,   \* remote_entries: unknown, declared by the active batch, known
  want,     \* what the mirror recorded of a file: the download's intent
  base,     \* remote_entries: the content a transfer recorded as common to both sides
  stage,    \* private staging: none, short, wrong, exact, linked to the object
  objects,  \* private base objects
  vault,    \* the content of each path
  halfway,  \* paths still linked to the temporary file they came from
  remote,   \* the Drive's files
  touched,  \* files that were ever moved away or trashed
  run,      \* where the guarded run is
  op,       \* the operation being executed
  pc,       \* where its execution is
  found,    \* the remote file it has found or created
  seen,     \* the revision of that file when last read
  faults,
  edits

ledger == <<phase, retried>>
index == <<mirror, want, base>>
private == <<stage, objects>>
local == <<vault, halfway>>
drive == <<remote, touched>>
target == <<found, seen>>
control == <<run, op, pc, target>>
vars == <<ledger, index, private, local, drive, control, faults, edits>>

Phases == {"absent", "due", "later", "running", "needs_reconcile", "completed"}
UploadSteps == {"source", "marker", "name", "recheck", "recheck_content", "initiate",
                "send", "decode", "status", "verify_marker", "verify_name"}
DownloadSteps == {"verify", "gate", "create", "cleanup", "readback"}
Steps == {"none", "load", "copy", "link", "unlink", "open", "complete"}
           \cup UploadSteps \cup DownloadSteps

TypeOK ==
  /\ phase \in [Ops -> Phases]
  /\ retried \in SUBSET Ops
  /\ mirror \in [FileIds -> {"unknown", "declared", "known"}]
  /\ want \in [FileIds -> Intent]
  /\ base \in [FileIds -> Digests \cup {None}]
  /\ stage \in [Ops -> {"none", "short", "wrong", "exact", "linked"}]
  /\ objects \in SUBSET Digests
  /\ vault \in [Paths -> Digests \cup {None}]
  /\ halfway \in SUBSET Paths
  /\ remote \in [FileIds -> Entry]
  /\ touched \in SUBSET FileIds
  /\ run \in {"idle", "pages", "resumed", "drain", "prepare", "last", "outside"}
  /\ op \in Ops \cup {None}
  /\ pc \in Steps
  /\ found \in FileIds \cup {None}
  /\ seen \in 0 .. MaxEdits
  /\ faults \in 0 .. MaxFaults
  /\ edits \in 0 .. MaxEdits

PathOf(o) == IF o \in Uploads THEN UploadPath[o] ELSE want[o].path
ShaOf(o) == IF o \in Uploads THEN UploadSha[o] ELSE want[o].sha
InFolder == {f \in FileIds : remote[f].where = "folder"}
Known == {f \in FileIds : mirror[f] = "known"}
Declared == {f \in FileIds : mirror[f] = "declared"}

\* What the mirror records of a file as it is.
IntentOf(f) == [path |-> remote[f].name, sha |-> remote[f].sha, rev |-> remote[f].rev]

\* The file is where, and as, the mirror recorded it.
RemoteIsExact(f) == remote[f].where = "folder" /\ remote[f].rev = want[f].rev

\* The files the initial scan found are known, and their names are distinct.
Init ==
  /\ remote \in [FileIds -> {NoEntry} \cup
                 [where : {"folder"}, name : Paths, sha : Digests, marker : {None}, rev : {0}]]
  /\ \A f, g \in InFolder : remote[f].name = remote[g].name => f = g
  /\ mirror = [f \in FileIds |-> IF f \in InFolder THEN "known" ELSE "unknown"]
  /\ want = [f \in FileIds |-> IntentOf(f)]
  /\ base = [f \in FileIds |-> None]
  /\ phase = [o \in Ops |-> "absent"]
  /\ retried = {}
  /\ stage = [o \in Ops |-> "none"]
  /\ objects = {}
  /\ vault \in [Paths -> Digests \cup {None}]
  /\ halfway = {}
  /\ touched = {}
  /\ run = "idle"
  /\ op = None
  /\ pc = "none"
  /\ found = None
  /\ seen = 0
  /\ faults = 0
  /\ edits = 0

-----------------------------------------------------------------------------
(* The guarded run. *)

Fault == faults < MaxFaults /\ faults' = faults + 1

\* register_or_reconcile: a new row is registered, a stopped one is queued
\* again, which counts as an attempt; any other keeps its phase.
Queue(S) ==
  /\ phase' = [o \in Ops |-> IF o \in S /\ phase[o] \in {"absent", "needs_reconcile"}
                             THEN "due" ELSE phase[o]]
  /\ retried' = retried \cup {o \in S : phase[o] = "needs_reconcile"}

\* A run resumes the active batch, or fetches a page.
StartRun ==
  /\ run = "idle"
  /\ IF Declared # {}
     THEN run' = "resumed" /\ Queue(Declared)
     ELSE run' = "pages" /\ UNCHANGED ledger
  /\ UNCHANGED <<index, private, local, drive, op, pc, target, faults, edits>>

\* A page that the mirror can take: no known file has changed, no name twice.
PageIsClean ==
  /\ \A f \in Known \cup Declared : RemoteIsExact(f)
  /\ \A f, g \in InFolder : remote[f].name = remote[g].name => f = g

\* prepare_incremental_change_batch: the new files become the batch.  What any
\* other page asks for, a rescan or a second download, is outside this module.
FetchPage ==
  /\ run = "pages"
  /\ LET new == {f \in InFolder : mirror[f] = "unknown"}
     IN IF PageIsClean
        THEN /\ run' = "drain"
             /\ mirror' = [f \in FileIds |-> IF f \in new THEN "declared" ELSE mirror[f]]
             /\ want' = [f \in FileIds |-> IF f \in new THEN IntentOf(f) ELSE want[f]]
             /\ phase' = [o \in Ops |-> IF o \in new THEN "due" ELSE phase[o]]
        ELSE run' = "outside" /\ UNCHANGED <<mirror, want, phase>>
  /\ UNCHANGED <<retried, base, private, local, drive, op, pc, target, faults, edits>>

\* The worker claims until nothing is due.
Claim(o) ==
  /\ run \in {"resumed", "drain", "last"}
  /\ op = None
  /\ phase[o] = "due"
  /\ phase' = [phase EXCEPT ![o] = "running"]
  /\ op' = o
  /\ pc' = "load"
  /\ UNCHANGED <<retried, index, private, local, drive, run, target, faults, edits>>

\* commit_transfer_change_batch takes a batch without downloads, and the run
\* turns to the local files; it refuses any other, done or not.
EndDrain ==
  /\ run \in {"resumed", "drain", "last"}
  /\ op = None
  /\ \A o \in Ops : phase[o] # "due"
  /\ run' = IF run = "drain" /\ Declared = {} THEN "prepare" ELSE "idle"
  /\ UNCHANGED <<ledger, index, private, local, drive, op, pc, target, faults, edits>>

\* Every local file is read with one link, and every file that the vault does
\* not have is inspected as the mirror recorded it, or the pass fails.
LocalFilesReadable == halfway = {}
RemoteFilesAreExact == \A f \in Known : vault[want[f].path] = None => RemoteIsExact(f)

\* Known files at the path of an upload.
AtPath(u) == {f \in Known : want[f].path = UploadPath[u]}

\* A local file the mirror does not have, with the content of the upload.
MissingRemotely(u) == vault[UploadPath[u]] = UploadSha[u] /\ AtPath(u) = {}

\* exact_base_match: the mirror has it, and a transfer has recorded both sides.
RecordedOnBothSides(u) ==
  /\ vault[UploadPath[u]] = UploadSha[u]
  /\ AtPath(u) # {}
  /\ \A f \in AtPath(u) : base[f] = UploadSha[u]

\* A file of the mirror that the vault does not have.
MissingLocally(f) == f \in Known /\ RemoteIsExact(f) /\ vault[want[f].path] = None

\* What prepare_guarded_transfers queues.  A path on both sides without such
\* a record is blocked.  (An upload is registered only where the mirror has no
\* file, and a batch with a download is never committed: within one mirror the
\* second case does not arise.)
Preparable == {u \in Uploads : MissingRemotely(u)}
                \cup {u \in Uploads : RecordedOnBothSides(u) /\ phase[u] # "absent"}
                \cup {f \in FileIds : MissingLocally(f)}

\* What a pass that stops may have queued: the uploads come first.
PartlyPrepared ==
  {S \in SUBSET Preparable :
     S \cap FileIds # {} => LocalFilesReadable /\ Preparable \cap Uploads \subseteq S}

\* prepare_guarded_transfers.
Prepare ==
  /\ run = "prepare"
  /\ IF LocalFilesReadable /\ RemoteFilesAreExact
     THEN Queue(Preparable) /\ run' = "last"
     ELSE (\E S \in PartlyPrepared : Queue(S)) /\ run' = "idle"
  /\ UNCHANGED <<index, private, local, drive, op, pc, target, faults, edits>>

\* The pass stops at a failed read or call.
PrepareFails ==
  /\ run = "prepare"
  /\ Fault
  /\ \E S \in PartlyPrepared : Queue(S)
  /\ run' = "idle"
  /\ UNCHANGED <<index, private, local, drive, op, pc, target, edits>>

\* The delay of a postponed transfer is over.
TimePasses ==
  /\ \E o \in Ops : phase[o] = "later"
  /\ phase' = [o \in Ops |-> IF phase[o] = "later" THEN "due" ELSE phase[o]]
  /\ UNCHANGED <<retried, index, private, local, drive, control, faults, edits>>

-----------------------------------------------------------------------------
(* Outcomes of the operation being executed. *)

\* The next step of the execution, with the row as it is.
Goto(step) == pc' = step /\ UNCHANGED <<run, op, ledger, faults, edits>>

\* The execution is over: what settles the row is in the caller's hands.
Leave == op' = None /\ pc' = "none" /\ found' = None /\ seen' = 0

\* NeedsReconcile, for this operation.
Stop ==
  /\ phase' = [phase EXCEPT ![op] = "needs_reconcile"]
  /\ Leave
  /\ UNCHANGED <<run, retried, faults, edits>>

\* A call to the Drive is refused in a way that may be retried: AuthRequired
\* (which ends the run), Offline (not counted as an attempt), RateLimited and,
\* before the create is initiated, any other transient failure.
Postpone ==
  /\ pc \in (UploadSteps \ {"source"}) \cup {"verify"}
  /\ Fault
  /\ phase' = [phase EXCEPT ![op] = "later"]
  /\ retried' \in {retried, retried \cup {op}}
  /\ run' \in {run, "idle"}
  /\ Leave
  /\ UNCHANGED <<index, private, local, drive, edits>>

\* Any other failure of a call, of the disk or of the gate: the same row, and
\* the run goes on.
StopOnFailure ==
  /\ op # None
  /\ Fault
  /\ phase' = [phase EXCEPT ![op] = "needs_reconcile"]
  /\ Leave
  /\ UNCHANGED <<retried, index, private, local, drive, run, edits>>

\* The process dies, or the run ends with an error: the store is opened again
\* and its running row is recovered.
Crash ==
  /\ run \notin {"idle", "outside"}
  /\ Fault
  /\ phase' = [o \in Ops |-> IF phase[o] = "running" THEN "needs_reconcile" ELSE phase[o]]
  /\ run' = "idle"
  /\ Leave
  /\ UNCHANGED <<retried, index, private, local, drive, edits>>

-----------------------------------------------------------------------------
(* Stages. *)

SourceIsExact(o) == vault[PathOf(o)] = ShaOf(o) /\ PathOf(o) \notin halfway

\* Variant: an upload never replaces its stage.
MayDiscardOfDownload(o) == o \notin Uploads /\ stage[o] = "short"

\* discard_incomplete_stage: shorter than expected, with one link.  An upload
\* asks only for a row that was queued again and a source that is still exact.
MayDiscard(o) ==
  /\ stage[o] = "short"
  /\ o \in Uploads => o \in retried /\ SourceIsExact(o)

\* load_stage: all the bytes of the stage, which may already be linked to its
\* object, have the expected digest and length.
StageIsExact(o) == stage[o] \in {"exact", "linked"}

\* begin_stage creates an empty file; finish_stage closes one whose bytes have
\* the digest and the length expected of them.
BeginStage == stage' = [stage EXCEPT ![op] = "short"]
FinishStage == stage' = [stage EXCEPT ![op] = "exact"]

\* load_transfer_stage, then begin_transfer_stage or discard: an absent stage
\* is created empty, an exact one is used, any other is replaced or kept.
LoadStage ==
  /\ pc = "load"
  /\ \/ /\ stage[op] = "none"
        /\ BeginStage
        /\ Goto("copy")
        /\ UNCHANGED target
     \/ /\ StageIsExact(op)
        /\ Goto(IF op \in Uploads THEN "source" ELSE "verify")
        /\ UNCHANGED <<stage, target>>
     \/ /\ stage[op] \in {"short", "wrong"}
        /\ IF MayDiscard(op)
           THEN stage' = [stage EXCEPT ![op] = "none"] /\ Goto("load") /\ UNCHANGED target
           ELSE Stop /\ UNCHANGED stage
  /\ UNCHANGED <<index, objects, local, drive>>

\* stage_transfer_source: what is staged is what the vault has.
CopySource ==
  /\ pc = "copy" /\ op \in Uploads
  /\ IF SourceIsExact(op)
     THEN FinishStage /\ Goto("source") /\ UNCHANGED target
     ELSE Stop /\ \E s \in {"short", "wrong"} : stage' = [stage EXCEPT ![op] = s]
  /\ UNCHANGED <<index, objects, local, drive>>

\* The source is read once more against the stage.
ReadSource ==
  /\ pc = "source"
  /\ IF SourceIsExact(op) THEN Goto("marker") /\ UNCHANGED target ELSE Stop
  /\ UNCHANGED <<index, private, local, drive>>

\* download_blob_to between two reads of the metadata, then finish_stage.
ReceiveBlob ==
  /\ pc = "copy" /\ op \in FileIds
  /\ IF RemoteIsExact(op)
     THEN FinishStage /\ Goto("gate") /\ UNCHANGED target
     ELSE Stop /\ \E s \in {"short", "wrong", "exact"} : stage' = [stage EXCEPT ![op] = s]
  /\ UNCHANGED <<index, objects, local, drive>>

\* classify_download_stream_failure, nothing was written: the empty stage goes
\* and the download is tried again.
DiscardEmptyStage ==
  /\ stage' = [stage EXCEPT ![op] = "none"]
  /\ phase' = [phase EXCEPT ![op] = "later"]
  /\ retried' \in {retried, retried \cup {op}}
  /\ run' \in {run, "idle"}

\* The blob ends with an error; whatever was written is kept.
ReceiveFails ==
  /\ pc = "copy" /\ op \in FileIds
  /\ Fault
  /\ Leave
  /\ \/ DiscardEmptyStage
     \/ /\ \E s \in {"short", "exact"} : stage' = [stage EXCEPT ![op] = s]
        /\ phase' = [phase EXCEPT ![op] = "needs_reconcile"]
        /\ UNCHANGED <<retried, run>>
  /\ UNCHANGED <<index, objects, local, drive, edits>>

\* verify_download: a stage from an earlier attempt still is the remote file.
VerifyDownload ==
  /\ pc = "verify"
  /\ IF RemoteIsExact(op) THEN Goto("gate") /\ UNCHANGED target ELSE Stop
  /\ UNCHANGED <<index, private, local, drive>>

\* before_local_publish.
PassGate ==
  /\ pc = "gate"
  /\ Goto("link")
  /\ UNCHANGED <<index, private, local, drive, target>>

-----------------------------------------------------------------------------
(* The create protocol. *)

Marked(u) == {f \in InFolder : remote[f].marker = u}
Named(u) == {f \in InFolder : remote[f].name = UploadPath[u]}

\* Variant: the digest is not compared.
HasSameName(f, u) == remote[f].where = "folder" /\ remote[f].name = UploadPath[u]

\* file_has_same_content, file_matches_intent.
HasSameContent(f, u) ==
  remote[f].where = "folder" /\ remote[f].name = UploadPath[u] /\ remote[f].sha = UploadSha[u]
MatchesIntent(f, u) == HasSameContent(f, u) /\ remote[f].marker = u

Find(f) == found' = f /\ seen' = remote[f].rev

\* reconcile_create, by marker: the only marked file, if it is as intended.
ReconcileMarker ==
  /\ pc = "marker"
  /\ \/ Marked(op) = {} /\ Goto("name") /\ UNCHANGED target
     \/ \E f \in FileIds : /\ Marked(op) = {f} /\ MatchesIntent(f, op)
                           /\ Find(f) /\ Goto("recheck")
     \/ /\ Marked(op) # {}
        /\ \A f \in FileIds : ~(Marked(op) = {f} /\ MatchesIntent(f, op))
        /\ Stop
  /\ UNCHANGED <<index, private, local, drive>>

\* reconcile_create, by name: a permit to create, or one file with these bytes.
ReconcileName ==
  /\ pc = "name"
  /\ \/ Named(op) = {} /\ Goto("initiate") /\ UNCHANGED target
     \/ \E f \in FileIds : /\ Named(op) = {f} /\ HasSameContent(f, op)
                           /\ Find(f) /\ Goto("recheck_content")
     \/ /\ Named(op) # {}
        /\ \A f \in FileIds : ~(Named(op) = {f} /\ HasSameContent(f, op))
        /\ Stop
  /\ UNCHANGED <<index, private, local, drive>>

\* Variant: the upload is reported complete as soon as the file is found.
RecheckExistingCompletes ==
  /\ \/ pc = "recheck" /\ MatchesIntent(found, op)
     \/ pc = "recheck_content" /\ HasSameContent(found, op)
  /\ Find(found)
  /\ Goto("complete")
  /\ UNCHANGED <<index, private, local, drive>>

\* recheck_existing: the metadata of the file found is read once more.
RecheckExisting ==
  /\ \/ pc = "recheck" /\ MatchesIntent(found, op) /\ Goto("link") /\ Find(found)
     \/ pc = "recheck_content" /\ HasSameContent(found, op) /\ Goto("link") /\ Find(found)
     \/ pc = "recheck" /\ ~MatchesIntent(found, op) /\ Stop
     \/ pc = "recheck_content" /\ ~HasSameContent(found, op) /\ Stop
  /\ UNCHANGED <<index, private, local, drive>>

\* initiate_resumable_create.
Initiate ==
  /\ pc = "initiate"
  /\ Goto("send")
  /\ UNCHANGED <<index, private, local, drive, target>>

\* The Drive creates the file of a session once all of its bytes have arrived.
Creates(f) ==
  /\ remote[f].where = "absent"
  /\ remote' = [remote EXCEPT ![f] = [where |-> "folder", name |-> UploadPath[op],
                                      sha |-> UploadSha[op], marker |-> op, rev |-> 0]]

\* upload_chunk with the last bytes: the answer arrives.
SendChunk ==
  /\ pc = "send"
  /\ \E f \in FileIds : Creates(f) /\ Find(f)
  /\ Goto("decode")
  /\ UNCHANGED <<index, private, local, touched>>

\* upload_chunk with a transport failure, after or before the Drive has taken
\* the bytes: the session is asked for its status.
SendIsLost ==
  /\ pc = "send"
  /\ Fault
  /\ \/ \E f \in FileIds : Creates(f) /\ Find(f)
     \/ UNCHANGED <<remote, target>>
  /\ pc' = "status"
  /\ UNCHANGED <<run, op, ledger, index, private, local, touched, edits>>

\* decode_upload_response, with its second read.
Decode ==
  /\ pc = "decode"
  /\ IF MatchesIntent(found, op) THEN Goto("verify_marker") /\ UNCHANGED target ELSE Stop
  /\ UNCHANGED <<index, private, local, drive>>

\* The second read is lost: a transport failure of upload_chunk as well.
DecodeIsLost ==
  /\ pc = "decode"
  /\ Fault
  /\ pc' = "status"
  /\ UNCHANGED <<run, op, target, ledger, index, private, local, drive, edits>>

\* Variant: bytes whose answer was lost are sent once more.
QueryStatusSendsAgain ==
  /\ pc = "status"
  /\ Goto("send")
  /\ UNCHANGED <<index, private, local, drive, target>>

\* query_upload_status: complete, and decoded, or to be sent again.
QueryStatus ==
  /\ pc = "status"
  /\ IF found = None THEN Goto("send") /\ UNCHANGED target
     ELSE IF MatchesIntent(found, op) THEN Goto("verify_marker") /\ UNCHANGED target ELSE Stop
  /\ UNCHANGED <<index, private, local, drive>>

\* verify_created_upload: unique by marker, unique by name, then rechecked.
VerifyCreated ==
  /\ \/ /\ pc = "verify_marker"
        /\ IF Marked(op) = {found} /\ MatchesIntent(found, op)
           THEN Goto("verify_name") /\ UNCHANGED target ELSE Stop
     \/ /\ pc = "verify_name"
        /\ IF Named(op) = {found} /\ MatchesIntent(found, op)
           THEN Goto("recheck") /\ UNCHANGED target ELSE Stop
  /\ UNCHANGED <<index, private, local, drive>>

-----------------------------------------------------------------------------
(* Publication of the stage as base object, and of the object in the vault. *)

\* Variant: the object is taken to be there.
LinkObjectPresent ==
  /\ pc = "link"
  /\ Goto("unlink")
  /\ UNCHANGED <<index, private, local, drive, target>>

\* publish_base, first half: without an object the stage is linked to be it.
LinkObject ==
  /\ pc = "link"
  /\ IF ShaOf(op) \in objects THEN UNCHANGED private
     ELSE /\ objects' = objects \cup {ShaOf(op)}
          /\ stage' = [stage EXCEPT ![op] = "linked"]
  /\ Goto("unlink")
  /\ UNCHANGED <<index, local, drive, target>>

\* publish_base, second half: the stage goes.
UnlinkStage ==
  /\ pc = "unlink"
  /\ stage' = [stage EXCEPT ![op] = "none"]
  /\ Goto("open")
  /\ UNCHANGED <<index, objects, local, drive, target>>

\* The other stages that are still links of the object.
LinkedStages(d) == {o \in Ops : stage[o] = "linked" /\ ShaOf(o) = d}

\* The object is opened with one link.
OpenObject ==
  /\ pc = "open"
  /\ IF LinkedStages(ShaOf(op)) = {}
     THEN Goto(IF op \in Uploads THEN "complete" ELSE "create") /\ UNCHANGED target
     ELSE Stop
  /\ UNCHANGED <<index, private, local, drive>>

\* create_content_from_reader up to its hard link, which never replaces; a
\* file that is there is read again, and is the result if it has the bytes.
CreateContent ==
  /\ pc = "create"
  /\ IF vault[PathOf(op)] = None
     THEN /\ vault' = [vault EXCEPT ![PathOf(op)] = ShaOf(op)]
          /\ halfway' = halfway \cup {PathOf(op)}
          /\ Goto("cleanup") /\ UNCHANGED target
     ELSE /\ IF SourceIsExact(op) THEN Goto("complete") /\ UNCHANGED target ELSE Stop
          /\ UNCHANGED local
  /\ UNCHANGED <<index, private, drive>>

\* The temporary file is removed.
RemoveTemporary ==
  /\ pc = "cleanup"
  /\ halfway' = halfway \ {PathOf(op)}
  /\ Goto("readback")
  /\ UNCHANGED <<index, private, vault, drive, target>>

\* verify_transfer_readback.
ReadBack ==
  /\ pc = "readback"
  /\ IF SourceIsExact(op) THEN Goto("complete") /\ UNCHANGED target ELSE Stop
  /\ UNCHANGED <<index, private, local, drive>>

\* The file whose mirrored entry a completion belongs to, and the revision
\* the completion was verified at.
Counterpart == IF op \in Uploads THEN found ELSE op
VerifiedRev == IF op \in Uploads THEN seen ELSE want[op].rev

\* update_remote_base_if_present: an entry must be at that path and revision.
CompletionFitsMirror ==
  mirror[Counterpart] # "unknown" =>
    want[Counterpart].path = PathOf(op) /\ want[Counterpart].rev = VerifiedRev

\* complete_verified_transfer: the row, and the base of a mirrored file.  A
\* completion that does not fit is an error, which ends the run.
Complete ==
  /\ pc = "complete"
  /\ IF CompletionFitsMirror
     THEN /\ phase' = [phase EXCEPT ![op] = "completed"]
          /\ base' = IF mirror[Counterpart] = "unknown" THEN base
                     ELSE [base EXCEPT ![Counterpart] = ShaOf(op)]
          /\ UNCHANGED run
     ELSE /\ phase' = [phase EXCEPT ![op] = "needs_reconcile"]
          /\ run' = "idle"
          /\ UNCHANGED base
  /\ Leave
  /\ UNCHANGED <<retried, mirror, want, private, local, drive, faults, edits>>

\* execute_upload: stage the source, find or create the remote file, keep the base.
ExecuteUpload ==
  /\ op \in Uploads
  /\ \/ LoadStage \/ CopySource \/ ReadSource
     \/ ReconcileMarker \/ ReconcileName \/ RecheckExisting \/ Initiate \/ SendChunk
     \/ Decode \/ QueryStatus \/ VerifyCreated
     \/ LinkObject \/ UnlinkStage \/ OpenObject \/ Complete

\* execute_download: stage the blob, keep the base, create the vault file.
ExecuteDownload ==
  /\ op \in FileIds
  /\ \/ LoadStage \/ ReceiveBlob \/ VerifyDownload \/ PassGate
     \/ LinkObject \/ UnlinkStage \/ OpenObject
     \/ CreateContent \/ RemoveTemporary \/ ReadBack \/ Complete

-----------------------------------------------------------------------------
(* Other clients of the Drive, and the user at the vault. *)

Edit == edits < MaxEdits /\ edits' = edits + 1

\* The Drive gives every change of a file a new revision.
Changed(f) == [remote[f] EXCEPT !.rev = edits + 1]

ForeignCreate(f, p, d) ==
  /\ remote[f].where = "absent"
  /\ remote' = [remote EXCEPT ![f] = [where |-> "folder", name |-> p, sha |-> d,
                                      marker |-> None, rev |-> edits + 1]]
  /\ UNCHANGED touched

ForeignWrite(f, d) ==
  /\ remote[f].where = "folder"
  /\ remote' = [remote EXCEPT ![f] = [Changed(f) EXCEPT !.sha = d]]
  /\ UNCHANGED touched

ForeignRename(f, p) ==
  /\ remote[f].where = "folder"
  /\ remote' = [remote EXCEPT ![f] = [Changed(f) EXCEPT !.name = p]]
  /\ UNCHANGED touched

\* Moved out of the folder or to the trash, and back.
ForeignMove(f) ==
  /\ remote[f].where # "absent"
  /\ remote' = [remote EXCEPT ![f] =
       [Changed(f) EXCEPT !.where = IF @ = "folder" THEN "away" ELSE "folder"]]
  /\ touched' = touched \cup {f}

ForeignEdit ==
  /\ Edit
  /\ \E f \in FileIds :
       \/ \E p \in Paths, d \in Digests : ForeignCreate(f, p, d)
       \/ \E d \in Digests : ForeignWrite(f, d)
       \/ \E p \in Paths : ForeignRename(f, p)
       \/ ForeignMove(f)
  /\ UNCHANGED <<ledger, index, private, local, control, faults>>

\* The user writes in place, replaces or removes a file of the vault.
UserEdit ==
  /\ Edit
  /\ \E p \in Paths, d \in Digests \cup {None} :
       /\ vault' = [vault EXCEPT ![p] = d]
       /\ halfway' \in {halfway, halfway \ {p}}
       /\ d = None => p \notin halfway'
  /\ UNCHANGED <<ledger, index, private, drive, control, faults>>

-----------------------------------------------------------------------------
Progress ==
  \/ StartRun \/ FetchPage \/ EndDrain \/ Prepare
  \/ \E o \in Ops : Claim(o)
  \/ ExecuteUpload \/ ExecuteDownload

Failures ==
  \/ PrepareFails \/ Postpone \/ StopOnFailure \/ Crash
  \/ ReceiveFails \/ SendIsLost \/ DecodeIsLost

\* The rest is for the rescan: a step of this module that changes nothing.
Outside == run = "outside" /\ UNCHANGED vars

Next == Progress \/ TimePasses \/ Failures \/ ForeignEdit \/ UserEdit \/ Outside

\* The user keeps running the synchronisation, and a run goes on.
Fairness == WF_vars(Progress) /\ WF_vars(TimePasses)

Spec == Init /\ [][Next]_vars /\ Fairness

-----------------------------------------------------------------------------
(* Properties. *)

\* An upload never creates a second file: two files with the marker of one
\* upload exist only if another client moved one of them out of the folder,
\* where the marker query does not see it.
MarkedOnce ==
  \A f, g \in FileIds :
    f # g /\ remote[f].marker # None /\ remote[f].marker = remote[g].marker
      => f \in touched \/ g \in touched

\* A base is referenced only when its object is there: by a completed row, by
\* the record of a remote file, and before the vault is written.
BaseIsDurable ==
  /\ \A o \in Ops : phase[o] = "completed" => ShaOf(o) \in objects
  /\ \A f \in FileIds : base[f] # None => base[f] \in objects
  /\ pc \in {"create", "cleanup", "readback", "complete"} => ShaOf(op) \in objects

\* Staged bytes that are the expected ones leave the stage only for the object.
EvidenceIsKept ==
  [][\A o \in Ops : stage[o] \in {"exact", "linked"} /\ stage'[o] \notin {"exact", "linked"}
                      => ShaOf(o) \in objects']_vars

\* What is recorded as common to both sides is the remote content, as long as
\* the file is as the mirror recorded it.
BaseMatchesRemote ==
  \A f \in FileIds : base[f] # None /\ RemoteIsExact(f) => remote[f].sha = base[f]

\* As long as nobody else edits, no created file has come back as a download of
\* a batch, and no file of the vault is left with a second link, every upload
\* that was registered completes, whatever failed before: a copy cut short, a
\* source or a listing that could not be read, a session lost before it created
\* a file.
UploadsAreRetried ==
  [](edits = 0) /\ <>[](halfway = {}) =>
    \A u \in Uploads : phase[u] # "absent" ~> phase[u] = "completed" \/ Declared # {}

\* Gate 3 of R2, which TLC refutes: a download whose target has the same bytes is a verified
\* no-op.  The target is whole, and the file is in the active batch.
SameBytesAreANoOp ==
  <>[](halfway = {}) =>
    \A f \in FileIds : mirror[f] = "declared" /\ SourceIsExact(f) ~> phase[f] = "completed"

\* The comment on create-no-replace, which TLC refutes: a file that a previous attempt created is
\* verified again, and the download completes.
CreatedFileCompletes ==
  \A f \in FileIds : phase[f] = "needs_reconcile" /\ vault[PathOf(f)] = ShaOf(f)
                       ~> phase[f] = "completed"

=============================================================================
