# TLA+ models of myVault

myVault is a local-first Markdown vault (Rust, Tauri) that synchronises with one
folder of Google Drive. These modules model its synchronisation, its journalled
file operations, its snapshots, its conflict handling and the editor's session. Each
model is translated from the source; the line ranges behind every definition are in
`PROJECT.json` under `map`, what is hard to test in the code under `hazards`.

## 1. The system

| Component | State | Operations | Hard behaviour |
|---|---|---|---|
| Initial synchronisation (`myvault-sync-engine` `lib.rs`, `store.rs`; `myvault-drive` `client.rs`) | SQLite: `vault_state` (phase, tokens, durable cursor, rescan flag), `scan_frontier`, `remote_entries` | `bind_remote_root`, `begin_initial_scan`, `apply_scan_page`, `apply_changes_page`, `mark_rescan_required`, one step per user request | the Drive is edited by others between two pages; crash between answer and transaction; expired tokens |
| Incremental synchronisation (`prepare_incremental_change_batch`, `resolve_change_below_root`) | the durable cursor, `change_batch`, the mirror | fetch a page, walk the ancestry of each change, store a batch or ask for a rescan, commit | page, ancestry and batch are read and written at different moments |
| Transfer queue and worker (`store.rs`, `myvault-transfer`), guarded run (`sync_run_guarded`) | `transfers`, `transfer_history`, `change_batch_mutations` | register, claim, gate, complete, retry, auth-block, reconcile, requeue, recover, commit | crashes on either side of the gate, wall clock set back, one refresh per run |
| Transfer executor (`transfer_runtime.rs`, `myvault-drive/transfer.rs`, `myvault-app-service/transfer.rs`) | private stage files, base objects, remote files with markers | upload and download of one file | lost answers, duplicates, hard-link publication |
| Sync command runtime (`sync_commands.rs`) | the open store, the account and authorization, the marker of a detached store | status, preview, bind, guarded run, disconnect | commands of two sessions in flight; the device's account changes |
| Typed mutation ledger (`store.rs`, R3) | intents, outcomes, conflict evidence, the R3 batch | register, claim, record an outcome, open and commit a batch | an operation applied and not recorded; a cursor moved too early |
| Conflict mechanics (`conflict/*.rs`) | none (pure) | classify, materialize, merge three texts | the case table; edits that meet at a line |
| Vault (`myvault-core`), mutation service, recovery journal | the user's files, trash, journal intents and tombstones | move, case rename, trash, restore, resume | crash or power failure between two system calls; other programs editing |
| Snapshots, quarantine, retention (`myvault-snapshots`) | snapshot objects, quarantine runs, receipts | publish, plan retention, quarantine, delete, recover | a deletion cut anywhere; caps and budgets |
| Application service (`myvault-app-service`) | active session, leases, watcher | choose and close a vault, read, guarded save | commands racing a change of vault |
| Editor (`App.tsx`, `reader.ts`, `workspace.ts`) | open note, buffer, save state, request numbers | open, type, save, reload, change report, choose a vault | every reply may come late |
| Desktop authorisation, Android runtime and SAF plugin, path rules, index, watcher helpers, platform wrappers | see section 6 | | |

How they interact: the editor sends commands to the application service, which gives
each a lease on the active session; a save takes a snapshot of what it replaces and
writes under the vault's mutation lock. A sync command works on the one open store; a
guarded run takes the store out of the runtime and leaves a marker, so no second run
can start, and calls Drive synchronously. The initial synchronisation makes the store
Ready; a guarded run then alternates pages of changes, drains of the transfer queue,
and a pass over the local files. Moves, trash and restore go through the journal.
The conflict mechanics, the typed ledger, `MutationService` and the quarantine are
libraries with tests; nothing in the application calls them yet.

What makes each correct: the mirror is exact up to its cursor and the cursor never
passes what was not mirrored; the tables agree, no row is stranded, no outcome is
refused; no duplicate remote files, base bytes durable before completion; one owner
per marker and per store, and only the bound account is used; every operation of the
ledger applied once, no edit lost to a planned one; every interrupted mutation is
resumed, nothing moved twice, nothing told to a caller that a power failure can take
back; nothing deleted without a reason of the policy; what is typed is written where
it was typed, and what it replaces can be recovered.

## 2. Modules

Synchronisation:

- `InitialSync`: `advance_initial_sync` and its transactions, with the Drive as an
  environment (`DriveEdit`, `DriveCreate`, `DriveMove`, `DriveTrash`). Every provider
  call is split from the transaction that applies its answer (`answer` holds what is in
  flight); `LoseAnswer` is a crash, a timeout or a failed call.
- `IncrementalSync` extends it with the run of a Ready store: `page` is the fetched page
  of `prepare_incremental_change_batch`, `walk` the ancestry walk with one `WalkUp` per
  `file_metadata` call, `batch` the durable change batch. Proofs of both in
  `SyncProofs`.
- `TransferLedger`: the rows of `transfers` with phase, next attempt, update time and the
  part of `last_error_code` that the code reads; the history; the active batch's declared
  mutations; the control of `sync_run_guarded` (`pc`, the drain's cutoff, the operation in
  the executor, the refresh). Proofs in `TransferLedgerProofs`.
- `TransferExecution`: what a claimed transfer does outside the store. `pc` walks the
  steps of `execute_upload` and `execute_download`, one action per call whose effect
  others can see, from loading the stage to completion; around it the guarded run
  (`run`). The environment is the Drive's other clients (`ForeignCreate`, `ForeignWrite`,
  `ForeignRename`, `ForeignMove`) and the user (`UserEdit`), between any two steps. Proofs
  in `TransferExecutionProofs`.
- `SyncRuntime`: `SyncRuntimeState` and the commands that share it. On Android a command
  lets go of the runtime's and the session's mutex before every network call, so it is
  a sequence of steps; on the desktop every command but the guarded run is one step.
  Proofs in `SyncRuntimeProofs`.

Conflicts:

- `MarkdownMerge`: `merge_markdown_three_way` with its parser, limits and renderer. A text
  is a sequence of lines with their terminators. The diff library is external: any
  alignment with a longest common subsequence may be chosen. Proofs in
  `ConflictResolutionProofs`.
- `Conflict`: `classify_conflict`, its boundaries, replays, content predicates and case
  table, the drafts of each cell and `materialize_plan` with the ladder of copy names. A
  fingerprint is the content itself, a set of edits.
- `MutationLedger` extends it with the ledger's transactions: one action per transaction,
  reopening included.
- `ConflictResolution` extends that with one note, its base, local and remote content, the
  feed, and the driver. The driver is not in the repository: it is modelled as the
  contracts of the two libraries and their tests ask (look, claim, register, open a
  batch, claim, apply under the revision guard, verify, record, commit). Its claims about
  content are arbitrary; its claims of a rename or move (`Honest`) are of unedited notes,
  see C15 in section 4, and a claim that both sides made the same rename or move is of
  equal contents. Proofs in `ConflictResolutionProofs`.

Files and sessions:

- `VaultMutation`: plan, execute, retry and resume of moves, case renames, trash and
  restore; the journal's writes, renames and syncs; the vault's primitives, each a
  check, a rename, a sync and a verification under the mutation lock. `disk` and
  `flushed` are what a power failure leaves of `vault` and `journal`. The `decide_recovery` table is `Decide`.
  Proofs in `VaultMutationProofs`.
- `DurableIntent`: the abstract specification of the journal's promise, six sets of
  operations. `VaultMutation` instantiates it with its durable state
  (`DurableInOrder == Promise!Spec`) and is proved to implement it.
- `Snapshots`: publication, retention plan, quarantine runs (plan, receipts, detach,
  delete, completion record, clean-up) and their recovery, one action per file
  operation, under the store's lock. Proofs in `SnapshotsProofs`.
- `AppSession`: the active session, the picker with its watcher, reads that hold a session
  by value, the guarded save that holds the session's read lock; the replacement of a
  note with its revision checks and its snapshot.
- `NoteEditor` extends it with the editor: a handler runs to its next `await` in one step,
  replies arrive in any order, and the user types in between. Proofs of both in
  `NoteEditorProofs`.

The `MC` modules give TLC the symmetry sets and the constant functions. The modules
with state of their own give a type invariant (`TypeOK`; `IncrementalTypeOK` in `IncrementalSync`) for the
reader. They are part of what is proved.

Abstractions worth knowing. In `InitialSync` and `IncrementalSync` a Changes token is the
value of the provider's change counter; a page token of a listing is the set of children
already listed; a name is the item's id, so a path is a sequence of ids. Renames,
duplicate names in one folder and portable-path collisions are therefore not in them (the
code answers each with a rescan or an abandoned page, which are). A folder's move reports
one change; trashing a folder reports everything below it. A Changes page is cut anywhere.

In `TransferLedger` the executor is open: before the gate any outcome, after it completion
or reconciliation only. Rows are registered with time 0, as every caller does. The claim
order is left open since ids are hashes. `Crash` is a process crash or any error that ends
the run, the overflow of MAX_INCREMENTAL_PAGES included.

`TransferExecution` restates the rows without their times (`due`, `later`) and adds
`attempt_count` as "was counted once" (`retried`). A stage is absent, short, of full
length but wrong, exact, or exact and linked to its object; a vault file is `halfway`
while its temporary file still links to it. The Drive creates a file when a session has
all its bytes, whether or not the answer arrives. A page that changes a mirrored file, or
has a name twice, leaves the module (`run = "outside"`). `RecordedOnBothSides`
(`exact_base_match`) is translated but does not arise: `commit_transfer_change_batch`
refuses every batch with a download, as docs/sync/R3_ACCEPTANCE.md says it should (the
doc comment on the function still says that such a page commits).

`VaultMutation`: the renames of one disk reach it in order; journal and vault may be on
different disks. `Snapshots`: nobody else touches the private directories.
`NoteEditor`: state set by a handler is rendered before the next handler runs, and a read
whose request number was passed is forgotten at once. `SyncRuntime`: what the detached
store does is the subject of the other modules, here it succeeds or fails; status and
preview are one action.

## 3. Runs

| Run | Shows | Bounds |
|---|---|---|
| `initial_sync` | `ReadyMirrorIsExact`, `ReadyMirrorHasNoOrphans`, `PathsFollowParents`, `CursorLeavesByRescan`, and `EventuallyReady`, through edits, expired tokens, lost answers and rescans | 2 folders, 1 file, 2 edits, a frontier of 2: a move under the listing, a nested folder trashed across a page boundary, a folder too wide for the frontier |
| `incremental_sync` | `BatchHoldsItsCursor`, `KnownEntriesAreExact`, `KnownItemsStayPut` | 2 folders, 1 file, 3 edits shared by the scan and the run; proved for all sizes |
| `transfer_ledger` | `RunningIsOwned`, `LedgerAgrees`, `OutcomeIsAccepted`, `ClaimedOncePerDrain`, `UpdatedNeverGoesBack`, `BatchDownloadsFinish` | 1 upload, 1 download, clock 0..2 in any direction, 2 claims per drain (so the limit is met); the safety part is proved for all sizes |
| `transfer_execution` | `MarkedOnce`, `BaseIsDurable`, `BaseMatchesRemote`, `EvidenceIsKept`, `UploadsAreRetried` | 1 upload, 3 file ids (a duplicate and a foreign file exist together), 1 path, 2 contents, 3 failures, 1 edit: a lost answer, a crash and another failure on the way |
| `vault_mutation` | `TopologyIsRecoverable`, `ContentsAreKept`, `MovedOnce`, `DurableInOrder` | 2 threads, 2 operations, 2 spellings of one name and another name, 2 contents, 1 crash, power failure or failed sync, 1 edit: two calls of one operation, or a restore of what the other trashes |
| `vault_mutation_live` | `StartedIsFinished` | the same with 1 thread |
| `snapshots` | `GoneForAReason`, `CapacityIsAchieved`, `DeletionConverges` | 3 snapshots of 2 notes, 2 runs, 2 times, 2 candidates and a budget that each cut a plan short, 1 cut |
| `markdown_merge` | `MergeIsSymmetric`, `EveryEditIsMerged` | every base of up to 2 lines and one of 3, all pairs of sides of up to 3 lines over fence, blank and word, mixed terminators, a byte order mark, texts over the limits |
| `conflict_resolution` | `AppliedOnce`, `CursorIsEarned`, `EditsSurvive` | one local and one remote edit that may come and go, 2 remote changes, 1 local change, 2 plans, 2 copy names, 1 crash, six kinds of claim of both tables |
| `sync_runtime` | `MarkerHasAnOwner`, `BoundAccountIsUsed`, `StoreIsOpenOnce` | 3 threads, 4 commands, 3 sessions over 2 vaults (there and back), 2 accounts, both platforms |
| `note_editor` | `WrittenWhereTyped`, `CleanMeansSaved`, `LeaseHolds`, `ReplacedIsRecoverable`, `RefreshKeepsTyping` | 2 vaults with the same 2 paths, 2 contents, 2 sessions, 2 edits, 1 write by another program, 2 reads |
| `note_editor_typed` (violation) | `TypedTextIsKept`, section 4 | the same without symmetry |

`ReadyMirrorIsExact` speaks only of items unchanged since the cursor: a later change is
what the cursor will deliver. `KnownEntriesAreExact` carries it over to incremental runs,
for what the mirror knows; it speaks of parents and revisions, since paths may be wrong
(`SettledPathsAreExact`, section 4). `MarkedOnce` excepts files that another client moved out of the folder,
where the marker query does not see them and the code intends a second file.
`MergeIsSymmetric` compares the merge with the one of the swapped sides (when both sides
are refused by the parser each merge names the side it saw first);
`EveryEditIsMerged` compares it with a reference definition that knows nothing of
cursors and boundaries. `DeletionConverges` leaves out a run whose completion record was
torn. `CapacityIsAchieved` is the comment on `capacity_proven`.

Deadlock is checked in `initial_sync`, `transfer_ledger` and `transfer_execution`. The
others may rest: `IncrementalSync` with a batch whose downloads belong to the ledger, the
merge after its answer, the rest when nobody calls and the bounds are used up.

Fairness is what the scheduling gives, and the environment (edits, crashes, expiry,
failures) has none.

- `InitialSync`: every step is a user's request, so fetching is weakly fair; since any
  call may fail, applying an answer is strongly fair only (the provider does not fail
  every time). `EventuallyReady` assumes that tokens stop expiring, and excludes a scan
  left with a folder that moved or is too wide, which are stuck (section 4).
- `TransferLedger`: a run takes some next step (weakly fair); the user keeps starting runs
  and the clock is not stuck before the due times, and none of the steps a download needs
  (requeue, claim, gate, completion) fails each time it is tried (strongly fair). Failures
  and crashes are never required to stop otherwise.
- `TransferExecution`: a run goes on and runs are repeated (weak fairness of the one actor)
  and delays end. `UploadsAreRetried` leaves out what section 4 shows to be stuck.
- `VaultMutation` (`LiveSpec`): a thread takes its next step, and every operation in the
  journal is resumed again and again, as the start-up recovery does.
- `Snapshots`: an operation goes on, and a deletion that was cut is asked for again.

## 4. Disagreements between documents and code

`note_editor_typed` is a run of its own: docs/demo/PHASE1_HARDENING_ACCEPTANCE.md:52 says
that dirty buffers are never auto-replaced. `openNote` looks at the phase before it asks
for the note; the reply is checked for its request number and session only, so text typed
into the old note in between is replaced and never saved.

The claims below are stated in the modules and are not runs; TLC refutes each when it
takes the place of the properties of the configuration named (for
`MovedContentIsMirrored` without its SYMMETRY line).

| Claim | Configuration | The document says | The code does |
|---|---|---|---|
| `FolderMoveForcesRescan` | `MCInitialSync` | docs/sync/RESULTS.md: remote moves force a full rescan | a folder that moved under the listing and reappears makes `validate_scan_page_children` refuse the page, for ever |
| `SettledPathsAreExact` | `MCIncrementalSync` with 3 folders, no files, 3 edits, a frontier of 3, CanExpire FALSE | the comment on `resolve_change_below_root` (client.rs:341): ancestry that is not exact is refused; docs/sync/RESULTS.md:54: remote moves force a rescan | every hop of the walk is a call of its own (client.rs:385): when two folders above a new folder move between two hops, or one moves and moves back, the joined path is one the item never had. The folders' own changes come later, each agrees with its own entry or finds none, and the cursor passes them without a rescan |
| `MovedContentIsMirrored` | `MCIncrementalSync` | the same, and the comment in `client.rs` that a folder upsert needs a fresh scan | a folder moved in from outside is upserted without being listed; its unchanged content stays unknown |
| `SameBytesAreANoOp` | `MCTransferExecution` | docs/sync/R2_ACCEPTANCE.md: existing same-byte targets are verified no-ops | an upload cut off inside `publish_base` leaves its object with two links, and the download of the same bytes fails on them in every run |
| `CreatedFileCompletes` | `MCTransferExecution` | the comment in `execute_download`: a file an earlier attempt created is proved again and completes | a file whose temporary link was not removed is refused by every read; a download that no batch declared is not queued again once its file exists |
| `TrashResumes` | `MCVaultMutationLive` | the tests in `trash_service.rs` (101, 137): a trash operation resumes from the journal or any later phase | a crash between making the staging directory and its manifest (vault.rs:2703) leaves a directory that every resume refuses |
| `FrontmatterIsTheChangedOne` | `MCMarkdownMerge` | docs/sync/R3_2_CONFLICT_MECHANICS.md:107: a frontmatter changed on one side only is that side's | frontmatters are compared before the merge (markdown.rs:243) but the lines are merged without regard to the fences: a rule `---` added to one side's body may be aligned with a fence, and the merged frontmatter is neither side's. It needs an alignment that the diff library is free, not bound, to choose |
| `DeletionIsPlanned` | `MCConflictResolution` | docs/sync/R3_CONTRACTS.md:90 (C09): the remote bytes of a note deleted here are preserved locally | the classifier wants a local revision (classifier.rs:829); with no local source the materializer wants none (materialization.rs:519): no claim passes both |
| `MergeIsRecordable` | `MCConflictResolution` | docs/sync/R3_2_STEP6_EVIDENCE.md:37: a merge publication makes the round trip through intent, state and evidence | the observed digest has to equal the expected local and the expected remote one (store.rs:4562-4577), which differ in a merge |

Noted while modelling, without a property:

- The classifier accepts C15 (`LocalMoveRemoteEdited`, classifier.rs:1210) although the note
  was edited here too; the remote content would replace the edit.
- A conflict id leaves revisions out, the intent's fingerprint has them: a second plan of
  the same conflict fails closed, as R3_1_DURABLE_EVIDENCE_CONTRACT.md:137 documents. The
  plan of C12 never materializes; the no-op of C29 is unreachable for a publication here.
- When one side removes only the final newline and the other blanks the last line, the
  merged text ends in a newline.
- A failed save whose reply arrives after another vault was chosen leaves the editor in
  "error" with no note open, and opening or choosing is refused until a restart. A change
  report consumed while a save is in flight, or a refresh answered late, can leave a clean
  editor with old text until the next report. Two concurrent folder choices could leave
  the watcher on another session; the interface allows one at a time.
- On Android a list, bind or run that ends after a disconnect sets the authorization
  again (docs/sync/R1_ACCEPTANCE.md:94), and the account is kept when the vault changes; the
  interface lets one command run at a time.

## 5. Proofs

All theorems hold for any sets of threads, items, operations, names and contents and any
bounds, from the assumptions named in the modules: ids of different kinds are distinct
and bounds are naturals. `VaultMutation` assumes more: there are finitely many names and
operations (`FiniteAssumption`; `ContentsAreKept` counts copies), and a note is never
called like a temporary file or a trash payload (`SlotsAssumption`; the first is named by a
fresh operation id, the second is below `.trash`, which is not content).
`Snapshots` assumes finitely many snapshots and runs (`FiniteAssumption`; the policy counts and
adds them). `ConflictResolution` assumes that an edit is made in one place (`AtomsAssumption`): an edit of
this device is not one that the other devices also make, or that was there at the start.
`MarkdownMerge` assumes that the lines of a version are a list (`TextsAssumption`).

Each component has one inductive invariant. TLC checked each of them under the
configuration of its component before it was proved.

`SyncProofs`, the initial synchronisation: `SyncInv`. `ReadyMirrorIsExact` alone is not inductive, because it
says nothing before Ready. The strengthening says what each phase has achieved:
`UnchangedIsMirrored` (while listing and draining, an item unchanged since the start
token is mirrored as it is or waits in the frontier, below a folder not fully listed),
`ListingIsSound` and `RemovalsAreSound` (what an answer in flight still guarantees although
the Drive moved since), `DrainedIsGone` (what the drain has passed is trashed and not
mirrored; orphans are below changes still to come), `PhaseFitsColumns` and `FrontierRows`
(columns per phase). The longest step is `ApplyScanPreserves`: frontier, mirror and phase
change together. From it: `ReadyMirrorCorrect`, `ListingCorrect`, `TypeCorrect`, and
`CursorCorrect` as an action property.

`SyncProofs`, the guarded run: `RunInv`. `SyncInv` does not outlive the first run, whose paths and
orphans are no longer those of a listing, so `RunInv` asks for it only while the store lists
and drains (`ScanFits`), and the steps of the initial synchronisation reuse its proof. The
core is `PageFits`: a fetched page holds every change between the cursor and its token, each
as it still is unless it changed again after the token, and what has been resolved agrees
with the page and with the mirror. It is what makes storing the batch keep
`KnownEntriesAreExact` and `KnownItemsStayPut` although nothing was locked while the
ancestry was read. `BatchFits` and `WalkFits` tie batch and walk to cursor and page.

`TransferLedgerProofs`, `LedgerInv`, adds `TimesAreOrdered` (a claimable row was not updated
after its next attempt, an executing one not after the cutoff) to `RunningIsOwned`,
`LedgerAgrees` and `ClaimedOncePerDrain`. It is what makes the time checks of the store
pass: `OutcomesAccepted`. `RowStep` says what any step does to one row and gives the action
properties `TimesCorrect` and `CompletionCorrect`.

`TransferExecutionProofs`, `ExecInv`. `MarkedOnce` needs `NoneIsMissed`: at the steps from
which an upload may still create a file, every file that carries its marker was moved by
another client. The marker query establishes it, and nothing but the upload's own session
makes a marked file. `BaseMatchesRemote` needs `FoundFits` (the file that was verified has
the upload's content while its revision is the one seen) and `MirrorFits` (the same of a
mirrored file for a download); `BaseIsDurable` needs `StageFits` (a stage that is being
unlinked has its object). `OpFits` and `RevsFit` say who executes and that revisions come
from the edits so far. `EvidenceIsKept` follows as an action property.

`SyncRuntimeProofs`, `RuntimeInv`. `MarkerHasAnOwner` as it stands forgets who the owner is.
`MarkerIsOwned` says that a command that took the store left the runtime without one, so
with a store in place only a disconnect can own the marker: that is why a disconnect that
clears the marker under a run does not let a second store be opened
(`StoreIsOpenOnce`). `CommandsFit` carries the account and token that were captured before
the network call to the step that uses them, which gives `BoundAccountIsUsed`.

`VaultMutationProofs`, `MutationInv`. It has three parts. What a thread found before it took
or while it held the lock: `CallsFit`, `LockIsHeld`, `CheckedHolds`. Who may begin:
`FreshIsFirst` (only the call that recorded the intent makes the first rename, after the
intent is durable, and nobody else does). What is on the disk, said of the volatile and of
the durable state alike so that a power failure keeps it: `DurableFollows`, `Explained`
(every file on its way has a durable intent or a manifest) and `Closed` (where a file was
moved from, nothing is left and nothing can be put there by the service). `Closed` is what
`MovedOnce` needs, `Explained` and `DurableFollows` are what the refinement needs.
`DurableInOrderHolds` shows that every step, a crash and a power failure too, is a step of
`DurableIntent` or a stutter. What follows from the
promise alone is then brought back to the service: `PromiseKept` (what a caller was told has
a durable tombstone and a file durably in place; every durably moved file is explained by an
intent or a manifest) and `DurableForGood` (nothing durable is taken back).

`TopologyInv` extends it by what an operation leaves at its paths when nobody disturbs it.
`FilesFit` says how far a move, case rename, trash or restore is, of the vault and of the disk,
so that a power failure may pick either; `FoundFits` carries what a check found to the rename
(a case rename parks only when its other name is free, an item is published only when its
payload is durable); `PlansFit` and `ItemsFit` tie a restore to the trash it undoes, whose
calls may still be under way or be resumed; `UntouchedFits` is where the first plan starts. A
restore stays recoverable although the publication of its item may be taken back, because the
payload was durable before the item was published. From it: `TopologyIsRecoverable`.

`NoteEditorProofs`, `EditorInv`, of the editor and the application service together. Every
text has a home, the note it was typed into; `DiskFits`, `SaveIsTyped`, `ReadsFit` and
`UiFits` say that disk, save in flight, replies and buffer agree with it across sessions
that come and go, which is `WrittenWhereTyped`. `SaveIsChecked` says what the revision
checks and the snapshot of a save still mean at its rename, which gives
`ReplacedIsRecoverable`. `LeaseHolds` and `CleanMeansSaved` are inductive with these.

`ConflictResolutionProofs`, `ResolutionInv`. An operation id has the contents of the three
sides and the outcome and leaves the revisions out, so a later plan may find its
operations in the ledger already. `IntentFits` says what the id fixes of an intent, and
`RowFits` what the phase of a row says of the world: a publication completes only when the
remote content arrived in the vault, a merge only when it equals the remote side, and a base
is claimed only after its publication completed. So a replay of a completed row claims
nothing that did not arrive, and `BatchFits` and `CursorFits` carry that to the cursor:
`CursorIsEarned`. `TodoFits` and `AppliedFits` (a claimed operation is running and has had no
effect until it is done) give `AppliedOnce`. `PlanFits` and `WorldFits` say what is still
true of the note when a plan is applied late, which with the revision guard of a
publication gives `EditsSurvive`. The attempt showed that `CursorIsEarned` needs a
`SameExactMove` to be claimed of equal contents only: `classify_conflict` looks at no
content in these cells, so it is the caller who has to know.

The same module proves the two properties of `MarkdownMerge`, for texts of any length, any
limits and any alignment (`Increasing` is all that is used of it). `MergeInv` is small: the
versions are given ones and the outcome is the function of them and of the pairing. The
rest is about the operators. `DiffIsScript`: the runs between paired lines are edits with a
kept line between any two. `ScriptsCombine`: when `combine_edits` refuses nothing, the edits
of both sides are apart and each starts at a place of its own. So they have one order
(`SortedIsUnique`), the stable sort cannot depend on whose edits came first, and
`MergeIsSymmetric` follows from the symmetry of the overlap test and of the three-way
choices. `EveryEditIsMerged` compares two folds, `apply_edits` over the edits and
`FlattenSeq` over the lines of the base. `ApplyEditsUnrolls` and `FlattenUnrolls` give both
as lists of partial results; `BeforeTheFirst`, `FromOneToTheNext` and `RestIsCopied` show
that the second, read at the start of an edit, is what the first has there
(`EveryEditIsReached`). Each of these is an induction, written as in `SnapshotsProofs`: of
the places where the statement is wrong take the least one (`LeastNatural`). On the way
`ScriptsFit`: `apply_edits` has no script to refuse, only the renderer gives
`InvalidEditScript`.

`SnapshotsProofs`, `SnapshotsInv`. `GoneForAReason` alone is not inductive: the deletion of an
item has to know that what it deletes was planned, and a plan that it was selected for a
reason. `PlansHaveReasons` and `ChosenHaveReasons` say so of the plans in the runs, of the plan
in a work directory and of what a deletion has still to delete; `PublishedOnce` that a plan is
made among published snapshots. That suffices because a reason holds for good (`ReasonGrows`): time
passes, and more snapshots are newer. Two of the three reasons need arithmetic over sets.
For the sum of the sizes, which is a recursive fold, the proof takes a smallest set for which
the statement is wrong (`SmallestSubset`, from the well-founded order of finite subsets): the
induction theorems themselves take an operator and cannot be used. So the fold exists, is a
number, splits at any element and grows with its set. `CapacityIsAchieved` follows from the same
lemmas: the oldest snapshot that a plan leaves bounds the bytes of all that are left, and the
oldest of a lineage their number; a selection within `MaxCandidates` is taken whole. What the
scan inspects within its budget is left open in the proofs.

Only model-checked:

- the liveness properties (`EventuallyReady`, `BatchDownloadsFinish`, `UploadsAreRetried`,
  `StartedIsFinished`, `DeletionConverges`): fairness and ENABLED are out of the prover's reach.

Every other property that a passing run checks is a theorem.

## 6. Not modelled, and the plan

Not modelled:

- The Android transfer runtime, the SAF plugin and the private root: the desktop executor
  again over a document provider whose guarantees are those of its Kotlin side.
- Desktop authorisation (loopback flow, token store): `SyncRuntime` has the device's account
  change by itself.
- The generic job queue and generic change batch: no caller outside tests.
- Path validation and normalisation (strings), listing and reading of notes, the checks on
  symbolic links and directory identity, platform wrappers, the index and watcher caches,
  the sync panel, `drive-sync-spike`.
- In `TransferExecution`: empty files, the observed-file branch of uploads, a second revision
  of a mirrored file.

Next, in this order:

1. A pass of the transfer executor over a document provider: the Android runtime restates
   `TransferExecution` with guarantees of its own.
2. Once the code handles them, `MovedContentIsMirrored`, `CreatedFileCompletes` and
   `TrashResumes` (section 4) as invariants of the runs, with their proofs.
