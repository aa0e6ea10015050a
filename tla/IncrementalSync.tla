--------------------------- MODULE IncrementalSync ---------------------------
(***************************************************************************)
(* The metadata half of a guarded run (sync_run_guarded, sync_commands.rs) *)
(* on a store that the initial synchronisation made Ready:                 *)
(* prepare_incremental_change_batch fetches a page of changes from the     *)
(* durable cursor, walks the ancestry of every changed item with one Drive *)
(* call per folder (resolve_change_below_root, client.rs), and stores      *)
(* either the request for a rescan or a durable batch; the batch moves the *)
(* cursor when it commits (store.rs).                                      *)
(*                                                                         *)
(* Other clients edit the tree between any two calls, and the run may die  *)
(* after any of them.  A batch that declared downloads is refused by       *)
(* commit_transfer_change_batch; what its downloads do is TransferLedger's *)
(* subject, and here such a batch stays.                                   *)
(***************************************************************************)
EXTENDS InitialSync

VARIABLES
  batch,  \* change_batch: the cursor it moves from, the one it moves to, and
          \* the files whose downloads it declared; or None
  page,   \* the fetched page: its next token, the changes as fetched, those
          \* not resolved yet, and the entries resolved so far; or None
  walk    \* the ancestry walk: the changed item, its path so far, and the
          \* folder to look up next; or None

run == <<batch, page, walk>>
incrementalVars == <<vars, run>>

RawChange == [parent : Places, rev : Nat]
Batch == [expected : Nat, next : Nat, downloads : SUBSET Files]
PageOf(S, T) == [next : Nat, raw : [S -> RawChange], todo : SUBSET S, resolved : [T -> RemoteEntry]]
Walk == [item : Items, path : Seq(Items), at : Places]

\* No row is not a row.
ASSUME BatchAssumption == None \notin Batch

IncrementalTypeOK ==
  /\ TypeOK
  /\ batch \in Batch \cup {None}
  /\ \/ page = None
     \/ \E S \in SUBSET Items : \E T \in SUBSET S : page \in PageOf(S, T)
  /\ walk \in Walk \cup {None}

IncrementalInit == Init /\ batch = None /\ page = None /\ walk = None

-----------------------------------------------------------------------------
(* prepare_incremental_change_batch. *)

\* Variant: an active batch does not keep a run from fetching the next page.
RunMayStartDuringBatch == phase = "ready" /\ ~rescan_required /\ page = None

RunMayStart == phase = "ready" /\ ~rescan_required /\ batch = None /\ page = None

\* A page of the changes since the cursor, each with the parent and the revision
\* the item has now.
FetchIncrementalPage ==
  /\ RunMayStart
  /\ \E upper \in durable_cursor .. clock :
       LET changed == Changed(durable_cursor, upper)
       IN  /\ upper = durable_cursor => upper = clock
           /\ page' = [next |-> upper,
                       raw |-> [i \in changed |-> [parent |-> place[i], rev |-> rev[i]]],
                       todo |-> changed,
                       resolved |-> [i \in {} |-> None]]
  /\ UNCHANGED <<vars, batch, walk>>

\* The page is given up and the store asks for a rescan.
RescanFromRun ==
  /\ RescanRequired
  /\ page' = None
  /\ walk' = None
  /\ UNCHANGED <<answer, batch>>

ExpireDurableCursor ==
  /\ CanExpire
  /\ RunMayStart
  /\ RescanFromRun

\* The change at hand needs no entry: the loop goes on with the next one.
SkipChange(i) ==
  /\ page' = [page EXCEPT !.todo = @ \ {i}]
  /\ walk' = None
  /\ UNCHANGED <<vars, batch>>

\* Variant: an item that left is dropped whether or not the mirror holds it.
LeaveQuietly(i) == SkipChange(i)

\* The item is not below the root any more: a known one forces the rescan.
Leave(i) ==
  IF remote_entries[i] # None THEN RescanFromRun ELSE SkipChange(i)

\* A removed or trashed item.
ResolveRemoved(i) ==
  /\ page # None /\ walk = None
  /\ i \in page.todo
  /\ page.raw[i].parent = Gone
  /\ Leave(i)

BeginWalk(i) ==
  /\ page # None /\ walk = None
  /\ i \in page.todo
  /\ page.raw[i].parent # Gone
  /\ walk' = [item |-> i, path |-> <<i>>, at |-> page.raw[i].parent]
  /\ UNCHANGED <<vars, batch, page>>

\* One call of file_metadata: the folder's parent as it is at this moment. A
\* trashed folder, or one the walk has met already, makes the cursor ambiguous.
WalkUp ==
  /\ walk # None
  /\ walk.at \in Folders
  /\ IF walk.at \in {walk.path[n] : n \in DOMAIN walk.path} \/ place[walk.at] = Gone
     THEN RescanFromRun
     ELSE /\ walk' = [walk EXCEPT !.path = <<walk.at>> \o @, !.at = place[walk.at]]
          /\ UNCHANGED <<vars, batch, page>>

\* The walk left the bound root: the same as a removal.
ResolveOutside ==
  /\ walk # None
  /\ walk.at = Outside
  /\ Leave(walk.item)

\* Variant: only a file's move is noticed.
MovedFile(i, entry) ==
  /\ i \in Files
  /\ remote_entries[i] # None
  /\ \/ remote_entries[i].parent # entry.parent
     \/ remote_entries[i].path # entry.path

\* A known item must keep its parent and its path.
Moved(i, entry) ==
  /\ remote_entries[i] # None
  /\ \/ remote_entries[i].parent # entry.parent
     \/ remote_entries[i].path # entry.path

ResolveInside ==
  /\ walk # None
  /\ walk.at = Root
  /\ LET i == walk.item
         entry == [parent |-> page.raw[i].parent, path |-> walk.path, rev |-> page.raw[i].rev]
     IN  IF Moved(i, entry)
         THEN RescanFromRun
         ELSE /\ page' = [page EXCEPT
                            !.todo = @ \ {i},
                            !.resolved = [j \in DOMAIN @ \cup {i} |->
                                            IF j = i THEN entry ELSE @[j]]]
              /\ walk' = None
              /\ UNCHANGED <<vars, batch>>

\* validate_resolved_transfer_changes: a file the mirror does not hold, or holds
\* at another revision, is downloaded.
Downloads ==
  {i \in Files \cap DOMAIN page.resolved :
     remote_entries[i] = None \/ remote_entries[i].rev # page.resolved[i].rev}

\* begin_transfer_change_batch: the entries and the batch in one transaction.
BeginTransferChangeBatch ==
  /\ page # None /\ page.todo = {}
  /\ phase = "ready" /\ batch = None
  /\ batch' = [expected |-> durable_cursor, next |-> page.next, downloads |-> Downloads]
  /\ remote_entries' =
       [i \in Items |-> IF i \in DOMAIN page.resolved THEN page.resolved[i]
                        ELSE remote_entries[i]]
  /\ page' = None
  /\ UNCHANGED <<drive, account, phase, tokens, rescan_required, scan_frontier, answer, walk>>

\* commit_transfer_change_batch: only a page of metadata moves the cursor.
CommitTransferChangeBatch ==
  /\ batch # None
  /\ batch.downloads = {}
  /\ phase = "ready" /\ durable_cursor = batch.expected
  /\ durable_cursor' = batch.next
  /\ batch' = None
  /\ UNCHANGED <<drive, account, phase, start_token, scan_page_token, changes_page_token,
                 rescan_required, scan_frontier, remote_entries, answer, page, walk>>

\* Any other error, or a crash: local bytes that diverged from their base, a
\* portable path collision, a failed call. Nothing of the page was stored.
AbandonPage ==
  /\ page # None
  /\ page' = None
  /\ walk' = None
  /\ UNCHANGED <<vars, batch>>

-----------------------------------------------------------------------------
RunNext ==
  \/ FetchIncrementalPage \/ ExpireDurableCursor
  \/ \E i \in Items : ResolveRemoved(i) \/ BeginWalk(i)
  \/ WalkUp \/ ResolveOutside \/ ResolveInside
  \/ BeginTransferChangeBatch \/ CommitTransferChangeBatch
  \/ AbandonPage

IncrementalNext == ((DriveNext \/ SyncNext) /\ UNCHANGED run) \/ RunNext

IncrementalSpec == IncrementalInit /\ [][IncrementalNext]_incrementalVars

-----------------------------------------------------------------------------
(* Properties. *)

\* The change the mirror reflects: the batch's when one is active, since its
\* entries are stored with it.
Position == IF batch # None THEN batch.next ELSE durable_cursor

\* A batch is only ever active in a Ready store that still has the cursor the
\* batch starts from: no rescan, crash or second run takes the cursor away from
\* under it, so the commit never meets a CursorMismatch.
BatchHoldsItsCursor ==
  batch # None => phase = "ready" /\ durable_cursor = batch.expected /\ ~rescan_required

\* An entry of a Ready store whose item has not changed since the cursor has the
\* parent and the revision the item has, although the page, the ancestry and the
\* batch were read and stored at different moments.
KnownEntriesAreExact ==
  phase = "ready" =>
    \A i \in Items : (remote_entries[i] # None /\ stamp[i] <= Position) =>
      remote_entries[i].parent = place[i] /\ remote_entries[i].rev = rev[i]

\* An incremental run never moves, renames or drops an item that the mirror of a
\* Ready store holds, although the batch stores what was compared with the mirror
\* some calls earlier: for that it gives up the cursor and asks for a rescan.
KnownItemsStayPut ==
  [][(phase = "ready" /\ phase' = "ready") =>
       \A i \in Items : remote_entries[i] # None =>
         /\ remote_entries'[i] # None
         /\ remote_entries'[i].parent = remote_entries[i].parent
         /\ remote_entries'[i].path = remote_entries[i].path]_incrementalVars

StalePath(i) ==
  LET entry == remote_entries[i]
  IN  /\ entry # None
      /\ entry.parent \in Folders
      /\ remote_entries[entry.parent] # None
      /\ entry.path # Append(remote_entries[entry.parent].path, i)

\* What the comment on resolve_change_below_root says of the ancestry, and TLC
\* refutes: a path that was not read exactly is never stored.  Once the cursor has
\* reached the last change, every path extends the path of its parent's entry.
SettledPathsAreExact ==
  (phase = "ready" /\ batch = None /\ durable_cursor = clock) =>
    \A i \in Items : ~StalePath(i)

\* What the documentation says of moves, and TLC refutes: whatever is below the bound root when
\* the cursor passes is in the mirror or is announced by a change still to come.
MovedContentIsMirrored ==
  (phase = "ready" /\ batch = None) =>
    \A i \in Items : (stamp[i] <= durable_cursor /\ Mirrored(place[i])) =>
      remote_entries[i] # None

=============================================================================
