----------------------------- MODULE InitialSync -----------------------------
(***************************************************************************)
(* The initial synchronisation of a vault with its bound Drive folder:     *)
(* `advance_initial_sync` of myvault-sync-engine (lib.rs), the SyncStore   *)
(* transactions it drives (store.rs), and the read-only Drive client       *)
(* behind it (myvault-drive, client.rs).                                   *)
(*                                                                         *)
(* A Changes token is captured, the folder tree is listed page by page     *)
(* while other clients keep editing it, the changes since the token are    *)
(* drained, and the store becomes Ready with a mirror (`remote_entries`)   *)
(* and a durable cursor.  Every call is two steps here, the provider's     *)
(* answer and the transaction that applies it, because the Drive moves in  *)
(* between and the process may die in between.                             *)
(*                                                                         *)
(* A name is the item's id, a path the sequence of ids below the root, a   *)
(* page token of a listing the set of children already listed ({} for      *)
(* NULL), and a Changes token the value of the provider's change counter.  *)
(***************************************************************************)
EXTENDS Naturals, Sequences, FiniteSets

CONSTANTS Folders,      \* ids of the folders that may appear below the root
          Files,        \* ids of the files
          Root,         \* the bound root folder
          Gone,         \* the place of an item that is trashed or deleted
          Outside,      \* the place of an item moved out of the bound root
          None,         \* SQL NULL
          MaxClock,     \* bound: how many edits other Drive clients make
          MaxFrontier,  \* MAX_SCAN_FRONTIER_FOLDERS
          CanExpire     \* whether the provider may expire a Changes token

Items == Folders \cup Files
Containers == Folders \cup {Root}
Places == Containers \cup {Outside, Gone}

ASSUME ItemsAssumption ==
  /\ Folders \cap Files = {}
  /\ Root \notin Items
  /\ {Gone, Outside} \cap (Items \cup {Root}) = {}
  /\ Gone # Outside
ASSUME NoneAssumption ==
  /\ None \notin Nat
  /\ None \notin [parent : Containers, path : Seq(Items), rev : Nat]
ASSUME BoundsAssumption ==
  /\ MaxClock \in Nat
  /\ MaxFrontier \in Nat
  /\ CanExpire \in BOOLEAN

VARIABLES
  place,              \* Drive: the parent of every item, Outside or Gone
  rev,                \* Drive: the revision of every item
  stamp,              \* Drive: the change counter at an item's last change
  clock,              \* Drive: the change counter
  account,            \* vault_state: "unbound", "legacy" (root only), "bound"
  phase,              \* vault_state.phase
  start_token,        \* vault_state.start_token
  scan_page_token,    \* vault_state.scan_page_token
  changes_page_token, \* vault_state.changes_page_token
  durable_cursor,     \* vault_state.durable_cursor
  rescan_required,    \* vault_state.rescan_required
  scan_frontier,      \* the table of folders still to list, in order
  remote_entries,     \* the mirror: an entry or None for every item
  answer              \* the provider's answer that is not applied yet

drive == <<place, rev, stamp, clock>>
tokens == <<start_token, scan_page_token, changes_page_token, durable_cursor>>
store == <<account, phase, tokens, rescan_required, scan_frontier, remote_entries>>
vars == <<drive, store, answer>>

RemoteEntry == [parent : Containers, path : Seq(Items), rev : Nat]
FrontierRow == [folder : Containers, path : Seq(Items), token : SUBSET Items]
ScanAnswer(S) == [kind : {"scan"}, entries : [S -> Nat], next : SUBSET Items]
ChangesAnswer == [kind : {"changes"}, removed : SUBSET Items, upper : Nat, final : BOOLEAN]
StartAnswer == [kind : {"start"}, token : Nat]
ErrorAnswer == [kind : {"rescan"}]
NoAnswer == [kind |-> "none"]

TypeOK ==
  /\ place \in [Items -> Places]
  /\ rev \in [Items -> Nat]
  /\ stamp \in [Items -> Nat]
  /\ clock \in Nat
  /\ account \in {"unbound", "legacy", "bound"}
  /\ phase \in {"need_start_token", "scanning", "draining", "ready"}
  /\ start_token \in Nat \cup {None}
  /\ scan_page_token \in SUBSET Items
  /\ changes_page_token \in Nat \cup {None}
  /\ durable_cursor \in Nat \cup {None}
  /\ rescan_required \in BOOLEAN
  /\ scan_frontier \in Seq(FrontierRow)
  /\ remote_entries \in [Items -> RemoteEntry \cup {None}]
  /\ \/ answer \in ChangesAnswer \cup StartAnswer \cup ErrorAnswer \cup {NoAnswer}
     \/ \E S \in SUBSET Items : answer \in ScanAnswer(S)

-----------------------------------------------------------------------------
(* The provider: what other clients do to the tree below the root. *)

\* The item and everything below it: the least set closed under parenthood.
Below(i) ==
  {j \in Items : \A S \in SUBSET Items :
     (i \in S /\ \A k \in Items : place[k] \in S => k \in S) => j \in S}

Live(c) == c \in Items => place[c] # Gone

\* Every item of S reports a change: the counter advances and stamps them.
Stamp(S) ==
  /\ clock < MaxClock
  /\ clock' = clock + 1
  /\ stamp' = [i \in Items |-> IF i \in S THEN clock + 1 ELSE stamp[i]]

DriveEdit(i) ==
  /\ i \in Files
  /\ place[i] # Gone
  /\ Stamp({i})
  /\ rev' = [rev EXCEPT ![i] = @ + 1]
  /\ UNCHANGED <<place, store, answer>>

\* An upload, a restore from the trash, or the creation of a folder.
DriveCreate(i, c) ==
  /\ place[i] = Gone
  /\ c \in Containers
  /\ Live(c) /\ c # i
  /\ Stamp({i})
  /\ rev' = [rev EXCEPT ![i] = @ + 1]
  /\ place' = [place EXCEPT ![i] = c]
  /\ UNCHANGED <<store, answer>>

\* A move within the root, into it, or out of it. Only the item itself reports
\* a change; what is below it keeps its parent.
DriveMove(i, c) ==
  /\ place[i] # Gone
  /\ c \in Containers \cup {Outside}
  /\ Live(c) /\ c \notin Below(i) /\ c # place[i]
  /\ Stamp({i})
  /\ place' = [place EXCEPT ![i] = c]
  /\ UNCHANGED <<rev, store, answer>>

\* Trashing a folder trashes, and reports, everything below it.
DriveTrash(i) ==
  /\ place[i] # Gone
  /\ Stamp(Below(i))
  /\ place' = [j \in Items |-> IF j \in Below(i) THEN Gone ELSE place[j]]
  /\ UNCHANGED <<rev, store, answer>>

-----------------------------------------------------------------------------
(* Binding the vault to an exact account and root. *)

Init ==
  /\ place \in [Items -> Places]
  /\ \A i \in Items : Live(place[i]) /\ place[i] \notin Below(i)
  /\ rev = [i \in Items |-> 0]
  /\ stamp = [i \in Items |-> 0]
  /\ clock = 0
  /\ account \in {"unbound", "legacy"}
  /\ phase = "need_start_token"
  /\ start_token = None
  /\ scan_page_token = {}
  /\ changes_page_token = None
  /\ durable_cursor = None
  /\ rescan_required = (account = "legacy")
  /\ scan_frontier = <<>>
  /\ remote_entries = [i \in Items |-> None]
  /\ answer = NoAnswer

\* A first binding, or the confirmation of a root bound before accounts were
\* recorded. Binding the same pair again, or another one, changes nothing.
BindRemoteRoot ==
  /\ account # "bound"
  /\ account' = "bound"
  /\ phase' = "need_start_token"
  /\ start_token' = None
  /\ scan_page_token' = {}
  /\ changes_page_token' = None
  /\ durable_cursor' = None
  /\ rescan_required' = (account = "legacy")
  /\ scan_frontier' = <<>>
  /\ UNCHANGED <<drive, remote_entries, answer>>

-----------------------------------------------------------------------------
(* The three phases of advance_initial_sync. *)

FetchStartToken ==
  /\ account = "bound" /\ answer = NoAnswer
  /\ phase = "need_start_token"
  /\ answer' = [kind |-> "start", token |-> clock]
  /\ UNCHANGED <<drive, store>>

BeginInitialScan ==
  /\ answer.kind = "start"
  /\ remote_entries' = [i \in Items |-> None]
  /\ scan_frontier' = <<[folder |-> Root, path |-> <<>>, token |-> {}]>>
  /\ phase' = "scanning"
  /\ start_token' = answer.token
  /\ scan_page_token' = {}
  /\ changes_page_token' = None
  /\ durable_cursor' = None
  /\ rescan_required' = FALSE
  /\ answer' = NoAnswer
  /\ UNCHANGED <<drive, account>>

\* What scan_request asks for: the folder at the head of the frontier.
HeadRow == scan_frontier[1]
Unlisted == {i \in Items : place[i] = HeadRow.folder} \ HeadRow.token

\* A page maps some of the children not listed yet to their revisions; only
\* the page that holds all of them is the last one.
FetchScanPage ==
  /\ account = "bound" /\ answer = NoAnswer
  /\ phase = "scanning"
  /\ scan_frontier # <<>>
  /\ scan_page_token = HeadRow.token
  /\ \E page \in SUBSET Unlisted :
       /\ page = {} => Unlisted = {}
       /\ answer' = [kind |-> "scan",
                     entries |-> [i \in page |-> rev[i]],
                     next |-> IF page = Unlisted THEN {} ELSE HeadRow.token \cup page]
  /\ UNCHANGED <<drive, store>>

\* The orders in which a page may list the folders of S.
Orders(S) ==
  {o \in UNION {[1 .. n -> S] : n \in 0 .. MaxFrontier} :
     /\ \A c \in S : \E n \in DOMAIN o : o[n] = c
     /\ \A m, n \in DOMAIN o : o[m] = o[n] => m = n}

ChildPath(row, i) == Append(row.path, i)

\* Variant: a file the mirror already holds is refused as well.
PageIsFreshOfFiles(page) == \A i \in DOMAIN page : remote_entries[i] = None

\* validate_scan_page_children: a folder that the mirror already holds is
\* refused, wherever the mirror saw it.
PageIsFresh(page) == \A c \in Folders \cap DOMAIN page : remote_entries[c] = None

\* Variant: ON CONFLICT updates the parent and the revision but not the path.
UpsertedKeepingPath(page) ==
  [i \in Items |->
     IF i \notin DOMAIN page THEN remote_entries[i]
     ELSE [parent |-> HeadRow.folder, rev |-> page[i],
           path |-> IF remote_entries[i] = None THEN ChildPath(HeadRow, i)
                    ELSE remote_entries[i].path]]

\* upsert_remote_entry for every entry of the page.
Upserted(page) ==
  [i \in Items |->
     IF i \in DOMAIN page
     THEN [parent |-> HeadRow.folder, path |-> ChildPath(HeadRow, i), rev |-> page[i]]
     ELSE remote_entries[i]]

\* Variant: a page too wide for the frontier is truncated, not refused.
ChildRowsUpToLimit(order) ==
  [n \in {m \in DOMAIN order : Len(scan_frontier) + m <= MaxFrontier} |->
     [folder |-> order[n], path |-> ChildPath(HeadRow, order[n]), token |-> {}]]

\* enqueue_child_folders: one row per folder of the page, after the others.
ChildRows(order) ==
  [n \in DOMAIN order |->
     [folder |-> order[n], path |-> ChildPath(HeadRow, order[n]), token |-> {}]]

\* The head folder keeps its row until its last page.
AfterPage(rows, next) ==
  IF next # {} THEN [rows EXCEPT ![1].token = next] ELSE Tail(rows)

ApplyScanPage ==
  /\ answer.kind = "scan"
  /\ PageIsFresh(answer.entries)
  /\ \E order \in Orders(Folders \cap DOMAIN answer.entries) :
       LET rows == scan_frontier \o ChildRows(order)
           rest == AfterPage(rows, answer.next)
       IN  /\ Len(rows) <= MaxFrontier
           /\ scan_frontier' = rest
           /\ IF rest = <<>>
              THEN /\ phase' = "draining"
                   /\ scan_page_token' = {}
                   /\ changes_page_token' = start_token
              ELSE /\ scan_page_token' = rest[1].token
                   /\ UNCHANGED <<phase, changes_page_token>>
  /\ remote_entries' = Upserted(answer.entries)
  /\ answer' = NoAnswer
  /\ UNCHANGED <<drive, account, start_token, durable_cursor, rescan_required>>

\* InvalidRemoteEntry: the transaction rolls back and the page is fetched again.
RejectScanPage ==
  /\ answer.kind = "scan"
  /\ \/ ~PageIsFresh(answer.entries)
     \/ \A order \in Orders(Folders \cap DOMAIN answer.entries) :
          Len(scan_frontier) + Len(order) > MaxFrontier
  /\ answer' = NoAnswer
  /\ UNCHANGED <<drive, store>>

Changed(token, upper) == {i \in Items : token < stamp[i] /\ stamp[i] <= upper}

\* Variant: only the change of a folder makes the cursor ambiguous.
AmbiguousFolders(changed) == \E i \in changed \cap Folders : place[i] # Gone

\* A change that is not a removal carries no path the mirror could be given.
Ambiguous(changed) == \E i \in changed : place[i] # Gone

\* changes_page of the DriveClient: a page of removals, or the cursor_ambiguous
\* error.
FetchChangesPage ==
  /\ account = "bound" /\ answer = NoAnswer
  /\ phase = "draining"
  /\ \E upper \in changes_page_token .. clock :
       LET changed == Changed(changes_page_token, upper)
       IN  /\ upper = changes_page_token => upper = clock
           /\ answer' = IF Ambiguous(changed)
                        THEN [kind |-> "rescan"]
                        ELSE [kind |-> "changes", removed |-> changed,
                              upper |-> upper, final |-> upper = clock]
  /\ UNCHANGED <<drive, store>>

\* HTTP 410: the provider no longer knows the token.
ExpireChangesToken ==
  /\ CanExpire
  /\ account = "bound" /\ answer = NoAnswer
  /\ phase = "draining"
  /\ answer' = [kind |-> "rescan"]
  /\ UNCHANGED <<drive, store>>

\* Variant: only the folders of the page are deleted.
WithoutRemovedFolders(removed) ==
  [i \in Items |-> IF i \in removed \cap Folders THEN None ELSE remote_entries[i]]

WithoutRemoved(removed) ==
  [i \in Items |-> IF i \in removed THEN None ELSE remote_entries[i]]

ApplyChangesPage ==
  /\ answer.kind = "changes"
  /\ remote_entries' = WithoutRemoved(answer.removed)
  /\ IF answer.final
     THEN /\ phase' = "ready"
          /\ start_token' = None
          /\ scan_page_token' = {}
          /\ changes_page_token' = None
          /\ durable_cursor' = answer.upper
     ELSE /\ changes_page_token' = answer.upper
          /\ UNCHANGED <<phase, start_token, scan_page_token, durable_cursor>>
  /\ answer' = NoAnswer
  /\ UNCHANGED <<drive, account, rescan_required, scan_frontier>>

\* Variant: the cursors go but the flag is not raised.
RescanWithoutFlag ==
  /\ scan_frontier' = <<>>
  /\ phase' = "need_start_token"
  /\ start_token' = None
  /\ scan_page_token' = {}
  /\ changes_page_token' = None
  /\ durable_cursor' = None
  /\ UNCHANGED <<drive, account, remote_entries, rescan_required>>

\* mark_rescan_required: every cursor goes, the mirror stays as a stale preview.
RescanRequired ==
  /\ scan_frontier' = <<>>
  /\ phase' = "need_start_token"
  /\ start_token' = None
  /\ scan_page_token' = {}
  /\ changes_page_token' = None
  /\ durable_cursor' = None
  /\ rescan_required' = TRUE
  /\ UNCHANGED <<drive, account, remote_entries>>

MarkRescanRequired ==
  /\ answer.kind = "rescan"
  /\ RescanRequired
  /\ answer' = NoAnswer

\* The incremental run of a Ready store gives its cursor up when a change since
\* the cursor cannot be applied exactly, or when the provider expired it.
IncrementalRescan ==
  /\ phase = "ready"
  /\ CanExpire \/ \E i \in Items : stamp[i] > durable_cursor
  /\ RescanRequired
  /\ UNCHANGED answer

\* A crash, a timeout or a failed call: the answer is lost, and what was
\* committed before it is all that remains.
LoseAnswer ==
  /\ answer # NoAnswer
  /\ answer' = NoAnswer
  /\ UNCHANGED <<drive, store>>

-----------------------------------------------------------------------------
DriveNext ==
  \E i \in Items :
    \/ DriveEdit(i)
    \/ DriveTrash(i)
    \/ \E c \in Places : DriveCreate(i, c) \/ DriveMove(i, c)

SyncNext ==
  \/ BindRemoteRoot
  \/ FetchStartToken \/ BeginInitialScan
  \/ FetchScanPage \/ ApplyScanPage \/ RejectScanPage
  \/ FetchChangesPage \/ ExpireChangesToken \/ ApplyChangesPage
  \/ MarkRescanRequired
  \/ LoseAnswer

Next == DriveNext \/ SyncNext \/ IncrementalRescan

Spec == Init /\ [][Next]_vars

\* The user keeps asking for the next step, and the provider does not fail
\* every call of one kind.
Fairness ==
  /\ WF_vars(BindRemoteRoot) /\ WF_vars(RejectScanPage)
  /\ WF_vars(FetchStartToken) /\ WF_vars(FetchScanPage) /\ WF_vars(FetchChangesPage)
  /\ SF_vars(BeginInitialScan)
  /\ SF_vars(ApplyScanPage)
  /\ SF_vars(ApplyChangesPage)
  /\ SF_vars(MarkRescanRequired)

FairSpec == Spec /\ Fairness

-----------------------------------------------------------------------------
(* Properties. *)

Mirrored(c) == c = Root \/ (c \in Items /\ remote_entries[c] # None)

\* When the store is Ready, every item that has not changed since the durable
\* cursor is mirrored exactly as the Drive holds it: an entry names the parent
\* and the revision the item has, and a child of the root or of a mirrored
\* folder has an entry. This is what taking the Changes token before the scan
\* and draining it afterwards is for (lib.rs, advance_initial_sync): no edit
\* made while the pages were being listed is lost or half seen.
ReadyMirrorIsExact ==
  phase = "ready" =>
    \A i \in Items : stamp[i] <= durable_cursor =>
      /\ remote_entries[i] # None =>
           /\ remote_entries[i].parent = place[i]
           /\ remote_entries[i].rev = rev[i]
      /\ Mirrored(place[i]) => remote_entries[i] # None

\* When the store is Ready no entry hangs below a folder the drain removed:
\* apply_changes_page deletes one id at a time, across pages and restarts.
ReadyMirrorHasNoOrphans ==
  phase = "ready" =>
    \A i \in Items : remote_entries[i] # None => Mirrored(remote_entries[i].parent)

\* An entry's path is always its parent entry's path and its own name, although
\* both were built from pages fetched at different times: no path mixes the
\* place a folder had with the place it moved to.
PathsFollowParents ==
  \A i \in Items : remote_entries[i] # None =>
    LET p == remote_entries[i].parent
    IN  /\ p = Root => remote_entries[i].path = <<i>>
        /\ (p # Root /\ remote_entries[p] # None) =>
             remote_entries[i].path = Append(remote_entries[p].path, i)

\* A folder is listed once per scan: no row of the frontier repeats, and every
\* row but the root's is a folder the mirror already holds at the same path.
FrontierIsDistinct ==
  /\ \A m, n \in DOMAIN scan_frontier :
       scan_frontier[m].folder = scan_frontier[n].folder => m = n
  /\ \A n \in DOMAIN scan_frontier : scan_frontier[n].folder # Root =>
       /\ remote_entries[scan_frontier[n].folder] # None
       /\ remote_entries[scan_frontier[n].folder].path = scan_frontier[n].path

\* The initial synchronisation gives up a committed cursor only by asking for a
\* rescan, and never trades it for another one: the cursor a Ready store serves
\* stays put until mark_rescan_required clears it with the flag raised.
CursorLeavesByRescan ==
  [][durable_cursor # None => \/ durable_cursor' = durable_cursor
                              \/ durable_cursor' = None /\ rescan_required']_vars

(* The inductive invariant behind the first four properties. *)

Orphan(i) == remote_entries[i] # None /\ ~Mirrored(remote_entries[i].parent)

\* Folders that hold something are not trashed, and no stamp is in the future.
DriveIsConsistent ==
  \A i \in Items : stamp[i] <= clock /\ Live(place[i])

\* Which columns are set in which phase, and which answer can be in flight.
PhaseFitsColumns ==
  /\ (phase # "need_start_token" \/ answer # NoAnswer) => account = "bound"
  /\ phase # "scanning" => scan_frontier = <<>>
  /\ phase = "scanning" => scan_frontier # <<>>
  /\ phase \in {"scanning", "draining"} => start_token \in 0 .. clock
  /\ phase = "draining" => changes_page_token \in start_token .. clock
  /\ phase = "ready" => durable_cursor \in 0 .. clock /\ answer = NoAnswer
  /\ phase # "ready" => durable_cursor = None
  /\ answer.kind = "start" => phase = "need_start_token" /\ answer.token \in 0 .. clock
  /\ answer.kind = "scan" => phase = "scanning"
  /\ answer.kind \in {"changes", "rescan"} => phase = "draining"

\* The root's row has the empty path, only the head row may be half listed.
FrontierRows ==
  \A n \in DOMAIN scan_frontier :
    /\ scan_frontier[n].folder = Root => scan_frontier[n].path = <<>>
    /\ n # 1 => scan_frontier[n].token = {}

\* While the tree is listed and drained, an item that has not changed since the
\* start token is mirrored as it is, or is still to be listed.
UnchangedIsMirrored ==
  phase \in {"scanning", "draining"} =>
    \A i \in Items : stamp[i] <= start_token =>
      /\ remote_entries[i] # None =>
           /\ remote_entries[i].parent = place[i]
           /\ remote_entries[i].rev = rev[i]
      /\ Mirrored(place[i]) =>
           \/ remote_entries[i] # None
           \/ \E n \in DOMAIN scan_frontier :
                /\ scan_frontier[n].folder = place[i]
                /\ i \notin scan_frontier[n].token

\* A listing in flight shows the unchanged children of the head folder as they
\* are, and the last page leaves none of them out.
ListingIsSound ==
  answer.kind = "scan" =>
    /\ answer.next \subseteq HeadRow.token \cup DOMAIN answer.entries
    /\ \A i \in Items : stamp[i] <= start_token =>
         /\ i \in DOMAIN answer.entries =>
              place[i] = HeadRow.folder /\ rev[i] = answer.entries[i]
         /\ (answer.next = {} /\ place[i] = HeadRow.folder) =>
              i \in HeadRow.token \cup DOMAIN answer.entries

\* A listing leaves no orphan; a drain leaves only orphans still to be drained,
\* and what it has drained is trashed and not mirrored.
DrainedIsGone ==
  /\ phase = "scanning" => \A i \in Items : ~Orphan(i)
  /\ phase = "draining" => \A i \in Items :
       /\ Orphan(i) => changes_page_token < stamp[i]
       /\ (start_token < stamp[i] /\ stamp[i] <= changes_page_token) =>
            place[i] = Gone /\ remote_entries[i] = None

\* A page of removals in flight holds every change up to its upper bound, and
\* leaves no orphan that a later page will not remove.
RemovalsAreSound ==
  answer.kind = "changes" =>
    /\ answer.upper \in changes_page_token .. clock
    /\ \A i \in Items :
         /\ i \in answer.removed => changes_page_token < stamp[i]
         /\ (changes_page_token < stamp[i] /\ stamp[i] <= answer.upper) =>
              i \in answer.removed /\ place[i] = Gone
         /\ (/\ remote_entries[i] # None /\ i \notin answer.removed
             /\ \/ Orphan(i)
                \/ remote_entries[i].parent \in answer.removed) =>
              ~answer.final /\ answer.upper < stamp[i]

SyncInv ==
  /\ TypeOK
  /\ DriveIsConsistent
  /\ PhaseFitsColumns
  /\ FrontierRows
  /\ FrontierIsDistinct
  /\ PathsFollowParents
  /\ UnchangedIsMirrored
  /\ ListingIsSound
  /\ DrainedIsGone
  /\ RemovalsAreSound
  /\ ReadyMirrorIsExact
  /\ ReadyMirrorHasNoOrphans

-----------------------------------------------------------------------------
\* A folder has another place than the one the running scan mirrored.
FolderMoved ==
  phase = "scanning" /\ \E c \in Folders :
    /\ remote_entries[c] # None
    /\ place[c] \notin {Gone, remote_entries[c].parent}

\* The provider forgets a token no edit has made useless.
Expires ==
  \/ ExpireChangesToken
  \/ IncrementalRescan /\ \A i \in Items : stamp[i] <= durable_cursor

\* The folder being listed has more folders than the frontier has room for.
TooWide ==
  phase = "scanning" /\
    Len(scan_frontier) + Cardinality({c \in Folders : /\ place[c] = HeadRow.folder
                                                      /\ remote_entries[c] = None})
      > MaxFrontier

\* Once the other clients stop editing and the provider stops expiring tokens,
\* repeating advance_initial_sync brings the store to Ready and leaves it there,
\* through lost answers, crashes and rescans, unless the scan is left with a
\* folder that moved under it or that is too wide for the frontier.
EventuallyReady ==
  (<>[]~(FolderMoved \/ TooWide) /\ <>[][~Expires]_vars) => <>[](phase = "ready")

\* What the documentation says of moves, and TLC refutes: a folder that moves
\* while the tree is being listed makes the store give the scan up, by finishing
\* it and draining the move into a rescan.
FolderMoveForcesRescan == FolderMoved ~> (phase # "scanning")

=============================================================================
