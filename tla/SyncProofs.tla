------------------------------ MODULE SyncProofs ------------------------------
(***************************************************************************)
(* Proofs about InitialSync and IncrementalSync, for every set of folders  *)
(* and files, any number of edits and every frontier limit.                *)
(*                                                                         *)
(* First the initial synchronisation: SyncInv is inductive, and the safety *)
(* properties of its run follow.  Then the runs of a Ready store: a batch  *)
(* keeps its cursor, a known entry is exact up to the cursor, and only a   *)
(* rescan moves or drops one.  RunInv is inductive.  While the tree is     *)
(* listed and drained it says what SyncInv says; SyncInv itself does not   *)
(* outlive the first run, whose paths and orphans are not those of a       *)
(* listing.                                                                *)
(***************************************************************************)
EXTENDS IncrementalSync, TLAPS

-----------------------------------------------------------------------------
(* The provider. *)

\* What trashing a folder trashes: the folder, and with an item all that it
\* holds.
LEMMA BelowIsClosed ==
  ASSUME NEW i \in Items
  PROVE  /\ i \in Below(i)
         /\ Below(i) \subseteq Items
         /\ \A k \in Items : place[k] \in Below(i) => k \in Below(i)
  BY DEF Below

\* What any edit by another client does: the store is not touched, and an item
\* keeps its place and its revision unless the edit stamps it with a new counter.
Edited ==
  /\ UNCHANGED <<store, answer>>
  /\ clock' = clock + 1
  /\ \A i \in Items :
       \/ stamp'[i] = clock + 1
       \/ stamp'[i] = stamp[i] /\ place'[i] = place[i] /\ rev'[i] = rev[i]

\* What every edit by another client does to the provider: it stamps what it
\* changes with a new change number and leaves the store alone.
LEMMA EditStep ==
  ASSUME TypeOK, DriveIsConsistent, DriveNext
  PROVE  /\ Edited
         /\ place' \in [Items -> Places]
         /\ rev' \in [Items -> Nat]
         /\ stamp' \in [Items -> Nat]
         /\ clock' \in Nat
         /\ DriveIsConsistent'
<1> USE DEF TypeOK, DriveIsConsistent, Stamp, Live
<1>1. ASSUME NEW i \in Items, DriveEdit(i)
      PROVE  /\ Edited
             /\ place' \in [Items -> Places] /\ rev' \in [Items -> Nat]
             /\ stamp' \in [Items -> Nat] /\ clock' \in Nat
             /\ DriveIsConsistent'
  BY <1>1 DEF DriveEdit, Edited
<1>2. ASSUME NEW i \in Items, DriveTrash(i)
      PROVE  /\ Edited
             /\ place' \in [Items -> Places] /\ rev' \in [Items -> Nat]
             /\ stamp' \in [Items -> Nat] /\ clock' \in Nat
             /\ DriveIsConsistent'
  <2>1. /\ Edited
        /\ place' \in [Items -> Places] /\ rev' \in [Items -> Nat]
        /\ stamp' \in [Items -> Nat] /\ clock' \in Nat
    BY <1>2 DEF DriveTrash, Edited, Places
  <2>2. \A k \in Items : place'[k] \in Items => place'[place'[k]] # Gone
    BY <1>2, BelowIsClosed, ItemsAssumption DEF DriveTrash
  <2> QED
    BY <1>2, <2>1, <2>2 DEF DriveTrash
<1>3. ASSUME NEW i \in Items, NEW c \in Places, DriveCreate(i, c)
      PROVE  /\ Edited
             /\ place' \in [Items -> Places] /\ rev' \in [Items -> Nat]
             /\ stamp' \in [Items -> Nat] /\ clock' \in Nat
             /\ DriveIsConsistent'
  BY <1>3, ItemsAssumption DEF DriveCreate, Edited, Places, Containers, Items
<1>4. ASSUME NEW i \in Items, NEW c \in Places, DriveMove(i, c)
      PROVE  /\ Edited
             /\ place' \in [Items -> Places] /\ rev' \in [Items -> Nat]
             /\ stamp' \in [Items -> Nat] /\ clock' \in Nat
             /\ DriveIsConsistent'
  BY <1>4, ItemsAssumption DEF DriveMove, Edited, Places, Containers, Items
<1> QED
  BY <1>1, <1>2, <1>3, <1>4 DEF DriveNext

\* No edit by another client, at any moment of the scan or of the drain, breaks
\* the invariant.
LEMMA EditPreserves ==
  ASSUME SyncInv, DriveNext
  PROVE  SyncInv'
<1> USE DEF SyncInv
<1>1. /\ Edited
      /\ place' \in [Items -> Places]
      /\ rev' \in [Items -> Nat]
      /\ stamp' \in [Items -> Nat]
      /\ clock' \in Nat
      /\ DriveIsConsistent'
  BY EditStep
<1>2. UNCHANGED <<account, phase, start_token, scan_page_token, changes_page_token,
                  durable_cursor, rescan_required, scan_frontier, remote_entries, answer>>
  BY <1>1 DEF Edited, store, tokens
<1>3. TypeOK'
  BY <1>1, <1>2 DEF TypeOK
<1>4. /\ clock \in Nat /\ clock' = clock + 1
      /\ \A i \in Items : stamp[i] \in Nat
      /\ \A i \in Items :
           \/ stamp'[i] = clock + 1
           \/ stamp'[i] = stamp[i] /\ place'[i] = place[i] /\ rev'[i] = rev[i]
      /\ phase \in {"scanning", "draining"} => start_token \in 0 .. clock
      /\ phase = "draining" => changes_page_token \in start_token .. clock
      /\ phase = "ready" => durable_cursor \in 0 .. clock
      /\ answer.kind = "scan" => phase = "scanning"
      /\ answer.kind = "changes" => phase = "draining"
  BY <1>1 DEF Edited, TypeOK, PhaseFitsColumns
<1>12. PhaseFitsColumns'
  BY <1>2, <1>4 DEF PhaseFitsColumns, NoAnswer
<1>5. FrontierRows' /\ FrontierIsDistinct' /\ PathsFollowParents'
  BY <1>2 DEF FrontierRows, FrontierIsDistinct, PathsFollowParents
<1>6. UnchangedIsMirrored'
  BY <1>2, <1>4 DEF UnchangedIsMirrored, Mirrored
<1>7. ListingIsSound'
  BY <1>2, <1>4 DEF ListingIsSound, HeadRow
<1>8. DrainedIsGone'
  BY <1>2, <1>4 DEF DrainedIsGone, Orphan, Mirrored
<1>9. RemovalsAreSound'
  BY <1>2, <1>4 DEF RemovalsAreSound, Orphan, Mirrored
<1>10. ReadyMirrorIsExact' /\ ReadyMirrorHasNoOrphans'
  BY <1>2, <1>4 DEF ReadyMirrorIsExact, ReadyMirrorHasNoOrphans, Mirrored
<1> QED
  BY <1>1, <1>3, <1>5, <1>6, <1>7, <1>8, <1>9, <1>10, <1>12

-----------------------------------------------------------------------------
(* The steps of the store that leave the mirror alone or clear it. *)

\* A store that was just created or migrated satisfies the invariant.
LEMMA InitHasInv == Init => SyncInv
<1> SUFFICES ASSUME Init PROVE SyncInv
  OBVIOUS
<1>1. TypeOK
  BY DEF Init, TypeOK, NoAnswer
<1>2. DriveIsConsistent
  BY DEF Init, DriveIsConsistent
<1>3. PhaseFitsColumns /\ FrontierRows /\ FrontierIsDistinct
  BY DEF Init, PhaseFitsColumns, FrontierRows, FrontierIsDistinct, NoAnswer
<1>4. PathsFollowParents /\ UnchangedIsMirrored /\ ListingIsSound /\ DrainedIsGone
  BY DEF Init, PathsFollowParents, UnchangedIsMirrored, ListingIsSound, DrainedIsGone, NoAnswer
<1>5. RemovalsAreSound /\ ReadyMirrorIsExact /\ ReadyMirrorHasNoOrphans
  BY DEF Init, RemovalsAreSound, ReadyMirrorIsExact, ReadyMirrorHasNoOrphans, NoAnswer
<1> QED
  BY <1>1, <1>2, <1>3, <1>4, <1>5 DEF SyncInv

\* Losing the answer in flight, by a crash or by a rejected page, is harmless.
LEMMA LosePreserves ==
  ASSUME SyncInv, answer' = NoAnswer, UNCHANGED <<drive, store>>
  PROVE  SyncInv'
<1>1. UNCHANGED <<place, rev, stamp, clock, account, phase, start_token, scan_page_token,
                  changes_page_token, durable_cursor, rescan_required, scan_frontier,
                  remote_entries>>
  BY DEF drive, store, tokens
<1>2. TypeOK' /\ DriveIsConsistent' /\ PhaseFitsColumns'
  BY <1>1 DEF SyncInv, TypeOK, DriveIsConsistent, PhaseFitsColumns, NoAnswer, Live
<1>3. FrontierRows' /\ FrontierIsDistinct' /\ PathsFollowParents'
  BY <1>1 DEF SyncInv, FrontierRows, FrontierIsDistinct, PathsFollowParents
<1>4. UnchangedIsMirrored' /\ DrainedIsGone'
  BY <1>1 DEF SyncInv, UnchangedIsMirrored, DrainedIsGone, Orphan, Mirrored
<1>5. ListingIsSound' /\ RemovalsAreSound'
  BY DEF ListingIsSound, RemovalsAreSound, NoAnswer
<1>6. ReadyMirrorIsExact' /\ ReadyMirrorHasNoOrphans'
  BY <1>1 DEF SyncInv, ReadyMirrorIsExact, ReadyMirrorHasNoOrphans, Mirrored
<1> QED
  BY <1>2, <1>3, <1>4, <1>5, <1>6 DEF SyncInv

\* Going back to the first phase keeps the mirror only as a preview.
LEMMA ResetPreserves ==
  ASSUME SyncInv, answer' = NoAnswer, UNCHANGED <<drive, remote_entries>>,
         account' \in {"unbound", "legacy", "bound"}, rescan_required' \in BOOLEAN,
         phase' = "need_start_token", start_token' = None, scan_page_token' = {},
         changes_page_token' = None, durable_cursor' = None, scan_frontier' = <<>>
  PROVE  SyncInv'
<1>1. UNCHANGED <<place, rev, stamp, clock, remote_entries>>
  BY DEF drive
<1>2. TypeOK' /\ DriveIsConsistent' /\ PhaseFitsColumns'
  BY <1>1 DEF SyncInv, TypeOK, DriveIsConsistent, PhaseFitsColumns, NoAnswer, Live
<1>3. FrontierRows' /\ FrontierIsDistinct' /\ PathsFollowParents'
  BY <1>1 DEF SyncInv, FrontierRows, FrontierIsDistinct, PathsFollowParents
<1>4. UnchangedIsMirrored' /\ DrainedIsGone' /\ ReadyMirrorIsExact' /\ ReadyMirrorHasNoOrphans'
  BY DEF UnchangedIsMirrored, DrainedIsGone, ReadyMirrorIsExact, ReadyMirrorHasNoOrphans
<1>5. ListingIsSound' /\ RemovalsAreSound'
  BY DEF ListingIsSound, RemovalsAreSound, NoAnswer
<1> QED
  BY <1>2, <1>3, <1>4, <1>5 DEF SyncInv

\* bind_remote_root preserves the invariant.
LEMMA BindPreserves ==
  ASSUME SyncInv, BindRemoteRoot
  PROVE  SyncInv'
<1>1. answer' = NoAnswer
  BY DEF BindRemoteRoot, SyncInv, PhaseFitsColumns
<1> QED
  BY <1>1, ResetPreserves DEF BindRemoteRoot

\* mark_rescan_required preserves the invariant, whoever calls it.
LEMMA RescanPreserves ==
  ASSUME SyncInv, MarkRescanRequired \/ IncrementalRescan
  PROVE  SyncInv'
<1>1. answer' = NoAnswer /\ account' \in {"unbound", "legacy", "bound"}
  BY DEF MarkRescanRequired, IncrementalRescan, RescanRequired, SyncInv, PhaseFitsColumns, TypeOK
<1> QED
  BY <1>1, ResetPreserves DEF MarkRescanRequired, IncrementalRescan, RescanRequired

\* begin_initial_scan establishes the invariant, whatever mirror there was: the
\* mirror is emptied and the token is not later than any change still to come.
LEMMA BeginPreserves ==
  ASSUME TypeOK, DriveIsConsistent, PhaseFitsColumns, BeginInitialScan
  PROVE  SyncInv'
<1> USE DEF BeginInitialScan
<1>1. UNCHANGED <<place, rev, stamp, clock, account>>
  BY DEF drive
<1>2. /\ remote_entries' = [i \in Items |-> None]
      /\ scan_frontier' = <<[folder |-> Root, path |-> <<>>, token |-> {}]>>
      /\ phase' = "scanning" /\ start_token' \in 0 .. clock
      /\ clock \in Nat /\ account = "bound" /\ answer' = NoAnswer
  BY DEF PhaseFitsColumns, TypeOK, NoAnswer
<1>3. TypeOK'
  <2>1. [folder |-> Root, path |-> <<>>, token |-> {}] \in FrontierRow
    BY DEF FrontierRow, Containers
  <2>2. scan_frontier' \in Seq(FrontierRow)
    BY <1>2, <2>1
  <2>3. remote_entries' \in [Items -> RemoteEntry \cup {None}] /\ start_token' \in Nat
    BY <1>2
  <2> QED
    BY <1>1, <1>2, <2>2, <2>3 DEF TypeOK, NoAnswer
<1>4. DriveIsConsistent' /\ PhaseFitsColumns'
  BY <1>1, <1>2 DEF DriveIsConsistent, PhaseFitsColumns, NoAnswer, Live
<1>5. FrontierRows' /\ FrontierIsDistinct'
  BY <1>2 DEF FrontierRows, FrontierIsDistinct
<1>6. PathsFollowParents' /\ DrainedIsGone' /\ ReadyMirrorIsExact' /\ ReadyMirrorHasNoOrphans'
  BY <1>2 DEF PathsFollowParents, DrainedIsGone, Orphan, ReadyMirrorIsExact,
              ReadyMirrorHasNoOrphans
<1>7. UnchangedIsMirrored'
  BY <1>1, <1>2 DEF UnchangedIsMirrored, Mirrored
<1>8. ListingIsSound' /\ RemovalsAreSound'
  BY <1>2 DEF ListingIsSound, RemovalsAreSound, NoAnswer
<1> QED
  BY <1>3, <1>4, <1>5, <1>6, <1>7, <1>8 DEF SyncInv

-----------------------------------------------------------------------------
(* The provider's answers. *)

\* A step that only brings an answer in preserves what is said of the store.
LEMMA FetchFrame ==
  ASSUME SyncInv, UNCHANGED <<drive, store>>
  PROVE  /\ UNCHANGED <<place, rev, stamp, clock, account, phase, start_token,
                        scan_page_token, changes_page_token, durable_cursor,
                        rescan_required, scan_frontier, remote_entries>>
         /\ DriveIsConsistent' /\ FrontierRows' /\ FrontierIsDistinct' /\ PathsFollowParents'
         /\ UnchangedIsMirrored' /\ DrainedIsGone'
         /\ ReadyMirrorIsExact' /\ ReadyMirrorHasNoOrphans'
<1>1. UNCHANGED <<place, rev, stamp, clock, account, phase, start_token, scan_page_token,
                  changes_page_token, durable_cursor, rescan_required, scan_frontier,
                  remote_entries>>
  BY DEF drive, store, tokens
<1>2. DriveIsConsistent' /\ FrontierRows' /\ FrontierIsDistinct' /\ PathsFollowParents'
  BY <1>1 DEF SyncInv, DriveIsConsistent, FrontierRows, FrontierIsDistinct, PathsFollowParents, Live
<1>3. UnchangedIsMirrored' /\ DrainedIsGone'
  BY <1>1 DEF SyncInv, UnchangedIsMirrored, DrainedIsGone, Orphan, Mirrored
<1>4. ReadyMirrorIsExact' /\ ReadyMirrorHasNoOrphans'
  BY <1>1 DEF SyncInv, ReadyMirrorIsExact, ReadyMirrorHasNoOrphans, Mirrored
<1> QED
  BY <1>1, <1>2, <1>3, <1>4

\* Fetching the start token preserves the invariant.
LEMMA FetchStartPreserves ==
  ASSUME SyncInv, FetchStartToken
  PROVE  SyncInv'
<1> USE DEF FetchStartToken
<1>1. answer' = [kind |-> "start", token |-> clock] /\ clock \in Nat
  BY DEF SyncInv, TypeOK
<1>2. answer' \in StartAnswer
  BY <1>1 DEF StartAnswer
<1>3. TypeOK'
  BY <1>2, FetchFrame DEF SyncInv, TypeOK
<1>4. PhaseFitsColumns'
  BY <1>1, FetchFrame DEF SyncInv, PhaseFitsColumns
<1>5. ListingIsSound' /\ RemovalsAreSound'
  BY <1>1 DEF ListingIsSound, RemovalsAreSound
<1> QED
  BY <1>3, <1>4, <1>5, FetchFrame DEF SyncInv

\* A page of a listing, fetched while others edit, preserves the invariant.
LEMMA FetchScanPreserves ==
  ASSUME SyncInv, FetchScanPage
  PROVE  SyncInv'
<1> USE DEF FetchScanPage
<1>1. PICK listed \in SUBSET Unlisted :
        /\ listed = {} => Unlisted = {}
        /\ answer' = [kind |-> "scan",
                      entries |-> [i \in listed |-> rev[i]],
                      next |-> IF listed = Unlisted THEN {} ELSE HeadRow.token \cup listed]
  OBVIOUS
<1>2. HeadRow \in FrontierRow
  BY DEF SyncInv, TypeOK, HeadRow
<1>3. listed \subseteq Items /\ HeadRow.token \subseteq Items /\ rev \in [Items -> Nat]
  BY <1>2 DEF Unlisted, FrontierRow, SyncInv, TypeOK
<1>4. answer' \in ScanAnswer(listed)
  BY <1>1, <1>3 DEF ScanAnswer
<1>5. TypeOK'
  BY <1>3, <1>4, FetchFrame DEF SyncInv, TypeOK
<1>6. PhaseFitsColumns'
  BY <1>1, FetchFrame DEF SyncInv, PhaseFitsColumns
<1>7. ListingIsSound'
  <2>1. HeadRow' = HeadRow
    BY FetchFrame DEF HeadRow
  <2>2. /\ DOMAIN answer'.entries = listed
        /\ \A i \in listed : answer'.entries[i] = rev[i] /\ place[i] = HeadRow.folder
        /\ answer'.next = IF listed = Unlisted THEN {} ELSE HeadRow.token \cup listed
    BY <1>1 DEF Unlisted
  <2>3. answer'.next = {} => listed = Unlisted
    BY <1>1, <2>2
  <2> QED
    BY <2>1, <2>2, <2>3, FetchFrame DEF ListingIsSound, Unlisted
<1>8. RemovalsAreSound'
  BY <1>1 DEF RemovalsAreSound
<1> QED
  BY <1>5, <1>6, <1>7, <1>8, FetchFrame DEF SyncInv

\* An expired or ambiguous cursor preserves the invariant.
LEMMA RescanAnswerPreserves ==
  ASSUME SyncInv, answer' = [kind |-> "rescan"], phase = "draining", account = "bound",
         UNCHANGED <<drive, store>>
  PROVE  SyncInv'
<1>1. answer' \in ErrorAnswer
  BY DEF ErrorAnswer
<1>2. TypeOK' /\ PhaseFitsColumns'
  BY <1>1, FetchFrame DEF SyncInv, TypeOK, PhaseFitsColumns
<1>3. ListingIsSound' /\ RemovalsAreSound'
  BY DEF ListingIsSound, RemovalsAreSound
<1> QED
  BY <1>2, <1>3, FetchFrame DEF SyncInv

\* A page of changes preserves the invariant: it holds every change up to its
\* bound, and all of them are removals.
LEMMA FetchChangesPreserves ==
  ASSUME SyncInv, FetchChangesPage
  PROVE  SyncInv'
<1> USE DEF FetchChangesPage
<1>1. /\ start_token \in Nat /\ changes_page_token \in Nat /\ clock \in Nat
      /\ start_token <= changes_page_token /\ changes_page_token <= clock
      /\ \A i \in Items : stamp[i] \in Nat /\ stamp[i] <= clock
  BY DEF SyncInv, TypeOK, PhaseFitsColumns, DriveIsConsistent
<1>2. PICK upper \in changes_page_token .. clock :
        /\ upper = changes_page_token => upper = clock
        /\ answer' = IF Ambiguous(Changed(changes_page_token, upper))
                     THEN [kind |-> "rescan"]
                     ELSE [kind |-> "changes", removed |-> Changed(changes_page_token, upper),
                           upper |-> upper, final |-> upper = clock]
  OBVIOUS
<1> DEFINE changed == Changed(changes_page_token, upper)
<1>3. CASE Ambiguous(changed)
  BY <1>2, <1>3, RescanAnswerPreserves
<1>4. CASE ~Ambiguous(changed)
  <2>1. answer' = [kind |-> "changes", removed |-> changed,
                   upper |-> upper, final |-> upper = clock]
    BY <1>2, <1>4
  <2>2. answer' \in ChangesAnswer
    BY <1>1, <2>1 DEF ChangesAnswer, Changed
  <2>3. TypeOK' /\ PhaseFitsColumns'
    BY <2>1, <2>2, FetchFrame DEF SyncInv, TypeOK, PhaseFitsColumns
  <2>4. ListingIsSound'
    BY <2>1 DEF ListingIsSound
  <2>5. \A i \in Items : i \in changed <=> changes_page_token < stamp[i] /\ stamp[i] <= upper
    BY DEF Changed
  <2>6. \A i \in changed : place[i] = Gone
    BY <1>4 DEF Ambiguous
  <2>7. ASSUME NEW i \in Items, remote_entries[i] # None, i \notin changed,
               Orphan(i) \/ remote_entries[i].parent \in changed
        PROVE  upper # clock /\ upper < stamp[i]
    <3>1. changes_page_token < stamp[i]
      <4>1. CASE Orphan(i)
        BY <4>1 DEF SyncInv, DrainedIsGone
      <4>2. CASE remote_entries[i].parent \in changed
        <5>1. remote_entries[i].parent # place[i]
          <6>1. changed \subseteq Items
            BY DEF Changed
          <6>2. place[i] \in Items => place[place[i]] # Gone
            BY DEF SyncInv, DriveIsConsistent, Live
          <6> QED
            BY <4>2, <2>6, <6>1, <6>2
        <5>2. start_token < stamp[i]
          BY <1>1, <2>7, <5>1 DEF SyncInv, UnchangedIsMirrored
        <5> QED
          BY <1>1, <2>7, <5>2 DEF SyncInv, DrainedIsGone
      <4> QED
        BY <2>7, <4>1, <4>2
    <3> QED
      BY <1>1, <2>5, <2>7, <3>1
  <2>8. RemovalsAreSound'
    <3>1. /\ answer'.removed = changed /\ answer'.upper = upper
          /\ answer'.final = (upper = clock)
      BY <2>1
    <3>2. \A i \in Items : Orphan(i)' <=> Orphan(i)
      BY FetchFrame DEF Orphan, Mirrored
    <3> HIDE DEF changed
    <3> QED
      BY <1>1, <2>5, <2>6, <2>7, <3>1, <3>2, FetchFrame DEF RemovalsAreSound
  <2> QED
    BY <2>3, <2>4, <2>8, FetchFrame DEF SyncInv
<1> QED
  BY <1>3, <1>4

-----------------------------------------------------------------------------
(* Draining the changes. *)

\* apply_changes_page preserves the invariant, and the final page makes the
\* mirror exact.
LEMMA ApplyChangesPreserves ==
  ASSUME SyncInv, ApplyChangesPage
  PROVE  SyncInv'
<1> USE DEF ApplyChangesPage
<1>1. UNCHANGED <<place, rev, stamp, clock, account, rescan_required, scan_frontier>>
  BY DEF drive
<1>2. /\ answer.kind = "changes" /\ answer' = NoAnswer
      /\ answer.removed \subseteq Items /\ answer.final \in BOOLEAN
  BY DEF SyncInv, TypeOK, ChangesAnswer, StartAnswer, ErrorAnswer, ScanAnswer, NoAnswer
<1>3. /\ phase = "draining" /\ account = "bound" /\ scan_frontier = <<>>
      /\ start_token \in Nat /\ changes_page_token \in Nat /\ clock \in Nat
      /\ answer.upper \in Nat /\ durable_cursor = None
      /\ start_token <= changes_page_token
      /\ changes_page_token <= answer.upper /\ answer.upper <= clock
      /\ \A i \in Items : stamp[i] \in Nat
  BY <1>2 DEF SyncInv, TypeOK, PhaseFitsColumns, RemovalsAreSound
<1>4. /\ remote_entries' \in [Items -> RemoteEntry \cup {None}]
      /\ \A i \in Items : remote_entries'[i] =
           IF i \in answer.removed THEN None ELSE remote_entries[i]
  BY DEF WithoutRemoved, SyncInv, TypeOK
<1>5. \/ /\ answer.final /\ phase' = "ready" /\ start_token' = None /\ scan_page_token' = {}
         /\ changes_page_token' = None /\ durable_cursor' = answer.upper
      \/ /\ ~answer.final /\ changes_page_token' = answer.upper
         /\ UNCHANGED <<phase, start_token, scan_page_token, durable_cursor>>
  OBVIOUS
<1>6. TypeOK'
  BY <1>1, <1>2, <1>3, <1>4, <1>5 DEF SyncInv, TypeOK
<1>7. DriveIsConsistent' /\ FrontierRows' /\ FrontierIsDistinct'
  BY <1>1, <1>3 DEF SyncInv, DriveIsConsistent, FrontierRows, FrontierIsDistinct, Live
<1>8. PhaseFitsColumns'
  BY <1>1, <1>2, <1>3, <1>5 DEF PhaseFitsColumns, NoAnswer
<1>9. PathsFollowParents'
  <2> SUFFICES ASSUME NEW i \in Items, remote_entries'[i] # None
               PROVE  LET p == remote_entries'[i].parent
                      IN  /\ p = Root => remote_entries'[i].path = <<i>>
                          /\ (p # Root /\ remote_entries'[p] # None) =>
                               remote_entries'[i].path = Append(remote_entries'[p].path, i)
    BY DEF PathsFollowParents
  <2>1. remote_entries'[i] = remote_entries[i] /\ remote_entries[i] \in RemoteEntry
    BY <1>4 DEF SyncInv, TypeOK
  <2>2. remote_entries[i].parent # Root => remote_entries[i].parent \in Items
    BY <2>1 DEF RemoteEntry, Containers, Items
  <2> QED
    BY <1>4, <2>1, <2>2 DEF SyncInv, PathsFollowParents
<1>10. ListingIsSound' /\ RemovalsAreSound'
  BY <1>2 DEF ListingIsSound, RemovalsAreSound, NoAnswer
<1>11. \A i \in Items :
         /\ (changes_page_token < stamp[i] /\ stamp[i] <= answer.upper) =>
              i \in answer.removed /\ place[i] = Gone
         /\ i \in answer.removed => changes_page_token < stamp[i]
         /\ (start_token < stamp[i] /\ stamp[i] <= changes_page_token) =>
              place[i] = Gone /\ remote_entries[i] = None
         /\ Orphan(i)' => ~answer.final /\ answer.upper < stamp[i]
  <2>1. ASSUME NEW i \in Items, Orphan(i)'
        PROVE  ~answer.final /\ answer.upper < stamp[i]
    <3>1. remote_entries[i] # None /\ i \notin answer.removed
      BY <1>4, <2>1 DEF Orphan
    <3>2. Orphan(i) \/ remote_entries[i].parent \in answer.removed
      BY <1>4, <2>1, <3>1 DEF Orphan, Mirrored
    <3> QED
      BY <1>2, <3>1, <3>2 DEF SyncInv, RemovalsAreSound
  <2> QED
    BY <1>2, <1>3, <2>1 DEF SyncInv, RemovalsAreSound, DrainedIsGone
<1>12. \A i \in Items : stamp[i] <= start_token =>
         /\ remote_entries'[i] = remote_entries[i]
         /\ remote_entries[i] # None =>
              remote_entries[i].parent = place[i] /\ remote_entries[i].rev = rev[i]
         /\ Mirrored(place[i]) => remote_entries[i] # None
  BY <1>3, <1>4, <1>11 DEF SyncInv, UnchangedIsMirrored
<1>13. \A c \in Places : Mirrored(c)' => Mirrored(c)
  BY <1>4 DEF Mirrored
<1>14. \A i \in Items : place[i] \in Places
  BY DEF SyncInv, TypeOK
<1>15. UnchangedIsMirrored'
  BY <1>1, <1>3, <1>5, <1>12, <1>13, <1>14 DEF UnchangedIsMirrored
<1>16. DrainedIsGone'
  BY <1>1, <1>3, <1>4, <1>5, <1>11 DEF DrainedIsGone
<1>17. ReadyMirrorIsExact'
  <2> SUFFICES ASSUME answer.final, durable_cursor' = answer.upper,
                      NEW i \in Items, stamp[i] <= answer.upper
               PROVE  /\ remote_entries'[i] # None =>
                           /\ remote_entries'[i].parent = place[i]
                           /\ remote_entries'[i].rev = rev[i]
                      /\ Mirrored(place[i])' => remote_entries'[i] # None
    BY <1>1, <1>3, <1>5 DEF ReadyMirrorIsExact
  <2>1. CASE stamp[i] <= start_token
    BY <1>1, <1>12, <1>13, <1>14, <2>1
  <2>2. CASE start_token < stamp[i]
    <3>1. place[i] = Gone /\ remote_entries'[i] = None
      BY <1>3, <1>4, <1>11, <2>2
    <3> QED
      BY <1>1, <3>1, ItemsAssumption DEF Mirrored
  <2> QED
    BY <1>3, <2>1, <2>2
<1>18. ReadyMirrorHasNoOrphans'
  BY <1>3, <1>5, <1>11 DEF ReadyMirrorHasNoOrphans, Orphan
<1> QED
  BY <1>6, <1>7, <1>8, <1>9, <1>10, <1>15, <1>16, <1>17, <1>18 DEF SyncInv

-----------------------------------------------------------------------------
(* Listing the tree. *)

\* How many rows the last page of the head folder removes from the front.
Shift(next) == IF next # {} THEN 0 ELSE 1

\* The frontier after a page: the head row stays with its new token or goes, the
\* other rows stay, and the folders of the page follow them.
LEMMA FrontierAfterPage ==
  ASSUME NEW rows \in Seq(FrontierRow), rows # <<>>, NEW next \in SUBSET Items
  PROVE  LET rest == AfterPage(rows, next)
             d == Shift(next)
         IN
         /\ rest \in Seq(FrontierRow)
         /\ \A m \in DOMAIN rest :
              /\ m + d \in DOMAIN rows
              /\ rest[m].folder = rows[m + d].folder
              /\ rest[m].path = rows[m + d].path
              /\ rest[m].token = IF m + d = 1 THEN next ELSE rows[m + d].token
         /\ \A q \in DOMAIN rows : q - d >= 1 => q - d \in DOMAIN rest
<1> DEFINE rest == AfterPage(rows, next)
           d == Shift(next)
<1>1. CASE next # {}
  <2>1. rest = [rows EXCEPT ![1].token = next] /\ d = 0
    BY <1>1 DEF AfterPage, Shift
  <2>2. 1 \in DOMAIN rows /\ rows[1] \in FrontierRow
    OBVIOUS
  <2>3. [rows[1] EXCEPT !.token = next] \in FrontierRow
    BY <2>2 DEF FrontierRow
  <2>4. rest = [rows EXCEPT ![1] = [rows[1] EXCEPT !.token = next]]
    BY <2>1
  <2>5. rest \in Seq(FrontierRow) /\ DOMAIN rest = DOMAIN rows
    BY <2>3, <2>4
  <2>6. \A m \in DOMAIN rest :
          rest[m] = IF m = 1 THEN [rows[1] EXCEPT !.token = next] ELSE rows[m]
    BY <2>2, <2>4, <2>5
  <2>7. /\ [rows[1] EXCEPT !.token = next].folder = rows[1].folder
        /\ [rows[1] EXCEPT !.token = next].path = rows[1].path
        /\ [rows[1] EXCEPT !.token = next].token = next
    BY <2>2 DEF FrontierRow
  <2>8. \A m \in DOMAIN rows : m \in Nat
    OBVIOUS
  <2>9. \A m \in DOMAIN rest :
          /\ m + d \in DOMAIN rows
          /\ rest[m].folder = rows[m + d].folder
          /\ rest[m].path = rows[m + d].path
          /\ rest[m].token = IF m + d = 1 THEN next ELSE rows[m + d].token
    <3> HIDE DEF rest, d
    <3> QED
      BY <2>1, <2>5, <2>6, <2>7, <2>8
  <2>10. \A q \in DOMAIN rows : q - d >= 1 => q - d \in DOMAIN rest
    <3> HIDE DEF rest, d
    <3> QED
      BY <2>1, <2>5, <2>8
  <2> QED
    BY <2>5, <2>9, <2>10
<1>2. CASE next = {}
  <2>1. rest = Tail(rows) /\ d = 1
    BY <1>2 DEF AfterPage, Shift
  <2> QED
    BY <2>1
<1> QED
  BY <1>1, <1>2

\* The rows of the folders of a page are rows, one for each folder.
LEMMA ChildRowsOfPage ==
  ASSUME TypeOK, HeadRow \in FrontierRow,
         NEW S \in SUBSET Folders, NEW order \in Orders(S)
  PROVE  /\ ChildRows(order) \in Seq(FrontierRow)
         /\ DOMAIN ChildRows(order) = DOMAIN order
         /\ \A q \in DOMAIN order :
              ChildRows(order)[q] = [folder |-> order[q],
                                     path |-> Append(HeadRow.path, order[q]), token |-> {}]
         /\ \A q \in DOMAIN order : order[q] \in S
         /\ \A c \in S : \E q \in DOMAIN order : order[q] = c
         /\ \A q, r \in DOMAIN order : order[q] = order[r] => q = r
<1>1. PICK k \in 0 .. MaxFrontier : order \in [1 .. k -> S]
  BY DEF Orders
<1>2. \A q \in 1 .. k :
        [folder |-> order[q], path |-> Append(HeadRow.path, order[q]), token |-> {}]
          \in FrontierRow
  BY <1>1 DEF FrontierRow, Containers, Items
<1>3. k \in Nat /\ DOMAIN order = 1 .. k
  BY <1>1, BoundsAssumption
<1>4. ChildRows(order) \in [1 .. k -> FrontierRow]
  BY <1>2, <1>3 DEF ChildRows, ChildPath
<1>5. ChildRows(order) \in Seq(FrontierRow)
  BY <1>3, <1>4
<1> QED
  BY <1>1, <1>3, <1>5 DEF ChildRows, ChildPath, Orders

\* apply_scan_page preserves the invariant: the entries, the frontier rows and
\* the page token move together.
LEMMA ApplyScanPreserves ==
  ASSUME SyncInv, ApplyScanPage
  PROVE  SyncInv'
<1>1. UNCHANGED <<place, rev, stamp, clock, account, start_token, durable_cursor,
                  rescan_required>>
  BY DEF ApplyScanPage, drive
<1> DEFINE listed == answer.entries
           D == DOMAIN listed
           F == Folders \cap D
<1>2. /\ answer.kind = "scan" /\ answer' = NoAnswer
      /\ D \subseteq Items /\ listed \in [D -> Nat] /\ answer.next \subseteq Items
  <2>1. PICK S \in SUBSET Items : answer \in ScanAnswer(S)
    BY DEF ApplyScanPage, SyncInv, TypeOK, ChangesAnswer, StartAnswer, ErrorAnswer, NoAnswer
  <2> QED
    BY <2>1 DEF ApplyScanPage, ScanAnswer
<1>3. /\ phase = "scanning" /\ account = "bound" /\ durable_cursor = None
      /\ start_token \in Nat /\ clock \in Nat /\ start_token <= clock
      /\ scan_frontier \in Seq(FrontierRow) /\ scan_frontier # <<>>
      /\ \A i \in Items : stamp[i] \in Nat
  BY <1>2 DEF SyncInv, TypeOK, PhaseFitsColumns
<1>4. HeadRow \in FrontierRow /\ HeadRow = scan_frontier[1] /\ 1 \in DOMAIN scan_frontier
  BY <1>3 DEF HeadRow
<1> DEFINE hf == HeadRow.folder
<1>5. hf \in Containers /\ HeadRow.path \in Seq(Items) /\ HeadRow.token \subseteq Items
  BY <1>4 DEF FrontierRow
<1>6. \A c \in F : remote_entries[c] = None
  BY DEF ApplyScanPage, PageIsFresh
<1>7. /\ hf = Root => HeadRow.path = <<>>
      /\ hf # Root => /\ hf \in Folders /\ hf \in Items
                      /\ remote_entries[hf] # None
                      /\ remote_entries[hf].path = HeadRow.path
      /\ hf \notin D
  <2>1. hf = Root => HeadRow.path = <<>>
    BY <1>4 DEF SyncInv, FrontierRows
  <2>2. hf # Root => /\ hf \in Folders /\ hf \in Items
                     /\ remote_entries[hf] # None
                     /\ remote_entries[hf].path = HeadRow.path
    BY <1>4, <1>5 DEF SyncInv, FrontierIsDistinct, Containers, Items
  <2> QED
    BY <1>2, <1>6, <2>1, <2>2, ItemsAssumption
<1>8. /\ remote_entries' \in [Items -> RemoteEntry \cup {None}]
      /\ \A i \in D : /\ remote_entries'[i] \in RemoteEntry
                      /\ remote_entries'[i].parent = hf
                      /\ remote_entries'[i].path = Append(HeadRow.path, i)
                      /\ remote_entries'[i].rev = listed[i]
                      /\ remote_entries'[i] # None
      /\ \A i \in Items \ D : remote_entries'[i] = remote_entries[i]
  <2>1. \A i \in Items : remote_entries'[i] =
          IF i \in D THEN [parent |-> hf, path |-> Append(HeadRow.path, i), rev |-> listed[i]]
          ELSE remote_entries[i]
    BY DEF ApplyScanPage, Upserted, ChildPath
  <2>2. \A i \in D :
          [parent |-> hf, path |-> Append(HeadRow.path, i), rev |-> listed[i]] \in RemoteEntry
    BY <1>2, <1>5 DEF RemoteEntry
  <2>3. remote_entries' \in [Items -> RemoteEntry \cup {None}]
    BY <2>1, <2>2 DEF ApplyScanPage, Upserted, ChildPath, SyncInv, TypeOK
  <2>4. None \notin RemoteEntry
    BY NoneAssumption DEF RemoteEntry
  <2>5. ASSUME NEW i \in D
        PROVE  /\ remote_entries'[i] \in RemoteEntry
               /\ remote_entries'[i].parent = hf
               /\ remote_entries'[i].path = Append(HeadRow.path, i)
               /\ remote_entries'[i].rev = listed[i]
               /\ remote_entries'[i] # None
    <3>1. remote_entries'[i] =
            [parent |-> hf, path |-> Append(HeadRow.path, i), rev |-> listed[i]]
      BY <1>2, <2>1
    <3> QED
      BY <2>2, <2>4, <3>1
  <2> QED
    BY <2>1, <2>3, <2>5
<1>9. PICK order \in Orders(F) :
        LET rows == scan_frontier \o ChildRows(order)
            rest == AfterPage(rows, answer.next)
        IN  /\ Len(rows) <= MaxFrontier
            /\ scan_frontier' = rest
            /\ IF rest = <<>>
               THEN /\ phase' = "draining"
                    /\ scan_page_token' = {}
                    /\ changes_page_token' = start_token
               ELSE /\ scan_page_token' = rest[1].token
                    /\ UNCHANGED <<phase, changes_page_token>>
  BY DEF ApplyScanPage
<1> DEFINE kids == ChildRows(order)
           rows == scan_frontier \o kids
           N == Len(scan_frontier)
           d == Shift(answer.next)
<1>10. /\ kids \in Seq(FrontierRow)
       /\ DOMAIN kids = DOMAIN order
       /\ \A q \in DOMAIN order :
            kids[q] = [folder |-> order[q], path |-> Append(HeadRow.path, order[q]), token |-> {}]
       /\ \A q \in DOMAIN order : order[q] \in F
       /\ \A c \in F : \E q \in DOMAIN order : order[q] = c
       /\ \A q, r \in DOMAIN order : order[q] = order[r] => q = r
  BY <1>4, ChildRowsOfPage DEF SyncInv
<1>11. /\ rows \in Seq(FrontierRow) /\ rows # <<>> /\ N \in Nat /\ N >= 1
       /\ \A m \in DOMAIN scan_frontier : m \in DOMAIN rows /\ rows[m] = scan_frontier[m]
       /\ \A q \in DOMAIN order : N + q \in DOMAIN rows /\ rows[N + q] = kids[q]
       /\ \A m \in DOMAIN rows :
            m \in DOMAIN scan_frontier \/ (m > N /\ m - N \in DOMAIN order)
       /\ DOMAIN scan_frontier = 1 .. N
  BY <1>3, <1>10
<1>12. /\ scan_frontier' \in Seq(FrontierRow)
       /\ \A m \in DOMAIN scan_frontier' :
            /\ m + d \in DOMAIN rows
            /\ scan_frontier'[m].folder = rows[m + d].folder
            /\ scan_frontier'[m].path = rows[m + d].path
            /\ scan_frontier'[m].token = IF m + d = 1 THEN answer.next ELSE rows[m + d].token
       /\ \A q \in DOMAIN rows : q - d >= 1 => q - d \in DOMAIN scan_frontier'
  <2>1. scan_frontier' = AfterPage(rows, answer.next)
    BY <1>9
  <2>2. answer.next \in SUBSET Items /\ rows \in Seq(FrontierRow) /\ rows # <<>>
    BY <1>2, <1>11
  <2> HIDE DEF rows
  <2> QED
    BY <2>1, <2>2, FrontierAfterPage
<1>13. \/ /\ scan_frontier' = <<>> /\ phase' = "draining"
          /\ scan_page_token' = {} /\ changes_page_token' = start_token
       \/ /\ scan_frontier' # <<>> /\ scan_page_token' = scan_frontier'[1].token
          /\ UNCHANGED <<phase, changes_page_token>>
  BY <1>9
<1>28. d \in {0, 1} /\ (answer.next # {} <=> d = 0)
  BY DEF Shift
<1> HIDE DEF listed, D, F, hf, kids, rows, N, d
<1>14. TypeOK'
  <2>1. scan_page_token' \in SUBSET Items
    <3>1. scan_frontier' # <<>> => scan_frontier'[1] \in FrontierRow
      BY <1>12
    <3> QED
      BY <1>13, <3>1 DEF FrontierRow
  <2>2. phase' \in {"scanning", "draining"} /\ changes_page_token' \in Nat \cup {None}
    BY <1>3, <1>13 DEF SyncInv, TypeOK
  <2> QED
    BY <1>1, <1>2, <1>8, <1>12, <2>1, <2>2 DEF SyncInv, TypeOK
<1>15. DriveIsConsistent' /\ PhaseFitsColumns'
  BY <1>1, <1>2, <1>3, <1>13 DEF SyncInv, DriveIsConsistent, PhaseFitsColumns, NoAnswer, Live
<1>16. ListingIsSound' /\ RemovalsAreSound'
  BY <1>2 DEF ListingIsSound, RemovalsAreSound, NoAnswer
<1>17. ReadyMirrorIsExact' /\ ReadyMirrorHasNoOrphans'
  BY <1>3, <1>13 DEF ReadyMirrorIsExact, ReadyMirrorHasNoOrphans
<1>18. /\ \A c \in Folders : remote_entries[c] # None => remote_entries'[c] = remote_entries[c]
       /\ \A c : Mirrored(c) => Mirrored(c)'
  <2>1. \A c \in Folders : remote_entries[c] # None => c \notin D
    BY <1>6 DEF F
  <2> QED
    BY <1>8, <2>1 DEF Mirrored, Items
<1>19. \A m \in DOMAIN scan_frontier :
         /\ scan_frontier[m].folder = Root => scan_frontier[m].path = <<>>
         /\ m # 1 => scan_frontier[m].token = {}
         /\ scan_frontier[m].folder # Root =>
              /\ scan_frontier[m].folder \in Folders
              /\ remote_entries[scan_frontier[m].folder] # None
              /\ remote_entries[scan_frontier[m].folder].path = scan_frontier[m].path
  <2>1. \A m \in DOMAIN scan_frontier : scan_frontier[m].folder \in Containers
    <3>1. \A m \in DOMAIN scan_frontier : scan_frontier[m] \in FrontierRow
      BY <1>3
    <3> QED
      BY <3>1 DEF FrontierRow
  <2> QED
    BY <2>1 DEF SyncInv, FrontierRows, FrontierIsDistinct, Containers
<1>20. \A q \in DOMAIN order :
         /\ kids[q].folder = order[q] /\ kids[q].path = Append(HeadRow.path, order[q])
         /\ kids[q].token = {}
         /\ order[q] \in Folders /\ order[q] \in D /\ order[q] # Root
         /\ remote_entries[order[q]] = None
  BY <1>6, <1>10, ItemsAssumption DEF F, Items
<1>21. FrontierRows'
  <2> SUFFICES ASSUME NEW m \in DOMAIN scan_frontier'
               PROVE  /\ scan_frontier'[m].folder = Root => scan_frontier'[m].path = <<>>
                      /\ m # 1 => scan_frontier'[m].token = {}
    BY DEF FrontierRows
  <2>1. m \in Nat /\ m >= 1
    BY <1>12
  <2>2. CASE m + d \in DOMAIN scan_frontier
    <3>1. rows[m + d] = scan_frontier[m + d] /\ (m # 1 => m + d # 1)
      BY <1>11, <1>28, <2>1, <2>2
    <3> QED
      BY <1>12, <1>19, <2>2, <3>1
  <2>3. CASE m + d > N /\ (m + d) - N \in DOMAIN order
    <3>1. PICK q \in DOMAIN order : m + d = N + q
      BY <1>11, <1>28, <2>1, <2>3
    <3>2. rows[m + d] = kids[q] /\ m + d # 1
      BY <1>11, <1>28, <2>1, <2>3, <3>1
    <3> QED
      BY <1>12, <1>20, <3>1, <3>2
  <2> QED
    BY <1>11, <1>12, <2>2, <2>3
<1>22. FrontierIsDistinct'
  <2>1. \A m, n \in DOMAIN rows : rows[m].folder = rows[n].folder => m = n
    <3> SUFFICES ASSUME NEW m \in DOMAIN rows, NEW n \in DOMAIN rows,
                        rows[m].folder = rows[n].folder
                 PROVE  m = n
      OBVIOUS
    <3>1. m \in Nat /\ n \in Nat
      BY <1>11
    <3>2. CASE m \in DOMAIN scan_frontier /\ n \in DOMAIN scan_frontier
      BY <1>11, <3>2 DEF SyncInv, FrontierIsDistinct
    <3>3. CASE m \in DOMAIN scan_frontier /\ n - N \in DOMAIN order
      BY <1>11, <1>19, <1>20, <3>1, <3>3
    <3>4. CASE m - N \in DOMAIN order /\ n \in DOMAIN scan_frontier
      BY <1>11, <1>19, <1>20, <3>1, <3>4
    <3>5. CASE m - N \in DOMAIN order /\ n - N \in DOMAIN order
      BY <1>10, <1>11, <1>20, <3>1, <3>5
    <3> QED
      BY <1>11, <3>2, <3>3, <3>4, <3>5
  <2>2. \A m, n \in DOMAIN scan_frontier' :
          scan_frontier'[m].folder = scan_frontier'[n].folder => m = n
    BY <1>12, <1>28, <2>1
  <2>3. ASSUME NEW m \in DOMAIN rows, rows[m].folder # Root
        PROVE  /\ remote_entries'[rows[m].folder] # None
               /\ remote_entries'[rows[m].folder].path = rows[m].path
    <3>1. CASE m \in DOMAIN scan_frontier
      BY <1>11, <1>18, <1>19, <2>3, <3>1
    <3>2. CASE m - N \in DOMAIN order /\ m > N
      <4>1. PICK q \in DOMAIN order : m = N + q
        BY <1>11, <3>2
      <4>2. rows[m].folder = order[q] /\ rows[m].path = Append(HeadRow.path, order[q])
        BY <1>11, <1>20, <4>1
      <4> QED
        BY <1>8, <1>20, <4>2
    <3> QED
      BY <1>11, <3>1, <3>2
  <2> QED
    BY <1>12, <2>2, <2>3 DEF FrontierIsDistinct
<1>23. \A i \in Items : remote_entries[i] # None =>
         /\ remote_entries[i].parent = Root \/ remote_entries[i].parent \in Folders
         /\ remote_entries[i].parent # Root => remote_entries[remote_entries[i].parent] # None
  BY <1>3 DEF SyncInv, TypeOK, RemoteEntry, Containers, DrainedIsGone, Orphan, Mirrored
<1>24. PathsFollowParents'
  <2> SUFFICES ASSUME NEW i \in Items, remote_entries'[i] # None
               PROVE  LET p == remote_entries'[i].parent
                      IN  /\ p = Root => remote_entries'[i].path = <<i>>
                          /\ (p # Root /\ remote_entries'[p] # None) =>
                               remote_entries'[i].path = Append(remote_entries'[p].path, i)
    BY DEF PathsFollowParents
  <2>1. CASE i \in D
    <3>1. hf # Root => remote_entries'[hf] = remote_entries[hf]
      BY <1>7, <1>18 DEF hf
    <3>2. Append(<<>>, i) = <<i>>
      OBVIOUS
    <3> QED
      BY <1>7, <1>8, <2>1, <3>1, <3>2 DEF hf
  <2>2. CASE i \notin D
    <3>1. remote_entries'[i] = remote_entries[i]
      BY <1>8, <2>2
    <3>2. remote_entries[i].parent # Root =>
            remote_entries'[remote_entries[i].parent] = remote_entries[remote_entries[i].parent]
      BY <1>18, <1>23, <3>1
    <3> QED
      BY <3>1, <3>2 DEF SyncInv, PathsFollowParents
  <2> QED
    BY <2>1, <2>2
<1>25. \A i \in Items : ~Orphan(i)'
  <2> SUFFICES ASSUME NEW i \in Items, remote_entries'[i] # None
               PROVE  Mirrored(remote_entries[i].parent)'
    BY DEF Orphan
  <2>1. CASE i \in D
    BY <1>7, <1>8, <1>18, <2>1 DEF Mirrored, hf
  <2>2. CASE i \notin D
    BY <1>3, <1>8, <1>18, <2>2 DEF SyncInv, DrainedIsGone, Orphan
  <2> QED
    BY <2>1, <2>2
<1>26. DrainedIsGone'
  BY <1>1, <1>3, <1>13, <1>25 DEF DrainedIsGone
<1>27. UnchangedIsMirrored'
  <2> SUFFICES ASSUME NEW i \in Items, stamp[i] <= start_token
               PROVE  /\ remote_entries'[i] # None =>
                           /\ remote_entries'[i].parent = place[i]
                           /\ remote_entries'[i].rev = rev[i]
                      /\ Mirrored(place[i])' =>
                           \/ remote_entries'[i] # None
                           \/ \E m \in DOMAIN scan_frontier' :
                                /\ scan_frontier'[m].folder = place[i]
                                /\ i \notin scan_frontier'[m].token
    BY <1>1 DEF UnchangedIsMirrored
  <2>1. /\ i \in D => place[i] = hf /\ rev[i] = listed[i]
        /\ (answer.next = {} /\ place[i] = hf) => i \in HeadRow.token \/ i \in D
        /\ \A j \in answer.next : j \in HeadRow.token \/ j \in D
    BY <1>2 DEF SyncInv, ListingIsSound, hf, D, listed
  <2>2. /\ remote_entries[i] # None =>
             remote_entries[i].parent = place[i] /\ remote_entries[i].rev = rev[i]
        /\ Mirrored(place[i]) =>
             \/ remote_entries[i] # None
             \/ \E n \in DOMAIN scan_frontier :
                  /\ scan_frontier[n].folder = place[i]
                  /\ i \notin scan_frontier[n].token
    BY <1>3 DEF SyncInv, UnchangedIsMirrored
  <2>3. remote_entries'[i] # None =>
          remote_entries'[i].parent = place[i] /\ remote_entries'[i].rev = rev[i]
    BY <1>8, <2>1, <2>2
  <2>4. ASSUME Mirrored(place[i])', remote_entries'[i] = None
        PROVE  \E m \in DOMAIN scan_frontier' :
                 /\ scan_frontier'[m].folder = place[i]
                 /\ i \notin scan_frontier'[m].token
    <3>1. i \notin D /\ remote_entries[i] = None
      BY <1>8, <2>4
    <3>2. CASE Mirrored(place[i])
      <4>1. PICK n \in DOMAIN scan_frontier :
              scan_frontier[n].folder = place[i] /\ i \notin scan_frontier[n].token
        BY <2>2, <3>1, <3>2
      <4>2. n \in Nat /\ n >= 1 /\ n \in DOMAIN rows /\ rows[n] = scan_frontier[n]
        BY <1>11
      <4>3. CASE n # 1
        <5>1. n - d \in DOMAIN scan_frontier' /\ (n - d) + d = n
          BY <1>12, <1>28, <4>2, <4>3
        <5> QED
          BY <1>12, <4>1, <4>2, <4>3, <5>1
      <4>4. CASE n = 1
        <5>1. place[i] = hf /\ i \notin HeadRow.token
          BY <1>4, <4>1, <4>4 DEF hf
        <5>2. answer.next # {} /\ i \notin answer.next /\ d = 0
          BY <1>28, <2>1, <3>1, <5>1
        <5>3. 1 \in DOMAIN scan_frontier'
          BY <1>12, <4>2, <4>4, <5>2
        <5>4. scan_frontier'[1].folder = rows[1].folder /\ scan_frontier'[1].token = answer.next
          BY <1>12, <5>2, <5>3
        <5> QED
          BY <4>1, <4>2, <4>4, <5>2, <5>3, <5>4
      <4> QED
        BY <4>3, <4>4
    <3>3. CASE ~Mirrored(place[i])
      <4>1. place[i] \in Items /\ place[i] # Root /\ place[i] \in D
        BY <1>1, <1>8, <2>4, <3>3 DEF Mirrored
      <4>2. place[i] \in F
        BY <4>1, ItemsAssumption DEF SyncInv, TypeOK, Places, Containers, F
      <4>3. PICK q \in DOMAIN order : order[q] = place[i]
        BY <1>10, <4>2
      <4>4. /\ N + q \in DOMAIN rows /\ rows[N + q].folder = place[i]
            /\ rows[N + q].token = {} /\ N + q > 1 /\ N + q \in Nat
        <5>1. DOMAIN kids = DOMAIN order /\ kids \in Seq(FrontierRow)
          BY <1>10
        <5>2. q \in Nat /\ q >= 1
          BY <5>1
        <5> QED
          BY <1>11, <1>20, <4>3, <5>2
      <4>5. (N + q) - d \in DOMAIN scan_frontier' /\ ((N + q) - d) + d = N + q
        BY <1>12, <1>28, <4>4
      <4> QED
        BY <1>12, <4>4, <4>5
    <3> QED
      BY <3>2, <3>3
  <2> QED
    BY <2>3, <2>4
<1> QED
  BY <1>14, <1>15, <1>16, <1>17, <1>21, <1>22, <1>24, <1>26, <1>27 DEF SyncInv

-----------------------------------------------------------------------------
(* The theorems. *)

\* Every step of the provider or of the store preserves the invariant.
LEMMA StepPreserves == SyncInv /\ [Next]_vars => SyncInv'
<1> SUFFICES ASSUME SyncInv, [Next]_vars PROVE SyncInv'
  OBVIOUS
<1>1. CASE DriveNext
  BY <1>1, EditPreserves
<1>2. CASE BindRemoteRoot
  BY <1>2, BindPreserves
<1>3. CASE FetchStartToken
  BY <1>3, FetchStartPreserves
<1>4. CASE BeginInitialScan
  BY <1>4, BeginPreserves DEF SyncInv
<1>5. CASE FetchScanPage
  BY <1>5, FetchScanPreserves
<1>6. CASE ApplyScanPage
  BY <1>6, ApplyScanPreserves
<1>7. CASE RejectScanPage \/ LoseAnswer
  BY <1>7, LosePreserves DEF RejectScanPage, LoseAnswer
<1>8. CASE FetchChangesPage
  BY <1>8, FetchChangesPreserves
<1>9. CASE ExpireChangesToken
  BY <1>9, RescanAnswerPreserves DEF ExpireChangesToken
<1>10. CASE ApplyChangesPage
  BY <1>10, ApplyChangesPreserves
<1>11. CASE MarkRescanRequired \/ IncrementalRescan
  BY <1>11, RescanPreserves
<1>12. CASE UNCHANGED vars
  <2>1. UNCHANGED <<drive, store>> /\ answer' = answer
    BY <1>12 DEF vars
  <2>2. TypeOK' /\ PhaseFitsColumns'
    BY <2>1, FetchFrame DEF SyncInv, TypeOK, PhaseFitsColumns
  <2>3. ListingIsSound'
    BY <2>1, FetchFrame DEF SyncInv, ListingIsSound, HeadRow
  <2>4. RemovalsAreSound'
    BY <2>1, FetchFrame DEF SyncInv, RemovalsAreSound, Orphan, Mirrored
  <2> QED
    BY <2>1, <2>2, <2>3, <2>4, FetchFrame DEF SyncInv
<1> QED
  BY <1>1, <1>2, <1>3, <1>4, <1>5, <1>6, <1>7, <1>8, <1>9, <1>10, <1>11, <1>12
  DEF Next, SyncNext

\* Every state the initial synchronisation reaches satisfies the invariant,
\* whatever the other clients, the provider and the crashes do.
THEOREM SyncInvHolds == Spec => []SyncInv
BY InitHasInv, StepPreserves, PTL DEF Spec

\* The columns of vault_state, the frontier and the mirror keep their types.
THEOREM TypeCorrect == Spec => []TypeOK
<1>1. SyncInv => TypeOK
  BY DEF SyncInv
<1> QED
  BY <1>1, SyncInvHolds, PTL

\* A Ready store mirrors exactly what has not changed since its cursor, and no
\* entry of it hangs below a removed folder (advance_initial_sync).
THEOREM ReadyMirrorCorrect == Spec => [](ReadyMirrorIsExact /\ ReadyMirrorHasNoOrphans)
<1>1. SyncInv => ReadyMirrorIsExact /\ ReadyMirrorHasNoOrphans
  BY DEF SyncInv
<1> QED
  BY <1>1, SyncInvHolds, PTL

\* Every path in the mirror extends the path of its parent's entry, and every
\* folder is listed once per scan (apply_scan_page).
THEOREM ListingCorrect == Spec => [](PathsFollowParents /\ FrontierIsDistinct)
<1>1. SyncInv => PathsFollowParents /\ FrontierIsDistinct
  BY DEF SyncInv
<1> QED
  BY <1>1, SyncInvHolds, PTL

\* A committed cursor is only ever given up with the rescan flag raised
\* (mark_rescan_required).
THEOREM CursorCorrect == Spec => CursorLeavesByRescan
<1> DEFINE A == durable_cursor # None =>
                  \/ durable_cursor' = durable_cursor
                  \/ durable_cursor' = None /\ rescan_required'
<1>1. ASSUME SyncInv, Next, durable_cursor # None
      PROVE  durable_cursor' = durable_cursor \/ (durable_cursor' = None /\ rescan_required')
  <2> USE <1>1
  <2>1. phase = "ready" /\ answer = NoAnswer /\ account = "bound"
    BY DEF SyncInv, PhaseFitsColumns
  <2>2. answer.kind = "none"
    BY <2>1 DEF NoAnswer
  <2>3. CASE DriveNext
    BY <2>3 DEF DriveNext, DriveEdit, DriveTrash, DriveCreate, DriveMove, store, tokens
  <2>4. CASE SyncNext \/ IncrementalRescan
    BY <2>1, <2>2, <2>4
    DEF SyncNext, BindRemoteRoot, FetchStartToken, BeginInitialScan, FetchScanPage,
        ApplyScanPage, RejectScanPage, FetchChangesPage, ExpireChangesToken,
        ApplyChangesPage, MarkRescanRequired, IncrementalRescan, RescanRequired,
        LoseAnswer, store, tokens
  <2> QED
    BY <2>3, <2>4 DEF Next
<1>2. SyncInv /\ [Next]_vars => [A]_vars
  BY <1>1
<1> QED
  BY <1>2, SyncInvHolds, PTL DEF Spec, CursorLeavesByRescan


-----------------------------------------------------------------------------
(* The runs of a Ready store. *)

\* What holds of the provider and of the columns in every phase.
StoreFits == TypeOK /\ DriveIsConsistent /\ PhaseFitsColumns

\* The listing and the drain start from an empty mirror.
ScanFits == phase \in {"scanning", "draining"} => SyncInv

\* The flag is down from the begin of a scan on.
FlagFits == phase # "need_start_token" => ~rescan_required

\* An active batch moves the cursor of a Ready store forward, never past the changes.
BatchFits ==
  batch # None =>
    /\ batch \in Batch
    /\ phase = "ready" /\ durable_cursor = batch.expected
    /\ batch.expected <= batch.next /\ batch.next <= clock

\* A fetched page has every change up to its token, as it still is unless it changed again;
\* what is done with is resolved as it was fetched, or was not known.
PageFits ==
  page # None =>
    /\ \E S \in SUBSET Items : \E T \in SUBSET S : page \in PageOf(S, T)
    /\ phase = "ready" /\ batch = None
    /\ durable_cursor <= page.next /\ page.next <= clock
    /\ \A i \in DOMAIN page.raw : durable_cursor < stamp[i]
    /\ \A i \in Items : durable_cursor < stamp[i] /\ stamp[i] <= page.next =>
         /\ i \in DOMAIN page.raw
         /\ page.raw[i].parent = place[i] /\ page.raw[i].rev = rev[i]
    /\ \A i \in DOMAIN page.raw :
         i \in page.todo \/ i \in DOMAIN page.resolved \/ remote_entries[i] = None
    /\ \A i \in DOMAIN page.resolved :
         /\ page.resolved[i].parent = page.raw[i].parent
         /\ page.resolved[i].rev = page.raw[i].rev
         /\ remote_entries[i] # None =>
              /\ remote_entries[i].parent = page.resolved[i].parent
              /\ remote_entries[i].path = page.resolved[i].path

\* The walk is that of a change still to be resolved; one from outside stays there.
WalkFits ==
  walk # None =>
    /\ walk \in Walk
    /\ page # None /\ walk.item \in page.todo
    /\ page.raw[walk.item].parent # Gone
    /\ page.raw[walk.item].parent = Outside => walk.at = Outside

RunInv ==
  /\ StoreFits /\ ScanFits /\ FlagFits /\ BatchFits /\ PageFits /\ WalkFits
  /\ KnownEntriesAreExact

LEMMA RunFacts ==
  ASSUME RunInv
  PROVE  /\ StoreFits /\ ScanFits /\ FlagFits /\ BatchFits /\ PageFits /\ WalkFits
         /\ KnownEntriesAreExact /\ TypeOK /\ DriveIsConsistent /\ PhaseFitsColumns
BY DEF RunInv, StoreFits

\* Before the store is Ready there is neither a batch nor a page.
LEMMA NothingRuns ==
  ASSUME RunInv, phase # "ready" PROVE batch = None /\ page = None /\ walk = None
BY RunFacts DEF BatchFits, PageFits, WalkFits

\* A state in which nothing runs.
LEMMA IdleStore ==
  ASSUME StoreFits', FlagFits', ScanFits', batch' = None, page' = None, walk' = None,
         phase' = "ready" => ReadyMirrorIsExact'
  PROVE  RunInv'
<1>1. BatchFits' /\ PageFits' /\ WalkFits'
  BY DEF BatchFits, PageFits, WalkFits
<1>2. KnownEntriesAreExact'
  BY DEF KnownEntriesAreExact, ReadyMirrorIsExact, Position
<1> QED
  BY <1>1, <1>2 DEF RunInv

\* A store that was just created or migrated.
LEMMA RunInit == IncrementalInit => RunInv
<1> SUFFICES ASSUME IncrementalInit PROVE RunInv
  OBVIOUS
<1>1. SyncInv /\ phase = "need_start_token" /\ batch = None /\ page = None /\ walk = None
  BY InitHasInv DEF IncrementalInit, Init
<1>2. StoreFits /\ ScanFits /\ FlagFits
  BY <1>1 DEF StoreFits, ScanFits, FlagFits, SyncInv
<1>3. BatchFits /\ PageFits /\ WalkFits /\ KnownEntriesAreExact
  BY <1>1 DEF BatchFits, PageFits, WalkFits, KnownEntriesAreExact
<1> QED
  BY <1>2, <1>3 DEF RunInv

\* The listing and the drain, and what other clients do meanwhile.
LEMMA ScanStep ==
  ASSUME RunInv, phase \in {"scanning", "draining"}, DriveNext \/ SyncNext, UNCHANGED run
  PROVE  RunInv'
<1>1. SyncInv
  BY RunFacts DEF ScanFits
<1>2. SyncInv'
  BY <1>1, StepPreserves DEF Next
<1>3. batch' = None /\ page' = None /\ walk' = None
  BY NothingRuns DEF run
<1>4. FlagFits'
  <2>1. ~rescan_required /\ answer.kind # "start" /\ account = "bound"
    BY <1>1, RunFacts DEF FlagFits, PhaseFitsColumns
  <2>2. CASE DriveNext
    BY <2>1, <2>2
    DEF DriveNext, DriveEdit, DriveTrash, DriveCreate, DriveMove, FlagFits, store, tokens
  <2>3. CASE SyncNext
    BY <2>1, <2>3
    DEF SyncNext, BindRemoteRoot, FetchStartToken, BeginInitialScan, FetchScanPage, ApplyScanPage,
        RejectScanPage, FetchChangesPage, ExpireChangesToken, ApplyChangesPage,
        MarkRescanRequired, RescanRequired, LoseAnswer, store, tokens, FlagFits
  <2> QED
    BY <2>2, <2>3
<1>5. StoreFits' /\ ScanFits' /\ ReadyMirrorIsExact'
  BY <1>2 DEF SyncInv, StoreFits, ScanFits
<1> QED
  BY <1>3, <1>4, <1>5, IdleStore

\* What an edit does to the columns: only the counter moves.
LEMMA EditKeepsStore ==
  ASSUME StoreFits, DriveNext
  PROVE  /\ StoreFits' /\ Edited
         /\ UNCHANGED <<account, phase, start_token, scan_page_token, changes_page_token,
                        durable_cursor, rescan_required, scan_frontier, remote_entries, answer>>
         /\ clock \in Nat /\ clock' = clock + 1 /\ stamp \in [Items -> Nat]
         /\ phase = "ready" => durable_cursor \in 0 .. clock
<1>1. /\ Edited
      /\ place' \in [Items -> Places] /\ rev' \in [Items -> Nat]
      /\ stamp' \in [Items -> Nat] /\ clock' \in Nat
      /\ DriveIsConsistent'
  BY EditStep DEF StoreFits
<1>2. UNCHANGED <<account, phase, start_token, scan_page_token, changes_page_token,
                  durable_cursor, rescan_required, scan_frontier, remote_entries, answer>>
  BY <1>1 DEF Edited, store, tokens
<1>3. clock \in Nat /\ clock' = clock + 1 /\ stamp \in [Items -> Nat]
  BY <1>1 DEF Edited, StoreFits, TypeOK
<1>4. TypeOK'
  BY <1>1, <1>2 DEF TypeOK, StoreFits
<1>5. PhaseFitsColumns'
  BY <1>2, <1>3 DEF StoreFits, PhaseFitsColumns, NoAnswer
<1>6. phase = "ready" => durable_cursor \in 0 .. clock
  BY DEF StoreFits, PhaseFitsColumns
<1> QED
  BY <1>1, <1>2, <1>3, <1>4, <1>5, <1>6 DEF StoreFits

\* Before a scan: binding, asking for the token, beginning.
LEMMA StartStep ==
  ASSUME RunInv, phase = "need_start_token", DriveNext \/ SyncNext, UNCHANGED run
  PROVE  RunInv'
<1>0. StoreFits /\ TypeOK /\ DriveIsConsistent /\ PhaseFitsColumns
  BY RunFacts
<1>1. batch' = None /\ page' = None /\ walk' = None
  BY NothingRuns DEF run
<1>2. answer.kind \notin {"scan", "changes", "rescan"}
  BY <1>0 DEF PhaseFitsColumns
<1>3. ASSUME StoreFits', phase' = "need_start_token" PROVE RunInv'
  BY <1>1, <1>3, IdleStore DEF FlagFits, ScanFits
<1>4. CASE DriveNext
  BY <1>0, <1>3, <1>4, EditKeepsStore
<1>5. CASE BeginInitialScan
  <2>1. SyncInv'
    BY <1>0, <1>5, BeginPreserves
  <2>2. phase' = "scanning" /\ ~rescan_required'
    BY <1>5 DEF BeginInitialScan
  <2>3. StoreFits' /\ ScanFits' /\ FlagFits'
    BY <2>1, <2>2 DEF SyncInv, StoreFits, ScanFits, FlagFits
  <2> QED
    BY <1>1, <2>2, <2>3, IdleStore
<1>6. CASE BindRemoteRoot
  <2>1. /\ answer' = NoAnswer /\ UNCHANGED <<place, rev, stamp, clock, remote_entries>>
        /\ account' = "bound" /\ rescan_required' \in BOOLEAN /\ phase' = "need_start_token"
        /\ start_token' = None /\ scan_page_token' = {} /\ changes_page_token' = None
        /\ durable_cursor' = None /\ scan_frontier' = <<>>
    BY <1>0, <1>6 DEF BindRemoteRoot, PhaseFitsColumns, drive
  <2>2. StoreFits'
    BY <1>0, <2>1 DEF StoreFits, TypeOK, DriveIsConsistent, PhaseFitsColumns, NoAnswer, Live
  <2> QED
    BY <1>3, <2>1, <2>2
<1>7. CASE FetchStartToken \/ LoseAnswer
  <2>1. UNCHANGED <<place, rev, stamp, clock, account, phase, start_token, scan_page_token,
                    changes_page_token, durable_cursor, rescan_required, scan_frontier,
                    remote_entries>>
    BY <1>7 DEF FetchStartToken, LoseAnswer, drive, store, tokens
  <2>2. answer' = NoAnswer \/ (answer' = [kind |-> "start", token |-> clock] /\ account = "bound")
    BY <1>7 DEF FetchStartToken, LoseAnswer
  <2>3. answer' \in StartAnswer \cup {NoAnswer}
    BY <1>0, <2>2 DEF StartAnswer, TypeOK
  <2>4. TypeOK' /\ DriveIsConsistent'
    BY <1>0, <2>1, <2>3 DEF TypeOK, DriveIsConsistent, Live
  <2>5. answer'.kind \in {"none", "start"} /\ (answer'.kind = "start" => answer'.token = clock)
    BY <2>2 DEF NoAnswer
  <2>6. PhaseFitsColumns'
    BY <1>0, <2>1, <2>2, <2>5 DEF PhaseFitsColumns, TypeOK
  <2> QED
    BY <1>3, <2>1, <2>4, <2>6 DEF StoreFits
<1> QED
  BY <1>2, <1>4, <1>5, <1>6, <1>7
  DEF SyncNext, FetchScanPage, ApplyScanPage, RejectScanPage, FetchChangesPage, ExpireChangesToken,
      ApplyChangesPage, MarkRescanRequired

\* A Ready store takes no step of the initial synchronisation.
LEMMA ReadyRests ==
  ASSUME RunInv, phase = "ready" PROVE ~SyncNext
<1>1. account = "bound" /\ answer = NoAnswer /\ answer.kind = "none"
  BY RunFacts DEF PhaseFitsColumns, NoAnswer
<1> QED
  BY <1>1
  DEF SyncNext, BindRemoteRoot, FetchStartToken, BeginInitialScan, FetchScanPage, ApplyScanPage,
      RejectScanPage, FetchChangesPage, ExpireChangesToken, ApplyChangesPage, MarkRescanRequired,
      LoseAnswer

\* Other clients edit while a Ready store has a batch or a page: what they change has a
\* stamp that neither has reached.
LEMMA ReadyEdit ==
  ASSUME RunInv, phase = "ready", DriveNext, UNCHANGED run
  PROVE  RunInv'
<1>1. /\ StoreFits' /\ Edited
      /\ phase' = phase /\ durable_cursor' = durable_cursor /\ rescan_required' = rescan_required
      /\ remote_entries' = remote_entries
      /\ clock \in Nat /\ clock' = clock + 1 /\ stamp \in [Items -> Nat]
      /\ durable_cursor \in 0 .. clock
  BY RunFacts, EditKeepsStore
<1>2. batch' = batch /\ page' = page /\ walk' = walk
  BY DEF run
<1>3. \A i \in Items : \/ stamp'[i] = clock + 1
                       \/ stamp'[i] = stamp[i] /\ place'[i] = place[i] /\ rev'[i] = rev[i]
  BY <1>1 DEF Edited
<1>4. ScanFits' /\ FlagFits' /\ WalkFits'
  BY <1>1, <1>2, RunFacts DEF ScanFits, FlagFits, WalkFits
<1>5. BatchFits'
  BY <1>1, <1>2, RunFacts DEF BatchFits, Batch
<1>6. Position \in Nat /\ Position <= clock /\ Position' = Position
  BY <1>1, <1>2, RunFacts DEF BatchFits, Batch, Position
<1>7. KnownEntriesAreExact'
  BY <1>1, <1>3, <1>6, RunFacts DEF KnownEntriesAreExact
<1>8. PageFits'
  <2> SUFFICES ASSUME page # None PROVE PageFits'
    BY <1>2 DEF PageFits
  <2>1. page.next \in Nat /\ page.next <= clock /\ DOMAIN page.raw \subseteq Items
    BY RunFacts DEF PageFits, PageOf
  <2> QED
    BY <1>1, <1>2, <1>3, <2>1, RunFacts DEF PageFits
<1> QED
  BY <1>1, <1>4, <1>5, <1>7, <1>8 DEF RunInv

\* Steps of a run that leave the store and the provider alone.
LEMMA RunFrame ==
  ASSUME RunInv, UNCHANGED <<vars, batch>>, PageFits', WalkFits'
  PROVE  RunInv'
<1>1. UNCHANGED <<place, rev, stamp, clock, account, phase, start_token, scan_page_token,
                  changes_page_token, durable_cursor, rescan_required, scan_frontier,
                  remote_entries, answer, batch>>
  BY DEF vars, drive, store, tokens
<1>2. StoreFits'
  BY <1>1, RunFacts DEF StoreFits, TypeOK, DriveIsConsistent, PhaseFitsColumns, Live
<1>3. ScanFits'
  BY StepPreserves, RunFacts DEF ScanFits, vars, store
<1>4. FlagFits' /\ BatchFits' /\ KnownEntriesAreExact'
  BY <1>1, RunFacts DEF FlagFits, BatchFits, KnownEntriesAreExact, Position
<1> QED
  BY <1>2, <1>3, <1>4 DEF RunInv

\* Giving up the page.
LEMMA AbandonPreserves ==
  ASSUME RunInv, AbandonPage PROVE RunInv'
<1>1. PageFits' /\ WalkFits'
  BY DEF AbandonPage, PageFits, WalkFits
<1> QED
  BY <1>1, RunFrame DEF AbandonPage

\* mark_rescan_required in a run: there is no batch that the cursor could be taken from.
LEMMA RescanFromRunPreserves ==
  ASSUME RunInv, phase = "ready", batch = None, RescanFromRun PROVE RunInv'
<1>0. TypeOK /\ DriveIsConsistent /\ PhaseFitsColumns /\ answer = NoAnswer
  BY RunFacts DEF PhaseFitsColumns
<1>1. /\ answer' = NoAnswer /\ UNCHANGED <<place, rev, stamp, clock, remote_entries>>
      /\ account' = account /\ rescan_required' \in BOOLEAN /\ phase' = "need_start_token"
      /\ start_token' = None /\ scan_page_token' = {} /\ changes_page_token' = None
      /\ durable_cursor' = None /\ scan_frontier' = <<>>
      /\ batch' = None /\ page' = None /\ walk' = None
  BY <1>0 DEF RescanFromRun, RescanRequired, drive
<1>2. StoreFits'
  BY <1>0, <1>1 DEF StoreFits, TypeOK, DriveIsConsistent, PhaseFitsColumns, NoAnswer, Live
<1> QED
  BY <1>1, <1>2, IdleStore DEF FlagFits, ScanFits

\* A page is fetched: the changes since the cursor, as they are now.
LEMMA FetchPreserves ==
  ASSUME RunInv, FetchIncrementalPage PROVE RunInv'
<1>1. /\ phase = "ready" /\ batch = None /\ page = None /\ UNCHANGED <<vars, batch, walk>>
      /\ durable_cursor \in 0 .. clock /\ clock \in Nat /\ stamp \in [Items -> Nat]
      /\ place \in [Items -> Places] /\ rev \in [Items -> Nat]
  BY RunFacts DEF FetchIncrementalPage, RunMayStart, PhaseFitsColumns, TypeOK
<1>2. /\ place' = place /\ rev' = rev /\ stamp' = stamp /\ clock' = clock /\ phase' = phase
      /\ durable_cursor' = durable_cursor /\ batch' = batch /\ walk' = walk
  BY <1>1 DEF vars, drive, store, tokens
<1>3. walk' = None
  BY <1>1, <1>2, RunFacts DEF WalkFits
<1>4. PICK upper \in durable_cursor .. clock :
        page' = [next |-> upper,
                 raw |-> [i \in Changed(durable_cursor, upper) |-> [parent |-> place[i], rev |-> rev[i]]],
                 todo |-> Changed(durable_cursor, upper),
                 resolved |-> [i \in {} |-> None]]
  BY DEF FetchIncrementalPage
<1>5. Changed(durable_cursor, upper) \subseteq Items /\ upper \in Nat
  BY <1>1 DEF Changed
<1>6. page' \in PageOf(Changed(durable_cursor, upper), {})
  <2>1. [i \in Changed(durable_cursor, upper) |-> [parent |-> place[i], rev |-> rev[i]]]
          \in [Changed(durable_cursor, upper) -> RawChange]
    BY <1>1, <1>5 DEF RawChange
  <2>2. [i \in {} |-> None] \in [{} -> RemoteEntry]
    OBVIOUS
  <2> QED
    BY <1>4, <1>5, <2>1, <2>2 DEF PageOf
<1>7. PageFits'
  <2>1. DOMAIN page'.raw = Changed(durable_cursor, upper) /\ page'.todo = Changed(durable_cursor, upper)
        /\ DOMAIN page'.resolved = {} /\ page'.next = upper
        /\ \A i \in Changed(durable_cursor, upper) :
             page'.raw[i].parent = place[i] /\ page'.raw[i].rev = rev[i]
    BY <1>4
  <2>2. \E S \in SUBSET Items : \E T \in SUBSET S : page' \in PageOf(S, T)
    BY <1>5, <1>6
  <2>3. /\ \A i \in DOMAIN page'.raw : durable_cursor' < stamp'[i]
        /\ \A i \in Items : durable_cursor' < stamp'[i] /\ stamp'[i] <= page'.next =>
             /\ i \in DOMAIN page'.raw
             /\ page'.raw[i].parent = place'[i] /\ page'.raw[i].rev = rev'[i]
    BY <1>1, <1>2, <2>1 DEF Changed
  <2>4. durable_cursor' <= page'.next /\ page'.next <= clock' /\ phase' = "ready" /\ batch' = None
    BY <1>1, <1>2, <2>1
  <2> QED
    BY <2>1, <2>2, <2>3, <2>4 DEF PageFits
<1>8. WalkFits'
  BY <1>3 DEF WalkFits
<1> QED
  BY <1>1, <1>7, <1>8, RunFrame

\* What a page is made of.
LEMMA PageFacts ==
  ASSUME RunInv, page # None
  PROVE  /\ phase = "ready" /\ batch = None
         /\ DOMAIN page.raw \subseteq Items /\ DOMAIN page.resolved \subseteq DOMAIN page.raw
         /\ page.todo \subseteq DOMAIN page.raw /\ page.next \in Nat
         /\ page \in PageOf(DOMAIN page.raw, DOMAIN page.resolved)
         /\ \A i \in DOMAIN page.raw : page.raw[i].parent \in Places /\ page.raw[i].rev \in Nat
         /\ \A i \in DOMAIN page.resolved : page.resolved[i] \in RemoteEntry
<1>1. PICK S \in SUBSET Items : \E T \in SUBSET S : page \in PageOf(S, T)
  BY RunFacts DEF PageFits
<1>2. PICK T \in SUBSET S : page \in PageOf(S, T)
  BY <1>1
<1>3. DOMAIN page.raw = S /\ DOMAIN page.resolved = T
  BY <1>2 DEF PageOf
<1>4. page.todo \subseteq S /\ page.next \in Nat /\ page.raw \in [S -> RawChange]
      /\ page.resolved \in [T -> RemoteEntry]
  BY <1>2 DEF PageOf
<1> QED
  BY <1>2, <1>3, <1>4, RunFacts DEF PageFits, RawChange

\* The change at hand needs no entry: the mirror does not have it.
LEMMA SkipPreserves ==
  ASSUME RunInv, page # None, NEW i \in page.todo, remote_entries[i] = None, SkipChange(i)
  PROVE  RunInv'
<1>1. /\ page' = [page EXCEPT !.todo = @ \ {i}] /\ walk' = None /\ UNCHANGED <<vars, batch>>
  BY DEF SkipChange
<1>2. /\ place' = place /\ rev' = rev /\ stamp' = stamp /\ clock' = clock /\ phase' = phase
      /\ durable_cursor' = durable_cursor /\ batch' = batch /\ remote_entries' = remote_entries
  BY <1>1 DEF vars, drive, store, tokens
<1>3. /\ page'.raw = page.raw /\ page'.resolved = page.resolved /\ page'.next = page.next
      /\ page'.todo = page.todo \ {i}
      /\ page' \in PageOf(DOMAIN page.raw, DOMAIN page.resolved)
  BY <1>1, PageFacts DEF PageOf
<1>4. PageFits'
  <2>1. \E S \in SUBSET Items : \E T \in SUBSET S : page' \in PageOf(S, T)
    BY <1>3, PageFacts
  <2>2. \A j \in DOMAIN page.raw :
          j \in page'.todo \/ j \in DOMAIN page.resolved \/ remote_entries[j] = None
    BY <1>3, RunFacts DEF PageFits
  <2> QED
    BY <1>2, <1>3, <2>1, <2>2, RunFacts DEF PageFits
<1>5. WalkFits'
  BY <1>1 DEF WalkFits
<1> QED
  BY <1>1, <1>4, <1>5, RunFrame

\* A change that left the root.
LEMMA LeavePreserves ==
  ASSUME RunInv, page # None, NEW i \in page.todo, Leave(i)
  PROVE  RunInv'
BY PageFacts, SkipPreserves, RescanFromRunPreserves DEF Leave

\* One hop of the ancestry.
LEMMA WalkPreserves ==
  ASSUME RunInv, WalkUp \/ \E i \in Items : BeginWalk(i)
  PROVE  RunInv'
<1>1. ASSUME UNCHANGED <<vars, batch, page>>, page # None, WalkFits' PROVE RunInv'
  <2>1. /\ place' = place /\ rev' = rev /\ stamp' = stamp /\ clock' = clock /\ phase' = phase
        /\ durable_cursor' = durable_cursor /\ batch' = batch /\ remote_entries' = remote_entries
        /\ page' = page
    BY <1>1 DEF vars, drive, store, tokens
  <2>2. PageFits'
    BY <2>1, RunFacts DEF PageFits
  <2> QED
    BY <1>1, <2>2, RunFrame
<1>2. ASSUME NEW i \in Items, BeginWalk(i) PROVE RunInv'
  <2>1. /\ page # None /\ i \in page.todo /\ page.raw[i].parent # Gone /\ page' = page
        /\ walk' = [item |-> i, path |-> <<i>>, at |-> page.raw[i].parent]
        /\ UNCHANGED <<vars, batch, page>>
    BY <1>2 DEF BeginWalk
  <2>2. page.raw[i].parent \in Places /\ <<i>> \in Seq(Items)
    BY <2>1, PageFacts
  <2>3. walk' \in Walk
    BY <2>1, <2>2 DEF Walk
  <2>4. WalkFits'
    BY <2>1, <2>3 DEF WalkFits
  <2> QED
    BY <1>1, <2>1, <2>4
<1>3. CASE WalkUp
  <2>1. walk # None /\ walk \in Walk /\ page # None /\ walk.at \in Folders
    BY <1>3, RunFacts DEF WalkUp, WalkFits
  <2>2. CASE RescanFromRun
    BY <2>1, <2>2, PageFacts, RescanFromRunPreserves
  <2>3. ASSUME walk' = [walk EXCEPT !.path = <<walk.at>> \o @, !.at = place[walk.at]],
               UNCHANGED <<vars, batch, page>>
        PROVE  RunInv'
    <3>1. place[walk.at] \in Places /\ <<walk.at>> \in Seq(Items) /\ walk.path \in Seq(Items)
      BY <2>1, RunFacts DEF TypeOK, Items, Walk
    <3>2. <<walk.at>> \o walk.path \in Seq(Items)
      BY <3>1
    <3>3. /\ walk' \in Walk /\ walk'.item = walk.item
      BY <2>1, <2>3, <3>1, <3>2 DEF Walk
    <3>4. page.raw[walk.item].parent # Outside
      BY <2>1, RunFacts, ItemsAssumption DEF WalkFits, Items
    <3>5. WalkFits'
      BY <2>1, <2>3, <3>3, <3>4, RunFacts DEF WalkFits
    <3> QED
      BY <1>1, <2>1, <2>3, <3>5
  <2> QED
    BY <1>3, <2>2, <2>3 DEF WalkUp
<1> QED
  BY <1>2, <1>3

\* A change below the root is resolved as it was fetched; a known item is where it was.
LEMMA InsidePreserves ==
  ASSUME RunInv, ResolveInside PROVE RunInv'
<1>1. /\ walk # None /\ walk \in Walk /\ page # None /\ walk.at = Root /\ walk.item \in page.todo
      /\ page.raw[walk.item].parent # Gone
      /\ page.raw[walk.item].parent = Outside => walk.at = Outside
  BY RunFacts DEF ResolveInside, WalkFits
<1>2. walk.item \in DOMAIN page.raw /\ page.raw[walk.item].parent \in Containers
      /\ page.raw[walk.item].rev \in Nat /\ walk.path \in Seq(Items)
  BY <1>1, PageFacts, ItemsAssumption DEF Walk, Places
<1> DEFINE d == [parent |-> page.raw[walk.item].parent, path |-> walk.path, rev |-> page.raw[walk.item].rev]
<1>3. CASE Moved(walk.item, d)
  BY <1>1, <1>3, PageFacts, RescanFromRunPreserves DEF ResolveInside
<1>4. CASE ~Moved(walk.item, d)
  <2> DEFINE r == [j \in DOMAIN page.resolved \cup {walk.item} |->
                     IF j = walk.item THEN d ELSE page.resolved[j]]
  <2>1. /\ page' = [page EXCEPT !.todo = @ \ {walk.item}, !.resolved = r]
        /\ walk' = None /\ UNCHANGED <<vars, batch>>
    BY <1>4 DEF ResolveInside
  <2>2. /\ d \in RemoteEntry /\ d.parent = page.raw[walk.item].parent /\ d.rev = page.raw[walk.item].rev
        /\ remote_entries[walk.item] # None =>
             remote_entries[walk.item].parent = d.parent /\ remote_entries[walk.item].path = d.path
    BY <1>2, <1>4 DEF RemoteEntry, Moved
  <2> HIDE DEF d
  <2>3. /\ DOMAIN r = DOMAIN page.resolved \cup {walk.item} /\ r[walk.item] = d
        /\ \A j \in DOMAIN page.resolved : j # walk.item => r[j] = page.resolved[j]
        /\ r \in [DOMAIN page.resolved \cup {walk.item} -> RemoteEntry]
    BY <2>2, <1>1, PageFacts
  <2> HIDE DEF r
  <2>4. /\ page'.raw = page.raw /\ page'.resolved = r /\ page'.next = page.next
        /\ page'.todo = page.todo \ {walk.item}
        /\ page' \in PageOf(DOMAIN page.raw, DOMAIN page.resolved \cup {walk.item})
    BY <1>1, <2>1, <2>3, PageFacts DEF PageOf
  <2>5. /\ place' = place /\ rev' = rev /\ stamp' = stamp /\ clock' = clock /\ phase' = phase
        /\ durable_cursor' = durable_cursor /\ batch' = batch /\ remote_entries' = remote_entries
    BY <2>1 DEF vars, drive, store, tokens
  <2>6. \E S \in SUBSET Items : \E T \in SUBSET S : page' \in PageOf(S, T)
    <3>1. DOMAIN page.resolved \cup {walk.item} \in SUBSET (DOMAIN page.raw)
      BY <1>1, <1>2, PageFacts
    <3>2. DOMAIN page.raw \in SUBSET Items
      BY <1>1, PageFacts
    <3> QED
      BY <2>4, <3>1, <3>2
  <2>7. \A j \in DOMAIN page.raw :
          j \in page'.todo \/ j \in DOMAIN page'.resolved \/ remote_entries[j] = None
    BY <1>1, <2>3, <2>4, RunFacts DEF PageFits
  <2>8. \A j \in DOMAIN page'.resolved :
          /\ page'.resolved[j].parent = page.raw[j].parent
          /\ page'.resolved[j].rev = page.raw[j].rev
          /\ remote_entries[j] # None =>
               /\ remote_entries[j].parent = page'.resolved[j].parent
               /\ remote_entries[j].path = page'.resolved[j].path
    BY <1>1, <2>2, <2>3, <2>4, RunFacts DEF PageFits
  <2>9. PageFits'
    BY <1>1, <2>4, <2>5, <2>6, <2>7, <2>8, RunFacts DEF PageFits
  <2>10. WalkFits'
    BY <2>1 DEF WalkFits
  <2> QED
    BY <2>1, <2>9, <2>10, RunFrame
<1> QED
  BY <1>3, <1>4

\* The entries are stored with the batch: the mirror is exact up to the page's token.
LEMMA BeginBatchPreserves ==
  ASSUME RunInv, BeginTransferChangeBatch PROVE RunInv'
<1>1. /\ page # None /\ page.todo = {} /\ phase = "ready" /\ batch = None
      /\ batch' = [expected |-> durable_cursor, next |-> page.next, downloads |-> Downloads]
      /\ page' = None /\ walk' = walk
      /\ remote_entries' = [i \in Items |-> IF i \in DOMAIN page.resolved THEN page.resolved[i]
                                            ELSE remote_entries[i]]
  BY DEF BeginTransferChangeBatch
<1>2. UNCHANGED <<place, rev, stamp, clock, account, phase, start_token, scan_page_token,
                  changes_page_token, durable_cursor, rescan_required, scan_frontier, answer>>
  BY DEF BeginTransferChangeBatch, drive, tokens
<1>3. /\ page.next \in Nat /\ durable_cursor \in Nat /\ durable_cursor <= page.next
      /\ page.next <= clock /\ Downloads \subseteq Files
  BY <1>1, PageFacts, RunFacts DEF PageFits, PhaseFitsColumns, Downloads
<1>4. walk' = None
  BY <1>1, RunFacts DEF WalkFits
<1>5. remote_entries' \in [Items -> RemoteEntry \cup {None}]
  BY <1>1, PageFacts, RunFacts DEF TypeOK
<1>6. StoreFits'
  BY <1>2, <1>5, RunFacts DEF StoreFits, TypeOK, DriveIsConsistent, PhaseFitsColumns, Live
<1>7. ScanFits' /\ FlagFits' /\ PageFits' /\ WalkFits'
  BY <1>1, <1>2, <1>4, RunFacts DEF ScanFits, FlagFits, PageFits, WalkFits
<1>8. /\ batch' \in Batch /\ batch'.expected = durable_cursor /\ batch'.next = page.next
  BY <1>1, <1>3 DEF Batch
<1>9. BatchFits'
  BY <1>1, <1>2, <1>3, <1>8 DEF BatchFits
<1>10. Position' = page.next /\ Position = durable_cursor
  <2>1. batch' # None
    BY <1>8, BatchAssumption
  <2> QED
    BY <1>1, <1>8, <2>1 DEF Position
<1>11. KnownEntriesAreExact'
  <2> SUFFICES ASSUME NEW i \in Items, remote_entries'[i] # None, stamp[i] <= page.next
               PROVE  remote_entries'[i].parent = place[i] /\ remote_entries'[i].rev = rev[i]
    BY <1>2, <1>10 DEF KnownEntriesAreExact
  <2>1. stamp[i] \in Nat
    BY RunFacts DEF TypeOK
  <2>2. CASE i \in DOMAIN page.resolved
    <3>1. i \in DOMAIN page.raw /\ remote_entries'[i] = page.resolved[i]
      BY <1>1, <2>2, PageFacts
    <3> QED
      BY <1>1, <2>2, <3>1, RunFacts DEF PageFits
  <2>3. CASE i \notin DOMAIN page.resolved
    <3>1. remote_entries'[i] = remote_entries[i] /\ i \notin DOMAIN page.raw
      BY <1>1, <2>3, RunFacts DEF PageFits
    <3>2. stamp[i] <= durable_cursor
      BY <1>1, <1>3, <2>1, <3>1, RunFacts DEF PageFits
    <3> QED
      BY <1>1, <1>10, <3>1, <3>2, RunFacts DEF KnownEntriesAreExact
  <2> QED
    BY <2>2, <2>3
<1> QED
  BY <1>6, <1>7, <1>9, <1>11 DEF RunInv

\* The cursor moves to where the mirror is already.
LEMMA CommitBatchPreserves ==
  ASSUME RunInv, CommitTransferChangeBatch PROVE RunInv'
<1>1. /\ batch # None /\ phase = "ready" /\ durable_cursor' = batch.next /\ batch' = None
      /\ batch \in Batch /\ batch.next <= clock /\ page = None
  BY RunFacts DEF CommitTransferChangeBatch, BatchFits, PageFits
<1>2. UNCHANGED <<place, rev, stamp, clock, account, phase, start_token, scan_page_token,
                  changes_page_token, rescan_required, scan_frontier, remote_entries, answer,
                  page, walk>>
  BY DEF CommitTransferChangeBatch, drive
<1>3. batch.next \in Nat /\ walk = None /\ Position' = Position
  BY <1>1, RunFacts DEF Batch, WalkFits, Position
<1>4. StoreFits'
  BY <1>1, <1>2, <1>3, RunFacts
  DEF StoreFits, TypeOK, DriveIsConsistent, PhaseFitsColumns, Live
<1>5. ScanFits' /\ FlagFits' /\ BatchFits' /\ PageFits' /\ WalkFits'
  BY <1>1, <1>2, <1>3, RunFacts DEF ScanFits, FlagFits, BatchFits, PageFits, WalkFits
<1>6. KnownEntriesAreExact'
  BY <1>2, <1>3, RunFacts DEF KnownEntriesAreExact
<1> QED
  BY <1>4, <1>5, <1>6 DEF RunInv
-----------------------------------------------------------------------------
(* Every step, and the theorems.                                            *)

LEMMA RunStepPreserves == RunInv /\ [IncrementalNext]_incrementalVars => RunInv'
<1> SUFFICES ASSUME RunInv, [IncrementalNext]_incrementalVars PROVE RunInv'
  OBVIOUS
<1>1. CASE (DriveNext \/ SyncNext) /\ UNCHANGED run
  <2>1. phase \in {"need_start_token", "scanning", "draining", "ready"}
    BY RunFacts DEF TypeOK
  <2> QED
    BY <1>1, <2>1, ScanStep, StartStep, ReadyEdit, ReadyRests
<1>2. CASE FetchIncrementalPage \/ AbandonPage
  BY <1>2, FetchPreserves, AbandonPreserves
<1>3. CASE ExpireDurableCursor
  BY <1>3, RescanFromRunPreserves DEF ExpireDurableCursor, RunMayStart
<1>4. CASE ResolveOutside \/ \E i \in Items : ResolveRemoved(i)
  <2>1. walk # None => page # None /\ walk.item \in page.todo
    BY RunFacts DEF WalkFits
  <2> QED
    BY <1>4, <2>1, LeavePreserves DEF ResolveOutside, ResolveRemoved
<1>5. CASE WalkUp \/ \E i \in Items : BeginWalk(i)
  BY <1>5, WalkPreserves
<1>6. CASE ResolveInside \/ BeginTransferChangeBatch \/ CommitTransferChangeBatch
  BY <1>6, InsidePreserves, BeginBatchPreserves, CommitBatchPreserves
<1>7. CASE UNCHANGED incrementalVars
  <2>1. UNCHANGED <<vars, batch, page, walk>>
    BY <1>7 DEF incrementalVars, run
  <2>2. /\ place' = place /\ rev' = rev /\ stamp' = stamp /\ clock' = clock /\ phase' = phase
        /\ durable_cursor' = durable_cursor /\ remote_entries' = remote_entries
        /\ batch' = batch /\ page' = page /\ walk' = walk
    BY <2>1 DEF vars, drive, store, tokens
  <2>3. PageFits' /\ WalkFits'
    BY <2>2, RunFacts DEF PageFits, WalkFits
  <2> QED
    BY <2>1, <2>3, RunFrame
<1> QED
  BY <1>1, <1>2, <1>3, <1>4, <1>5, <1>6, <1>7 DEF IncrementalNext, RunNext

\* RunInv holds in every reachable state, whatever others edit between two calls.
THEOREM RunInvHolds == IncrementalSpec => []RunInv
BY RunInit, RunStepPreserves, PTL DEF IncrementalSpec

\* begin_transfer_change_batch and commit_transfer_change_batch: the cursor that an active
\* batch starts from is there until the batch moves it.
THEOREM BatchHoldsItsCursorHolds == IncrementalSpec => []BatchHoldsItsCursor
<1>1. RunInv => BatchHoldsItsCursor
  BY RunFacts DEF BatchHoldsItsCursor, BatchFits, FlagFits
<1> QED
  BY <1>1, RunInvHolds, PTL

\* prepare_incremental_change_batch: what the mirror knows is exact up to the cursor.
THEOREM KnownEntriesAreExactHolds == IncrementalSpec => []KnownEntriesAreExact
<1>1. RunInv => KnownEntriesAreExact
  BY DEF RunInv
<1> QED
  BY <1>1, RunInvHolds, PTL

\* validate_resolved_transfer_changes: only a rescan moves or drops an entry.
THEOREM KnownItemsStayPutHolds == IncrementalSpec => KnownItemsStayPut
<1> DEFINE Stay == phase = "ready" /\ phase' = "ready" =>
                     \A i \in Items : remote_entries[i] # None =>
                       /\ remote_entries'[i] # None
                       /\ remote_entries'[i].parent = remote_entries[i].parent
                       /\ remote_entries'[i].path = remote_entries[i].path
<1>1. RunInv /\ [IncrementalNext]_incrementalVars => Stay
  <2> SUFFICES ASSUME RunInv, [IncrementalNext]_incrementalVars, phase = "ready", phase' = "ready"
               PROVE  Stay
    OBVIOUS
  <2>1. ASSUME remote_entries' = remote_entries PROVE Stay
    BY <2>1
  <2>2. CASE DriveNext \/ SyncNext
    BY <2>1, <2>2, ReadyRests, RunFacts, EditKeepsStore
  <2>3. CASE BeginTransferChangeBatch
    <3> SUFFICES ASSUME NEW i \in Items, remote_entries[i] # None
                 PROVE  /\ remote_entries'[i] # None
                        /\ remote_entries'[i].parent = remote_entries[i].parent
                        /\ remote_entries'[i].path = remote_entries[i].path
      OBVIOUS
    <3>1. page # None /\ remote_entries'[i] = IF i \in DOMAIN page.resolved THEN page.resolved[i]
                                              ELSE remote_entries[i]
      BY <2>3 DEF BeginTransferChangeBatch
    <3>2. CASE i \in DOMAIN page.resolved
      <4>1. page.resolved[i] # None
        BY <3>1, <3>2, PageFacts, NoneAssumption DEF RemoteEntry
      <4> QED
        BY <3>1, <3>2, <4>1, RunFacts DEF PageFits
    <3> QED
      BY <3>1, <3>2
  <2>4. CASE \/ FetchIncrementalPage \/ ExpireDurableCursor \/ WalkUp \/ ResolveOutside
             \/ ResolveInside \/ CommitTransferChangeBatch \/ AbandonPage
             \/ \E i \in Items : ResolveRemoved(i) \/ BeginWalk(i)
    BY <2>1, <2>4
    DEF FetchIncrementalPage, ExpireDurableCursor, WalkUp, ResolveOutside, ResolveInside,
        CommitTransferChangeBatch, AbandonPage, ResolveRemoved, BeginWalk, Leave, SkipChange,
        RescanFromRun, RescanRequired, vars, store
  <2>5. CASE UNCHANGED incrementalVars
    BY <2>1, <2>5 DEF incrementalVars, vars, store
  <2> QED
    BY <2>2, <2>3, <2>4, <2>5 DEF IncrementalNext, RunNext
<1> QED
  BY <1>1, RunInvHolds, PTL DEF KnownItemsStayPut, IncrementalSpec
=============================================================================
