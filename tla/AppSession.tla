----------------------------- MODULE AppSession -----------------------------
(***************************************************************************)
(* The application service behind the desktop commands: the one active     *)
(* Vault session, the folder picker that replaces it together with its     *)
(* watcher, the reads that hold a session only by value, and the guarded    *)
(* save that keeps the session's read lock from its check to its readback.  *)
(*                                                                         *)
(* Sources: crates/myvault-app-service/src/lib.rs,                         *)
(* crates/myvault-core/src/vault.rs (reading and replacing one note) and    *)
(* apps/tauri/src-tauri/src/app_commands.rs.                                *)
(*                                                                         *)
(* The content of a note is its revision and its home, the note it was      *)
(* written for.  The code only ever compares revisions; the home is there   *)
(* for the properties.                                                      *)
(***************************************************************************)
EXTENDS Integers, Sequences, FiniteSets

CONSTANTS
    Vaults,       \* folders the user can choose
    Notes,        \* Markdown notes, the same paths in every folder
    Revs,         \* revisions (digest and length) that a note can have
    FirstRev,     \* what every note holds at the start
    MaxSessions,  \* bound on the sessions issued
    None          \* no note, no result

ASSUME RevsAreNonempty == FirstRev \in Revs
ASSUME SessionsAreBounded == MaxSessions \in Nat \ {0}

VARIABLES
    issued,     \* the Vault of every session issued, by session number
    session,    \* AppService.session: the number of the active one, 0 for none
    watcher,    \* the session the installed watcher reports changes for
    event,      \* the session of a change report on its way, 0 for none
    disk,       \* disk[v][n]: what the file holds
    snapshots,  \* <<v, n, revision>> kept by the snapshot stores
    save,       \* the one vault_save_note command
    reads,      \* the vault_read_note commands whose reply still counts
    pick        \* the one vault_choose_folder command

sessionVars == <<issued, session, watcher>>
diskVars == <<disk, snapshots, event>>

Homes == Vaults \X Notes
Text(v, n, r) == [home |-> <<v, n>>, rev |-> r]
Texts == [home : Homes, rev : Revs]
VaultOf(id) == issued[id]

-----------------------------------------------------------------------------
(* The commands.                                                            *)

SaveStages == {"idle", "sent", "leased", "snapped", "staged", "checked", "renamed", "replied"}
SaveResults == {"none", "saved", "stale", "unknown", "error"}
ReadStages == {"idle", "sent", "held", "read", "replied"}
PickStages == {"idle", "asked", "opened", "active", "unwatched", "replied"}

NoSave == [stage |-> "idle", id |-> 0, vault |-> None, note |-> None, text |-> None,
           expected |-> FirstRev, raced |-> FALSE, result |-> "none"]
NoRead == [stage |-> "idle", kind |-> "none", id |-> 0, note |-> None, text |-> None]
NoPick == [stage |-> "idle", vault |-> None, id |-> 0]

\* The stages in which save_note holds the read lock of the session, and the
\* ones in which it also holds the mutation lock of the Vault.
Leased == {"leased", "snapped", "staged", "checked", "renamed"}
Locked == {"staged", "checked", "renamed"}

SessionTypeOK ==
    /\ issued \in Seq(Vaults) /\ Len(issued) <= MaxSessions
    /\ session \in 0 .. Len(issued) /\ watcher \in 0 .. Len(issued)
    /\ event \in 0 .. Len(issued)
    /\ disk \in [Vaults -> [Notes -> Texts]]
    /\ snapshots \subseteq Vaults \X Notes \X Revs
    /\ save \in [stage : SaveStages, id : 0 .. MaxSessions, vault : Vaults \cup {None},
                 note : Notes \cup {None}, text : Texts \cup {None}, expected : Revs, raced : BOOLEAN, result : SaveResults]
    /\ reads \in [{"note", "refresh"} ->
                    [stage : ReadStages, kind : {"none", "open", "reload", "refresh"},
                     id : 0 .. MaxSessions, note : Notes \cup {None}, text : Texts \cup {None}]]
    /\ pick \in [stage : PickStages, vault : Vaults \cup {None}, id : 0 .. MaxSessions]

SessionInit ==
    /\ issued = <<>> /\ session = 0 /\ watcher = 0 /\ event = 0
    /\ disk = [v \in Vaults |-> [n \in Notes |-> Text(v, n, FirstRev)]]
    /\ snapshots = {}
    /\ save = NoSave
    /\ reads = [slot \in {"note", "refresh"} |-> NoRead]
    /\ pick = NoPick

\* The watcher's callback: a change under the root it watches is reported with
\* the session it was installed for.
Reported(v) == IF watcher # 0 /\ VaultOf(watcher) = v THEN watcher ELSE event

-----------------------------------------------------------------------------
(* vault_choose_folder.                                                     *)

\* The dialog: cancelled, or the folder cannot be opened, or its snapshot
\* store cannot; else the Vault is ready to be activated.
PickFolder ==
    /\ pick.stage = "asked"
    /\ \/ pick' = [pick EXCEPT !.stage = "replied"]
       \/ /\ Len(issued) < MaxSessions
          /\ \E v \in Vaults : pick' = [pick EXCEPT !.stage = "opened", !.vault = v]
    /\ UNCHANGED <<sessionVars, diskVars, save, reads>>

\* Variant: the switch does not wait for the operations of the old session.
WriteLockIsIgnored == TRUE

\* The write lock of the session is free once no guard of a reader is alive.
WriteLockIsFree == save.stage \notin Leased

\* activate_trusted_vault: a new session, whatever Vault was active before.
Activate ==
    /\ pick.stage = "opened" /\ WriteLockIsFree
    /\ issued' = Append(issued, pick.vault)
    /\ session' = Len(issued')
    /\ pick' = [pick EXCEPT !.stage = "active", !.id = session']
    /\ UNCHANGED <<watcher, diskVars, save, reads>>

\* DesktopVaultWatcher::replace: the old watcher is dropped for the new one.
ReplaceWatcher ==
    /\ pick.stage = "active"
    /\ \/ /\ watcher' = pick.id
          /\ pick' = [pick EXCEPT !.stage = "replied"]
       \/ /\ pick' = [pick EXCEPT !.stage = "unwatched"]
          /\ UNCHANGED watcher
    /\ UNCHANGED <<issued, session, diskVars, save, reads>>

\* close, for a session whose watcher could not be installed: an error reply.
Close ==
    /\ pick.stage = "unwatched" /\ WriteLockIsFree
    /\ session' = IF session = pick.id THEN 0 ELSE session
    /\ pick' = [pick EXCEPT !.stage = "replied", !.vault = None, !.id = 0]
    /\ UNCHANGED <<issued, watcher, diskVars, save, reads>>

-----------------------------------------------------------------------------
(* read_note: with_session checks the session, reads from the Vault it      *)
(* cloned, and checks the session again before it answers.                  *)

HoldSession(slot) ==
    /\ reads[slot].stage = "sent"
    /\ reads' = [reads EXCEPT ![slot] =
                    IF session = @.id THEN [@ EXCEPT !.stage = "held"] ELSE NoRead]
    /\ UNCHANGED <<sessionVars, diskVars, save, pick>>

\* read_note_with_revision, under the mutation lock that all handles of one
\* folder share.
ReadNote(slot) ==
    /\ reads[slot].stage = "held"
    /\ LET v == VaultOf(reads[slot].id)
       IN /\ ~(save.stage \in Locked /\ save.vault = v)
          /\ \/ reads' = [reads EXCEPT ![slot] =
                             [@ EXCEPT !.stage = "read", !.text = disk[v][reads[slot].note]]]
             \/ reads' = [reads EXCEPT ![slot] = NoRead]
    /\ UNCHANGED <<sessionVars, diskVars, save, pick>>

ConfirmSession(slot) ==
    /\ reads[slot].stage = "read"
    /\ reads' = [reads EXCEPT ![slot] =
                    IF session = @.id THEN [@ EXCEPT !.stage = "replied"] ELSE NoRead]
    /\ UNCHANGED <<sessionVars, diskVars, save, pick>>

-----------------------------------------------------------------------------
(* save_note.                                                               *)

OnDisk == disk[save.vault][save.note].rev
Answer(result) == save' = [save EXCEPT !.stage = "replied", !.result = result]

\* Variant: any active session will do.
SessionIsActive == session # 0

\* The session check made under the read lock that the save then keeps.
SessionMatches == session = save.id

SaveLease ==
    /\ save.stage = "sent"
    /\ IF SessionMatches THEN save' = [save EXCEPT !.stage = "leased", !.vault = VaultOf(session)]
                         ELSE Answer("error")
    /\ UNCHANGED <<sessionVars, diskVars, reads, pick>>

\* The bytes about to be replaced are published as a snapshot first, or the
\* save is refused.
SnapshotNote ==
    /\ save.stage = "leased"
    /\ \/ /\ OnDisk # save.expected
          /\ Answer("stale")
          /\ UNCHANGED snapshots
       \/ /\ OnDisk = save.expected
          /\ snapshots' = snapshots \cup {<<save.vault, save.note, save.expected>>}
          /\ save' = [save EXCEPT !.stage = "snapped"]
       \/ /\ Answer("error")
          /\ UNCHANGED snapshots
    /\ UNCHANGED <<sessionVars, disk, event, reads, pick>>

\* The file on disk is still the one the caller expects: the check made before
\* the temporary file is written, and repeated once it is.
ExpectedIsOnDisk == OnDisk = save.expected

\* replace_content_file_if_revision up to its temporary file.
StageReplacement ==
    /\ save.stage = "snapped"
    /\ \/ ~ExpectedIsOnDisk /\ Answer("stale")
       \/ ExpectedIsOnDisk /\ save' = [save EXCEPT !.stage = "staged"]
       \/ Answer("error")
    /\ UNCHANGED <<sessionVars, diskVars, reads, pick>>

\* Variant: what was checked before the temporary file was written is trusted.
CheckReplacementOnce ==
    /\ save.stage = "staged"
    /\ \/ save' = [save EXCEPT !.stage = "checked"]
       \/ Answer("error")
    /\ UNCHANGED <<sessionVars, diskVars, reads, pick>>

CheckReplacement ==
    /\ save.stage = "staged"
    /\ \/ ~ExpectedIsOnDisk /\ Answer("stale")
       \/ ExpectedIsOnDisk /\ save' = [save EXCEPT !.stage = "checked"]
       \/ Answer("error")
    /\ UNCHANGED <<sessionVars, diskVars, reads, pick>>

RenameReplacement ==
    /\ save.stage = "checked"
    /\ disk' = [disk EXCEPT ![save.vault][save.note] = save.text]
    /\ event' = Reported(save.vault)
    /\ save' = [save EXCEPT !.stage = "renamed"]
    /\ UNCHANGED <<sessionVars, snapshots, reads, pick>>

\* The directory is synced and the file read back.
VerifyReplacement ==
    /\ save.stage = "renamed"
    /\ \/ OnDisk = save.text.rev /\ Answer("saved")
       \/ Answer("unknown")
    /\ UNCHANGED <<sessionVars, diskVars, reads, pick>>

\* Another program replaces a note.  It takes no lock of this program's.
ExternalWrite(v, n, r) ==
    /\ r # disk[v][n].rev
    /\ disk' = [disk EXCEPT ![v][n] = Text(v, n, r)]
    /\ event' = Reported(v)
    /\ save' = [save EXCEPT !.raced = @ \/ (save.stage = "checked" /\ save.note = n /\ save.vault = v)]
    /\ UNCHANGED <<sessionVars, snapshots, reads, pick>>

=============================================================================
