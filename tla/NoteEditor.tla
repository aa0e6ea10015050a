----------------------------- MODULE NoteEditor -----------------------------
(***************************************************************************)
(* The note editor of the desktop application on top of the application    *)
(* service: one open note, its save phase, the autosave, the reload, the    *)
(* refresh after a change report and the folder picker.  Every command is   *)
(* sent, runs in AppSession while the user keeps typing, and its reply is   *)
(* applied by the continuation of the handler that sent it.                 *)
(*                                                                         *)
(* Sources: apps/tauri/src/App.tsx, workspace.ts and reader.ts.             *)
(*                                                                         *)
(* A handler runs to its next await in one step and the state it sets is    *)
(* rendered before another handler runs.  A read whose request number has   *)
(* been passed is forgotten at once: its reply would be dropped.            *)
(***************************************************************************)
EXTENDS AppSession

CONSTANTS
    MaxEdits,   \* bound on the user's edits
    MaxWrites,  \* bound on the writes of other programs
    MaxReads    \* bound on the notes opened or reloaded

ASSUME EditorBounds == MaxEdits \in Nat /\ MaxWrites \in Nat /\ MaxReads \in Nat

VARIABLES
    ui,    \* App: the session and note shown, the buffer, and SaveState
    left   \* what the bounds still allow

vars == <<issued, session, watcher, event, disk, snapshots, save, reads, pick, ui, left>>
native == <<issued, session, watcher, event, disk, snapshots>>

Phases == {"clean", "dirty", "saving", "saved", "conflict", "unknown", "error"}
Settled == {"clean", "saved"}

\* INITIAL_SAVE with no note open, in a session.
Empty(id) == [session |-> id, path |-> None, text |-> None, base |-> FirstRev, phase |-> "clean"]

TypeOK ==
    /\ SessionTypeOK
    /\ ui \in [session : 0 .. MaxSessions, path : Notes \cup {None}, text : Texts \cup {None},
               base : Revs, phase : Phases]
    /\ left \in [edits : 0 .. MaxEdits, writes : 0 .. MaxWrites, reads : 0 .. MaxReads]

Init ==
    /\ SessionInit
    /\ ui = Empty(0)
    /\ left = [edits |-> MaxEdits, writes |-> MaxWrites, reads |-> MaxReads]

Spend(what) == left[what] > 0 /\ left' = [left EXCEPT ![what] = @ - 1]

-----------------------------------------------------------------------------
(* saveReducer.                                                             *)

Load(n, text) == [ui EXCEPT !.path = n, !.text = text, !.base = text.rev, !.phase = "clean"]
Edited(phase) == IF phase \in {"conflict", "unknown"} THEN phase ELSE "dirty"
Failed(result) ==
    CASE result = "stale" -> "conflict"
      [] result = "unknown" -> "unknown"
      [] OTHER -> "error"

-----------------------------------------------------------------------------
(* The handlers.                                                            *)

\* The editor's onChange.
Type(r) ==
    /\ ui.path # None /\ r # ui.text.rev
    /\ ui' = [ui EXCEPT !.text = Text(VaultOf(ui.session), ui.path, r), !.phase = Edited(@)]
    /\ Spend("edits")
    /\ UNCHANGED <<native, save, reads, pick>>

Send(slot, kind, n) ==
    reads' = [reads EXCEPT ![slot] = [stage |-> "sent", kind |-> kind, id |-> ui.session,
                                      note |-> n, text |-> None]]

\* openNote up to its await: refused unless the current note is settled.
OpenNote(n) ==
    /\ ui.session # 0 /\ n # ui.path /\ ui.phase \in Settled
    /\ Send("note", "open", n) /\ Spend("reads")
    /\ UNCHANGED <<native, save, pick, ui>>

\* reloadFromDisk, confirmed by the user.
Reload ==
    /\ ui.session # 0 /\ ui.path # None
    /\ Send("note", "reload", ui.path) /\ Spend("reads")
    /\ UNCHANGED <<native, save, pick, ui>>

\* The reply to openNote or to reloadFromDisk: a reload is for the note that is
\* still shown, an open replaces whatever is shown by now.
ReadReply ==
    LET r == reads["note"] IN
    /\ r.stage = "replied"
    /\ ui' = IF ui.session = r.id /\ (r.kind = "reload" => ui.path = r.note)
             THEN Load(r.note, r.text) ELSE ui
    /\ reads' = [reads EXCEPT !["note"] = NoRead]
    /\ UNCHANGED <<native, save, pick, left>>

\* A change report and its debounce timer: the plan made when the timer fires
\* refreshes the note shown if its buffer is settled.
ChangeReported ==
    /\ event # 0
    /\ event' = 0
    /\ IF event = ui.session /\ ui.phase \in Settled /\ ui.path # None
       THEN Send("refresh", "refresh", ui.path) ELSE UNCHANGED reads
    /\ UNCHANGED <<sessionVars, disk, snapshots, save, pick, ui, left>>

\* Variant: the plan made before the read is still followed after it.
RefreshIsWantedAsPlanned(r) == ui.session = r.id /\ ui.path = r.note

\* planVaultChange once more, with what is shown when the note has been read.
RefreshIsWanted(r) == ui.session = r.id /\ ui.path = r.note /\ ui.phase \in Settled

RefreshReply ==
    LET r == reads["refresh"] IN
    /\ r.stage = "replied"
    /\ ui' = IF RefreshIsWanted(r) /\ ui.base # r.text.rev THEN Load(r.note, r.text) ELSE ui
    /\ reads' = [reads EXCEPT !["refresh"] = NoRead]
    /\ UNCHANGED <<native, save, pick, left>>

\* saveNow: by the autosave timer, or by the user.
SaveNow ==
    /\ ui.path # None /\ ui.phase = "dirty" /\ save.stage = "idle"
    /\ save' = [NoSave EXCEPT !.stage = "sent", !.id = ui.session, !.note = ui.path,
                              !.text = ui.text, !.expected = ui.base]
    /\ ui' = [ui EXCEPT !.phase = "saving"]
    /\ UNCHANGED <<native, reads, pick, left>>

\* Variant: what was submitted is taken for what is shown.
StillCurrentAlways == TRUE

StillCurrent == ui.text.rev = save.text.rev

\* The reply to saveNow.  A failure is shown for whatever note is open by now.
SaveReply ==
    /\ save.stage = "replied"
    /\ IF save.result = "saved"
       THEN IF ui.session = save.id /\ ui.path = save.note
            THEN ui' = [ui EXCEPT !.phase = IF StillCurrent THEN "saved" ELSE "dirty",
                                  !.base = save.text.rev]
            ELSE ui' = [ui EXCEPT !.phase = "error"]
       ELSE ui' = [ui EXCEPT !.phase = Failed(save.result)]
    /\ save' = NoSave
    /\ UNCHANGED <<native, reads, pick, left>>

\* chooseVault up to its await.
ChooseVault ==
    /\ pick.stage = "idle" /\ save.stage = "idle"
    /\ ui.session = 0 \/ ui.phase \in Settled
    /\ pick' = [NoPick EXCEPT !.stage = "asked"]
    /\ UNCHANGED <<native, save, reads, ui, left>>

\* Its reply: an activated Vault empties the editor and passes the number of
\* the note's request.
ChooseReply ==
    /\ pick.stage = "replied"
    /\ IF pick.id # 0
       THEN ui' = Empty(pick.id) /\ reads' = [reads EXCEPT !["note"] = NoRead]
       ELSE UNCHANGED <<ui, reads>>
    /\ pick' = NoPick
    /\ UNCHANGED <<native, save, left>>

-----------------------------------------------------------------------------

Picking == PickFolder \/ Activate \/ ReplaceWatcher \/ Close
Reading(slot) == HoldSession(slot) \/ ReadNote(slot) \/ ConfirmSession(slot)
Saving == SaveLease \/ SnapshotNote \/ StageReplacement \/ CheckReplacement
          \/ RenameReplacement \/ VerifyReplacement

OtherProgram ==
    /\ \E v \in Vaults, n \in Notes, r \in Revs : ExternalWrite(v, n, r)
    /\ Spend("writes")
    /\ UNCHANGED ui

Next ==
    \/ Picking /\ UNCHANGED <<ui, left>>
    \/ \E slot \in {"note", "refresh"} : Reading(slot) /\ UNCHANGED <<ui, left>>
    \/ Saving /\ UNCHANGED <<ui, left>>
    \/ OtherProgram
    \/ \E r \in Revs : Type(r)
    \/ \E n \in Notes : OpenNote(n)
    \/ Reload \/ ReadReply
    \/ ChangeReported \/ RefreshReply
    \/ SaveNow \/ SaveReply
    \/ ChooseVault \/ ChooseReply

Spec == Init /\ [][Next]_vars

-----------------------------------------------------------------------------
(* Properties.                                                              *)

\* What the user typed into a note of a Vault is only ever shown as that note
\* and written to that note's file, however late the replies to openNote,
\* saveNow and chooseVault arrive and whichever session is active by then.
WrittenWhereTyped ==
    /\ \A v \in Vaults, n \in Notes : disk[v][n].home = <<v, n>>
    /\ ui.path # None => ui.text.home = <<VaultOf(ui.session), ui.path>>

\* An editor that reports its note clean or saved shows the bytes of the
\* revision it will expect on disk at the next save: typing while a save or a
\* refresh is on its way is not reported as saved.
CleanMeansSaved ==
    ui.path # None /\ ui.phase \in Settled => ui.text.rev = ui.base

\* A save works on the Vault of the active session from its check to its
\* readback: a Vault chosen meanwhile becomes active only after it.
LeaseHolds == save.stage \in Leased => session = save.id /\ save.vault = VaultOf(session)

\* The bytes that a save's rename takes away are in a snapshot, except for what
\* another program wrote between the last revision check and the rename.
ReplacedIsRecoverable ==
    [][save.stage = "checked" /\ save'.stage = "renamed"
       => save.raced \/ <<save.vault, save.note, disk[save.vault][save.note].rev>> \in snapshots]_vars

\* A refresh after a change report never replaces a buffer that holds an edit or
\* an unresolved save, whatever was typed while the note was being read.
RefreshKeepsTyping ==
    [][reads["refresh"].stage = "replied" /\ reads'["refresh"].stage = "idle"
       => ui' = ui \/ ui.phase \in Settled]_vars

\* "Finish or resolve the current note before switching.": a note that is not
\* settled is replaced in the editor only by a reload that the user confirmed.
TypedTextIsKept ==
    [][ui.phase \notin Settled /\ ui'.phase = "clean" /\ ui'.path # None
       => reads["note"].stage = "replied" /\ reads["note"].kind = "reload"]_vars

=============================================================================
