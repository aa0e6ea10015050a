--------------------------- MODULE NoteEditorProofs ---------------------------
(***************************************************************************)
(* Proofs about NoteEditor and the application service under it, for any    *)
(* folders, notes and revisions and any number of edits, reads and writes   *)
(* of other programs: what was typed is written where it was typed, a clean *)
(* editor shows what it expects on disk, a save keeps its Vault active, and *)
(* what a save takes away is in a snapshot.  EditorInv is inductive.        *)
(***************************************************************************)
EXTENDS NoteEditor, TLAPS

Issued == 1 .. Len(issued)
Slots == {"note", "refresh"}
Read == [stage : ReadStages, kind : {"none", "open", "reload", "refresh"},
         id : 0 .. MaxSessions, note : Notes \cup {None}, text : Texts \cup {None}]

\* Every file holds what was written for it.
DiskFits == \A v \in Vaults, n \in Notes : disk[v][n].home = <<v, n>>

\* A save carries text of the note it will write, of the session it was sent in.
SaveIsTyped ==
    save.stage # "idle" =>
      /\ save.id \in Issued /\ save.note \in Notes /\ save.text \in Texts
      /\ save.text.home = <<VaultOf(save.id), save.note>>

\* What the last revision check of a save saw is still there, unless another program wrote,
\* and has been in a snapshot since before the first one.
SaveIsChecked ==
    /\ save.stage \in {"snapped", "staged", "checked"} =>
         <<save.vault, save.note, save.expected>> \in snapshots
    /\ save.stage = "checked" /\ ~save.raced => OnDisk = save.expected

\* A read carries the note it was sent for, once it carries any.
ReadFits(r) ==
    r.stage # "idle" =>
      /\ r.id \in Issued /\ r.note \in Notes
      /\ r.stage \in {"read", "replied"} =>
           r.text \in Texts /\ r.text.home = <<VaultOf(r.id), r.note>>
ReadsFit == \A slot \in Slots : ReadFits(reads[slot])

\* The folder picker's session has been issued.
PickFits ==
    /\ pick.id \in 0 .. Len(issued)
    /\ pick.stage = "opened" => pick.vault \in Vaults /\ Len(issued) < MaxSessions

\* What the editor shows is of a session that was issued.
UiFits ==
    /\ ui.session \in 0 .. Len(issued)
    /\ ui.path # None =>
         /\ ui.session # 0 /\ ui.text \in Texts
         /\ ui.text.home = <<VaultOf(ui.session), ui.path>>

EditorInv ==
    /\ TypeOK /\ DiskFits /\ SaveIsTyped /\ SaveIsChecked /\ ReadsFit /\ PickFits /\ UiFits
    /\ LeaseHolds /\ CleanMeansSaved
-----------------------------------------------------------------------------
(* Frames: what a part of the invariant needs of a step.                    *)

Save == [stage : SaveStages, id : 0 .. MaxSessions, vault : Vaults \cup {None},
         note : Notes \cup {None}, text : Texts \cup {None}, expected : Revs, raced : BOOLEAN,
         result : SaveResults]
Pick == [stage : PickStages, vault : Vaults \cup {None}, id : 0 .. MaxSessions]
Ui == [session : 0 .. MaxSessions, path : Notes \cup {None}, text : Texts \cup {None},
       base : Revs, phase : Phases]
Left == [edits : 0 .. MaxEdits, writes : 0 .. MaxWrites, reads : 0 .. MaxReads]

\* Sessions are only ever added.
SessionsKept ==
    /\ issued' \in Seq(Vaults) /\ Len(issued') <= MaxSessions /\ Len(issued) <= Len(issued')
    /\ \A id \in Issued : issued'[id] = issued[id]

LEMMA TypeFacts ==
  ASSUME EditorInv
  PROVE  /\ issued \in Seq(Vaults) /\ Len(issued) \in Nat /\ Len(issued) <= MaxSessions
         /\ session \in 0 .. Len(issued) /\ watcher \in 0 .. Len(issued) /\ event \in 0 .. Len(issued)
         /\ disk \in [Vaults -> [Notes -> Texts]] /\ snapshots \subseteq Vaults \X Notes \X Revs
         /\ save \in Save /\ reads \in [Slots -> Read] /\ pick \in Pick /\ ui \in Ui /\ left \in Left
         /\ \A id \in Issued : VaultOf(id) \in Vaults
         /\ MaxSessions \in Nat /\ MaxEdits \in Nat /\ MaxWrites \in Nat /\ MaxReads \in Nat
BY SessionsAreBounded, EditorBounds
DEF EditorInv, TypeOK, SessionTypeOK, Save, Slots, Read, Pick, Ui, Left, Issued, VaultOf

LEMMA TypesFromParts ==
  ASSUME issued \in Seq(Vaults), Len(issued) <= MaxSessions,
         session \in 0 .. Len(issued), watcher \in 0 .. Len(issued), event \in 0 .. Len(issued),
         disk \in [Vaults -> [Notes -> Texts]], snapshots \subseteq Vaults \X Notes \X Revs,
         save \in Save, reads \in [Slots -> Read], pick \in Pick, ui \in Ui, left \in Left
  PROVE  TypeOK
BY DEF TypeOK, SessionTypeOK, Save, Slots, Read, Pick, Ui, Left

LEMMA TypesFromPartsNext ==
  (/\ issued \in Seq(Vaults) /\ Len(issued) <= MaxSessions
   /\ session \in 0 .. Len(issued) /\ watcher \in 0 .. Len(issued) /\ event \in 0 .. Len(issued)
   /\ disk \in [Vaults -> [Notes -> Texts]] /\ snapshots \subseteq Vaults \X Notes \X Revs
   /\ save \in Save /\ reads \in [Slots -> Read] /\ pick \in Pick /\ ui \in Ui /\ left \in Left)'
  => TypeOK'
BY TypesFromParts, PTL

LEMMA SessionsUnchanged == ASSUME EditorInv, UNCHANGED issued PROVE SessionsKept
BY TypeFacts DEF SessionsKept

LEMMA SaveTypedKept == ASSUME EditorInv, SessionsKept, UNCHANGED save PROVE SaveIsTyped'
BY TypeFacts DEF EditorInv, SaveIsTyped, SessionsKept, Issued, VaultOf

LEMMA SaveCheckedKept ==
  ASSUME EditorInv, UNCHANGED <<save, disk>>, snapshots \subseteq snapshots' PROVE SaveIsChecked'
BY DEF EditorInv, SaveIsChecked, OnDisk

LEMMA ReadFitsKept ==
  ASSUME EditorInv, SessionsKept, NEW slot \in Slots, reads'[slot] = reads[slot]
  PROVE  ReadFits(reads[slot])'
<1>1. ReadFits(reads[slot])
  BY DEF EditorInv, ReadsFit
<1> QED
  BY <1>1, TypeFacts DEF ReadFits, SessionsKept, Issued, VaultOf

LEMMA ReadsKept ==
  ASSUME EditorInv, SessionsKept, UNCHANGED reads PROVE ReadsFit'
BY ReadFitsKept DEF ReadsFit

LEMMA UiKept ==
  ASSUME EditorInv, SessionsKept, UNCHANGED ui PROVE UiFits' /\ CleanMeansSaved'
<1>1. CleanMeansSaved'
  BY DEF EditorInv, CleanMeansSaved
<1>2. UiFits'
  BY TypeFacts DEF EditorInv, UiFits, SessionsKept, Issued, VaultOf
<1> QED
  BY <1>1, <1>2

LEMMA InvFromPartsNext ==
  (/\ TypeOK /\ DiskFits /\ SaveIsTyped /\ SaveIsChecked /\ ReadsFit /\ PickFits /\ UiFits
   /\ LeaseHolds /\ CleanMeansSaved)' => EditorInv'
BY DEF EditorInv
-----------------------------------------------------------------------------
LEMMA InitHasInv == Init => EditorInv
<1> SUFFICES ASSUME Init PROVE EditorInv
  OBVIOUS
<1> USE DEF Init, SessionInit
<1>1. issued \in Seq(Vaults) /\ Len(issued) = 0
  OBVIOUS
<1>2. disk \in [Vaults -> [Notes -> Texts]] /\ DiskFits
  BY RevsAreNonempty DEF Text, Texts, Homes, DiskFits
<1>3. save \in Save /\ save.stage = "idle"
  BY RevsAreNonempty, SessionsAreBounded DEF NoSave, Save, SaveStages, SaveResults
<1>4. reads \in [Slots -> Read] /\ \A slot \in Slots : reads[slot].stage = "idle"
  BY SessionsAreBounded DEF NoRead, Slots, Read, ReadStages
<1>5. pick \in Pick /\ pick.stage = "idle" /\ pick.id = 0
  BY SessionsAreBounded DEF NoPick, Pick, PickStages
<1>6. ui \in Ui /\ ui.path = None /\ ui.session = 0
  BY RevsAreNonempty, SessionsAreBounded DEF Empty, Ui, Phases
<1>7. left \in Left
  BY EditorBounds DEF Left
<1>8. TypeOK
  BY <1>1, <1>2, <1>3, <1>4, <1>5, <1>6, <1>7, SessionsAreBounded, TypesFromParts
<1> QED
  BY <1>1, <1>2, <1>3, <1>4, <1>5, <1>6, <1>8
  DEF EditorInv, SaveIsTyped, SaveIsChecked, ReadsFit, ReadFits, PickFits, UiFits, LeaseHolds,
      CleanMeansSaved, Leased
-----------------------------------------------------------------------------
(* vault_choose_folder.                                                     *)

\* A step of the folder picker leaves the disk, the commands and the editor alone.
LEMMA PickingFrame ==
  ASSUME EditorInv, UNCHANGED <<diskVars, save, reads, ui, left>>, SessionsKept,
         session' \in 0 .. Len(issued'), watcher' \in 0 .. Len(issued'), pick' \in Pick, PickFits',
         LeaseHolds'
  PROVE  EditorInv'
<1>1. /\ disk' = disk /\ snapshots' = snapshots /\ event' = event /\ save' = save /\ reads' = reads
      /\ ui' = ui /\ left' = left
  BY DEF diskVars
<1>2. event' \in 0 .. Len(issued')
  BY <1>1, TypeFacts DEF SessionsKept
<1>3. TypeOK'
  BY <1>1, <1>2, TypeFacts, TypesFromPartsNext DEF SessionsKept
<1>4. DiskFits' /\ SaveIsTyped' /\ SaveIsChecked' /\ UiFits' /\ CleanMeansSaved'
  BY <1>1, SaveTypedKept, SaveCheckedKept, UiKept DEF EditorInv, DiskFits
<1>5. ReadsFit'
  BY <1>1, ReadsKept
<1> QED
  BY <1>3, <1>4, <1>5, InvFromPartsNext

LEMMA PickingPreserves ==
  ASSUME EditorInv, Picking, UNCHANGED <<ui, left>> PROVE EditorInv'
<1>0. /\ issued \in Seq(Vaults) /\ Len(issued) \in Nat /\ Len(issued) <= MaxSessions
      /\ session \in 0 .. Len(issued) /\ watcher \in 0 .. Len(issued) /\ pick \in Pick
      /\ MaxSessions \in Nat
  BY TypeFacts
<1>1. PickFits /\ LeaseHolds
  BY DEF EditorInv
<1>2. CASE PickFolder
  <2>1. /\ UNCHANGED <<diskVars, save, reads, ui, left>> /\ issued' = issued /\ session' = session
        /\ watcher' = watcher /\ save' = save
    BY <1>2 DEF PickFolder, sessionVars
  <2>2. pick' \in Pick /\ PickFits'
    BY <1>0, <1>1, <1>2, <2>1 DEF PickFolder, Pick, PickStages, PickFits
  <2>3. LeaseHolds'
    BY <1>1, <2>1 DEF LeaseHolds, VaultOf
  <2> QED
    BY <1>0, <2>1, <2>2, <2>3, SessionsUnchanged, PickingFrame
<1>3. CASE Activate
  <2>1. /\ UNCHANGED <<diskVars, save, reads, ui, left>> /\ watcher' = watcher /\ save' = save
        /\ pick.stage = "opened" /\ save.stage \notin Leased
        /\ issued' = Append(issued, pick.vault) /\ session' = Len(issued')
        /\ pick' = [pick EXCEPT !.stage = "active", !.id = session']
    BY <1>3 DEF Activate, WriteLockIsFree
  <2>2. pick.vault \in Vaults /\ Len(issued) < MaxSessions
    BY <1>1, <2>1 DEF PickFits
  <2>3. SessionsKept /\ Len(issued') = Len(issued) + 1
    BY <1>0, <2>1, <2>2 DEF SessionsKept, Issued
  <2>4. /\ session' \in 0 .. Len(issued') /\ watcher' \in 0 .. Len(issued')
        /\ Len(issued') \in 0 .. MaxSessions
    BY <1>0, <2>1, <2>3 DEF SessionsKept
  <2>5. pick' \in Pick /\ pick'.stage = "active" /\ pick'.id = Len(issued')
    BY <1>0, <2>1, <2>4 DEF Pick, PickStages
  <2>6. PickFits' /\ LeaseHolds'
    BY <2>1, <2>4, <2>5 DEF PickFits, LeaseHolds
  <2> QED
    BY <2>1, <2>3, <2>4, <2>5, <2>6, PickingFrame
<1>4. CASE ReplaceWatcher
  <2>1. /\ UNCHANGED <<diskVars, save, reads, ui, left>> /\ issued' = issued /\ session' = session
        /\ save' = save
    BY <1>4 DEF ReplaceWatcher
  <2>2. pick' \in Pick /\ PickFits' /\ watcher' \in 0 .. Len(issued')
    BY <1>0, <1>1, <1>4, <2>1 DEF ReplaceWatcher, Pick, PickStages, PickFits
  <2>3. LeaseHolds'
    BY <1>1, <2>1 DEF LeaseHolds, VaultOf
  <2> QED
    BY <1>0, <2>1, <2>2, <2>3, SessionsUnchanged, PickingFrame
<1>5. CASE Close
  <2>1. /\ UNCHANGED <<diskVars, save, reads, ui, left>> /\ issued' = issued /\ watcher' = watcher
        /\ save' = save /\ save.stage \notin Leased
    BY <1>5 DEF Close, WriteLockIsFree
  <2>2. session' \in 0 .. Len(issued')
    BY <1>0, <1>5, <2>1 DEF Close
  <2>4. pick' \in Pick /\ pick'.id = 0 /\ pick'.stage = "replied"
    <3>1. pick' = [pick EXCEPT !.stage = "replied", !.vault = None, !.id = 0]
      BY <1>5 DEF Close
    <3>2. 0 \in 0 .. MaxSessions /\ None \in Vaults \cup {None} /\ "replied" \in PickStages
      BY <1>0 DEF PickStages
    <3> QED
      BY <1>0, <3>1, <3>2 DEF Pick
  <2>5. PickFits'
    BY <1>0, <2>1, <2>4 DEF PickFits
  <2>3. LeaseHolds'
    BY <2>1 DEF LeaseHolds
  <2> QED
    BY <1>0, <2>1, <2>2, <2>3, <2>4, <2>5, SessionsUnchanged, PickingFrame
<1> QED
  BY <1>2, <1>3, <1>4, <1>5 DEF Picking
-----------------------------------------------------------------------------
(* read_note.                                                               *)

\* A step that leaves the sessions and the disk alone and that at most starts or ends a save.
LEMMA QuietFrame ==
  ASSUME EditorInv, UNCHANGED <<issued, session, watcher, disk, snapshots>>,
         event' \in 0 .. Len(issued), save' \in Save,
         save' = save \/ (save'.stage \in {"idle", "sent"} /\ SaveIsTyped'),
         reads' \in [Slots -> Read], ReadsFit', pick' \in Pick, PickFits',
         ui' \in Ui, UiFits', CleanMeansSaved', left' \in Left
  PROVE  EditorInv'
<1>1. TypeOK'
  BY TypeFacts, TypesFromPartsNext
<1>2. DiskFits'
  BY DEF EditorInv, DiskFits
<1>3. CASE save' = save
  <2>1. SaveIsTyped' /\ SaveIsChecked' /\ LeaseHolds'
    BY <1>3, SessionsUnchanged, SaveTypedKept, SaveCheckedKept DEF EditorInv, LeaseHolds, VaultOf
  <2> QED
    BY <1>1, <1>2, <2>1, InvFromPartsNext
<1>4. CASE save'.stage \in {"idle", "sent"} /\ SaveIsTyped'
  <2>1. SaveIsChecked' /\ LeaseHolds'
    BY <1>4 DEF SaveIsChecked, LeaseHolds, Leased
  <2> QED
    BY <1>1, <1>2, <1>4, <2>1, InvFromPartsNext
<1> QED
  BY <1>3, <1>4

\* A step that changes the read of one slot only.
LEMMA ReadFrame ==
  ASSUME EditorInv, NEW slot \in Slots, NEW r \in Read, ReadFits(r), reads' = [reads EXCEPT ![slot] = r],
         UNCHANGED <<issued, session, watcher, disk, snapshots, save, pick, ui>>,
         event' \in 0 .. Len(issued), left' \in Left
  PROVE  EditorInv'
<1>1. reads' \in [Slots -> Read] /\ reads'[slot] = r /\ \A x \in Slots \ {slot} : reads'[x] = reads[x]
  BY TypeFacts
<1>2. ReadFits(reads[slot])'
  BY <1>1 DEF ReadFits, Issued, VaultOf
<1>3. \A x \in Slots \ {slot} : ReadFits(reads[x])'
  BY <1>1, SessionsUnchanged, ReadFitsKept
<1>4. ReadsFit'
  BY <1>2, <1>3 DEF ReadsFit
<1>5. UiFits' /\ CleanMeansSaved' /\ PickFits'
  BY SessionsUnchanged, UiKept DEF EditorInv, PickFits
<1> QED
  BY <1>1, <1>4, <1>5, TypeFacts, QuietFrame

LEMMA NoReadFits == NoRead \in Read /\ NoRead.stage = "idle" /\ ReadFits(NoRead)
BY SessionsAreBounded DEF NoRead, Read, ReadStages, ReadFits

LEMMA ReadingPreserves ==
  ASSUME EditorInv, NEW slot \in Slots, Reading(slot), UNCHANGED <<ui, left>> PROVE EditorInv'
<1> DEFINE r == reads[slot]
<1>0. /\ r \in Read /\ ReadFits(r) /\ reads \in [Slots -> Read] /\ left \in Left
      /\ event \in 0 .. Len(issued) /\ disk \in [Vaults -> [Notes -> Texts]]
  BY TypeFacts DEF EditorInv, ReadsFit
<1>1. UNCHANGED <<issued, session, watcher, disk, snapshots, event, save, pick>>
  BY DEF Reading, HoldSession, ReadNote, ConfirmSession, sessionVars, diskVars
<1>2. ASSUME NEW q \in Read, ReadFits(q), reads' = [reads EXCEPT ![slot] = q] PROVE EditorInv'
  BY <1>0, <1>1, <1>2, ReadFrame
<1>3. CASE reads' = [reads EXCEPT ![slot] = NoRead]
  BY <1>2, <1>3, NoReadFits
<1>4. CASE HoldSession(slot) /\ reads' # [reads EXCEPT ![slot] = NoRead]
  <2> DEFINE q == [r EXCEPT !.stage = "held"]
  <2>1. reads' = [reads EXCEPT ![slot] = q] /\ r.stage = "sent"
    BY <1>0, <1>4 DEF HoldSession
  <2>2. q \in Read /\ q.stage = "held" /\ q.id = r.id /\ q.note = r.note
    BY <1>0 DEF Read, ReadStages
  <2> HIDE DEF q
  <2>3. ReadFits(q)
    BY <1>0, <2>1, <2>2 DEF ReadFits
  <2> QED
    BY <1>2, <2>1, <2>2, <2>3
<1>5. CASE ReadNote(slot) /\ reads' # [reads EXCEPT ![slot] = NoRead]
  <2> DEFINE v == VaultOf(r.id)
             q == [r EXCEPT !.stage = "read", !.text = disk[v][r.note]]
  <2>1. reads' = [reads EXCEPT ![slot] = q] /\ r.stage = "held"
    BY <1>0, <1>5 DEF ReadNote
  <2>2. v \in Vaults /\ r.note \in Notes
    BY <1>0, <2>1, TypeFacts DEF ReadFits
  <2>3. disk[v][r.note] \in Texts /\ disk[v][r.note].home = <<v, r.note>>
    BY <1>0, <2>2 DEF EditorInv, DiskFits
  <2>4. q \in Read /\ q.stage = "read" /\ q.id = r.id /\ q.note = r.note /\ q.text = disk[v][r.note]
    BY <1>0, <2>3 DEF Read, ReadStages
  <2> HIDE DEF q
  <2>5. ReadFits(q)
    BY <1>0, <2>1, <2>2, <2>3, <2>4 DEF ReadFits
  <2> QED
    BY <1>2, <2>1, <2>4, <2>5
<1>6. CASE ConfirmSession(slot) /\ reads' # [reads EXCEPT ![slot] = NoRead]
  <2> DEFINE q == [r EXCEPT !.stage = "replied"]
  <2>1. reads' = [reads EXCEPT ![slot] = q] /\ r.stage = "read"
    BY <1>0, <1>6 DEF ConfirmSession
  <2>2. q \in Read /\ q.stage = "replied" /\ q.id = r.id /\ q.note = r.note /\ q.text = r.text
    BY <1>0 DEF Read, ReadStages
  <2> HIDE DEF q
  <2>3. ReadFits(q)
    BY <1>0, <2>1, <2>2 DEF ReadFits
  <2> QED
    BY <1>2, <2>1, <2>2, <2>3
<1> QED
  BY <1>3, <1>4, <1>5, <1>6 DEF Reading
-----------------------------------------------------------------------------
(* save_note and the other program.                                         *)

\* A step of the save or of another program leaves sessions, reads and the editor alone.
LEMMA SavingFrame ==
  ASSUME EditorInv, UNCHANGED <<issued, session, watcher, reads, pick, ui>>, left' \in Left,
         event' \in 0 .. Len(issued), disk' \in [Vaults -> [Notes -> Texts]], DiskFits',
         snapshots' \subseteq Vaults \X Notes \X Revs, save' \in Save,
         save'.id = save.id, save'.note = save.note, save'.text = save.text,
         save.stage = "idle" => save'.stage = "idle",
         SaveIsChecked', LeaseHolds'
  PROVE  EditorInv'
<1>1. TypeOK'
  BY TypeFacts, TypesFromPartsNext
<1>2. SaveIsTyped'
  BY DEF EditorInv, SaveIsTyped, Issued, VaultOf
<1>3. ReadsFit' /\ UiFits' /\ CleanMeansSaved' /\ PickFits'
  BY SessionsUnchanged, ReadsKept, UiKept DEF EditorInv, PickFits
<1> QED
  BY <1>1, <1>2, <1>3, InvFromPartsNext

\* An answer ends the save's work on the disk.
LEMMA AnswerPreserves ==
  ASSUME EditorInv, save.stage # "idle", NEW result \in SaveResults, Answer(result),
         UNCHANGED <<issued, session, watcher, event, disk, snapshots, reads, pick, ui, left>>
  PROVE  EditorInv'
<1>1. save' \in Save /\ save'.stage = "replied" /\ save'.id = save.id /\ save'.note = save.note
      /\ save'.text = save.text
  BY TypeFacts DEF Answer, Save, SaveStages
<1>2. SaveIsChecked' /\ LeaseHolds' /\ DiskFits'
  BY <1>1 DEF SaveIsChecked, LeaseHolds, Leased, EditorInv, DiskFits
<1> QED
  BY <1>1, <1>2, TypeFacts, SavingFrame

\* A save goes on to its next stage.
LEMMA StageFacts ==
  ASSUME EditorInv, NEW stage \in SaveStages, save' = [save EXCEPT !.stage = stage]
  PROVE  /\ save' \in Save /\ save'.stage = stage /\ save'.id = save.id /\ save'.note = save.note
         /\ save'.text = save.text /\ save'.vault = save.vault /\ save'.expected = save.expected
         /\ save'.raced = save.raced
BY TypeFacts DEF Save

LEMMA LeasePreserves ==
  ASSUME EditorInv, SaveLease, UNCHANGED <<ui, left>> PROVE EditorInv'
<1>1. /\ save.stage = "sent"
      /\ UNCHANGED <<issued, session, watcher, event, disk, snapshots, reads, pick, ui, left>>
  BY DEF SaveLease, sessionVars, diskVars
<1>2. CASE Answer("error")
  BY <1>1, <1>2, AnswerPreserves DEF SaveResults
<1>3. CASE SessionMatches /\ save' = [save EXCEPT !.stage = "leased", !.vault = VaultOf(session)]
  <2>1. session = save.id /\ VaultOf(session) \in Vaults
    BY <1>1, <1>3, TypeFacts DEF SessionMatches, EditorInv, SaveIsTyped
  <2>2. /\ save' \in Save /\ save'.stage = "leased" /\ save'.id = save.id /\ save'.note = save.note
        /\ save'.text = save.text /\ save'.vault = VaultOf(session)
    BY <1>3, <2>1, TypeFacts DEF Save, SaveStages
  <2>3. SaveIsChecked' /\ LeaseHolds' /\ DiskFits'
    BY <1>1, <2>1, <2>2 DEF SaveIsChecked, LeaseHolds, VaultOf, EditorInv, DiskFits
  <2> QED
    BY <1>1, <2>2, <2>3, TypeFacts, SavingFrame
<1> QED
  BY <1>2, <1>3 DEF SaveLease

LEMMA SnapshotPreserves ==
  ASSUME EditorInv, SnapshotNote, UNCHANGED <<ui, left>> PROVE EditorInv'
<1>1. /\ save.stage = "leased"
      /\ UNCHANGED <<issued, session, watcher, event, disk, reads, pick, ui, left>>
  BY DEF SnapshotNote, sessionVars
<1>2. ASSUME NEW result \in {"stale", "error"}, Answer(result), UNCHANGED snapshots PROVE EditorInv'
  BY <1>1, <1>2, AnswerPreserves DEF SaveResults
<1>3. CASE /\ snapshots' = snapshots \cup {<<save.vault, save.note, save.expected>>}
           /\ save' = [save EXCEPT !.stage = "snapped"]
  <2>1. /\ save' \in Save /\ save'.stage = "snapped" /\ save'.id = save.id /\ save'.note = save.note
        /\ save'.text = save.text /\ save'.vault = save.vault /\ save'.expected = save.expected
    BY <1>3, StageFacts, "snapped" \in SaveStages DEF SaveStages
  <2>2. save.vault = VaultOf(session) /\ session = save.id
    BY <1>1 DEF EditorInv, LeaseHolds, Leased
  <2>3. save.vault \in Vaults /\ save.note \in Notes /\ save.expected \in Revs
    BY <1>1, <2>2, TypeFacts DEF EditorInv, SaveIsTyped, Save
  <2>4. snapshots' \subseteq Vaults \X Notes \X Revs
    BY <1>3, <2>3, TypeFacts
  <2>5. SaveIsChecked' /\ LeaseHolds' /\ DiskFits'
    BY <1>1, <1>3, <2>1, <2>2 DEF SaveIsChecked, LeaseHolds, VaultOf, EditorInv, DiskFits
  <2> QED
    BY <1>1, <2>1, <2>4, <2>5, TypeFacts, SavingFrame
<1> QED
  BY <1>2, <1>3 DEF SnapshotNote

LEMMA ReplacementPreserves ==
  ASSUME EditorInv, StageReplacement \/ CheckReplacement, UNCHANGED <<ui, left>> PROVE EditorInv'
<1>1. /\ save.stage \in {"snapped", "staged"}
      /\ UNCHANGED <<issued, session, watcher, event, disk, snapshots, reads, pick, ui, left>>
  BY DEF StageReplacement, CheckReplacement, sessionVars, diskVars
<1>2. ASSUME NEW result \in {"stale", "error"}, Answer(result) PROVE EditorInv'
  BY <1>1, <1>2, AnswerPreserves DEF SaveResults
<1>3. ASSUME NEW stage \in {"staged", "checked"}, OnDisk = save.expected,
             save' = [save EXCEPT !.stage = stage]
      PROVE  EditorInv'
  <2>1. /\ save' \in Save /\ save'.stage = stage /\ save'.id = save.id /\ save'.note = save.note
        /\ save'.text = save.text /\ save'.vault = save.vault /\ save'.expected = save.expected
    BY <1>3, StageFacts, stage \in SaveStages DEF SaveStages
  <2>2. save.vault = VaultOf(session) /\ session = save.id
    BY <1>1 DEF EditorInv, LeaseHolds, Leased
  <2>3. <<save.vault, save.note, save.expected>> \in snapshots
    BY <1>1 DEF EditorInv, SaveIsChecked
  <2>4. SaveIsChecked'
    BY <1>1, <1>3, <2>1, <2>3 DEF SaveIsChecked, OnDisk
  <2>5. LeaseHolds' /\ DiskFits'
    BY <1>1, <2>1, <2>2 DEF LeaseHolds, VaultOf, EditorInv, DiskFits
  <2> QED
    BY <1>1, <2>1, <2>4, <2>5, TypeFacts, SavingFrame
<1> QED
  BY <1>2, <1>3 DEF StageReplacement, CheckReplacement, ExpectedIsOnDisk

LEMMA ReportedFacts == ASSUME EditorInv, NEW v PROVE Reported(v) \in 0 .. Len(issued)
BY TypeFacts DEF Reported

LEMMA RenamePreserves ==
  ASSUME EditorInv, RenameReplacement, UNCHANGED <<ui, left>> PROVE EditorInv'
<1>1. /\ save.stage = "checked" /\ disk' = [disk EXCEPT ![save.vault][save.note] = save.text]
      /\ event' = Reported(save.vault) /\ save' = [save EXCEPT !.stage = "renamed"]
      /\ UNCHANGED <<issued, session, watcher, snapshots, reads, pick, ui, left>>
  BY DEF RenameReplacement, sessionVars
<1>2. /\ save' \in Save /\ save'.stage = "renamed" /\ save'.id = save.id /\ save'.note = save.note
      /\ save'.text = save.text /\ save'.vault = save.vault
  BY <1>1, StageFacts, "renamed" \in SaveStages DEF SaveStages
<1>3. save.vault = VaultOf(session) /\ session = save.id
  BY <1>1 DEF EditorInv, LeaseHolds, Leased
<1>4. /\ save.vault \in Vaults /\ save.note \in Notes /\ save.text \in Texts
      /\ save.text.home = <<save.vault, save.note>>
  BY <1>1, <1>3, TypeFacts DEF EditorInv, SaveIsTyped
<1>5. /\ disk' \in [Vaults -> [Notes -> Texts]]
      /\ \A v \in Vaults, n \in Notes :
           disk'[v][n] = IF v = save.vault /\ n = save.note THEN save.text ELSE disk[v][n]
  BY <1>1, <1>4, TypeFacts
<1>6. DiskFits'
  BY <1>4, <1>5 DEF EditorInv, DiskFits
<1>7. SaveIsChecked' /\ LeaseHolds'
  BY <1>1, <1>2, <1>3 DEF SaveIsChecked, LeaseHolds, VaultOf
<1>8. event' \in 0 .. Len(issued) /\ snapshots' \subseteq Vaults \X Notes \X Revs /\ left' \in Left
  BY <1>1, ReportedFacts, TypeFacts
<1> QED
  BY <1>1, <1>2, <1>5, <1>6, <1>7, <1>8, SavingFrame

LEMMA VerifyPreserves ==
  ASSUME EditorInv, VerifyReplacement, UNCHANGED <<ui, left>> PROVE EditorInv'
<1>1. /\ save.stage = "renamed"
      /\ UNCHANGED <<issued, session, watcher, event, disk, snapshots, reads, pick, ui, left>>
  BY DEF VerifyReplacement, sessionVars, diskVars
<1> QED
  BY <1>1, AnswerPreserves DEF SaveResults, VerifyReplacement

\* The bounds stay bounds.
LEMMA SpendFacts ==
  ASSUME EditorInv, NEW what \in {"edits", "writes", "reads"}, Spend(what) PROVE left' \in Left
<1>1. left \in Left /\ MaxEdits \in Nat /\ MaxWrites \in Nat /\ MaxReads \in Nat
  BY TypeFacts
<1>2. CASE what = "edits"
  BY <1>1, <1>2 DEF Spend, Left
<1>3. CASE what = "writes"
  BY <1>1, <1>3 DEF Spend, Left
<1>4. CASE what = "reads"
  BY <1>1, <1>4 DEF Spend, Left
<1> QED
  BY <1>2, <1>3, <1>4

LEMMA OtherProgramPreserves ==
  ASSUME EditorInv, OtherProgram PROVE EditorInv'
<1>1. PICK v \in Vaults, n \in Notes, r \in Revs : ExternalWrite(v, n, r)
  BY DEF OtherProgram
<1> DEFINE raced == save.raced \/ (save.stage = "checked" /\ save.note = n /\ save.vault = v)
<1>2. /\ disk' = [disk EXCEPT ![v][n] = Text(v, n, r)] /\ event' = Reported(v)
      /\ save' = [save EXCEPT !.raced = raced]
      /\ UNCHANGED <<issued, session, watcher, snapshots, reads, pick, ui>>
  BY <1>1 DEF ExternalWrite, sessionVars, OtherProgram
<1>3. raced \in BOOLEAN
  BY TypeFacts DEF Save
<1>4. /\ save' \in Save /\ save'.stage = save.stage /\ save'.id = save.id /\ save'.note = save.note
      /\ save'.text = save.text /\ save'.vault = save.vault /\ save'.expected = save.expected
      /\ save'.raced = raced
  <2> HIDE DEF raced
  <2> QED
    BY <1>2, <1>3, TypeFacts DEF Save
<1>5. Text(v, n, r) \in Texts /\ Text(v, n, r).home = <<v, n>>
  BY DEF Text, Texts, Homes
<1>6. /\ disk' \in [Vaults -> [Notes -> Texts]]
      /\ \A w \in Vaults, m \in Notes :
           disk'[w][m] = IF w = v /\ m = n THEN Text(v, n, r) ELSE disk[w][m]
  BY <1>2, <1>5, TypeFacts
<1>7. DiskFits'
  BY <1>5, <1>6 DEF EditorInv, DiskFits
<1>8. LeaseHolds'
  BY <1>2, <1>4 DEF EditorInv, LeaseHolds, VaultOf
<1>9. SaveIsChecked'
  <2>1. save.stage = "checked" => save.vault \in Vaults /\ save.note \in Notes
    BY TypeFacts DEF EditorInv, LeaseHolds, Leased, SaveIsTyped
  <2>2. save'.stage = "checked" /\ ~save'.raced =>
          disk'[save.vault][save.note] = disk[save.vault][save.note] /\ ~save.raced
    BY <1>4, <1>6, <2>1
  <2> QED
    BY <1>2, <1>4, <2>2 DEF EditorInv, SaveIsChecked, OnDisk
<1>10. event' \in 0 .. Len(issued) /\ snapshots' \subseteq Vaults \X Notes \X Revs /\ left' \in Left
  BY <1>2, ReportedFacts, TypeFacts, SpendFacts DEF OtherProgram
<1> QED
  BY <1>2, <1>4, <1>6, <1>7, <1>8, <1>9, <1>10, SavingFrame
-----------------------------------------------------------------------------
(* The editor.                                                              *)

\* A step that changes what is shown, and no read but one that it ends.
LEMMA UiFrame ==
  ASSUME EditorInv, UNCHANGED <<issued, session, watcher, event, disk, snapshots, pick>>,
         save' \in Save, save' = save \/ (save'.stage \in {"idle", "sent"} /\ SaveIsTyped'),
         reads' = reads \/ \E slot \in Slots : reads' = [reads EXCEPT ![slot] = NoRead],
         ui' \in Ui, UiFits', CleanMeansSaved', left' \in Left
  PROVE  EditorInv'
<1>1. reads' \in [Slots -> Read] /\ ReadsFit'
  <2>1. CASE reads' = reads
    BY <2>1, TypeFacts, SessionsUnchanged, ReadsKept
  <2>2. ASSUME NEW slot \in Slots, reads' = [reads EXCEPT ![slot] = NoRead]
        PROVE  reads' \in [Slots -> Read] /\ ReadsFit'
    <3>1. reads' \in [Slots -> Read] /\ reads'[slot] = NoRead /\ \A x \in Slots \ {slot} : reads'[x] = reads[x]
      BY <2>2, TypeFacts, NoReadFits
    <3>2. ReadFits(reads[slot])'
      BY <3>1, NoReadFits DEF ReadFits
    <3>3. \A x \in Slots \ {slot} : ReadFits(reads[x])'
      BY <3>1, SessionsUnchanged, ReadFitsKept
    <3> QED
      BY <3>1, <3>2, <3>3 DEF ReadsFit
  <2> QED
    BY <2>1, <2>2
<1>2. PickFits' /\ pick' \in Pick /\ event' \in 0 .. Len(issued)
  BY TypeFacts DEF EditorInv, PickFits
<1> QED
  BY <1>1, <1>2, QuietFrame

\* A note that is shown is a note of an issued session.
LEMMA ShownFacts ==
  ASSUME EditorInv, ui.path # None
  PROVE  /\ ui.path \in Notes /\ ui.session \in Issued /\ VaultOf(ui.session) \in Vaults
         /\ ui.text \in Texts /\ ui.text.home = <<VaultOf(ui.session), ui.path>>
<1>1. /\ ui.session \in 0 .. Len(issued) /\ ui.session # 0 /\ ui.text \in Texts
      /\ ui.text.home = <<VaultOf(ui.session), ui.path>>
  BY DEF EditorInv, UiFits
<1>2. ui.session \in Issued
  BY <1>1, TypeFacts DEF Issued
<1> QED
  BY <1>1, <1>2, TypeFacts DEF Ui

LEMMA TypePreserves ==
  ASSUME EditorInv, NEW r \in Revs, Type(r) PROVE EditorInv'
<1>1. /\ ui.path # None /\ Spend("edits")
      /\ ui' = [ui EXCEPT !.text = Text(VaultOf(ui.session), ui.path, r), !.phase = Edited(@)]
      /\ UNCHANGED <<issued, session, watcher, event, disk, snapshots, save, reads, pick>>
  BY DEF Type, native
<1>2. /\ ui.path \in Notes /\ ui.session \in Issued /\ VaultOf(ui.session) \in Vaults
  BY <1>1, ShownFacts
<1> DEFINE text == Text(VaultOf(ui.session), ui.path, r)
<1>3. text \in Texts /\ text.home = <<VaultOf(ui.session), ui.path>>
  BY <1>2 DEF Text, Texts, Homes
<1>4. Edited(ui.phase) \in Phases \ Settled
  BY DEF Edited, Phases, Settled
<1>5. /\ ui' \in Ui /\ ui'.session = ui.session /\ ui'.path = ui.path /\ ui'.text = text
      /\ ui'.phase \notin Settled
  <2> HIDE DEF text
  <2>1. ui' = [ui EXCEPT !.text = text, !.phase = Edited(ui.phase)]
    BY <1>1, TypeFacts DEF text, Ui
  <2> QED
    BY <1>3, <1>4, <2>1, TypeFacts DEF Ui
<1> HIDE DEF text
<1>6. UiFits' /\ CleanMeansSaved'
  BY <1>1, <1>2, <1>3, <1>5, TypeFacts DEF UiFits, CleanMeansSaved, VaultOf, EditorInv
<1>7. left' \in Left /\ save' \in Save
  BY <1>1, SpendFacts, TypeFacts
<1> QED
  BY <1>1, <1>5, <1>6, <1>7, UiFrame

\* A read is sent for a note in the editor's session.
LEMMA SendPreserves ==
  ASSUME EditorInv, NEW slot \in Slots, NEW kind \in {"open", "reload", "refresh"}, NEW n \in Notes,
         ui.session # 0, Send(slot, kind, n),
         UNCHANGED <<issued, session, watcher, disk, snapshots, save, pick, ui>>,
         event' \in 0 .. Len(issued), left' \in Left
  PROVE  EditorInv'
<1> DEFINE q == [stage |-> "sent", kind |-> kind, id |-> ui.session, note |-> n, text |-> None]
<1>1. ui.session \in Issued /\ ui.session \in 0 .. MaxSessions
  BY TypeFacts DEF EditorInv, UiFits, Issued, Ui
<1>2. q \in Read /\ q.stage = "sent" /\ q.id = ui.session /\ q.note = n
  BY <1>1 DEF Read, ReadStages
<1>3. reads' = [reads EXCEPT ![slot] = q]
  BY DEF Send
<1> HIDE DEF q
<1>4. ReadFits(q)
  BY <1>1, <1>2 DEF ReadFits
<1> QED
  BY <1>2, <1>3, <1>4, ReadFrame

LEMMA SendingPreserves ==
  ASSUME EditorInv, (\E n \in Notes : OpenNote(n)) \/ Reload \/ ChangeReported PROVE EditorInv'
<1>1. ASSUME NEW n \in Notes, OpenNote(n) PROVE EditorInv'
  BY <1>1, SpendFacts, SendPreserves, TypeFacts DEF OpenNote, native, Slots
<1>2. CASE Reload
  BY <1>2, ShownFacts, SpendFacts, SendPreserves, TypeFacts DEF Reload, native, Slots
<1>3. CASE ChangeReported
  <2>1. /\ event # 0 /\ event' = 0
        /\ UNCHANGED <<issued, session, watcher, disk, snapshots, save, pick, ui, left>>
    BY <1>3 DEF ChangeReported, sessionVars
  <2>2. event' \in 0 .. Len(issued) /\ left' \in Left
    BY <2>1, TypeFacts
  <2>3. CASE event = ui.session /\ ui.path # None /\ Send("refresh", "refresh", ui.path)
    BY <2>1, <2>2, <2>3, ShownFacts, SendPreserves DEF Slots
  <2>4. CASE UNCHANGED reads
    <3>1. /\ ReadsFit' /\ UiFits' /\ CleanMeansSaved' /\ PickFits'
      BY <2>1, <2>4, SessionsUnchanged, ReadsKept, UiKept DEF EditorInv, PickFits
    <3> QED
      BY <2>1, <2>2, <2>4, <3>1, TypeFacts, QuietFrame
  <2> QED
    BY <1>3, <2>3, <2>4 DEF ChangeReported
<1> QED
  BY <1>1, <1>2, <1>3

\* What a read loads is the note it was sent for, in its session.
LEMMA LoadFacts ==
  ASSUME EditorInv, NEW r, ReadFits(r), r.stage = "replied", r.id = ui.session,
         ui' = Load(r.note, r.text), UNCHANGED issued
  PROVE  ui' \in Ui /\ UiFits' /\ CleanMeansSaved'
<1>1. /\ r.id \in Issued /\ r.note \in Notes /\ r.text \in Texts
      /\ r.text.home = <<VaultOf(r.id), r.note>>
  BY DEF ReadFits
<1>2. /\ ui' \in Ui /\ ui'.session = ui.session /\ ui'.path = r.note /\ ui'.text = r.text
      /\ ui'.base = r.text.rev
  BY <1>1, TypeFacts DEF Load, Ui, Texts, Phases
<1>3. UiFits' /\ CleanMeansSaved'
  BY <1>1, <1>2, TypeFacts DEF UiFits, CleanMeansSaved, Issued, VaultOf
<1> QED
  BY <1>2, <1>3

LEMMA ReplyPreserves ==
  ASSUME EditorInv, ReadReply \/ RefreshReply PROVE EditorInv'
<1>1. PICK slot \in Slots :
        /\ reads[slot].stage = "replied" /\ reads' = [reads EXCEPT ![slot] = NoRead]
        /\ \/ ui.session = reads[slot].id /\ ui' = Load(reads[slot].note, reads[slot].text)
           \/ ui' = ui
        /\ UNCHANGED <<issued, session, watcher, event, disk, snapshots, save, pick, left>>
  BY DEF ReadReply, RefreshReply, RefreshIsWanted, native, Slots
<1>2. ReadFits(reads[slot])
  BY DEF EditorInv, ReadsFit
<1>3. ui' \in Ui /\ UiFits' /\ CleanMeansSaved'
  <2>1. CASE ui.session = reads[slot].id /\ ui' = Load(reads[slot].note, reads[slot].text)
    BY <1>1, <1>2, <2>1, LoadFacts
  <2>2. CASE ui' = ui
    BY <1>1, <2>2, TypeFacts, SessionsUnchanged, UiKept
  <2> QED
    BY <1>1, <2>1, <2>2
<1>4. save' \in Save /\ left' \in Left
  BY <1>1, TypeFacts
<1> QED
  BY <1>1, <1>3, <1>4, UiFrame

LEMMA NoSaveFits == NoSave \in Save /\ NoSave.stage = "idle"
BY RevsAreNonempty, SessionsAreBounded DEF NoSave, Save, SaveStages, SaveResults

LEMMA SaveNowPreserves ==
  ASSUME EditorInv, SaveNow PROVE EditorInv'
<1>1. /\ ui.path # None /\ ui' = [ui EXCEPT !.phase = "saving"]
      /\ save' = [NoSave EXCEPT !.stage = "sent", !.id = ui.session, !.note = ui.path,
                                !.text = ui.text, !.expected = ui.base]
      /\ UNCHANGED <<issued, session, watcher, event, disk, snapshots, reads, pick, left>>
  BY DEF SaveNow, native
<1>2. /\ ui.path \in Notes /\ ui.session \in Issued
      /\ ui.text \in Texts /\ ui.text.home = <<VaultOf(ui.session), ui.path>>
  BY <1>1, ShownFacts
<1>3. /\ save' \in Save /\ save'.stage = "sent" /\ save'.id = ui.session /\ save'.note = ui.path
      /\ save'.text = ui.text
  BY <1>1, <1>2, NoSaveFits, TypeFacts DEF Save, SaveStages, Ui
<1>4. SaveIsTyped'
  BY <1>1, <1>2, <1>3 DEF SaveIsTyped, Issued, VaultOf
<1>5. /\ ui' \in Ui /\ ui'.session = ui.session /\ ui'.path = ui.path /\ ui'.text = ui.text
      /\ ui'.phase = "saving"
  BY <1>1, TypeFacts DEF Ui, Phases
<1>6. UiFits' /\ CleanMeansSaved'
  BY <1>1, <1>5, TypeFacts DEF EditorInv, UiFits, CleanMeansSaved, Settled, VaultOf
<1> QED
  BY <1>1, <1>3, <1>4, <1>5, <1>6, TypeFacts, UiFrame

LEMMA SaveReplyPreserves ==
  ASSUME EditorInv, SaveReply PROVE EditorInv'
<1>1. /\ save.stage = "replied" /\ save' = NoSave
      /\ UNCHANGED <<issued, session, watcher, event, disk, snapshots, reads, pick, left>>
  BY DEF SaveReply, native
<1>2. save.text \in Texts
  BY <1>1 DEF EditorInv, SaveIsTyped
<1>3. SaveIsTyped' /\ save' \in Save
  BY <1>1, NoSaveFits DEF SaveIsTyped
<1>4. /\ ui' \in Ui /\ ui'.session = ui.session /\ ui'.path = ui.path /\ ui'.text = ui.text
      /\ ui'.phase \in Settled => ui'.text.rev = ui'.base
  <2>1. CASE ui' = [ui EXCEPT !.phase = IF StillCurrent THEN "saved" ELSE "dirty", !.base = save.text.rev]
    <3>1. save.text.rev \in Revs
      BY <1>2 DEF Texts
    <3>2. CASE StillCurrent
      BY <2>1, <3>1, <3>2, TypeFacts DEF Ui, Phases, Settled, StillCurrent
    <3>3. CASE ~StillCurrent
      BY <2>1, <3>1, <3>3, TypeFacts DEF Ui, Phases, Settled
    <3> QED
      BY <3>2, <3>3
  <2>2. ASSUME NEW phase \in {"error", "conflict", "unknown"}, ui' = [ui EXCEPT !.phase = phase]
        PROVE  /\ ui' \in Ui /\ ui'.session = ui.session /\ ui'.path = ui.path /\ ui'.text = ui.text
               /\ ui'.phase \in Settled => ui'.text.rev = ui'.base
    BY <2>2, TypeFacts DEF Ui, Phases, Settled
  <2>3. Failed(save.result) \in {"error", "conflict", "unknown"}
    BY DEF Failed
  <2> QED
    BY <2>1, <2>2, <2>3 DEF SaveReply
<1>5. UiFits' /\ CleanMeansSaved'
  BY <1>1, <1>4, TypeFacts DEF EditorInv, UiFits, CleanMeansSaved, VaultOf
<1> QED
  BY <1>1, <1>3, <1>4, <1>5, NoSaveFits, TypeFacts, UiFrame

LEMMA ChoosePreserves ==
  ASSUME EditorInv, ChooseVault \/ ChooseReply PROVE EditorInv'
<1>1. /\ UNCHANGED <<issued, session, watcher, event, disk, snapshots, save, left>>
  BY DEF ChooseVault, ChooseReply, native
<1>2. pick' \in Pick /\ pick'.id = 0 /\ pick'.stage # "opened"
  BY SessionsAreBounded DEF ChooseVault, ChooseReply, NoPick, Pick, PickStages
<1>3. PickFits'
  BY <1>1, <1>2, TypeFacts DEF PickFits
<1>4. CASE UNCHANGED <<ui, reads>>
  <2>1. /\ ReadsFit' /\ UiFits' /\ CleanMeansSaved'
    BY <1>1, <1>4, SessionsUnchanged, ReadsKept, UiKept
  <2> QED
    BY <1>1, <1>2, <1>3, <1>4, <2>1, TypeFacts, QuietFrame
<1>5. CASE ui' = Empty(pick.id) /\ reads' = [reads EXCEPT !["note"] = NoRead]
  <2>1. /\ ui' \in Ui /\ ui'.path = None /\ ui'.session = pick.id
    BY <1>5, RevsAreNonempty, TypeFacts DEF Empty, Ui, Phases, Pick
  <2>2. UiFits' /\ CleanMeansSaved'
    BY <1>1, <2>1 DEF EditorInv, PickFits, UiFits, CleanMeansSaved
  <2>3. /\ reads' \in [Slots -> Read] /\ reads'["note"] = NoRead /\ reads'["refresh"] = reads["refresh"]
    BY <1>5, TypeFacts, NoReadFits DEF Slots
  <2>4. ReadFits(reads["note"])'
    BY <2>3, NoReadFits DEF ReadFits
  <2>5. ReadFits(reads["refresh"])'
    BY <1>1, <2>3, SessionsUnchanged, ReadFitsKept DEF Slots
  <2>6. ReadsFit'
    BY <2>4, <2>5 DEF ReadsFit, Slots
  <2> QED
    BY <1>1, <1>2, <1>3, <2>1, <2>2, <2>3, <2>6, TypeFacts, QuietFrame
<1> QED
  BY <1>4, <1>5 DEF ChooseVault, ChooseReply
-----------------------------------------------------------------------------
LEMMA NextPreserves == EditorInv /\ [Next]_vars => EditorInv'
<1> SUFFICES ASSUME EditorInv, [Next]_vars PROVE EditorInv'
  OBVIOUS
<1>1. CASE UNCHANGED vars
  <2>1. UNCHANGED <<issued, session, watcher, event, disk, snapshots, save, reads, pick, ui, left>>
    BY <1>1 DEF vars
  <2>2. ReadsFit' /\ UiFits' /\ CleanMeansSaved' /\ PickFits'
    BY <2>1, SessionsUnchanged, ReadsKept, UiKept DEF EditorInv, PickFits
  <2> QED
    BY <2>1, <2>2, TypeFacts, QuietFrame
<1>2. CASE Picking /\ UNCHANGED <<ui, left>>
  BY <1>2, PickingPreserves
<1>3. ASSUME NEW slot \in {"note", "refresh"}, Reading(slot), UNCHANGED <<ui, left>> PROVE EditorInv'
  BY <1>3, ReadingPreserves DEF Slots
<1>4. CASE Saving /\ UNCHANGED <<ui, left>>
  BY <1>4, LeasePreserves, SnapshotPreserves, ReplacementPreserves, RenamePreserves, VerifyPreserves
  DEF Saving
<1>5. CASE OtherProgram
  BY <1>5, OtherProgramPreserves
<1>6. ASSUME NEW r \in Revs, Type(r) PROVE EditorInv'
  BY <1>6, TypePreserves
<1>7. CASE (\E n \in Notes : OpenNote(n)) \/ Reload \/ ChangeReported
  BY <1>7, SendingPreserves
<1>8. CASE ReadReply \/ RefreshReply
  BY <1>8, ReplyPreserves
<1>9. CASE SaveNow \/ SaveReply \/ ChooseVault \/ ChooseReply
  BY <1>9, SaveNowPreserves, SaveReplyPreserves, ChoosePreserves
<1> QED
  BY <1>1, <1>2, <1>3, <1>4, <1>5, <1>6, <1>7, <1>8, <1>9 DEF Next

\* EditorInv holds in every reachable state, however the replies, the typing and the other
\* program's writes are interleaved.
THEOREM EditorInvHolds == Spec => []EditorInv
BY InitHasInv, NextPreserves, PTL DEF Spec

\* saveNow, openNote, reloadFromDisk and chooseVault: what was typed into a note is only
\* ever shown as that note and written to that note's file.
THEOREM WrittenWhereTypedHolds == Spec => []WrittenWhereTyped
<1>1. EditorInv => WrittenWhereTyped
  BY DEF EditorInv, DiskFits, UiFits, WrittenWhereTyped
<1> QED
  BY <1>1, EditorInvHolds, PTL

\* saveReducer: an editor that is clean or saved shows the revision it expects on disk.
THEOREM CleanMeansSavedHolds == Spec => []CleanMeansSaved
<1>1. EditorInv => CleanMeansSaved
  BY DEF EditorInv
<1> QED
  BY <1>1, EditorInvHolds, PTL

\* save_note keeps the session it checked active until it has read the file back.
THEOREM LeaseAlwaysHolds == Spec => []LeaseHolds
<1>1. EditorInv => LeaseHolds
  BY DEF EditorInv
<1> QED
  BY <1>1, EditorInvHolds, PTL

\* What the rename of a save takes away is in a snapshot, unless another program wrote it
\* after the last revision check.
THEOREM ReplacedIsRecoverableHolds == Spec => ReplacedIsRecoverable
<1>1. EditorInv => (save.stage = "checked" /\ save'.stage = "renamed" =>
         save.raced \/ <<save.vault, save.note, disk[save.vault][save.note].rev>> \in snapshots)
  BY DEF EditorInv, SaveIsChecked, OnDisk
<1> QED
  BY <1>1, EditorInvHolds, PTL DEF ReplacedIsRecoverable

\* The refresh after a change report never replaces a buffer that is not settled.
THEOREM RefreshKeepsTypingHolds == Spec => RefreshKeepsTyping
<1> DEFINE Kept == reads["refresh"].stage = "replied" /\ reads'["refresh"].stage = "idle"
                     => ui' = ui \/ ui.phase \in Settled
<1>1. EditorInv /\ [Next]_vars => Kept
  <2> SUFFICES ASSUME EditorInv, [Next]_vars, ui' # ui, ui.phase \notin Settled PROVE Kept
    OBVIOUS
  <2>1. reads \in [Slots -> Read]
    BY TypeFacts
  <2>2. ASSUME reads'["refresh"] = reads["refresh"] PROVE Kept
    BY <2>2
  <2>3. CASE ReadReply
    BY <2>1, <2>2, <2>3 DEF ReadReply, Slots
  <2>4. CASE ChooseReply
    BY <2>1, <2>2, <2>4 DEF ChooseReply, Slots
  <2>5. CASE SaveNow \/ SaveReply \/ \E r \in Revs : Type(r)
    BY <2>2, <2>5 DEF SaveNow, SaveReply, Type
  <2>6. CASE RefreshReply
    BY <2>6 DEF RefreshReply, RefreshIsWanted
  <2> QED
    BY <2>3, <2>4, <2>5, <2>6 DEF Next, vars, OtherProgram, OpenNote, Reload, ChangeReported, ChooseVault
<1> QED
  BY <1>1, EditorInvHolds, PTL DEF RefreshKeepsTyping, Spec
=============================================================================
