----------------------------- MODULE VaultMutation -----------------------------
(***************************************************************************)
(* Journalled changes of the vault: MutationService (myvault-mutations,    *)
(* service.rs) plans, executes, retries and resumes normal moves, case     *)
(* renames, trash and restore; RecoveryJournal (myvault-recovery, lib.rs)  *)
(* keeps an immutable intent and a completion tombstone for each; Vault    *)
(* and TrashStore (myvault-core, vault.rs) carry them out by no-replace    *)
(* renames between held directories.                                       *)
(*                                                                         *)
(* Calls run in threads.  The vault's mutation lock spans one primitive    *)
(* (check, rename, sync, verify), never two; the journal has no lock.      *)
(* Between any two steps another program may edit a note, the process may  *)
(* die, and the machine may lose power, which takes back what was not      *)
(* synced.  The application's data and the vault are different directories *)
(* and perhaps different disks; the renames of one disk reach it in order. *)
(* Files are regular and have one link, directories stay where they are,   *)
(* other programs leave .trash alone, and directories can be flushed.      *)
(***************************************************************************)
EXTENDS Naturals, FiniteSets

CONSTANTS Threads,
          Ops,        \* operation ids; a trash operation's is its trash id too
          Names,      \* content paths, all in one directory
          Key,        \* their portable collision keys
          Revs,       \* contents, told apart by BLAKE3 and length
          Initial,    \* the notes the vault begins with
          None,
          MaxFaults,  \* bound: crashes, power failures and failed syncs
          MaxEdits    \* bound: edits by other programs

Temp(o) == <<"temp", o>>         \* .mvcr-<operation>.tmp
Payload(o) == <<"payload", o>>   \* .trash/v1/{staging,items}/<id>/payload
Temps == {Temp(o) : o \in Ops}
Payloads == {Payload(o) : o \in Ops}
Slots == Names \cup Temps \cup Payloads

Kinds == {"move", "case", "trash", "restore"}

\* validate_path_relationship: what the paths of each kind have to do with each other.
Related(p) == CASE p.kind = "move" -> Key[p.from] # Key[p.to]
                [] p.kind = "case" -> p.from # p.to /\ Key[p.from] = Key[p.to]
                [] OTHER -> p.from = p.to
Operation == {p \in [kind : Kinds, known : BOOLEAN, from : Names, to : Names,
                     rev : Revs, id : Ops] : Related(p)}
Manifest == [path : Names, rev : Revs]
Hops == {"move", "park", "unpark", "stage", "publish", "restore"}
LastHops == {"move", "unpark", "publish", "restore"}

ASSUME NamesAssumption ==
  None \notin Threads \cup Ops \cup Names \cup Revs \cup Operation \cup Manifest
ASSUME KeyAssumption == DOMAIN Key = Names
ASSUME InitialAssumption == Initial \in [Names -> Revs \cup {None}]
\* A fresh operation id names no note, and .trash is not content.
ASSUME SlotsAssumption == Names \cap (Temps \cup Payloads) = {}
ASSUME FiniteAssumption == IsFiniteSet(Names) /\ IsFiniteSet(Ops)
ASSUME BoundsAssumption == MaxFaults \in Nat /\ MaxEdits \in Nat

VARIABLES
  plan,     \* the operation each id was planned as; known while the process or the
            \* journal has it
  vault,    \* what the vault holds
  disk,     \* what of it a power failure leaves
  journal,  \* intents and completion tombstones
  flushed,  \* what of them a power failure leaves
  call,     \* where each thread's call is
  lock,     \* the thread in a primitive of the vault
  told,     \* operations that a call reported as carried out
  faults,
  edits

vars == <<plan, vault, disk, journal, flushed, call, lock, told, faults, edits>>

Idle == [pc |-> "idle", op |-> None, hop |-> "move", fresh |-> FALSE]
Steps == {"idle", "publish", "sync_intent", "manifest", "write_manifest", "sync_manifest",
          "check", "rename", "confirm", "complete", "sync_tombstone"}
Vault == [at : [Slots -> Revs \cup {None}], area : [Ops -> {"none", "staging", "items"}],
          manifest : [Ops -> Manifest \cup {None}],
          moved : SUBSET Ops,    \* history: operations whose last rename was made
          placed : SUBSET Ops]   \* history: operations whose file was made, or seen, in place
Journal == [intents : SUBSET Ops, done : SUBSET Ops]

\* Every variable keeps its type.
TypeOK ==
  /\ plan \in [Ops -> Operation \cup {None}]
  /\ vault \in Vault /\ disk \in Vault
  /\ journal \in Journal /\ flushed \in Journal
  /\ call \in [Threads -> [pc : Steps, op : Ops \cup {None}, hop : Hops, fresh : BOOLEAN]]
  /\ lock \in Threads \cup {None}
  /\ told \subseteq Ops
  /\ faults \in 0 .. MaxFaults /\ edits \in 0 .. MaxEdits

Init ==
  /\ plan = [o \in Ops |-> None]
  /\ vault = [at |-> [s \in Slots |-> IF s \in Names THEN Initial[s] ELSE None],
              area |-> [o \in Ops |-> "none"], manifest |-> [o \in Ops |-> None],
              moved |-> {}, placed |-> {}]
  /\ disk = vault
  /\ journal = [intents |-> {}, done |-> {}] /\ flushed = journal
  /\ call = [t \in Threads |-> Idle] /\ lock = None
  /\ told = {} /\ faults = 0 /\ edits = 0
-----------------------------------------------------------------------------
(* Planning reads the vault and writes nothing. *)

TrashOperation(o, n, r) ==
  [kind |-> "trash", known |-> TRUE, from |-> n, to |-> n, rev |-> r, id |-> o]
RestoreOperation(i, m) ==
  [kind |-> "restore", known |-> TRUE, from |-> m.path, to |-> m.path, rev |-> m.rev, id |-> i]
NormalMoveOperation(o, n, m, r) ==
  [kind |-> "move", known |-> TRUE, from |-> n, to |-> m, rev |-> r, id |-> o]
CaseRenameOperation(o, n, m, r) ==
  [kind |-> "case", known |-> TRUE, from |-> n, to |-> m, rev |-> r, id |-> o]

Planned(o, p) ==
  /\ plan[o] = None
  /\ plan' = [plan EXCEPT ![o] = p]
  /\ UNCHANGED <<vault, disk, journal, flushed, call, lock, told, faults, edits>>

PlanTrash(o, n) ==
  /\ vault.at[n] # None
  /\ Planned(o, TrashOperation(o, n, vault.at[n]))

\* The manifest of the published item is all a restore is planned from.
PlanRestore(o, i) ==
  /\ vault.area[i] = "items"
  /\ Planned(o, RestoreOperation(i, vault.manifest[i]))

PlanNormalMove(o, n, m) ==
  /\ vault.at[n] # None /\ Key[n] # Key[m]
  /\ Planned(o, NormalMoveOperation(o, n, m, vault.at[n]))

PlanCaseRename(o, n, m) ==
  /\ vault.at[n] # None /\ n # m /\ Key[n] = Key[m]
  /\ Planned(o, CaseRenameOperation(o, n, m, vault.at[n]))
-----------------------------------------------------------------------------
(* Calls, and the journal. *)

Op(t) == call[t].op
At(t, pc) == call[t].pc = pc
Goto(t, pc) == call' = [call EXCEPT ![t].pc = pc]
Refuse(t) == call' = [call EXCEPT ![t] = Idle]

\* A sync succeeds, or is one of the bounded faults.
Syncs(ok) == faults' = IF ok THEN faults ELSE faults + 1
MayFail(ok) == ok \/ faults < MaxFaults

\* continue_*: where a call on an operation of each kind begins.  A trash
\* operation first makes sure of its manifest, and so does its retry.
ContinueTrash == <<"manifest", "stage">>
ContinueRestore == <<"check", "restore">>
ContinueNormalMove == <<"check", "move">>
ContinueCaseRename == <<"check", "park">>
Continue(o) == CASE plan[o].kind = "move" -> ContinueNormalMove
                 [] plan[o].kind = "case" -> ContinueCaseRename
                 [] plan[o].kind = "trash" -> ContinueTrash
                 [] OTHER -> ContinueRestore

Enter(t, o, fresh) ==
  call' = [call EXCEPT ![t] = [pc |-> Continue(o)[1], op |-> o, hop |-> Continue(o)[2],
                               fresh |-> fresh]]

\* execute_*, retry_* and resume_*: an id the journal knows is only resumed.
Call(t, o) ==
  /\ At(t, "idle")
  /\ plan[o] # None /\ plan[o].known
  /\ IF o \in journal.intents
     THEN Enter(t, o, FALSE)
     ELSE call' = [call EXCEPT ![t] = [Idle EXCEPT !.pc = "publish", !.op = o]]
  /\ UNCHANGED <<plan, vault, disk, journal, flushed, lock, told, faults, edits>>

\* The entry is renamed into place; of two threads one finds it there.
PublishIntent(t) ==
  /\ At(t, "publish")
  /\ journal' = [journal EXCEPT !.intents = @ \cup {Op(t)}]
  /\ call' = [call EXCEPT ![t].pc = "sync_intent", ![t].fresh = Op(t) \notin journal.intents]
  /\ UNCHANGED <<plan, vault, disk, flushed, lock, told, faults, edits>>

SyncIntentUnchecked(t) ==
  /\ At(t, "sync_intent")
  /\ \E ok \in BOOLEAN :
       /\ MayFail(ok) /\ Syncs(ok)
       /\ flushed' = IF ok THEN [flushed EXCEPT !.intents = journal.intents] ELSE flushed
       /\ Enter(t, Op(t), call[t].fresh)
  /\ UNCHANGED <<plan, vault, disk, journal, lock, told, edits>>

SyncIntent(t) ==
  /\ At(t, "sync_intent")
  /\ \E ok \in BOOLEAN :
       /\ MayFail(ok) /\ Syncs(ok)
       /\ flushed' = IF ok THEN [flushed EXCEPT !.intents = journal.intents] ELSE flushed
       /\ IF ok THEN Enter(t, Op(t), call[t].fresh) ELSE Refuse(t)
  /\ UNCHANGED <<plan, vault, disk, journal, lock, told, edits>>

Complete(t) ==
  /\ At(t, "complete")
  /\ IF Op(t) \in journal.intents
     THEN /\ journal' = [journal EXCEPT !.done = @ \cup {Op(t)}]
          /\ Goto(t, "sync_tombstone")
     ELSE Refuse(t) /\ UNCHANGED journal
  /\ UNCHANGED <<plan, vault, disk, flushed, lock, told, faults, edits>>

\* A tombstone that was there already is synced again.
SyncTombstone(t) ==
  /\ At(t, "sync_tombstone")
  /\ \E ok \in BOOLEAN :
       /\ MayFail(ok) /\ Syncs(ok)
       /\ flushed' = IF ok THEN [flushed EXCEPT !.done = journal.done] ELSE flushed
       /\ told' = IF ok THEN told \cup {Op(t)} ELSE told
  /\ Refuse(t)
  /\ UNCHANGED <<plan, vault, disk, journal, lock, edits>>
-----------------------------------------------------------------------------
(* The trash manifest. *)

Expected(o) == [path |-> plan[o].from, rev |-> plan[o].rev]

\* validate_item_contents: the manifest is the expected one, and a payload, if
\* there is one, is what the manifest says.
ValidItem(i, m, rule) ==
  /\ vault.manifest[i] = m
  /\ vault.at[Payload(i)] \in {None, m.rev}
  /\ rule = "required" => vault.at[Payload(i)] # None
  /\ rule = "absent" => vault.at[Payload(i)] = None

\* The containers are synced, then the item's directory is created or confirmed.
\* A directory without a manifest, left by a crash, is refused.
PrepareManifest(t) ==
  LET o == Op(t) IN
  /\ At(t, "manifest") /\ lock = None
  /\ \E ok \in BOOLEAN :
       /\ MayFail(ok) /\ Syncs(ok)
       /\ CASE vault.area[o] = "none" ->
                 \/ /\ ok
                    /\ vault' = [vault EXCEPT !.area[o] = "staging"]
                    /\ disk' = vault'
                    /\ lock' = t /\ Goto(t, "write_manifest")
                 \/ /\ ~ok   \* before, or after, the directory was made
                    /\ vault' \in {vault, [vault EXCEPT !.area[o] = "staging"]}
                    /\ UNCHANGED <<disk, lock>> /\ Refuse(t)
            [] OTHER ->
                 /\ disk' = IF ok THEN vault ELSE disk
                 /\ IF ok /\ ValidItem(o, Expected(o), "optional") THEN Goto(t, "check") ELSE Refuse(t)
                 /\ UNCHANGED <<vault, lock>>
  /\ UNCHANGED <<plan, journal, flushed, told, edits>>

WriteManifest(t) ==
  /\ At(t, "write_manifest")
  /\ vault' = [vault EXCEPT !.manifest[Op(t)] = Expected(Op(t))]
  /\ Goto(t, "sync_manifest")
  /\ UNCHANGED <<plan, disk, journal, flushed, lock, told, faults, edits>>

SyncManifest(t) ==
  /\ At(t, "sync_manifest")
  /\ \E ok \in BOOLEAN :
       /\ MayFail(ok) /\ Syncs(ok)
       /\ disk' = IF ok THEN vault ELSE disk
       /\ IF ok THEN Goto(t, "check") ELSE Refuse(t)
  /\ lock' = None
  /\ UNCHANGED <<plan, vault, journal, flushed, told, edits>>
-----------------------------------------------------------------------------
(* The primitives.  Each syncs the directories it will look at, classifies  *)
(* what is there, and goes on to its rename, finds it done, or refuses.     *)

\* The two places each rename joins.
MovePaths(o) == <<plan[o].from, plan[o].to>>
ParkPaths(o) == <<plan[o].from, Temp(o)>>
UnparkPaths(o) == <<Temp(o), plan[o].to>>
StagePaths(o) == <<plan[o].from, Payload(o)>>
RestorePaths(o) == <<Payload(plan[o].id), plan[o].to>>
Paths(o, hop) == CASE hop = "move" -> MovePaths(o)
                   [] hop = "park" -> ParkPaths(o)
                   [] hop = "unpark" -> UnparkPaths(o)
                   [] hop = "stage" -> StagePaths(o)
                   [] OTHER -> RestorePaths(o)
Source(o, hop) == Paths(o, hop)[1]
Target(o, hop) == Paths(o, hop)[2]
Here(s) == vault.at[s] # None
Is(s, o) == vault.at[s] = plan[o].rev

\* reject_sibling_collision: another name with the same portable key.
Collides(n) == \E m \in Names \ {n} : Here(m) /\ Key[m] = Key[n]

MoveVerdictOfResume(o, fresh) ==
  LET s == plan[o].from
      d == plan[o].to
  IN IF Collides(s) \/ Collides(d) THEN "refuse"
     ELSE IF ~Here(s) /\ Is(d, o) THEN "already"
     ELSE IF Is(s, o) /\ ~Here(d) THEN "go"
     ELSE "refuse"

\* move_content_file_if_revision, and resume_..., which takes a source alone for
\* a file that was created again.
MoveVerdict(o, fresh) ==
  LET s == plan[o].from
      d == plan[o].to
  IN IF Collides(s) \/ Collides(d) THEN "refuse"
     ELSE IF ~Here(s) /\ Is(d, o) THEN "already"
     ELSE IF Is(s, o) /\ ~Here(d) /\ fresh THEN "go"
     ELSE "refuse"

\* case_rename_state: which of the three names are taken.  A fourth name with their
\* key is an error, here all three, which every caller refuses.
CaseState(o) ==
  LET s == plan[o].from
      d == plan[o].to
  IN IF \E m \in Names \ {s, d} : Here(m) /\ Key[m] = Key[s]
     THEN {s, Temp(o), d}
     ELSE {x \in {s, Temp(o), d} : Here(x)}

CaseVerdictOfEnds(o, fresh) ==
  LET state == CaseState(o)
  IN CASE state = {plan[o].to} /\ Is(plan[o].to, o) -> "already"
       [] state = {plan[o].from} /\ Is(plan[o].from, o) /\ fresh -> "go"
       [] OTHER -> "refuse"

\* case_rename_content_file_if_revision and its resume: the first of three names
\* that is alone decides.
CaseVerdict(o, fresh) ==
  LET state == CaseState(o)
  IN CASE state = {plan[o].to} /\ Is(plan[o].to, o) -> "already"
       [] state = {plan[o].from} /\ Is(plan[o].from, o) /\ fresh -> "go"
       [] state = {Temp(o)} /\ Is(Temp(o), o) /\ ~fresh -> "go_on"
       [] OTHER -> "refuse"

\* The payload is in the item, staged or published, and the source is gone.
Staged(o) == ~Here(plan[o].from) /\ ValidItem(o, Expected(o), "required")

StageVerdict(o) ==
  IF vault.area[o] = "none" THEN "refuse"
  ELSE IF Staged(o) THEN "already"
  ELSE IF Is(plan[o].from, o) /\ vault.area[o] = "staging"
          /\ ValidItem(o, Expected(o), "absent") THEN "go"
  ELSE "refuse"

PublishVerdict(o) ==
  IF vault.area[o] = "none" \/ ~ValidItem(o, Expected(o), "required") THEN "refuse"
  ELSE IF vault.area[o] = "items" THEN "already"
  ELSE "go"

\* The payload is at its destination and the item holds its manifest alone.
Restored(o) == Is(plan[o].to, o) /\ ValidItem(plan[o].id, Expected(o), "absent")

RestoreVerdict(o) ==
  LET d == plan[o].to
      i == plan[o].id
  IN IF vault.area[i] # "items" \/ vault.manifest[i] # Expected(o) THEN "refuse"
     ELSE IF Here(Payload(i)) /\ Here(d) THEN "refuse"
     ELSE IF Restored(o) THEN "already"
     ELSE IF ValidItem(i, Expected(o), "required") /\ ~Collides(d) THEN "go"
     ELSE "refuse"

Verdict(o, hop, fresh) == CASE hop = "move" -> MoveVerdict(o, fresh)
                            [] hop = "park" -> CaseVerdict(o, fresh)
                            [] hop = "stage" -> StageVerdict(o)
                            [] hop = "publish" -> PublishVerdict(o)
                            [] OTHER -> RestoreVerdict(o)

\* The publication of an item and a restore read the first sync's result only
\* when they find their rename done.
NeedsFirstSync(hop, verdict) == hop \notin {"publish", "restore"} \/ verdict # "go"

\* Where a thread goes from a hop that is done.
After(t, hop) == IF hop = "stage" THEN [call[t] EXCEPT !.pc = "check", !.hop = "publish"]
                                  ELSE [call[t] EXCEPT !.pc = "complete"]

Check(t) ==
  LET o == Op(t)
      hop == call[t].hop
      verdict == Verdict(o, hop, call[t].fresh)
  IN
  /\ At(t, "check") /\ lock = None
  /\ \E ok \in BOOLEAN :
       /\ MayFail(ok) /\ Syncs(ok)
       /\ vault' = IF verdict = "already" THEN [vault EXCEPT !.placed = @ \cup {o}] ELSE vault
       /\ disk' = IF ok THEN vault' ELSE disk
       /\ IF verdict = "refuse" \/ (~ok /\ NeedsFirstSync(hop, verdict))
          THEN Refuse(t) /\ UNCHANGED lock
          ELSE IF verdict = "already"
          THEN call' = [call EXCEPT ![t] = After(t, hop)] /\ UNCHANGED lock
          ELSE /\ call' = [call EXCEPT ![t].pc = "rename",
                                       ![t].hop = IF verdict = "go_on" THEN "unpark" ELSE hop]
               /\ lock' = t
  /\ UNCHANGED <<plan, journal, flushed, told, edits>>

RenamesByLink(o, hop) ==
  LET s == Source(o, hop)
      d == Target(o, hop)
      last == IF hop \in LastHops THEN {o} ELSE {}
      after == [vault EXCEPT !.moved = @ \cup last, !.placed = @ \cup last]
  IN IF hop = "publish"
     THEN [after EXCEPT !.area[o] = "items"]
     ELSE [after EXCEPT !.at[d] = vault.at[s]]

\* rename_noreplace: whatever is at the source goes, and nothing is replaced.
Renames(o, hop) ==
  LET s == Source(o, hop)
      d == Target(o, hop)
      last == IF hop \in LastHops THEN {o} ELSE {}
      after == [vault EXCEPT !.moved = @ \cup last, !.placed = @ \cup last]
  IN IF hop = "publish"
     THEN [after EXCEPT !.area[o] = "items"]
     ELSE [after EXCEPT !.at[d] = vault.at[s], !.at[s] = None]

CanRenameOver(o, hop) ==
  hop = "publish" \/ Here(Source(o, hop))

CanRename(o, hop) ==
  hop = "publish" \/ (Here(Source(o, hop)) /\ ~Here(Target(o, hop)))

Rename(t) ==
  LET o == Op(t)
      hop == call[t].hop
  IN
  /\ At(t, "rename")
  /\ IF CanRename(o, hop)
     THEN vault' = Renames(o, hop) /\ Goto(t, "confirm") /\ UNCHANGED lock
     ELSE Refuse(t) /\ lock' = None /\ UNCHANGED vault
  /\ UNCHANGED <<plan, disk, journal, flushed, told, faults, edits>>

\* What is looked at again once the directories are synced.
Moved(o) == ~Here(plan[o].from) /\ Is(plan[o].to, o)
Phase(o, hop) ==
  LET place == IF hop = "park" THEN Temp(o) ELSE plan[o].to
  IN CaseState(o) = {place} /\ Is(place, o)
StagedInPlace(o) == ~Here(plan[o].from) /\ Is(Payload(o), o)
Published(o) == ValidItem(o, Expected(o), "required")
RestoredInPlace(o) == ~Here(Payload(plan[o].id)) /\ Is(plan[o].to, o)
Verified(o, hop) == CASE hop = "move" -> Moved(o)
                      [] hop \in {"park", "unpark"} -> Phase(o, hop)
                      [] hop = "stage" -> StagedInPlace(o)
                      [] hop = "publish" -> Published(o)
                      [] OTHER -> RestoredInPlace(o)

\* Both directories are synced, again if that fails; an unknown outcome goes back
\* to the caller.  A case rename keeps the lock for its second rename.
Confirm(t) ==
  LET o == Op(t)
      hop == call[t].hop
  IN
  /\ At(t, "confirm")
  /\ \E ok \in BOOLEAN :
       /\ MayFail(ok) /\ Syncs(ok)
       /\ disk' = IF ok THEN vault ELSE disk
       /\ IF ok /\ Verified(o, hop)
          THEN IF hop = "park"
               THEN call' = [call EXCEPT ![t].pc = "rename", ![t].hop = "unpark"] /\ UNCHANGED lock
               ELSE call' = [call EXCEPT ![t] = After(t, hop)] /\ lock' = None
          ELSE Refuse(t) /\ lock' = None
  /\ UNCHANGED <<plan, vault, journal, flushed, told, edits>>
-----------------------------------------------------------------------------
(* The world. *)

\* An operation that is in no journal entry is forgotten with the process.
Restarts(intents) ==
  /\ call' = [t \in Threads |-> Idle] /\ lock' = None
  /\ plan' = [o \in Ops |-> IF plan[o] = None \/ o \in intents THEN plan[o]
                            ELSE [plan[o] EXCEPT !.known = FALSE]]
  /\ faults < MaxFaults /\ faults' = faults + 1

Crash ==
  /\ Restarts(journal.intents)
  /\ UNCHANGED <<vault, disk, journal, flushed, told, edits>>

PowerFailure ==
  /\ \E v \in {vault, disk}, i \in {journal.intents, flushed.intents},
        d \in {journal.done, flushed.done} :
       /\ vault' = v /\ disk' = v
       /\ journal' = [intents |-> i, done |-> d] /\ flushed' = journal'
       /\ Restarts(i)
  /\ UNCHANGED <<told, edits>>

\* Another program creates, saves or deletes a note.
Edit(n, r) ==
  /\ edits < MaxEdits /\ edits' = edits + 1
  /\ r # vault.at[n]
  /\ vault' = [vault EXCEPT !.at[n] = r]
  /\ UNCHANGED <<plan, disk, journal, flushed, call, lock, told, faults>>

\* active_ids: what the application finds to resume.
ActiveIds == journal.intents \ journal.done

Step(t) ==
  \/ PublishIntent(t) \/ SyncIntent(t) \/ Complete(t) \/ SyncTombstone(t)
  \/ PrepareManifest(t) \/ WriteManifest(t) \/ SyncManifest(t)
  \/ Check(t) \/ Rename(t) \/ Confirm(t)

Next ==
  \/ \E o \in Ops, n, m \in Names : PlanNormalMove(o, n, m) \/ PlanCaseRename(o, n, m)
  \/ \E o \in Ops, n \in Names : PlanTrash(o, n)
  \/ \E o, i \in Ops : PlanRestore(o, i)
  \/ \E t \in Threads, o \in Ops : Call(t, o)
  \/ \E t \in Threads : Step(t)
  \/ Crash \/ PowerFailure
  \/ \E n \in Names, r \in Revs \cup {None} : Edit(n, r)

\* Whoever starts the application resumes what the journal holds.
Fairness ==
  /\ \A t \in Threads : WF_vars(Step(t))
  /\ \A o \in Ops : SF_vars(\E t \in Threads : o \in ActiveIds /\ Call(t, o))

Spec == Init /\ [][Next]_vars
LiveSpec == Spec /\ Fairness
-----------------------------------------------------------------------------
(* decide_recovery: what the three paths of an intent say of it. *)

TopologyOf(o) ==
  LET p == plan[o]
  IN CASE p.kind = "move" -> [from |-> vault.at[p.from], to |-> vault.at[p.to], temp |-> None]
       [] p.kind = "case" -> [from |-> vault.at[p.from], to |-> vault.at[p.to],
                              temp |-> vault.at[Temp(o)]]
       [] p.kind = "trash" ->
            [from |-> vault.at[p.from],
             to |-> IF vault.area[o] = "items" THEN vault.at[Payload(o)] ELSE None,
             temp |-> IF vault.area[o] = "staging" THEN vault.at[Payload(o)] ELSE None]
       [] OTHER -> [from |-> vault.at[Payload(p.id)], to |-> vault.at[p.to], temp |-> None]

Decide(o) ==
  LET y == TopologyOf(o)
      e == plan[o].rev
  IN CASE y.from = e /\ y.to = None /\ y.temp = None -> "not_started"
       [] y.from = None /\ y.to = None /\ y.temp = e -> "in_progress_at_temp"
       [] y.from = None /\ y.to = e /\ y.temp = None -> "committed"
       [] y.from = e /\ y.to = e /\ y.temp = None -> "duplicate_manual"
       [] y.from = e /\ y.to \notin {None, e} /\ y.temp = None -> "destination_collision"
       [] y.from = None /\ y.to = None /\ y.temp = None -> "data_loss"
       [] OTHER -> "external_mutation"
-----------------------------------------------------------------------------
(* Properties *)

AppStep == \E t \in Threads : Step(t)
Copies(v, r) == Cardinality({s \in Slots : v.at[s] = r})

\* No step of the application destroys or duplicates a content, whatever other
\* programs put in its way between its checks and its renames.
ContentsAreKept == [][AppStep => \A r \in Revs : Copies(vault', r) = Copies(vault, r)]_vars

\* A file that comes back at the source of a move, a case rename, a trash or a
\* restore is not moved a second time, however often the operation is resumed.
MovedOnce ==
  [][\A o \in Ops :
       (\E t \in Threads : Op(t) = o /\ call[t].hop \in LastHops /\ Rename(t) /\ vault' # vault)
         => o \notin vault.moved]_vars

\* The durable side of every step is a step of the journal's promise: intent,
\* move, tombstone, answer, in this order, and nothing taken back.
Promise == INSTANCE DurableIntent WITH
  intents <- flushed.intents, moved <- disk.moved, placed <- disk.placed, done <- flushed.done,
  described <- {o \in Ops : plan[o] # None /\ plan[o].kind \in {"trash", "restore"}}
DurableInOrder == Promise!Spec

\* Nothing else was ever planned, but for the trash that a restore undoes.
Alone(o) == \A p \in Ops \ {o} : plan[p] = None \/ p = plan[o].id

\* Whenever the process dies, the paths of an unfinished intent that nobody else
\* touched show a topology that decide_recovery can go on from, or the destination
\* that was taken when the operation was planned.
TopologyIsRecoverable ==
  \A o \in ActiveIds :
    edits = 0 /\ Alone(o) =>
      \/ Decide(o) \in {"not_started", "in_progress_at_temp", "committed"}
      \/ o \notin vault.moved /\ Decide(o) \in {"duplicate_manual", "destination_collision"}

Unfinished(o) ==
  /\ o \in ActiveIds
  /\ Decide(o) \in {"in_progress_at_temp", "committed"}
  /\ plan[o].kind = "move" => ~Collides(plan[o].from) /\ ~Collides(plan[o].to)

\* A move, case rename, trash or restore that got as far as its temporary place or
\* its destination is completed by resuming it, unless somebody touches its paths.
StartedIsFinished == \A o \in Ops : Unfinished(o) ~> ~Unfinished(o)

\* A trash operation whose intent is in the journal is carried out by resuming it,
\* which TLC refutes: the test new_service_resumes_from_journal_only_or_later_phase.
TrashResumes ==
  \A o \in Ops : (o \in journal.intents /\ plan[o].kind = "trash" /\ edits = 0 /\ Alone(o))
                  ~> (o \in journal.done \/ o \notin journal.intents \/ edits # 0 \/ ~Alone(o))
=============================================================================
