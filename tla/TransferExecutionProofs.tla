----------------------- MODULE TransferExecutionProofs -----------------------
(***************************************************************************)
(* Proofs about TransferExecution, for any uploads, files, paths, contents  *)
(* and any number of faults and foreign edits: no upload creates a second   *)
(* file, a base that is referenced is durable and is the remote's content,  *)
(* and verified bytes leave their stage only for the object.  ExecInv is    *)
(* inductive.                                                               *)
(***************************************************************************)
EXTENDS TransferExecution, TLAPS

\* A download has a row only once the mirror has the file, as it was in the folder.
MirrorFits ==
  \A f \in FileIds :
    /\ phase[f] # "absent" => mirror[f] # "unknown"
    /\ base[f] # None => mirror[f] # "unknown"
    /\ mirror[f] # "unknown" =>
         /\ want[f].path \in Paths /\ want[f].sha \in Digests
         /\ remote[f].where # "absent"
         /\ (remote[f].rev = want[f].rev => remote[f].sha = want[f].sha)

\* Only a file that exists has a name, a content and, if an upload made it, a marker; a
\* marked file that was never moved is in the folder.
RemoteFits ==
  \A f \in FileIds :
    /\ remote[f].where = "absent" => remote[f].marker = None
    /\ remote[f].where # "absent" => remote[f].name \in Paths /\ remote[f].sha \in Digests
    /\ remote[f].marker # None /\ f \notin touched => remote[f].where = "folder"

\* Revisions come from the edits so far.
RevsFit ==
  /\ \A f \in FileIds : remote[f].rev <= edits /\ want[f].rev <= edits
  /\ seen <= edits

\* The operation that is executed, and the steps each kind takes.
OpFits ==
  /\ op = None <=> pc = "none"
  /\ op # None => phase[op] = "running"
  /\ pc \in UploadSteps => op \in Uploads
  /\ pc \in DownloadSteps => op \in FileIds

\* The steps before an upload has found a file, and after it has.
Searching == {"none", "load", "copy", "source", "marker", "name", "initiate", "send"}
Publishing == {"link", "unlink", "open", "complete"}
FoundFits ==
  /\ pc \in Searching => found = None
  /\ op \in Uploads /\ pc # "status" /\ pc \notin Searching => found \in FileIds
  /\ op \in Uploads /\ pc \in Publishing /\ remote[found].rev = seen =>
       remote[found].sha = UploadSha[op]

\* Where an upload may still create a file, every file it has made was moved.
MayCreate == pc \in {"name", "initiate", "send"} \/ (pc = "status" /\ found = None)
NoneIsMissed == MayCreate => \A f \in FileIds : remote[f].marker = op => f \in touched

\* The stage being filled is incomplete, and a published one has its object.
StageFits ==
  /\ pc = "copy" => stage[op] = "short"
  /\ pc \in {"unlink", "open"} => ShaOf(op) \in objects

ExecInv ==
  /\ TypeOK /\ MirrorFits /\ RemoteFits /\ RevsFit /\ OpFits /\ FoundFits /\ NoneIsMissed /\ StageFits
  /\ BaseIsDurable /\ BaseMatchesRemote /\ MarkedOnce
-----------------------------------------------------------------------------
(* Facts and frames.                                                        *)

Published == {"create", "cleanup", "readback", "complete"}

LEMMA InvFacts ==
  ASSUME ExecInv
  PROVE  /\ TypeOK /\ MirrorFits /\ RemoteFits /\ RevsFit /\ OpFits /\ FoundFits /\ NoneIsMissed
         /\ StageFits /\ BaseIsDurable /\ BaseMatchesRemote /\ MarkedOnce
BY DEF ExecInv

LEMMA InvFromPartsNext ==
  (/\ TypeOK /\ MirrorFits /\ RemoteFits /\ RevsFit /\ OpFits /\ FoundFits /\ NoneIsMissed
   /\ StageFits /\ BaseIsDurable /\ BaseMatchesRemote /\ MarkedOnce)' => ExecInv'
BY DEF ExecInv

\* An operation with a row has a path and a content.
LEMMA RowFacts ==
  ASSUME ExecInv, NEW o \in Ops, phase[o] # "absent"
  PROVE  PathOf(o) \in Paths /\ ShaOf(o) \in Digests
BY InvFacts, UploadAssumption DEF MirrorFits, PathOf, ShaOf, Ops

\* The operation that is executed.
LEMMA OpFacts ==
  ASSUME ExecInv, pc # "none"
  PROVE  /\ op \in Ops /\ op # None /\ phase[op] = "running" /\ pc \in Steps \ {"none"}
         /\ PathOf(op) \in Paths /\ ShaOf(op) \in Digests
<1>1. op # None /\ phase[op] = "running" /\ op \in Ops /\ pc \in Steps
  BY InvFacts DEF OpFits, TypeOK
<1> QED
  BY <1>1, RowFacts

\* A step that leaves the Drive and the records of remote files alone.
LEMMA ExecFrame ==
  ASSUME ExecInv, UNCHANGED <<mirror, want, base, remote, touched, edits>>, TypeOK',
         objects \subseteq objects',
         \A o \in Ops : phase'[o] = "completed" => phase[o] = "completed",
         \A f \in FileIds : phase'[f] # "absent" => mirror[f] # "unknown",
         OpFits', FoundFits', NoneIsMissed', StageFits', seen' <= edits,
         pc' \in Published => ShaOf(op)' \in objects'
  PROVE  ExecInv'
<1>1. MirrorFits' /\ RemoteFits' /\ RevsFit'
  BY InvFacts DEF MirrorFits, RemoteFits, RevsFit
<1>2. BaseIsDurable'
  <2>1. \A o \in Ops : ShaOf(o)' = ShaOf(o)
    BY DEF ShaOf
  <2> QED
    BY <2>1, InvFacts DEF BaseIsDurable, Published
<1>3. BaseMatchesRemote' /\ MarkedOnce'
  BY InvFacts DEF BaseMatchesRemote, MarkedOnce, RemoteIsExact
<1> QED
  BY <1>1, <1>2, <1>3, InvFromPartsNext

\* The execution is over, and no row is completed by it.
LEMMA LeavePreserves ==
  ASSUME ExecInv, Leave, UNCHANGED <<mirror, want, base, objects, vault, halfway, remote, touched, edits>>,
         stage' \in [Ops -> {"none", "short", "wrong", "exact", "linked"}],
         phase' \in [Ops -> Phases], retried' \in SUBSET Ops,
         run' \in {"idle", "pages", "resumed", "drain", "prepare", "last", "outside"},
         faults' \in 0 .. MaxFaults,
         \A o \in Ops : phase'[o] = "completed" => phase[o] = "completed",
         \A o \in Ops : phase[o] = "absent" => phase'[o] = "absent"
  PROVE  ExecInv'
<1>1. op' = None /\ pc' = "none" /\ found' = None /\ seen' = 0
  BY DEF Leave
<1>2. TypeOK'
  BY <1>1, InvFacts, BoundsAssumption DEF TypeOK, Steps
<1>3. None \notin Uploads /\ None \notin FileIds
  BY IdsAssumption DEF Ops
<1>4. OpFits' /\ FoundFits' /\ NoneIsMissed' /\ StageFits'
  BY <1>1, <1>3
  DEF OpFits, FoundFits, NoneIsMissed, MayCreate, StageFits, UploadSteps, DownloadSteps, Searching
<1>5. seen' <= edits
  BY <1>1, InvFacts DEF TypeOK
<1>6. \A f \in FileIds : phase'[f] # "absent" => mirror[f] # "unknown"
  BY InvFacts DEF MirrorFits, Ops
<1> QED
  BY <1>1, <1>2, <1>4, <1>5, <1>6, ExecFrame DEF Published

LEMMA StopPreserves ==
  ASSUME ExecInv, pc # "none", Stop, UNCHANGED <<index, objects, local, drive>>,
         stage' \in [Ops -> {"none", "short", "wrong", "exact", "linked"}]
  PROVE  ExecInv'
<1>1. op \in Ops /\ phase[op] = "running" /\ phase \in [Ops -> Phases]
  BY OpFacts, InvFacts DEF TypeOK
<1>2. /\ phase' \in [Ops -> Phases]
      /\ \A o \in Ops : phase'[o] = "completed" => phase[o] = "completed"
      /\ \A o \in Ops : phase[o] = "absent" => phase'[o] = "absent"
  BY <1>1 DEF Stop, Phases
<1>3. /\ Leave /\ UNCHANGED <<mirror, want, base, objects, vault, halfway, remote, touched, edits>>
      /\ retried' \in SUBSET Ops /\ faults' \in 0 .. MaxFaults
      /\ run' \in {"idle", "pages", "resumed", "drain", "prepare", "last", "outside"}
  BY InvFacts DEF Stop, index, local, drive, TypeOK
<1> QED
  BY <1>2, <1>3, LeavePreserves

\* The execution goes on to a step of its kind.
LEMMA GotoPreserves ==
  ASSUME ExecInv, pc # "none", NEW step \in Steps \ {"none"}, pc' = step,
         UNCHANGED <<run, op, ledger, index, drive, edits>>, faults' \in 0 .. MaxFaults,
         stage' \in [Ops -> {"none", "short", "wrong", "exact", "linked"}],
         objects' \in SUBSET Digests, objects \subseteq objects',
         vault' \in [Paths -> Digests \cup {None}], halfway' \in SUBSET Paths,
         found' \in FileIds \cup {None}, seen' \in 0 .. MaxEdits, seen' <= edits,
         step \in UploadSteps => op \in Uploads,
         step \in DownloadSteps => op \in FileIds,
         FoundFits', NoneIsMissed', StageFits',
         step \in Published => ShaOf(op) \in objects'
  PROVE  ExecInv'
<1>1. /\ op' = op /\ phase' = phase /\ retried' = retried /\ run' = run /\ mirror' = mirror
      /\ want' = want /\ base' = base /\ remote' = remote /\ touched' = touched /\ edits' = edits
  BY DEF ledger, index, drive
<1>2. TypeOK'
  BY <1>1, InvFacts DEF TypeOK
<1>3. op # None /\ phase[op] = "running"
  BY OpFacts
<1>4. OpFits'
  BY <1>1, <1>3 DEF OpFits
<1>5. \A f \in FileIds : phase'[f] # "absent" => mirror[f] # "unknown"
  BY <1>1, InvFacts DEF MirrorFits
<1>6. ShaOf(op)' = ShaOf(op)
  BY <1>1 DEF ShaOf
<1> QED
  BY <1>1, <1>2, <1>4, <1>5, <1>6, ExecFrame

\* The same with the found file, the stages and the vault as they are.
LEMMA PlainGotoPreserves ==
  ASSUME ExecInv, pc # "none", NEW step \in Steps \ {"none"}, Goto(step),
         UNCHANGED <<index, private, local, drive>>,
         found' \in FileIds \cup {None}, seen' \in 0 .. MaxEdits, seen' <= edits,
         step \in UploadSteps => op \in Uploads,
         step \in DownloadSteps => op \in FileIds,
         FoundFits', NoneIsMissed', StageFits',
         step \in Published => ShaOf(op) \in objects
  PROVE  ExecInv'
<1>1. /\ pc' = step /\ UNCHANGED <<run, op, ledger, index, drive, edits>>
      /\ stage' = stage /\ objects' = objects /\ vault' = vault /\ halfway' = halfway
      /\ faults' = faults
  BY DEF Goto, private, local
<1>2. /\ faults' \in 0 .. MaxFaults
      /\ stage' \in [Ops -> {"none", "short", "wrong", "exact", "linked"}]
      /\ objects' \in SUBSET Digests /\ vault' \in [Paths -> Digests \cup {None}]
      /\ halfway' \in SUBSET Paths
  BY <1>1, InvFacts DEF TypeOK
<1> QED
  BY <1>1, <1>2, GotoPreserves
-----------------------------------------------------------------------------
LEMMA InitHasInv == Init => ExecInv
<1> SUFFICES ASSUME Init PROVE ExecInv
  OBVIOUS
<1>1. ASSUME NEW f \in FileIds
      PROVE  /\ remote[f] \in Entry /\ remote[f].marker = None /\ remote[f].rev = 0
             /\ remote[f].where # "absent" =>
                  remote[f].where = "folder" /\ remote[f].name \in Paths /\ remote[f].sha \in Digests
  BY BoundsAssumption DEF Init, Entry, NoEntry
<1>2. ASSUME NEW f \in FileIds
      PROVE  /\ want[f] = IntentOf(f) /\ want[f] \in Intent /\ want[f].path = remote[f].name
             /\ want[f].sha = remote[f].sha /\ want[f].rev = 0
             /\ mirror[f] # "unknown" => remote[f].where = "folder"
  BY <1>1 DEF Init, IntentOf, Intent, Entry, InFolder
<1>3. remote \in [FileIds -> Entry] /\ want \in [FileIds -> Intent]
  BY <1>1, <1>2 DEF Init
<1>4. mirror \in [FileIds -> {"unknown", "declared", "known"}]
  BY DEF Init
<1>5. TypeOK
  BY <1>3, <1>4, BoundsAssumption DEF Init, TypeOK, Phases, Steps
<1>6. MirrorFits /\ RemoteFits /\ RevsFit
  BY <1>1, <1>2 DEF Init, MirrorFits, RemoteFits, RevsFit, Ops
<1>7. None \notin Uploads /\ None \notin FileIds
  BY IdsAssumption DEF Ops
<1>8. OpFits /\ FoundFits /\ NoneIsMissed /\ StageFits
  BY <1>7 DEF Init, OpFits, FoundFits, NoneIsMissed, MayCreate, StageFits, UploadSteps, DownloadSteps,
              Searching
<1>9. BaseIsDurable /\ BaseMatchesRemote /\ MarkedOnce
  BY <1>1 DEF Init, BaseIsDurable, BaseMatchesRemote, MarkedOnce
<1> QED
  BY <1>5, <1>6, <1>8, <1>9 DEF ExecInv
-----------------------------------------------------------------------------
(* The guarded run.                                                         *)

\* A step of the run that executes nothing: rows are queued, claimed or due again.
LEMMA RunFrame ==
  ASSUME ExecInv, UNCHANGED <<index, private, local, drive, target, edits>>,
         phase' \in [Ops -> Phases], retried' \in SUBSET Ops, faults' \in 0 .. MaxFaults,
         run' \in {"idle", "pages", "resumed", "drain", "prepare", "last", "outside"},
         UNCHANGED <<op, pc>>,
         \A o \in Ops : phase'[o] # phase[o] => phase[o] # "running" /\ phase'[o] # "completed",
         \A f \in FileIds : phase'[f] # "absent" => mirror[f] # "unknown"
  PROVE  ExecInv'
<1>1. /\ mirror' = mirror /\ want' = want /\ base' = base /\ stage' = stage /\ objects' = objects
      /\ vault' = vault /\ halfway' = halfway /\ remote' = remote /\ touched' = touched
      /\ found' = found /\ seen' = seen /\ op' = op /\ pc' = pc /\ edits' = edits
  BY DEF index, private, local, drive, target
<1>2. TypeOK'
  BY <1>1, InvFacts DEF TypeOK
<1>3. OpFits'
  <2>1. op # None => op \in Ops
    BY InvFacts DEF TypeOK
  <2> QED
    BY <1>1, <2>1, InvFacts DEF OpFits
<1>4. FoundFits' /\ NoneIsMissed' /\ StageFits'
  BY <1>1, InvFacts DEF FoundFits, NoneIsMissed, MayCreate, StageFits, ShaOf
<1>5. pc' \in Published => ShaOf(op)' \in objects'
  BY <1>1, InvFacts DEF BaseIsDurable, Published, ShaOf
<1>6. seen' <= edits
  BY <1>1, InvFacts DEF RevsFit
<1>7. \A o \in Ops : phase'[o] = "completed" => phase[o] = "completed"
  OBVIOUS
<1> QED
  BY <1>1, <1>2, <1>3, <1>4, <1>5, <1>6, <1>7, ExecFrame

LEMMA QueueFacts ==
  ASSUME ExecInv, NEW S, \A f \in S \cap FileIds : mirror[f] # "unknown", Queue(S)
  PROVE  /\ phase' \in [Ops -> Phases]
         /\ \A o \in Ops : phase'[o] # phase[o] => phase[o] # "running" /\ phase'[o] # "completed"
         /\ \A f \in FileIds : phase'[f] # "absent" => mirror[f] # "unknown"
<1>1. phase \in [Ops -> Phases] /\ FileIds \subseteq Ops
  BY InvFacts DEF TypeOK, Ops
<1>2. \A o \in Ops : phase'[o] = IF o \in S /\ phase[o] \in {"absent", "needs_reconcile"}
                                 THEN "due" ELSE phase[o]
  BY DEF Queue
<1>3. phase' \in [Ops -> Phases]
  BY <1>1 DEF Queue, Phases
<1>4. \A f \in FileIds : phase'[f] # "absent" => mirror[f] # "unknown"
  BY <1>1, <1>2, InvFacts DEF MirrorFits
<1> QED
  BY <1>2, <1>3, <1>4

LEMMA PreparableFacts ==
  ASSUME ExecInv
  PROVE  /\ Preparable \subseteq Ops /\ \A f \in Preparable \cap FileIds : mirror[f] # "unknown"
         /\ Declared \subseteq Ops /\ \A f \in Declared : mirror[f] # "unknown"
BY IdsAssumption DEF Preparable, MissingLocally, Known, Declared, Ops

LEMMA QueuePreserves ==
  ASSUME ExecInv, NEW S, S \subseteq Ops, \A f \in S \cap FileIds : mirror[f] # "unknown", Queue(S),
         UNCHANGED <<index, private, local, drive, target, edits, op, pc>>, faults' \in 0 .. MaxFaults,
         run' \in {"idle", "pages", "resumed", "drain", "prepare", "last", "outside"}
  PROVE  ExecInv'
<1>1. retried' \in SUBSET Ops
  BY InvFacts DEF Queue, TypeOK
<1> QED
  BY <1>1, QueueFacts, RunFrame

LEMMA RunStepsPreserve ==
  ASSUME ExecInv, StartRun \/ EndDrain \/ Prepare \/ PrepareFails \/ TimePasses PROVE ExecInv'
<1>0. /\ phase \in [Ops -> Phases] /\ retried \in SUBSET Ops /\ faults \in 0 .. MaxFaults
      /\ run \in {"idle", "pages", "resumed", "drain", "prepare", "last", "outside"}
      /\ \A f \in FileIds : phase[f] # "absent" => mirror[f] # "unknown"
  BY InvFacts DEF TypeOK, MirrorFits
<1>1. CASE StartRun
  <2>1. CASE Queue(Declared) /\ run' = "resumed"
    BY <1>0, <1>1, <2>1, PreparableFacts, QueuePreserves DEF StartRun
  <2>2. CASE UNCHANGED ledger /\ run' = "pages"
    BY <1>0, <1>1, <2>2, RunFrame DEF StartRun, ledger
  <2> QED
    BY <1>1, <2>1, <2>2 DEF StartRun
<1>2. CASE EndDrain
  BY <1>0, <1>2, RunFrame DEF EndDrain, ledger
<1>3. ASSUME NEW S \in SUBSET Preparable, Queue(S), run' \in {"last", "idle"}, faults' \in 0 .. MaxFaults,
             UNCHANGED <<index, private, local, drive, op, pc, target, edits>>
      PROVE  ExecInv'
  BY <1>3, PreparableFacts, QueuePreserves
<1>4. CASE Prepare
  <2>1. /\ faults' \in 0 .. MaxFaults
        /\ UNCHANGED <<index, private, local, drive, op, pc, target, edits>>
    BY <1>0, <1>4 DEF Prepare
  <2>2. \E S \in SUBSET Preparable : Queue(S) /\ run' \in {"last", "idle"}
    BY <1>4 DEF Prepare, PartlyPrepared
  <2> QED
    BY <1>3, <2>1, <2>2
<1>5. CASE PrepareFails
  <2>1. /\ faults' \in 0 .. MaxFaults
        /\ UNCHANGED <<index, private, local, drive, op, pc, target, edits>>
    BY <1>0, <1>5, BoundsAssumption DEF PrepareFails, Fault
  <2>2. \E S \in SUBSET Preparable : Queue(S) /\ run' \in {"last", "idle"}
    BY <1>5 DEF PrepareFails, PartlyPrepared
  <2> QED
    BY <1>3, <2>1, <2>2
<1>6. CASE TimePasses
  <2>1. /\ phase' \in [Ops -> Phases]
        /\ \A o \in Ops : phase'[o] = IF phase[o] = "later" THEN "due" ELSE phase[o]
    BY <1>0, <1>6 DEF TimePasses, Phases
  <2>2. \A f \in FileIds : phase'[f] # "absent" => mirror[f] # "unknown"
    BY <1>0, <2>1 DEF Ops
  <2> QED
    BY <1>0, <1>6, <2>1, <2>2, RunFrame DEF TimePasses, control
<1> QED
  BY <1>1, <1>2, <1>4, <1>5, <1>6

LEMMA ClaimPreserves ==
  ASSUME ExecInv, NEW o \in Ops, Claim(o) PROVE ExecInv'
<1>1. /\ op = None /\ phase[o] = "due" /\ phase' = [phase EXCEPT ![o] = "running"]
      /\ op' = o /\ pc' = "load"
      /\ UNCHANGED <<mirror, want, base, stage, objects, vault, halfway, remote, touched, run,
                     retried, found, seen, faults, edits>>
  BY DEF Claim, index, private, local, drive, target
<1>2. phase \in [Ops -> Phases] /\ o # None
  BY InvFacts, IdsAssumption DEF TypeOK
<1>3. /\ phase' \in [Ops -> Phases] /\ phase'[o] = "running"
      /\ \A p \in Ops : phase'[p] = "completed" => phase[p] = "completed"
      /\ \A p \in Ops : phase'[p] # "absent" => phase[p] # "absent"
  BY <1>1, <1>2 DEF Phases
<1>4. TypeOK'
  BY <1>1, <1>3, InvFacts DEF TypeOK, Steps
<1>5. found = None
  BY <1>1, InvFacts DEF OpFits, FoundFits, Searching
<1>6. OpFits' /\ FoundFits' /\ NoneIsMissed' /\ StageFits'
  BY <1>1, <1>2, <1>3, <1>5
  DEF OpFits, FoundFits, NoneIsMissed, MayCreate, StageFits, UploadSteps, DownloadSteps, Searching,
      Publishing
<1>7. \A f \in FileIds : phase'[f] # "absent" => mirror[f] # "unknown"
  BY <1>3, InvFacts DEF MirrorFits, Ops
<1>8. seen' <= edits
  BY <1>1, InvFacts DEF RevsFit
<1> QED
  BY <1>1, <1>3, <1>4, <1>6, <1>7, <1>8, ExecFrame DEF Published

\* A page that the mirror takes in: what it records is what the folder has, and no row that
\* was there before is about another content now.
LEMMA FetchPagePreserves ==
  ASSUME ExecInv, FetchPage PROVE ExecInv'
<1> DEFINE new == {f \in InFolder : mirror[f] = "unknown"}
<1>0. /\ UNCHANGED <<retried, base, stage, objects, vault, halfway, remote, touched, op, pc, found, seen,
                     faults, edits>>
  BY DEF FetchPage, private, local, drive, target
<1>1. CASE UNCHANGED <<mirror, want, phase>> /\ run' = "outside"
  <2>1. /\ phase' \in [Ops -> Phases] /\ retried' \in SUBSET Ops /\ faults' \in 0 .. MaxFaults
        /\ \A f \in FileIds : phase'[f] # "absent" => mirror[f] # "unknown"
    BY <1>0, <1>1, InvFacts DEF TypeOK, MirrorFits
  <2> QED
    BY <1>0, <1>1, <2>1, RunFrame DEF index, private, local, drive, target
<1>2. CASE /\ run' = "drain"
           /\ mirror' = [f \in FileIds |-> IF f \in new THEN "declared" ELSE mirror[f]]
           /\ want' = [f \in FileIds |-> IF f \in new THEN IntentOf(f) ELSE want[f]]
           /\ phase' = [o \in Ops |-> IF o \in new THEN "due" ELSE phase[o]]
  <2>0. \A f \in new : f \in FileIds /\ f \in Ops /\ remote[f].where = "folder" /\ mirror[f] = "unknown"
    BY DEF InFolder, Ops
  <2> HIDE DEF new
  <2>1. \A f \in FileIds : IntentOf(f) \in Intent /\ IntentOf(f).path = remote[f].name
                           /\ IntentOf(f).sha = remote[f].sha /\ IntentOf(f).rev = remote[f].rev
    BY InvFacts DEF IntentOf, Intent, TypeOK, Entry
  <2>2. /\ mirror' \in [FileIds -> {"unknown", "declared", "known"}]
        /\ want' \in [FileIds -> Intent] /\ phase' \in [Ops -> Phases]
    BY <1>2, <2>1, InvFacts DEF TypeOK, Phases
  <2>3. TypeOK'
    BY <1>0, <1>2, <2>2, InvFacts DEF TypeOK
  <2>4. \A f \in FileIds : /\ f \in new => mirror'[f] = "declared" /\ want'[f] = IntentOf(f)
                           /\ f \notin new => mirror'[f] = mirror[f] /\ want'[f] = want[f]
    BY <1>2
  <2>5. \A o \in Ops : /\ o \in new => phase'[o] = "due" /\ phase[o] = "absent"
                       /\ o \notin new => phase'[o] = phase[o]
    BY <1>2, <2>0, InvFacts DEF MirrorFits
  <2>6. MirrorFits'
    <3> SUFFICES ASSUME NEW f \in FileIds
                 PROVE  /\ phase'[f] # "absent" => mirror'[f] # "unknown"
                        /\ base'[f] # None => mirror'[f] # "unknown"
                        /\ mirror'[f] # "unknown" =>
                             /\ want'[f].path \in Paths /\ want'[f].sha \in Digests
                             /\ remote'[f].where # "absent"
                             /\ (remote'[f].rev = want'[f].rev => remote'[f].sha = want'[f].sha)
      BY DEF MirrorFits
    <3>1. CASE f \in new
      BY <1>0, <2>0, <2>1, <2>4, <3>1, InvFacts DEF RemoteFits
    <3>2. CASE f \notin new
      BY <1>0, <2>4, <2>5, <3>2, InvFacts DEF MirrorFits, Ops
    <3> QED
      BY <3>1, <3>2
  <2>7. RemoteFits' /\ MarkedOnce'
    BY <1>0, InvFacts DEF RemoteFits, MarkedOnce
  <2>8. RevsFit'
    BY <1>0, <2>1, <2>4, InvFacts DEF RevsFit
  <2>9. op \notin new
    <3>1. op # None => phase[op] = "running" /\ op \in Ops
      BY InvFacts DEF OpFits, TypeOK
    <3> QED
      BY <2>0, <2>5, <3>1, IdsAssumption
  <2>10. OpFits' /\ FoundFits' /\ NoneIsMissed'
    <3>1. op # None => op \in Ops
      BY InvFacts DEF TypeOK
    <3> QED
      BY <1>0, <2>5, <2>9, <3>1, InvFacts DEF OpFits, FoundFits, NoneIsMissed, MayCreate
  <2>11. \A o \in Ops : o \notin new => ShaOf(o)' = ShaOf(o)
    BY <2>4 DEF ShaOf, Ops
  <2>12. pc # "none" => ShaOf(op)' = ShaOf(op)
    BY <1>0, <2>9, <2>11, OpFacts DEF ShaOf
  <2>13. StageFits'
    BY <1>0, <2>12, InvFacts DEF StageFits
  <2>14. BaseIsDurable'
    BY <1>0, <2>5, <2>11, <2>12, InvFacts DEF BaseIsDurable
  <2>15. BaseMatchesRemote'
    <3> SUFFICES ASSUME NEW f \in FileIds, base[f] # None, RemoteIsExact(f)' PROVE remote[f].sha = base[f]
      BY <1>0 DEF BaseMatchesRemote
    <3>1. f \notin new
      BY <2>0, InvFacts DEF MirrorFits
    <3> QED
      BY <1>0, <2>4, <3>1, InvFacts DEF BaseMatchesRemote, RemoteIsExact
  <2> QED
    BY <2>3, <2>6, <2>7, <2>8, <2>10, <2>13, <2>14, <2>15, InvFromPartsNext
<1> QED
  BY <1>1, <1>2 DEF FetchPage

\* Postponed, failed and crashed executions.
LEMMA FailuresPreserve ==
  ASSUME ExecInv, Postpone \/ StopOnFailure \/ Crash PROVE ExecInv'
<1>0. /\ phase \in [Ops -> Phases] /\ retried \in SUBSET Ops /\ faults \in 0 .. MaxFaults
      /\ run \in {"idle", "pages", "resumed", "drain", "prepare", "last", "outside"}
      /\ stage \in [Ops -> {"none", "short", "wrong", "exact", "linked"}]
      /\ op # None => op \in Ops /\ phase[op] = "running"
  BY InvFacts DEF TypeOK, OpFits
<1>1. /\ Leave /\ faults' \in 0 .. MaxFaults
      /\ UNCHANGED <<mirror, want, base, stage, objects, vault, halfway, remote, touched, edits>>
      /\ run' \in {"idle", "pages", "resumed", "drain", "prepare", "last", "outside"}
  BY <1>0, BoundsAssumption
  DEF Postpone, StopOnFailure, Crash, Fault, index, private, local, drive
<1>2. pc \in (UploadSteps \ {"source"}) \cup {"verify"} => op # None
  BY OpFacts DEF UploadSteps
<1>3. retried' \in SUBSET Ops
  BY <1>0, <1>2 DEF Postpone, StopOnFailure, Crash
<1>4. \/ op \in Ops /\ phase[op] = "running" /\ \E p \in {"later", "needs_reconcile"} : phase' = [phase EXCEPT ![op] = p]
      \/ phase' = [o \in Ops |-> IF phase[o] = "running" THEN "needs_reconcile" ELSE phase[o]]
  BY <1>0, <1>2 DEF Postpone, StopOnFailure, Crash
<1>5. /\ phase' \in [Ops -> Phases]
      /\ \A o \in Ops : phase'[o] = "completed" => phase[o] = "completed"
      /\ \A o \in Ops : phase[o] = "absent" => phase'[o] = "absent"
  BY <1>0, <1>4 DEF Phases
<1> QED
  BY <1>0, <1>1, <1>3, <1>5, LeavePreserves
-----------------------------------------------------------------------------
(* Stages.                                                                  *)

LEMMA LoadStagePreserves ==
  ASSUME ExecInv, LoadStage PROVE ExecInv'
<1>1. /\ pc = "load" /\ UNCHANGED <<index, objects, local, drive>>
      /\ objects' = objects /\ want' = want /\ remote' = remote
  BY DEF LoadStage, index, drive
<1>2. /\ op \in Ops /\ stage \in [Ops -> {"none", "short", "wrong", "exact", "linked"}]
      /\ found = None /\ seen \in 0 .. MaxEdits /\ seen <= edits /\ faults \in 0 .. MaxFaults
      /\ objects \in SUBSET Digests /\ vault \in [Paths -> Digests \cup {None}] /\ halfway \in SUBSET Paths
  BY <1>1, OpFacts, InvFacts DEF TypeOK, FoundFits, Searching, RevsFit
<1>3. ASSUME Stop, UNCHANGED stage PROVE ExecInv'
  BY <1>1, <1>2, <1>3, StopPreserves
<1>4. ASSUME NEW step \in {"copy", "load", "source", "verify"}, Goto(step), UNCHANGED target,
             stage' \in [Ops -> {"none", "short", "wrong", "exact", "linked"}],
             step = "copy" => stage'[op] = "short",
             step = "source" => op \in Uploads, step = "verify" => op \in FileIds
      PROVE  ExecInv'
  <2>1. /\ pc' = step /\ op' = op /\ found' = None /\ seen' = seen /\ step \in Steps \ {"none"}
        /\ faults' = faults /\ vault' = vault /\ halfway' = halfway
        /\ UNCHANGED <<run, op, ledger, index, drive, edits>>
    BY <1>1, <1>2, <1>4 DEF Goto, target, Steps, UploadSteps, DownloadSteps, local
  <2>2. FoundFits' /\ NoneIsMissed' /\ StageFits'
    BY <1>4, <2>1, IdsAssumption
    DEF FoundFits, NoneIsMissed, MayCreate, StageFits, Searching, Publishing
  <2>3. /\ step \in UploadSteps => op \in Uploads
        /\ step \in DownloadSteps => op \in FileIds
        /\ step \notin Published
    BY <1>4 DEF UploadSteps, DownloadSteps, Published
  <2>4. /\ pc # "none" /\ found' \in FileIds \cup {None} /\ seen' \in 0 .. MaxEdits /\ seen' <= edits
        /\ faults' \in 0 .. MaxFaults /\ objects' \in SUBSET Digests /\ objects \subseteq objects'
        /\ vault' \in [Paths -> Digests \cup {None}] /\ halfway' \in SUBSET Paths
    BY <1>1, <1>2, <2>1
  <2> QED
    BY <1>4, <2>1, <2>2, <2>3, <2>4, GotoPreserves
<1>5. ASSUME NEW s \in {"short", "none"}, stage' = [stage EXCEPT ![op] = s]
      PROVE  stage' \in [Ops -> {"none", "short", "wrong", "exact", "linked"}] /\ stage'[op] = s
  BY <1>2, <1>5
<1>6. CASE BeginStage /\ Goto("copy") /\ UNCHANGED target
  BY <1>4, <1>5, <1>6 DEF BeginStage
<1>7. CASE Goto(IF op \in Uploads THEN "source" ELSE "verify") /\ UNCHANGED <<stage, target>>
  BY <1>2, <1>4, <1>7 DEF Ops
<1>8. CASE stage' = [stage EXCEPT ![op] = "none"] /\ Goto("load") /\ UNCHANGED target
  BY <1>4, <1>5, <1>8
<1> QED
  BY <1>3, <1>6, <1>7, <1>8 DEF LoadStage

\* The stage is finished and the execution goes on, or it is left as it is.
LEMMA CopyPreserves ==
  ASSUME ExecInv, CopySource \/ ReceiveBlob PROVE ExecInv'
<1>1. /\ pc = "copy" /\ UNCHANGED <<index, objects, local, drive>>
      /\ objects' = objects /\ want' = want /\ remote' = remote
  BY DEF CopySource, ReceiveBlob, index, drive
<1>2. /\ op \in Ops /\ stage \in [Ops -> {"none", "short", "wrong", "exact", "linked"}]
      /\ found = None /\ seen \in 0 .. MaxEdits /\ seen <= edits /\ faults \in 0 .. MaxFaults
      /\ objects \in SUBSET Digests /\ vault \in [Paths -> Digests \cup {None}] /\ halfway \in SUBSET Paths
  BY <1>1, OpFacts, InvFacts DEF TypeOK, FoundFits, Searching, RevsFit
<1>3. ASSUME Stop, NEW s \in {"short", "wrong", "exact"}, stage' = [stage EXCEPT ![op] = s] PROVE ExecInv'
  BY <1>1, <1>2, <1>3, StopPreserves
<1>4. ASSUME NEW step \in {"source", "gate"}, Goto(step), UNCHANGED target, FinishStage,
             step = "source" => op \in Uploads, step = "gate" => op \in FileIds
      PROVE  ExecInv'
  <2>1. /\ pc' = step /\ op' = op /\ found' = None /\ seen' = seen /\ step \in Steps \ {"none"}
        /\ faults' = faults /\ vault' = vault /\ halfway' = halfway
        /\ UNCHANGED <<run, op, ledger, index, drive, edits>>
    BY <1>1, <1>2, <1>4 DEF Goto, target, Steps, UploadSteps, DownloadSteps, local
  <2>2. FoundFits' /\ NoneIsMissed' /\ StageFits'
    BY <1>4, <2>1, IdsAssumption
    DEF FoundFits, NoneIsMissed, MayCreate, StageFits, Searching, Publishing
  <2>3. /\ step \in UploadSteps => op \in Uploads
        /\ step \in DownloadSteps => op \in FileIds
        /\ step \notin Published
    BY <1>4 DEF UploadSteps, DownloadSteps, Published
  <2>4. /\ pc # "none" /\ found' \in FileIds \cup {None} /\ seen' \in 0 .. MaxEdits /\ seen' <= edits
        /\ faults' \in 0 .. MaxFaults /\ objects' \in SUBSET Digests /\ objects \subseteq objects'
        /\ vault' \in [Paths -> Digests \cup {None}] /\ halfway' \in SUBSET Paths
        /\ stage' \in [Ops -> {"none", "short", "wrong", "exact", "linked"}]
    BY <1>1, <1>2, <1>4, <2>1 DEF FinishStage
  <2> QED
    BY <2>1, <2>2, <2>3, <2>4, GotoPreserves
<1>5. CASE CopySource
  BY <1>3, <1>4, <1>5 DEF CopySource
<1>6. CASE ReceiveBlob
  BY <1>3, <1>4, <1>6 DEF ReceiveBlob
<1> QED
  BY <1>5, <1>6

LEMMA ReceiveFailsPreserves ==
  ASSUME ExecInv, ReceiveFails PROVE ExecInv'
<1>1. /\ op \in FileIds /\ Leave /\ Fault
      /\ UNCHANGED <<mirror, want, base, objects, vault, halfway, remote, touched, edits>>
  BY DEF ReceiveFails, index, local, drive
<1>2. /\ op \in Ops /\ phase[op] = "running" /\ phase \in [Ops -> Phases] /\ retried \in SUBSET Ops
      /\ run \in {"idle", "pages", "resumed", "drain", "prepare", "last", "outside"}
      /\ stage \in [Ops -> {"none", "short", "wrong", "exact", "linked"}] /\ faults \in 0 .. MaxFaults
  BY InvFacts, OpFacts DEF TypeOK, ReceiveFails
<1>3. \E s \in {"none", "short", "exact"}, p \in {"later", "needs_reconcile"} :
        stage' = [stage EXCEPT ![op] = s] /\ phase' = [phase EXCEPT ![op] = p]
  BY DEF ReceiveFails, DiscardEmptyStage
<1>4. /\ stage' \in [Ops -> {"none", "short", "wrong", "exact", "linked"}] /\ phase' \in [Ops -> Phases]
      /\ \A o \in Ops : phase'[o] = "completed" => phase[o] = "completed"
      /\ \A o \in Ops : phase[o] = "absent" => phase'[o] = "absent"
  BY <1>2, <1>3 DEF Phases
<1>5. /\ retried' \in SUBSET Ops /\ faults' \in 0 .. MaxFaults
      /\ run' \in {"idle", "pages", "resumed", "drain", "prepare", "last", "outside"}
  BY <1>1, <1>2, BoundsAssumption DEF ReceiveFails, DiscardEmptyStage, Fault
<1> QED
  BY <1>1, <1>4, <1>5, LeavePreserves
-----------------------------------------------------------------------------
(* Steps that only read.                                                    *)

LEMMA PlainStopPreserves ==
  ASSUME ExecInv, pc # "none", Stop, UNCHANGED <<index, private, local, drive>> PROVE ExecInv'
<1>1. stage' \in [Ops -> {"none", "short", "wrong", "exact", "linked"}]
  BY InvFacts DEF TypeOK, private
<1> QED
  BY <1>1, StopPreserves DEF private

\* A step that keeps the found file.
LEMMA KeepingGotoPreserves ==
  ASSUME ExecInv, pc # "none", NEW step \in Steps \ {"none"}, Goto(step),
         UNCHANGED <<index, private, local, drive, target>>,
         step \in UploadSteps => op \in Uploads,
         step \in DownloadSteps => op \in FileIds,
         step \in Searching => pc \in Searching,
         op \in Uploads /\ step # "status" /\ step \notin Searching => found \in FileIds,
         op \in Uploads => step \notin Publishing \/ pc \in Publishing,
         step \in {"name", "initiate", "send"} \/ (step = "status" /\ found = None) =>
           \A f \in FileIds : remote[f].marker = op => f \in touched,
         step # "copy",
         step \in Published \cup {"unlink", "open"} => ShaOf(op) \in objects
  PROVE  ExecInv'
<1>1. /\ pc' = step /\ op' = op /\ found' = found /\ seen' = seen /\ remote' = remote
      /\ touched' = touched /\ objects' = objects /\ want' = want
  BY DEF Goto, target, index, private, drive
<1>2. FoundFits'
  BY <1>1, InvFacts DEF FoundFits
<1>3. NoneIsMissed'
  BY <1>1 DEF NoneIsMissed, MayCreate
<1>4. StageFits'
  BY <1>1 DEF StageFits, ShaOf
<1>5. found' \in FileIds \cup {None} /\ seen' \in 0 .. MaxEdits /\ seen' <= edits
  BY <1>1, InvFacts DEF TypeOK, RevsFit
<1> QED
  BY <1>2, <1>3, <1>4, <1>5, PlainGotoPreserves

LEMMA ReadStepsPreserve ==
  ASSUME ExecInv, (ReadSource /\ op \in Uploads) \/ VerifyDownload \/ PassGate PROVE ExecInv'
<1> USE DEF Steps, UploadSteps, DownloadSteps, Searching, Publishing, Published
<1>1. CASE ReadSource /\ op \in Uploads
  <2>1. pc = "source" /\ UNCHANGED <<index, private, local, drive>>
    BY <1>1 DEF ReadSource
  <2>2. CASE Goto("marker") /\ UNCHANGED target
    BY <1>1, <2>1, <2>2, KeepingGotoPreserves
  <2>3. CASE Stop
    BY <2>1, <2>3, PlainStopPreserves
  <2> QED
    BY <1>1, <2>2, <2>3 DEF ReadSource
<1>2. CASE VerifyDownload
  <2>1. pc = "verify" /\ UNCHANGED <<index, private, local, drive>> /\ op \in FileIds
    BY <1>2, InvFacts DEF VerifyDownload, OpFits
  <2>2. op \notin Uploads
    BY <2>1, IdsAssumption
  <2>3. CASE Goto("gate") /\ UNCHANGED target
    BY <2>1, <2>2, <2>3, KeepingGotoPreserves
  <2>4. CASE Stop
    BY <2>1, <2>4, PlainStopPreserves
  <2> QED
    BY <1>2, <2>3, <2>4 DEF VerifyDownload
<1>3. CASE PassGate
  <2>1. pc = "gate" /\ UNCHANGED <<index, private, local, drive, target>> /\ op \in FileIds /\ Goto("link")
    BY <1>3, InvFacts DEF PassGate, OpFits
  <2>2. op \notin Uploads
    BY <2>1, IdsAssumption
  <2> QED
    BY <2>1, <2>2, KeepingGotoPreserves
<1> QED
  BY <1>1, <1>2, <1>3

\* An upload has found a file, at the revision it has now.
LEMMA FindPreserves ==
  ASSUME ExecInv, pc # "none", op \in Uploads, NEW f \in FileIds, Find(f),
         NEW step \in {"recheck", "recheck_content", "link"}, Goto(step),
         step = "link" => HasSameContent(f, op),
         UNCHANGED <<index, private, local, drive>>
  PROVE  ExecInv'
<1>1. /\ pc' = step /\ op' = op /\ found' = f /\ seen' = remote[f].rev /\ remote' = remote
  BY DEF Goto, Find, drive
<1>2. FoundFits' /\ NoneIsMissed' /\ StageFits'
  BY <1>1, IdsAssumption
  DEF FoundFits, NoneIsMissed, MayCreate, StageFits, Searching, Publishing, HasSameContent
<1>3. found' \in FileIds \cup {None} /\ seen' \in 0 .. MaxEdits /\ seen' <= edits
  BY <1>1, InvFacts DEF TypeOK, Entry, RevsFit
<1> QED
  BY <1>2, <1>3, PlainGotoPreserves DEF Steps, UploadSteps, DownloadSteps, Published

\* No marked file in the folder: every file the upload has made was moved.
LEMMA NoMarkedFile ==
  ASSUME ExecInv, op \in Uploads, Marked(op) = {}
  PROVE  \A f \in FileIds : remote[f].marker = op => f \in touched
<1> SUFFICES ASSUME NEW f \in FileIds, remote[f].marker = op, f \notin touched PROVE FALSE
  OBVIOUS
<1>1. remote[f].where = "folder"
  BY InvFacts, IdsAssumption DEF RemoteFits, Ops
<1> QED
  BY <1>1 DEF Marked, InFolder

LEMMA ReconcilePreserves ==
  ASSUME ExecInv, ReconcileMarker \/ ReconcileName PROVE ExecInv'
<1> USE DEF Steps, UploadSteps, DownloadSteps, Searching, Publishing, Published
<1>1. pc \in {"marker", "name"} /\ UNCHANGED <<index, private, local, drive>> /\ op \in Uploads
  BY InvFacts DEF ReconcileMarker, ReconcileName, OpFits
<1>2. CASE Stop
  BY <1>1, <1>2, PlainStopPreserves
<1>3. ASSUME NEW f \in FileIds, Find(f), NEW step \in {"recheck", "recheck_content"}, Goto(step)
      PROVE  ExecInv'
  BY <1>1, <1>3, FindPreserves
<1>4. CASE Marked(op) = {} /\ Goto("name") /\ UNCHANGED target
  BY <1>1, <1>4, NoMarkedFile, KeepingGotoPreserves
<1>5. CASE pc = "name" /\ Goto("initiate") /\ UNCHANGED target
  <2>1. \A f \in FileIds : remote[f].marker = op => f \in touched
    BY <1>5, InvFacts DEF NoneIsMissed, MayCreate
  <2> QED
    BY <1>1, <1>5, <2>1, KeepingGotoPreserves
<1> QED
  BY <1>2, <1>3, <1>4, <1>5 DEF ReconcileMarker, ReconcileName

LEMMA RecheckPreserves ==
  ASSUME ExecInv, RecheckExisting PROVE ExecInv'
<1>1. /\ pc \in {"recheck", "recheck_content"} /\ UNCHANGED <<index, private, local, drive>>
      /\ op \in Uploads
  BY InvFacts DEF RecheckExisting, OpFits, UploadSteps
<1>2. found \in FileIds
  BY <1>1, InvFacts DEF FoundFits, Searching
<1>3. CASE Stop
  BY <1>1, <1>3, PlainStopPreserves
<1>4. CASE HasSameContent(found, op) /\ Goto("link") /\ Find(found)
  BY <1>1, <1>2, <1>4, FindPreserves
<1> QED
  BY <1>3, <1>4 DEF RecheckExisting, MatchesIntent

LEMMA CreateReadsPreserve ==
  ASSUME ExecInv, Initiate \/ Decode \/ QueryStatus \/ VerifyCreated PROVE ExecInv'
<1> USE DEF Steps, UploadSteps, DownloadSteps, Searching, Publishing, Published
<1>1. /\ pc \in {"initiate", "decode", "status", "verify_marker", "verify_name"}
      /\ UNCHANGED <<index, private, local, drive>> /\ op \in Uploads
  BY InvFacts DEF Initiate, Decode, QueryStatus, VerifyCreated, OpFits
<1>2. CASE Stop
  BY <1>1, <1>2, PlainStopPreserves
<1>3. CASE pc = "initiate" /\ Goto("send") /\ UNCHANGED target
  <2>1. \A f \in FileIds : remote[f].marker = op => f \in touched
    BY <1>3, InvFacts DEF NoneIsMissed, MayCreate
  <2> QED
    BY <1>1, <1>3, <2>1, KeepingGotoPreserves
<1>4. CASE pc = "status" /\ found = None /\ Goto("send") /\ UNCHANGED target
  <2>1. \A f \in FileIds : remote[f].marker = op => f \in touched
    BY <1>4, InvFacts DEF NoneIsMissed, MayCreate
  <2>2. /\ pc' = "send" /\ op' = op /\ found' = None /\ seen' = seen /\ remote' = remote
        /\ touched' = touched
    BY <1>1, <1>4 DEF Goto, target, drive
  <2>3. FoundFits' /\ NoneIsMissed' /\ StageFits'
    BY <2>1, <2>2 DEF FoundFits, NoneIsMissed, MayCreate, StageFits
  <2>4. found' \in FileIds \cup {None} /\ seen' \in 0 .. MaxEdits /\ seen' <= edits
    BY <2>2, InvFacts DEF TypeOK, RevsFit
  <2> QED
    BY <1>1, <1>4, <2>3, <2>4, PlainGotoPreserves
<1>5. ASSUME NEW step \in {"verify_marker", "verify_name", "recheck"}, Goto(step), UNCHANGED target,
             pc # "status" \/ found # None, pc # "initiate"
      PROVE  ExecInv'
  <2>1. found \in FileIds
    BY <1>1, <1>5, InvFacts DEF FoundFits, TypeOK
  <2> QED
    BY <1>1, <1>5, <2>1, KeepingGotoPreserves
<1>6. CASE Initiate
  BY <1>3, <1>6 DEF Initiate
<1>7. CASE Decode
  BY <1>2, <1>5, <1>7 DEF Decode
<1>8. CASE QueryStatus
  BY <1>2, <1>4, <1>5, <1>8 DEF QueryStatus
<1>9. CASE VerifyCreated
  BY <1>2, <1>5, <1>9 DEF VerifyCreated
<1> QED
  BY <1>6, <1>7, <1>8, <1>9
-----------------------------------------------------------------------------
(* The Drive's files change.                                                *)

\* A file is changed: it gets a revision that nobody has seen, or did not exist before.
LEMMA RemoteFrame ==
  ASSUME ExecInv, NEW f \in FileIds, NEW e, remote' = [remote EXCEPT ![f] = e],
         UNCHANGED <<mirror, want, base, phase, objects, op, stage>>, TypeOK',
         edits' \in Nat, edits <= edits', e.rev <= edits',
         mirror[f] = "unknown" \/ e.rev > edits,
         e.where # "absent", e.name \in Paths, e.sha \in Digests,
         remote[f].where # "absent" => e.marker = remote[f].marker,
         e.marker # None /\ f \notin touched' => e.where = "folder",
         touched \subseteq touched',
         remote[f].where = "absent" /\ e.marker # None =>
           \A g \in FileIds \ {f} : remote[g].marker = e.marker => g \in touched,
         OpFits', FoundFits', NoneIsMissed', StageFits', seen' <= edits',
         pc' \in Published => pc = pc'
  PROVE  ExecInv'
<1>1. remote'[f] = e /\ \A g \in FileIds \ {f} : remote'[g] = remote[g]
  BY InvFacts DEF TypeOK
<1>2. remote[f].rev \in Nat /\ want[f].rev \in Nat /\ edits \in Nat /\ want[f].rev <= edits
      /\ \A g \in FileIds : remote[g].rev \in Nat /\ want[g].rev \in Nat
  BY InvFacts DEF TypeOK, Entry, Intent, RevsFit
<1>3. e.rev \in Nat
  BY <1>1 DEF TypeOK, Entry
<1>4. MirrorFits'
  <2> SUFFICES ASSUME NEW g \in FileIds
               PROVE  /\ phase[g] # "absent" => mirror[g] # "unknown"
                      /\ base[g] # None => mirror[g] # "unknown"
                      /\ mirror[g] # "unknown" =>
                           /\ want[g].path \in Paths /\ want[g].sha \in Digests
                           /\ remote'[g].where # "absent"
                           /\ (remote'[g].rev = want[g].rev => remote'[g].sha = want[g].sha)
    BY DEF MirrorFits
  <2>1. CASE g = f
    BY <1>1, <1>2, <1>3, <2>1, InvFacts DEF MirrorFits
  <2>2. CASE g # f
    BY <1>1, <2>2, InvFacts DEF MirrorFits
  <2> QED
    BY <2>1, <2>2
<1>5. RemoteFits'
  BY <1>1, InvFacts DEF RemoteFits
<1>6. RevsFit'
  BY <1>1, <1>2, InvFacts DEF RevsFit
<1>7. BaseIsDurable'
  <2>1. \A o \in Ops : ShaOf(o)' = ShaOf(o)
    BY DEF ShaOf
  <2>2. ShaOf(op)' = ShaOf(op)
    BY DEF ShaOf
  <2> QED
    BY <2>1, <2>2, InvFacts DEF BaseIsDurable, Published
<1>8. BaseMatchesRemote'
  <2> SUFFICES ASSUME NEW g \in FileIds, base[g] # None, remote'[g].where = "folder",
                      remote'[g].rev = want[g].rev
               PROVE  remote'[g].sha = base[g]
    BY DEF BaseMatchesRemote, RemoteIsExact
  <2>1. mirror[g] # "unknown"
    BY InvFacts DEF MirrorFits
  <2>2. g # f
    BY <1>1, <1>2, <1>3, <2>1
  <2> QED
    BY <1>1, <2>2, InvFacts DEF BaseMatchesRemote, RemoteIsExact
<1>9. MarkedOnce'
  <2>1. ASSUME NEW g \in FileIds \ {f}, e.marker # None, remote[g].marker = e.marker
        PROVE  f \in touched' \/ g \in touched'
    <3>1. CASE remote[f].where = "absent"
      BY <2>1, <3>1
    <3>2. CASE remote[f].where # "absent"
      BY <2>1, <3>2, InvFacts DEF MarkedOnce
    <3> QED
      BY <3>1, <3>2
  <2>2. ASSUME NEW g \in FileIds, NEW h \in FileIds, g # h, remote'[g].marker # None,
               remote'[g].marker = remote'[h].marker
        PROVE  g \in touched' \/ h \in touched'
    <3>1. CASE g = f
      BY <1>1, <2>1, <2>2, <3>1
    <3>2. CASE h = f
      BY <1>1, <2>1, <2>2, <3>2
    <3>3. CASE g # f /\ h # f
      BY <1>1, <2>2, <3>3, InvFacts DEF MarkedOnce
    <3> QED
      BY <3>1, <3>2, <3>3
  <2> QED
    BY <2>2 DEF MarkedOnce
<1> QED
  BY <1>4, <1>5, <1>6, <1>7, <1>8, <1>9, InvFromPartsNext

\* The Drive creates the file of an upload that may still create one.
LEMMA CreatesPreserves ==
  ASSUME ExecInv, pc = "send", NEW f \in FileIds, Creates(f), Find(f), pc' \in {"decode", "status"},
         UNCHANGED <<run, op, ledger, index, private, local, touched, edits>>, faults' \in 0 .. MaxFaults
  PROVE  ExecInv'
<1>1. op \in Uploads /\ op # None /\ op \in Ops
  BY InvFacts, IdsAssumption DEF OpFits, UploadSteps, Ops
<1> DEFINE e == [where |-> "folder", name |-> UploadPath[op], sha |-> UploadSha[op], marker |-> op,
                 rev |-> 0]
<1>2. /\ remote' = [remote EXCEPT ![f] = e] /\ remote[f].where = "absent" /\ found' = f
      /\ seen' = remote[f].rev
  BY DEF Creates, Find
<1>3. e \in Entry
  BY <1>1, UploadAssumption, BoundsAssumption DEF Entry
<1>4. /\ mirror' = mirror /\ want' = want /\ base' = base /\ phase' = phase /\ retried' = retried
      /\ objects' = objects /\ stage' = stage /\ vault' = vault /\ halfway' = halfway /\ op' = op
      /\ touched' = touched /\ edits' = edits /\ run' = run
  BY DEF ledger, index, private, local
<1>5. seen' \in 0 .. MaxEdits /\ seen' <= edits /\ edits \in Nat
  BY <1>2, InvFacts DEF TypeOK, Entry, RevsFit
<1>6. remote' \in [FileIds -> Entry]
  BY <1>2, <1>3, InvFacts DEF TypeOK
<1>7. TypeOK'
  BY <1>2, <1>4, <1>5, <1>6, InvFacts DEF TypeOK, Steps, UploadSteps
<1>8. /\ e.where = "folder" /\ e.name \in Paths /\ e.sha \in Digests /\ e.marker = op /\ e.rev = 0
  BY <1>1, UploadAssumption
<1> HIDE DEF e
<1>9. OpFits'
  BY <1>1, <1>4, InvFacts DEF OpFits, UploadSteps, DownloadSteps
<1>10. FoundFits' /\ NoneIsMissed' /\ StageFits'
  BY <1>2, IdsAssumption
  DEF FoundFits, NoneIsMissed, MayCreate, StageFits, Searching, Publishing, Ops
<1>11. mirror[f] = "unknown"
  BY <1>2, InvFacts DEF MirrorFits
<1>12. \A g \in FileIds : remote[g].marker = op => g \in touched
  BY InvFacts DEF NoneIsMissed, MayCreate
<1>13. pc' \notin Published
  BY DEF Published
<1>14. /\ UNCHANGED <<mirror, want, base, phase, objects, op, stage>>
       /\ edits' \in Nat /\ edits <= edits' /\ e.rev <= edits' /\ seen' <= edits'
       /\ mirror[f] = "unknown" \/ e.rev > edits
       /\ e.where # "absent"
       /\ remote[f].where # "absent" => e.marker = remote[f].marker
       /\ e.marker # None /\ f \notin touched' => e.where = "folder"
       /\ touched \subseteq touched'
       /\ remote[f].where = "absent" /\ e.marker # None =>
            \A g \in FileIds \ {f} : remote[g].marker = e.marker => g \in touched
       /\ pc' \in Published => pc = pc'
  BY <1>2, <1>4, <1>5, <1>8, <1>11, <1>12, <1>13
<1>15. PICK d : d = e
  OBVIOUS
<1>16. remote' = [remote EXCEPT ![f] = d]
  BY <1>2, <1>15
<1> QED
  BY <1>7, <1>8, <1>9, <1>10, <1>14, <1>15, <1>16, RemoteFrame

LEMMA FaultFacts == ASSUME ExecInv, Fault PROVE faults' \in 0 .. MaxFaults
BY InvFacts, BoundsAssumption DEF Fault, TypeOK

LEMMA SendPreserves ==
  ASSUME ExecInv, SendChunk \/ SendIsLost \/ DecodeIsLost PROVE ExecInv'
<1>0. faults \in 0 .. MaxFaults
  BY InvFacts DEF TypeOK
<1>1. CASE SendChunk
  BY <1>0, <1>1, CreatesPreserves DEF SendChunk, Goto
<1>2. CASE SendIsLost /\ \E f \in FileIds : Creates(f) /\ Find(f)
  BY <1>2, FaultFacts, CreatesPreserves DEF SendIsLost
<1>3. ASSUME pc \in {"send", "decode"}, Fault, pc' = "status",
             UNCHANGED <<run, op, target, ledger, index, private, local, drive, edits>>
      PROVE  ExecInv'
  <2>1. /\ op' = op /\ found' = found /\ seen' = seen /\ remote' = remote /\ touched' = touched
        /\ stage' = stage /\ objects' = objects /\ vault' = vault /\ halfway' = halfway
    BY <1>3 DEF target, drive, private, local
  <2>2. op \in Uploads
    BY <1>3, InvFacts DEF OpFits, UploadSteps
  <2>3. pc = "decode" => found \in FileIds
    BY <1>3, <2>2, InvFacts DEF FoundFits, Searching
  <2>4. FoundFits' /\ StageFits'
    BY <1>3, <2>1 DEF FoundFits, StageFits, Searching, Publishing
  <2>5. NoneIsMissed'
    <3>1. CASE pc = "send"
      BY <1>3, <2>1, <3>1, InvFacts DEF NoneIsMissed, MayCreate
    <3>2. CASE pc = "decode"
      BY <1>3, <2>1, <2>3, <3>2, IdsAssumption DEF NoneIsMissed, MayCreate, Ops
    <3> QED
      BY <1>3, <3>1, <3>2
  <2>6. /\ stage' \in [Ops -> {"none", "short", "wrong", "exact", "linked"}]
        /\ objects' \in SUBSET Digests /\ objects \subseteq objects'
        /\ vault' \in [Paths -> Digests \cup {None}] /\ halfway' \in SUBSET Paths
        /\ found' \in FileIds \cup {None} /\ seen' \in 0 .. MaxEdits /\ seen' <= edits
    BY <2>1, InvFacts DEF TypeOK, RevsFit
  <2>7. "status" \in Steps \ {"none"} /\ "status" \notin Published /\ "status" \notin DownloadSteps
    BY DEF Steps, UploadSteps, Published, DownloadSteps
  <2> QED
    BY <1>3, <2>2, <2>4, <2>5, <2>6, <2>7, FaultFacts, GotoPreserves
<1>4. CASE SendIsLost /\ UNCHANGED <<remote, target>>
  BY <1>3, <1>4 DEF SendIsLost, drive
<1>5. CASE DecodeIsLost
  BY <1>3, <1>5 DEF DecodeIsLost
<1> QED
  BY <1>1, <1>2, <1>4, <1>5 DEF SendIsLost
-----------------------------------------------------------------------------
(* Publication and completion.                                              *)

\* A step of the publication: the found file stays, and the object is there.
LEMMA PublishingGotoPreserves ==
  ASSUME ExecInv, pc \in Publishing \cup {"create", "cleanup", "readback"}, Goto(pc'),
         NEW step \in (Publishing \cup {"create", "cleanup", "readback"}) \ {"link"}, pc' = step,
         UNCHANGED <<index, drive, target>>,
         stage' \in [Ops -> {"none", "short", "wrong", "exact", "linked"}],
         objects' \in SUBSET Digests, objects \subseteq objects', ShaOf(op) \in objects',
         vault' \in [Paths -> Digests \cup {None}], halfway' \in SUBSET Paths,
         step \in {"create", "cleanup", "readback"} => op \in FileIds
  PROVE  ExecInv'
<1>1. /\ UNCHANGED <<run, op, ledger, faults, edits>> /\ found' = found /\ seen' = seen
      /\ remote' = remote /\ want' = want /\ op' = op
  BY DEF Goto, target, drive, index
<1>2. /\ pc # "none" /\ step \in Steps \ {"none"} /\ step \notin UploadSteps
      /\ step \in DownloadSteps => op \in FileIds
  BY DEF Publishing, Steps, UploadSteps, DownloadSteps
<1>3. found' \in FileIds \cup {None} /\ seen' \in 0 .. MaxEdits /\ seen' <= edits /\ faults' \in 0 .. MaxFaults
  BY <1>1, InvFacts DEF TypeOK, RevsFit
<1>4. op \in Uploads => pc \in Publishing
  BY InvFacts, IdsAssumption DEF OpFits, DownloadSteps, Publishing
<1>5. FoundFits'
  BY <1>1, <1>4, InvFacts DEF FoundFits, Searching, Publishing
<1>6. NoneIsMissed'
  BY DEF NoneIsMissed, MayCreate, Publishing
<1>7. StageFits'
  BY <1>1 DEF StageFits, ShaOf, Publishing
<1> QED
  BY <1>1, <1>2, <1>3, <1>5, <1>6, <1>7, GotoPreserves

LEMMA PublishPreserves ==
  ASSUME ExecInv, LinkObject \/ UnlinkStage \/ OpenObject PROVE ExecInv'
<1>1. /\ pc \in {"link", "unlink", "open"} /\ op \in Ops /\ ShaOf(op) \in Digests
  BY OpFacts DEF LinkObject, UnlinkStage, OpenObject
<1>2. /\ stage \in [Ops -> {"none", "short", "wrong", "exact", "linked"}] /\ objects \in SUBSET Digests
      /\ vault \in [Paths -> Digests \cup {None}] /\ halfway \in SUBSET Paths
  BY InvFacts DEF TypeOK
<1>3. CASE LinkObject
  <2>1. /\ stage' \in [Ops -> {"none", "short", "wrong", "exact", "linked"}]
        /\ objects' \in SUBSET Digests /\ objects \subseteq objects' /\ ShaOf(op) \in objects'
    BY <1>1, <1>2, <1>3 DEF LinkObject, private
  <2>2. /\ Goto("unlink") /\ pc' = "unlink" /\ UNCHANGED <<index, drive, target>> /\ vault' = vault
        /\ halfway' = halfway
    BY <1>3 DEF LinkObject, Goto, local
  <2> QED
    BY <1>1, <1>2, <2>1, <2>2, PublishingGotoPreserves DEF Publishing
<1>4. CASE UnlinkStage
  <2>1. /\ stage' \in [Ops -> {"none", "short", "wrong", "exact", "linked"}] /\ objects' = objects
        /\ ShaOf(op) \in objects
    BY <1>1, <1>2, <1>4, InvFacts DEF UnlinkStage, StageFits
  <2>2. /\ Goto("open") /\ pc' = "open" /\ UNCHANGED <<index, drive, target>> /\ vault' = vault
        /\ halfway' = halfway
    BY <1>4 DEF UnlinkStage, Goto, local
  <2> QED
    BY <1>1, <1>2, <2>1, <2>2, PublishingGotoPreserves DEF Publishing
<1>5. CASE OpenObject
  <2>1. /\ pc = "open" /\ UNCHANGED <<index, private, local, drive>> /\ ShaOf(op) \in objects
        /\ vault' = vault /\ halfway' = halfway /\ stage' = stage /\ objects' = objects
    BY <1>5, InvFacts DEF OpenObject, StageFits, private, local
  <2>2. CASE Stop
    BY <2>1, <2>2, PlainStopPreserves
  <2>3. ASSUME NEW step \in {"complete", "create"}, Goto(step), UNCHANGED target,
               step = "create" => op \in FileIds
        PROVE  ExecInv'
    <3>1. Goto(pc') /\ pc' = step
      BY <2>3 DEF Goto
    <3> QED
      BY <1>1, <1>2, <2>1, <2>3, <3>1, PublishingGotoPreserves DEF Publishing
  <2>4. op \notin Uploads => op \in FileIds
    BY <1>1 DEF Ops
  <2> QED
    BY <1>5, <2>2, <2>3, <2>4 DEF OpenObject
<1> QED
  BY <1>3, <1>4, <1>5

LEMMA CreateContentPreserves ==
  ASSUME ExecInv, CreateContent \/ RemoveTemporary \/ ReadBack PROVE ExecInv'
<1>1. /\ pc \in {"create", "cleanup", "readback"} /\ PathOf(op) \in Paths /\ ShaOf(op) \in Digests
      /\ UNCHANGED <<index, private, drive>> /\ op \in FileIds
  BY OpFacts, InvFacts DEF CreateContent, RemoveTemporary, ReadBack, OpFits, DownloadSteps
<1>2. /\ stage' \in [Ops -> {"none", "short", "wrong", "exact", "linked"}] /\ objects' \in SUBSET Digests
      /\ vault \in [Paths -> Digests \cup {None}] /\ halfway \in SUBSET Paths
      /\ objects \subseteq objects' /\ ShaOf(op) \in objects'
  BY <1>1, InvFacts DEF TypeOK, private, BaseIsDurable
<1>3. CASE Stop /\ UNCHANGED local
  BY <1>1, <1>3, PlainStopPreserves
<1>4. ASSUME NEW step \in {"cleanup", "readback", "complete"}, Goto(step), UNCHANGED target,
             vault' \in [Paths -> Digests \cup {None}], halfway' \in SUBSET Paths
      PROVE  ExecInv'
  <2>1. Goto(pc') /\ pc' = step
    BY <1>4 DEF Goto
  <2> QED
    BY <1>1, <1>2, <1>4, <2>1, PublishingGotoPreserves DEF Publishing
<1>5. CASE /\ vault' = [vault EXCEPT ![PathOf(op)] = ShaOf(op)] /\ halfway' = halfway \cup {PathOf(op)}
           /\ Goto("cleanup") /\ UNCHANGED target
  BY <1>1, <1>2, <1>4, <1>5
<1>6. CASE RemoveTemporary
  BY <1>2, <1>4, <1>6 DEF RemoveTemporary
<1>7. CASE Goto("complete") /\ UNCHANGED target /\ UNCHANGED local
  BY <1>2, <1>4, <1>7 DEF local
<1> QED
  BY <1>3, <1>5, <1>6, <1>7 DEF CreateContent, ReadBack

LEMMA CompletePreserves ==
  ASSUME ExecInv, Complete PROVE ExecInv'
<1>1. /\ pc = "complete" /\ op \in Ops /\ phase[op] = "running" /\ ShaOf(op) \in Digests
      /\ ShaOf(op) \in objects /\ Leave
      /\ UNCHANGED <<retried, mirror, want, stage, objects, vault, halfway, remote, touched, faults, edits>>
  BY OpFacts, InvFacts DEF Complete, private, local, drive, BaseIsDurable
<1>2. /\ phase \in [Ops -> Phases] /\ base \in [FileIds -> Digests \cup {None}]
      /\ run \in {"idle", "pages", "resumed", "drain", "prepare", "last", "outside"}
      /\ retried \in SUBSET Ops /\ faults \in 0 .. MaxFaults
      /\ stage \in [Ops -> {"none", "short", "wrong", "exact", "linked"}]
  BY InvFacts DEF TypeOK
<1>3. CASE /\ phase' = [phase EXCEPT ![op] = "needs_reconcile"] /\ run' = "idle" /\ UNCHANGED base
  <2>1. /\ phase' \in [Ops -> Phases]
        /\ \A o \in Ops : phase'[o] = "completed" => phase[o] = "completed"
        /\ \A o \in Ops : phase[o] = "absent" => phase'[o] = "absent"
    BY <1>1, <1>2, <1>3 DEF Phases
  <2> QED
    BY <1>1, <1>2, <1>3, <2>1, LeavePreserves
<1>4. CASE /\ CompletionFitsMirror /\ phase' = [phase EXCEPT ![op] = "completed"] /\ UNCHANGED run
           /\ base' = IF mirror[Counterpart] = "unknown" THEN base
                      ELSE [base EXCEPT ![Counterpart] = ShaOf(op)]
  <2> DEFINE c == Counterpart
  <2>1. c \in FileIds
    BY <1>1, InvFacts DEF Counterpart, FoundFits, Searching, Ops
  <2>2. /\ mirror[c] # "unknown" =>
             want[c].rev = VerifiedRev /\ (remote[c].rev = want[c].rev => remote[c].sha = ShaOf(op))
    <3>1. CASE op \in Uploads
      BY <1>1, <1>4, <3>1, InvFacts
      DEF CompletionFitsMirror, Counterpart, VerifiedRev, ShaOf, FoundFits, Publishing
    <3>2. CASE op \notin Uploads
      <4>1. op \in FileIds /\ c = op /\ ShaOf(op) = want[op].sha
        BY <1>1, <3>2 DEF Ops, Counterpart, ShaOf
      <4> QED
        BY <1>4, <4>1, InvFacts DEF CompletionFitsMirror, MirrorFits
    <3> QED
      BY <3>1, <3>2
  <2>3. /\ base' \in [FileIds -> Digests \cup {None}]
        /\ \A f \in FileIds : \/ base'[f] = base[f]
                              \/ f = c /\ mirror[c] # "unknown" /\ base'[f] = ShaOf(op)
    BY <1>1, <1>2, <1>4, <2>1
  <2> HIDE DEF c
  <2>4. /\ phase' \in [Ops -> Phases]
        /\ \A o \in Ops : phase'[o] = "completed" => phase[o] = "completed" \/ o = op
        /\ \A o \in Ops : phase[o] = "absent" => phase'[o] = "absent"
    BY <1>1, <1>2, <1>4 DEF Phases
  <2>5. op' = None /\ pc' = "none" /\ found' = None /\ seen' = 0
    BY <1>1 DEF Leave
  <2>6. TypeOK'
    BY <1>1, <1>2, <1>4, <2>3, <2>4, <2>5, InvFacts, BoundsAssumption DEF TypeOK, Steps
  <2>7. None \notin Uploads /\ None \notin FileIds /\ FileIds \subseteq Ops
    BY IdsAssumption DEF Ops
  <2>8. OpFits' /\ FoundFits' /\ NoneIsMissed' /\ StageFits'
    BY <2>5, <2>7
    DEF OpFits, FoundFits, NoneIsMissed, MayCreate, StageFits, UploadSteps, DownloadSteps, Searching
  <2>9. MirrorFits'
    BY <1>1, <2>3, <2>4, <2>7, InvFacts DEF MirrorFits
  <2>10. RemoteFits' /\ MarkedOnce'
    BY <1>1, InvFacts DEF RemoteFits, MarkedOnce
  <2>11. RevsFit'
    BY <1>1, <2>5, InvFacts DEF RevsFit, TypeOK
  <2>12. BaseIsDurable'
    <3>1. \A o \in Ops : ShaOf(o)' = ShaOf(o)
      BY <1>1 DEF ShaOf
    <3>2. \A o \in Ops : phase'[o] = "completed" => ShaOf(o) \in objects
      BY <1>1, <2>4, InvFacts DEF BaseIsDurable
    <3>3. \A f \in FileIds : base'[f] # None => base'[f] \in objects
      BY <1>1, <2>3, InvFacts DEF BaseIsDurable
    <3> QED
      BY <1>1, <2>5, <3>1, <3>2, <3>3 DEF BaseIsDurable
  <2>13. BaseMatchesRemote'
    BY <1>1, <2>2, <2>3, InvFacts DEF BaseMatchesRemote, RemoteIsExact
  <2> QED
    BY <2>6, <2>8, <2>9, <2>10, <2>11, <2>12, <2>13, InvFromPartsNext
<1> QED
  BY <1>3, <1>4 DEF Complete
-----------------------------------------------------------------------------
(* Other clients and the user.                                              *)

\* Another client gives a file a new revision, or creates one.
LEMMA ForeignEditPreserves == ASSUME ExecInv, ForeignEdit PROVE ExecInv'
<1>1. /\ mirror' = mirror /\ want' = want /\ base' = base /\ phase' = phase /\ retried' = retried
      /\ objects' = objects /\ stage' = stage /\ vault' = vault /\ halfway' = halfway /\ op' = op
      /\ pc' = pc /\ found' = found /\ seen' = seen /\ run' = run /\ faults' = faults
      /\ edits < MaxEdits /\ edits' = edits + 1
  BY DEF ForeignEdit, Edit, ledger, index, private, local, control, target
<1>2. /\ edits \in Nat /\ edits' \in 0 .. MaxEdits /\ edits' \in Nat /\ seen \in Nat /\ seen <= edits
      /\ seen' <= edits'
  BY <1>1, InvFacts, BoundsAssumption DEF TypeOK, RevsFit
<1>3. PICK f \in FileIds :
        \/ \E p \in Paths, d \in Digests : ForeignCreate(f, p, d)
        \/ \E d \in Digests : ForeignWrite(f, d)
        \/ \E p \in Paths : ForeignRename(f, p)
        \/ ForeignMove(f)
  BY DEF ForeignEdit
<1>4. /\ remote \in [FileIds -> Entry] /\ remote[f] \in Entry
      /\ remote[f].where # "absent" => remote[f].name \in Paths /\ remote[f].sha \in Digests
      /\ remote[f].marker # None /\ f \notin touched => remote[f].where = "folder"
      /\ touched \subseteq FileIds
  BY InvFacts DEF TypeOK, RemoteFits
<1>5. \E e \in Entry :
        /\ remote' = [remote EXCEPT ![f] = e] /\ e.rev = edits + 1 /\ e.where # "absent"
        /\ e.name \in Paths /\ e.sha \in Digests
        /\ e.marker = IF remote[f].where = "absent" THEN None ELSE remote[f].marker
        /\ touched' \in {touched, touched \cup {f}}
        /\ e.marker # None /\ f \notin touched' => e.where = "folder"
  <2>1. ASSUME NEW p \in Paths, NEW d \in Digests, ForeignCreate(f, p, d)
        PROVE  <1>5!:
    <3> DEFINE e == [where |-> "folder", name |-> p, sha |-> d, marker |-> None, rev |-> edits + 1]
    <3>1. e \in Entry
      BY <1>1, <1>2 DEF Entry
    <3> QED
      BY <2>1, <3>1 DEF ForeignCreate
  <2>2. ASSUME NEW d \in Digests, ForeignWrite(f, d)
        PROVE  <1>5!:
    <3> DEFINE e == [Changed(f) EXCEPT !.sha = d]
    <3>1. /\ e \in Entry /\ e.rev = edits + 1 /\ e.where = remote[f].where /\ e.name = remote[f].name
          /\ e.sha = d /\ e.marker = remote[f].marker
      BY <1>1, <1>2, <1>4 DEF Entry, Changed
    <3> QED
      BY <1>4, <2>2, <3>1 DEF ForeignWrite
  <2>3. ASSUME NEW p \in Paths, ForeignRename(f, p)
        PROVE  <1>5!:
    <3> DEFINE e == [Changed(f) EXCEPT !.name = p]
    <3>1. /\ e \in Entry /\ e.rev = edits + 1 /\ e.where = remote[f].where /\ e.sha = remote[f].sha
          /\ e.name = p /\ e.marker = remote[f].marker
      BY <1>1, <1>2, <1>4 DEF Entry, Changed
    <3> QED
      BY <1>4, <2>3, <3>1 DEF ForeignRename
  <2>4. CASE ForeignMove(f)
    <3> DEFINE e == [Changed(f) EXCEPT !.where = IF @ = "folder" THEN "away" ELSE "folder"]
    <3>1. /\ e \in Entry /\ e.rev = edits + 1 /\ e.where \in {"away", "folder"}
          /\ e.sha = remote[f].sha /\ e.name = remote[f].name /\ e.marker = remote[f].marker
      BY <1>1, <1>2, <1>4 DEF Entry, Changed
    <3> QED
      BY <1>4, <2>4, <3>1 DEF ForeignMove
  <2> QED
    BY <1>3, <2>1, <2>2, <2>3, <2>4
<1>6. PICK e \in Entry :
        /\ remote' = [remote EXCEPT ![f] = e] /\ e.rev = edits + 1 /\ e.where # "absent"
        /\ e.name \in Paths /\ e.sha \in Digests
        /\ e.marker = IF remote[f].where = "absent" THEN None ELSE remote[f].marker
        /\ touched' \in {touched, touched \cup {f}}
        /\ e.marker # None /\ f \notin touched' => e.where = "folder"
  BY <1>5
<1>7. remote'[f] = e /\ \A g \in FileIds \ {f} : remote'[g] = remote[g]
  BY <1>4, <1>6
<1>8. TypeOK'
  <2>1. remote' \in [FileIds -> Entry] /\ touched' \in SUBSET FileIds
    BY <1>4, <1>6
  <2> QED
    BY <1>1, <1>2, <2>1, InvFacts DEF TypeOK
<1>9. OpFits' /\ StageFits'
  BY <1>1, InvFacts DEF OpFits, StageFits, ShaOf
<1>10. FoundFits'
  <2>1. ASSUME op \in Uploads, pc \in Publishing, remote'[found].rev = seen
        PROVE  remote'[found].sha = UploadSha[op]
    <3>1. found \in FileIds
      BY <2>1, InvFacts DEF FoundFits, Publishing, Searching
    <3>2. found # f
      BY <1>2, <1>6, <1>7, <2>1
    <3> QED
      BY <1>7, <2>1, <3>1, <3>2, InvFacts DEF FoundFits
  <2> QED
    BY <1>1, <2>1, InvFacts DEF FoundFits
<1>11. NoneIsMissed'
  <2>1. MayCreate => op # None
    BY InvFacts DEF MayCreate, OpFits
  <2> QED
    BY <1>1, <1>6, <1>7, <2>1, InvFacts DEF NoneIsMissed, MayCreate
<1>12. /\ UNCHANGED <<mirror, want, base, phase, objects, op, stage>>
       /\ edits <= edits' /\ e.rev <= edits'
       /\ mirror[f] = "unknown" \/ e.rev > edits
       /\ remote[f].where # "absent" => e.marker = remote[f].marker
       /\ touched \subseteq touched'
       /\ remote[f].where = "absent" /\ e.marker # None =>
            \A g \in FileIds \ {f} : remote[g].marker = e.marker => g \in touched
       /\ pc' \in Published => pc = pc'
  BY <1>1, <1>2, <1>6
<1> QED
  BY <1>2, <1>6, <1>8, <1>9, <1>10, <1>11, <1>12, RemoteFrame

\* The user's edits are of the vault, of which ExecInv knows nothing but its type.
LEMMA UserEditPreserves == ASSUME ExecInv, UserEdit PROVE ExecInv'
<1>1. /\ mirror' = mirror /\ want' = want /\ base' = base /\ phase' = phase /\ retried' = retried
      /\ objects' = objects /\ stage' = stage /\ remote' = remote /\ touched' = touched /\ op' = op
      /\ pc' = pc /\ found' = found /\ seen' = seen /\ run' = run /\ faults' = faults
      /\ edits < MaxEdits /\ edits' = edits + 1
  BY DEF UserEdit, Edit, ledger, index, private, drive, control, target
<1>2. edits \in Nat /\ edits' \in 0 .. MaxEdits /\ edits <= edits' /\ edits' \in Nat
  BY <1>1, InvFacts, BoundsAssumption DEF TypeOK
<1>3. vault' \in [Paths -> Digests \cup {None}] /\ halfway' \in SUBSET Paths
  BY InvFacts DEF UserEdit, TypeOK
<1>4. TypeOK'
  BY <1>1, <1>2, <1>3, InvFacts DEF TypeOK
<1>5. RevsFit'
  <2>1. \A f \in FileIds : remote[f].rev \in Nat /\ want[f].rev \in Nat
    BY InvFacts DEF TypeOK, Entry, Intent
  <2>2. seen \in Nat
    BY InvFacts DEF TypeOK
  <2> QED
    BY <1>1, <1>2, <2>1, <2>2, InvFacts DEF RevsFit
<1>6. MirrorFits' /\ RemoteFits' /\ OpFits' /\ BaseMatchesRemote' /\ MarkedOnce'
  BY <1>1, InvFacts DEF MirrorFits, RemoteFits, OpFits, BaseMatchesRemote, RemoteIsExact, MarkedOnce
<1>7. FoundFits' /\ NoneIsMissed' /\ StageFits' /\ BaseIsDurable'
  BY <1>1, InvFacts DEF FoundFits, NoneIsMissed, MayCreate, StageFits, BaseIsDurable, ShaOf
<1> QED
  BY <1>4, <1>5, <1>6, <1>7, InvFromPartsNext

\* A step that changes nothing.
LEMMA StutterPreserves == ASSUME ExecInv, UNCHANGED vars PROVE ExecInv'
<1>1. /\ mirror' = mirror /\ want' = want /\ base' = base /\ phase' = phase /\ retried' = retried
      /\ objects' = objects /\ stage' = stage /\ remote' = remote /\ touched' = touched /\ op' = op
      /\ pc' = pc /\ found' = found /\ seen' = seen /\ run' = run /\ faults' = faults
      /\ vault' = vault /\ halfway' = halfway /\ edits' = edits
  BY DEF vars, ledger, index, private, local, drive, control, target
<1>2. TypeOK' /\ MirrorFits' /\ RemoteFits' /\ RevsFit' /\ OpFits' /\ BaseMatchesRemote' /\ MarkedOnce'
  BY <1>1, InvFacts
  DEF TypeOK, MirrorFits, RemoteFits, RevsFit, OpFits, BaseMatchesRemote, RemoteIsExact, MarkedOnce
<1>3. FoundFits' /\ NoneIsMissed' /\ StageFits' /\ BaseIsDurable'
  BY <1>1, InvFacts DEF FoundFits, NoneIsMissed, MayCreate, StageFits, BaseIsDurable, ShaOf
<1> QED
  BY <1>2, <1>3, InvFromPartsNext
-----------------------------------------------------------------------------
(* Every step, and the theorems.                                            *)

LEMMA UploadPreserves == ASSUME ExecInv, ExecuteUpload PROVE ExecInv'
<1>1. CASE LoadStage \/ CopySource \/ ReadSource
  BY <1>1, LoadStagePreserves, CopyPreserves, ReadStepsPreserve DEF ExecuteUpload
<1>2. CASE ReconcileMarker \/ ReconcileName \/ RecheckExisting
  BY <1>2, ReconcilePreserves, RecheckPreserves
<1>3. CASE Initiate \/ SendChunk \/ Decode \/ QueryStatus \/ VerifyCreated
  BY <1>3, CreateReadsPreserve, SendPreserves
<1>4. CASE LinkObject \/ UnlinkStage \/ OpenObject \/ Complete
  BY <1>4, PublishPreserves, CompletePreserves
<1> QED
  BY <1>1, <1>2, <1>3, <1>4 DEF ExecuteUpload

LEMMA DownloadPreserves == ASSUME ExecInv, ExecuteDownload PROVE ExecInv'
<1>1. CASE LoadStage \/ ReceiveBlob \/ VerifyDownload \/ PassGate
  BY <1>1, LoadStagePreserves, CopyPreserves, ReadStepsPreserve
<1>2. CASE LinkObject \/ UnlinkStage \/ OpenObject
  BY <1>2, PublishPreserves
<1>3. CASE CreateContent \/ RemoveTemporary \/ ReadBack \/ Complete
  BY <1>3, CreateContentPreserves, CompletePreserves
<1> QED
  BY <1>1, <1>2, <1>3 DEF ExecuteDownload

LEMMA NextPreserves == ExecInv /\ [Next]_vars => ExecInv'
<1> SUFFICES ASSUME ExecInv, [Next]_vars PROVE ExecInv'
  OBVIOUS
<1>1. CASE Progress
  BY <1>1, RunStepsPreserve, FetchPagePreserves, ClaimPreserves, UploadPreserves, DownloadPreserves
  DEF Progress
<1>2. CASE Failures
  BY <1>2, RunStepsPreserve, FailuresPreserve, ReceiveFailsPreserves, SendPreserves DEF Failures
<1>3. CASE TimePasses
  BY <1>3, RunStepsPreserve
<1>4. CASE ForeignEdit \/ UserEdit
  BY <1>4, ForeignEditPreserves, UserEditPreserves
<1>5. CASE UNCHANGED vars
  BY <1>5, StutterPreserves
<1> QED
  BY <1>1, <1>2, <1>3, <1>4, <1>5 DEF Next, Outside

\* ExecInv holds in every reachable state, whatever fails, whatever is edited meanwhile.
THEOREM ExecInvHolds == Spec => []ExecInv
BY InitHasInv, NextPreserves, PTL DEF Spec

\* reconcile_create and query_upload_status: two files carry the marker of one upload only if
\* another client moved one of them out of the folder.
THEOREM MarkedOnceHolds == Spec => []MarkedOnce
<1>1. ExecInv => MarkedOnce
  BY DEF ExecInv
<1> QED
  BY <1>1, ExecInvHolds, PTL

\* publish_base before complete_verified_transfer and create_content_from_reader: whatever
\* refers to a base finds its object.
THEOREM BaseIsDurableHolds == Spec => []BaseIsDurable
<1>1. ExecInv => BaseIsDurable
  BY DEF ExecInv
<1> QED
  BY <1>1, ExecInvHolds, PTL

\* update_remote_base_if_present: a recorded base is the content of the remote file, at the
\* revision the mirror recorded.
THEOREM BaseMatchesRemoteHolds == Spec => []BaseMatchesRemote
<1>1. ExecInv => BaseMatchesRemote
  BY DEF ExecInv
<1> QED
  BY <1>1, ExecInvHolds, PTL

\* discard_incomplete_stage and publish_base: staged bytes that are the expected ones leave
\* the stage only for the object.
THEOREM EvidenceIsKeptHolds == Spec => EvidenceIsKept
<1> DEFINE Kept == \A o \in Ops : stage[o] \in {"exact", "linked"} /\ stage'[o] \notin {"exact", "linked"}
                                  => ShaOf(o) \in objects'
<1>1. ExecInv /\ [Next]_vars => Kept
  <2> SUFFICES ASSUME ExecInv, [Next]_vars PROVE Kept
    OBVIOUS
  <2>1. stage \in [Ops -> {"none", "short", "wrong", "exact", "linked"}]
    BY InvFacts DEF TypeOK
  <2>2. ASSUME stage' = stage PROVE Kept
    BY <2>2
  <2>3. ASSUME stage[op] \notin {"exact", "linked"}, NEW s, stage' = [stage EXCEPT ![op] = s] PROVE Kept
    BY <2>1, <2>3
  <2>4. CASE LoadStage
    BY <2>2, <2>3, <2>4 DEF LoadStage, BeginStage, StageIsExact
  <2>5. CASE CopySource \/ ReceiveBlob \/ ReceiveFails
    <3>1. stage[op] = "short"
      BY <2>5, InvFacts DEF CopySource, ReceiveBlob, ReceiveFails, StageFits
    <3> QED
      BY <2>3, <2>5, <3>1 DEF CopySource, ReceiveBlob, ReceiveFails, FinishStage, DiscardEmptyStage
  <2>6. CASE LinkObject
    <3>1. ASSUME stage' = [stage EXCEPT ![op] = "linked"] PROVE Kept
      BY <2>1, <3>1
    <3> QED
      BY <2>2, <2>6, <3>1 DEF LinkObject, private
  <2>7. CASE UnlinkStage
    <3>1. ShaOf(op) \in objects /\ objects' = objects /\ stage' = [stage EXCEPT ![op] = "none"]
      BY <2>7, InvFacts DEF UnlinkStage, StageFits
    <3> QED
      BY <2>1, <3>1
  <2>8. CASE \/ ReadSource \/ ReconcileMarker \/ ReconcileName \/ RecheckExisting \/ Initiate \/ SendChunk
             \/ Decode \/ QueryStatus \/ VerifyCreated \/ OpenObject \/ Complete
    BY <2>2, <2>8
    DEF ReadSource, ReconcileMarker, ReconcileName, RecheckExisting, Initiate, SendChunk, Decode,
        QueryStatus, VerifyCreated, OpenObject, Complete, private
  <2>9. CASE VerifyDownload \/ PassGate \/ CreateContent \/ RemoveTemporary \/ ReadBack
    BY <2>2, <2>9 DEF VerifyDownload, PassGate, CreateContent, RemoveTemporary, ReadBack, private
  <2>10. CASE StartRun \/ FetchPage \/ EndDrain \/ Prepare \/ TimePasses \/ \E o \in Ops : Claim(o)
    BY <2>2, <2>10 DEF StartRun, FetchPage, EndDrain, Prepare, TimePasses, Claim, private
  <2>11. CASE PrepareFails \/ Postpone \/ StopOnFailure \/ Crash \/ SendIsLost \/ DecodeIsLost
    BY <2>2, <2>11
    DEF PrepareFails, Postpone, StopOnFailure, Crash, SendIsLost, DecodeIsLost, private
  <2>12. CASE ForeignEdit \/ UserEdit \/ UNCHANGED vars
    BY <2>2, <2>12 DEF ForeignEdit, UserEdit, vars, private
  <2> QED
    BY <2>4, <2>5, <2>6, <2>7, <2>8, <2>9, <2>10, <2>11, <2>12
    DEF Next, Progress, Failures, ExecuteUpload, ExecuteDownload, Outside
<1> QED
  BY <1>1, ExecInvHolds, PTL DEF EvidenceIsKept, Spec
=============================================================================
