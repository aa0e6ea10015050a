-------------------------- MODULE VaultMutationProofs --------------------------
(***************************************************************************)
(* Proofs about VaultMutation, for any threads, operations, names and      *)
(* contents and any number of faults and edits: the journal's promise is   *)
(* kept (a refinement of DurableIntent), no file is moved a second time    *)
(* and no content is destroyed.  MutationInv is inductive.                 *)
(***************************************************************************)
EXTENDS VaultMutation, FiniteSetTheorems, TLAPS

HopsOf(kind) == CASE kind = "move" -> {"move"}
                  [] kind = "case" -> {"park", "unpark"}
                  [] kind = "trash" -> {"stage", "publish"}
                  [] OTHER -> {"restore"}
Described == {o \in Ops : plan[o] # None /\ plan[o].kind \in {"trash", "restore"}}

\* A call is about a planned operation, and at a rename that belongs to its kind.
CallsFit ==
  \A t \in Threads :
    /\ call[t].pc # "idle" => Op(t) \in Ops /\ plan[Op(t)] # None
    /\ call[t].pc \notin {"idle", "publish", "sync_intent"} =>
         call[t].hop \in HopsOf(plan[Op(t)].kind)
    /\ call[t].pc \in {"manifest", "write_manifest", "sync_manifest"} => call[t].hop = "stage"
    /\ call[t].pc = "check" => call[t].hop # "unpark"

\* A thread inside a primitive holds the vault's lock.
LockIsHeld ==
  \A t \in Threads :
    call[t].pc \in {"write_manifest", "sync_manifest", "rename", "confirm"} => lock = t

\* What a thread found when it took the lock is still so when it renames.
CheckedHolds ==
  \A t \in Threads :
    /\ call[t].pc = "rename" /\ call[t].hop \in {"stage", "publish"} =>
         vault.area[Op(t)] = "staging"
    /\ call[t].pc = "rename" /\ call[t].hop = "publish" => vault.manifest[Op(t)] # None
    /\ call[t].pc = "rename" /\ call[t].hop = "restore" =>
         vault.area[plan[Op(t)].id] = "items"
    /\ call[t].pc = "rename" /\ call[t].hop \in {"move", "park"} => call[t].fresh
    /\ call[t].pc = "confirm" /\ call[t].hop = "park" => call[t].fresh
    /\ call[t].pc = "rename" /\ call[t].hop = "unpark" => Op(t) \in flushed.intents

\* Before the first rename of a move or a case rename.
Before(t) ==
  /\ plan[Op(t)].kind \in {"move", "case"}
  /\ \/ call[t].pc \in {"sync_intent", "check"}
     \/ call[t].pc = "rename" /\ call[t].hop \in {"move", "park"}

\* The call that recorded an intent is the only one to begin, and goes on only
\* once the intent is durable.
FreshIsFirst ==
  \A t \in Threads :
    call[t].fresh =>
      /\ call[t].pc \notin {"idle", "publish"}
      /\ Op(t) \in journal.intents
      /\ call[t].pc # "sync_intent" => Op(t) \in flushed.intents
      /\ \A u \in Threads : call[u].fresh /\ Op(u) = Op(t) => u = t
      /\ Before(t) => Op(t) \notin vault.moved /\ vault.at[Temp(Op(t))] = None

\* What is durable was there first, and a tombstone follows a durable place.
DurableFollows ==
  /\ flushed.intents \subseteq journal.intents /\ flushed.done \subseteq journal.done
  /\ disk.moved \subseteq vault.moved /\ disk.placed \subseteq vault.placed
  /\ journal.done \subseteq disk.placed
  /\ \A t \in Threads :
       /\ call[t].pc = "confirm" /\ call[t].hop \in LastHops => Op(t) \in vault.placed
       /\ call[t].pc = "complete" => Op(t) \in disk.placed
       /\ call[t].pc = "sync_tombstone" => Op(t) \in journal.done

\* A file that was moved is explained, and its way is closed: nothing is left at
\* the place the last rename took it from, and nothing can be put there again.
Closed(v) ==
  \A o \in v.moved :
    /\ plan[o] # None
    /\ plan[o].kind = "case" => v.at[Temp(o)] = None
    /\ plan[o].kind = "trash" => v.area[o] = "items"
    /\ plan[o].kind = "restore" =>
         v.area[plan[o].id] = "items" /\ v.at[Payload(plan[o].id)] = None
Explained(v) ==
  /\ \A o \in Ops : v.area[o] = "items" => v.manifest[o] # None
  /\ \A o \in Ops : v.at[Temp(o)] # None => o \in flushed.intents
  /\ v.moved \subseteq flushed.intents \cup Described
  /\ v.moved \subseteq v.placed

MutationInv ==
  /\ TypeOK /\ CallsFit /\ LockIsHeld /\ CheckedHolds /\ FreshIsFirst /\ DurableFollows
  /\ Closed(vault) /\ Closed(disk) /\ Explained(vault) /\ Explained(disk)
-----------------------------------------------------------------------------
(* The places and the plans. *)

\* Notes, temporary names and payloads are different places.
LEMMA SlotFacts ==
  /\ Names \subseteq Slots
  /\ \A o \in Ops : /\ Temp(o) \in Slots /\ Payload(o) \in Slots
                    /\ Temp(o) \notin Names /\ Payload(o) \notin Names
  /\ \A o, p \in Ops : /\ Temp(o) # Payload(p)
                       /\ Temp(o) = Temp(p) => o = p
                       /\ Payload(o) = Payload(p) => o = p
<1>1. \A o \in Ops : Temp(o) \in Temps /\ Payload(o) \in Payloads
  BY DEF Temps, Payloads
<1>2. \A o, p \in Ops : /\ Temp(o) # Payload(p)
                        /\ Temp(o) = Temp(p) => o = p
                        /\ Payload(o) = Payload(p) => o = p
  BY DEF Temp, Payload
<1> QED
  BY <1>1, <1>2, SlotsAssumption DEF Slots

\* A planned operation has the fields of an Operation, none of them None.
LEMMA PlanFacts ==
  ASSUME TypeOK, NEW o \in Ops, plan[o] # None
  PROVE  /\ plan[o] \in Operation
         /\ plan[o].kind \in Kinds /\ plan[o].known \in BOOLEAN
         /\ plan[o].from \in Names /\ plan[o].to \in Names
         /\ plan[o].rev \in Revs /\ plan[o].rev # None /\ plan[o].id \in Ops
         /\ Related(plan[o])
         /\ Expected(o) \in Manifest /\ Expected(o) # None
<1>1. plan[o] \in Operation
  BY DEF TypeOK
<1>2. plan[o] \in [kind : Kinds, known : BOOLEAN, from : Names, to : Names, rev : Revs, id : Ops]
  BY <1>1 DEF Operation
<1>3. Expected(o) \in Manifest
  BY <1>2 DEF Expected, Manifest
<1> QED
  BY <1>1, <1>2, <1>3, NamesAssumption DEF Operation

\* A step that keeps the calls about the operations and plans nothing new.
LEMMA RestartKeepsPlans ==
  ASSUME TypeOK, NEW I, Restarts(I)
  PROVE  /\ plan' \in [Ops -> Operation \cup {None}]
         /\ \A o \in Ops : /\ plan'[o] = None <=> plan[o] = None
                           /\ plan[o] # None =>
                                /\ plan'[o].kind = plan[o].kind /\ plan'[o].id = plan[o].id
                                /\ plan'[o].from = plan[o].from /\ plan'[o].to = plan[o].to
                                /\ plan'[o].rev = plan[o].rev
         /\ Described' = Described
<1>1. ASSUME NEW o \in Ops, plan[o] # None
      PROVE  /\ [plan[o] EXCEPT !.known = FALSE] \in Operation
             /\ [plan[o] EXCEPT !.known = FALSE] # None
             /\ [plan[o] EXCEPT !.known = FALSE].kind = plan[o].kind
             /\ [plan[o] EXCEPT !.known = FALSE].id = plan[o].id
             /\ [plan[o] EXCEPT !.known = FALSE].from = plan[o].from
             /\ [plan[o] EXCEPT !.known = FALSE].to = plan[o].to
             /\ [plan[o] EXCEPT !.known = FALSE].rev = plan[o].rev
  <2>1. plan[o] \in [kind : Kinds, known : BOOLEAN, from : Names, to : Names, rev : Revs, id : Ops]
        /\ Related(plan[o])
    BY <1>1, PlanFacts DEF Operation
  <2>2. [plan[o] EXCEPT !.known = FALSE] \in Operation
    BY <2>1 DEF Operation, Related
  <2> QED
    BY <2>1, <2>2, NamesAssumption
<1>2. \A o \in Ops : plan'[o] = IF plan[o] = None \/ o \in I THEN plan[o]
                                ELSE [plan[o] EXCEPT !.known = FALSE]
  BY DEF Restarts
<1>3. plan' \in [Ops -> Operation \cup {None}]
  BY <1>1, <1>2 DEF Restarts, TypeOK
<1>4. \A o \in Ops : /\ plan'[o] = None <=> plan[o] = None
                     /\ plan[o] # None =>
                          /\ plan'[o].kind = plan[o].kind /\ plan'[o].id = plan[o].id
                          /\ plan'[o].from = plan[o].from /\ plan'[o].to = plan[o].to
                          /\ plan'[o].rev = plan[o].rev
  BY <1>1, <1>2
<1> QED
  BY <1>3, <1>4 DEF Described
-----------------------------------------------------------------------------
LEMMA InitHasInv == Init => MutationInv
<1> SUFFICES ASSUME Init PROVE MutationInv
  OBVIOUS
<1> USE DEF Init
<1>1. vault \in Vault
  BY InitialAssumption, SlotFacts DEF Vault
<1>2. TypeOK
  BY <1>1, BoundsAssumption DEF TypeOK, Journal, Idle, Steps, Hops
<1>3. \A o \in Ops : vault.at[Temp(o)] = None /\ vault.area[o] = "none"
  BY SlotFacts
<1>4. \A t \in Threads : call[t] = Idle
  OBVIOUS
<1> QED
  BY <1>2, <1>3, <1>4 DEF MutationInv, CallsFit, LockIsHeld, CheckedHolds, FreshIsFirst,
    DurableFollows, Closed, Explained, Idle

\* A new plan disturbs no call and no file.
LEMMA PlannedPreserves ==
  ASSUME MutationInv, NEW o \in Ops, NEW p \in Operation, Planned(o, p)
  PROVE  MutationInv'
<1> USE DEF MutationInv, Planned
<1>1. /\ \A q \in Ops \ {o} : plan'[q] = plan[q]
      /\ plan'[o] = p /\ plan[o] = None
      /\ plan' \in [Ops -> Operation \cup {None}]
  BY DEF TypeOK
<1>2. TypeOK'
  BY <1>1 DEF TypeOK
<1>3. \A t \in Threads : call[t].pc # "idle" => Op(t) \in Ops /\ plan'[Op(t)] = plan[Op(t)]
  BY <1>1 DEF CallsFit
<1>4. CallsFit' /\ LockIsHeld' /\ CheckedHolds' /\ DurableFollows'
  BY <1>3 DEF CallsFit, LockIsHeld, CheckedHolds, DurableFollows, Op
<1>5. FreshIsFirst'
  BY <1>3 DEF FreshIsFirst, Before, Op
<1>6. Described \subseteq Described'
  BY <1>1 DEF Described
<1>7. ASSUME NEW v, v' = v, v \in Vault, Closed(v), Explained(v) PROVE Closed(v)' /\ Explained(v)'
  BY <1>1, <1>6, <1>7 DEF Closed, Explained, Vault
<1> QED
  BY <1>2, <1>4, <1>5, <1>7 DEF TypeOK
-----------------------------------------------------------------------------
(* Steps of one thread that leave the vault as it is. *)

CallOf == [pc : Steps, op : Ops \cup {None}, hop : Hops, fresh : BOOLEAN]

\* What the invariant says of one thread.
ThreadInv(t) ==
  /\ call[t].pc # "idle" => Op(t) \in Ops /\ plan[Op(t)] # None
  /\ call[t].pc \notin {"idle", "publish", "sync_intent"} =>
       call[t].hop \in HopsOf(plan[Op(t)].kind)
  /\ call[t].pc \in {"manifest", "write_manifest", "sync_manifest"} => call[t].hop = "stage"
  /\ call[t].pc = "check" => call[t].hop # "unpark"
  /\ call[t].pc \in {"write_manifest", "sync_manifest", "rename", "confirm"} => lock = t
  /\ call[t].pc = "rename" /\ call[t].hop \in {"stage", "publish"} =>
       vault.area[Op(t)] = "staging"
  /\ call[t].pc = "rename" /\ call[t].hop = "publish" => vault.manifest[Op(t)] # None
  /\ call[t].pc = "rename" /\ call[t].hop = "restore" => vault.area[plan[Op(t)].id] = "items"
  /\ call[t].pc = "rename" /\ call[t].hop \in {"move", "park"} => call[t].fresh
  /\ call[t].pc = "confirm" /\ call[t].hop = "park" => call[t].fresh
  /\ call[t].pc = "rename" /\ call[t].hop = "unpark" => Op(t) \in flushed.intents
  /\ call[t].fresh =>
       /\ call[t].pc \notin {"idle", "publish"}
       /\ Op(t) \in journal.intents
       /\ call[t].pc # "sync_intent" => Op(t) \in flushed.intents
       /\ \A u \in Threads : call[u].fresh /\ Op(u) = Op(t) => u = t
       /\ Before(t) => Op(t) \notin vault.moved /\ vault.at[Temp(Op(t))] = None
  /\ call[t].pc = "confirm" /\ call[t].hop \in LastHops => Op(t) \in vault.placed
  /\ call[t].pc = "complete" => Op(t) \in disk.placed
  /\ call[t].pc = "sync_tombstone" => Op(t) \in journal.done

\* What it says of the vault, the disk and the journal.
StateInv ==
  /\ flushed.intents \subseteq journal.intents /\ flushed.done \subseteq journal.done
  /\ disk.moved \subseteq vault.moved /\ disk.placed \subseteq vault.placed
  /\ journal.done \subseteq disk.placed
  /\ Closed(vault) /\ Closed(disk) /\ Explained(vault) /\ Explained(disk)

LEMMA InvParts == MutationInv <=> TypeOK /\ StateInv /\ \A t \in Threads : ThreadInv(t)
BY DEF MutationInv, StateInv, ThreadInv, CallsFit, LockIsHeld, CheckedHolds, FreshIsFirst,
  DurableFollows

LEMMA InvPartsNext == MutationInv' <=> TypeOK' /\ StateInv' /\ (\A t \in Threads : ThreadInv(t))'
BY InvParts, PTL

\* A thread's step that adds to the journal, syncs, or takes or gives back the
\* lock keeps what the invariant says of the other threads and of the vault.
LEMMA ThreadStepPreserves ==
  ASSUME MutationInv, NEW t \in Threads, NEW c \in CallOf,
         call' = [call EXCEPT ![t] = c],
         UNCHANGED <<plan, vault, edits>>,
         disk' \in {disk, vault},
         journal' \in Journal, flushed' \in Journal,
         journal.intents \subseteq journal'.intents,
         flushed.intents \subseteq flushed'.intents, flushed'.intents \subseteq journal'.intents,
         flushed'.done \subseteq journal'.done,
         journal.done \subseteq journal'.done, journal'.done \subseteq disk.placed,
         lock' \in {lock, None, t}, lock' = lock \/ lock = None \/ lock = t,
         told' \subseteq Ops, faults' \in 0 .. MaxFaults,
         c.fresh => \/ call[t].fresh /\ c.op = Op(t)
                    \/ c.op \notin journal.intents,
         ThreadInv(t)'
  PROVE  MutationInv'
<1> USE InvParts DEF Op
<1>1. TypeOK'
  BY DEF TypeOK, CallOf, StateInv
<1>2. StateInv'
  <2>1. Described' = Described
    BY DEF Described
  <2>2. disk'.moved \subseteq vault'.moved /\ disk'.placed \subseteq vault'.placed
        /\ disk.placed \subseteq disk'.placed
    BY DEF StateInv
  <2>3. Closed(vault)' /\ Closed(disk)' 
    BY DEF StateInv, Closed
  <2>4. Explained(vault)' /\ Explained(disk)'
    BY <2>1 DEF StateInv, Explained
  <2> QED
    BY <2>2, <2>3, <2>4 DEF StateInv
<1>3. ASSUME NEW u \in Threads, u # t PROVE ThreadInv(u)'
  <2>1. call'[u] = call[u] /\ call'[t] = c
    BY <1>3 DEF TypeOK
  <2>2. ThreadInv(u) /\ lock \in Threads \cup {None} /\ None \notin Threads
    BY NamesAssumption DEF TypeOK
  <2>3. disk.placed \subseteq disk'.placed
    BY DEF StateInv
  <2>4. call[u].fresh => \A w \in Threads : call'[w].fresh /\ call'[w].op = call[u].op => w = u
    BY <2>1, <2>2 DEF ThreadInv, TypeOK
  <2> QED
    BY <2>1, <2>2, <2>3, <2>4 DEF ThreadInv, Before
<1>4. (\A u \in Threads : ThreadInv(u))'
  BY <1>3
<1> QED
  BY <1>1, <1>2, <1>4, InvPartsNext

\* A call that gives up.
LEMMA RefusePreserves ==
  ASSUME MutationInv, NEW t \in Threads, Refuse(t),
         UNCHANGED <<plan, vault, edits>>, disk' \in {disk, vault},
         journal' = journal, flushed' \in Journal,
         flushed.intents \subseteq flushed'.intents, flushed'.intents \subseteq journal.intents,
         flushed'.done \subseteq journal.done,
         lock' = lock \/ (lock' = None /\ lock = t),
         told' \subseteq Ops, faults' \in 0 .. MaxFaults
  PROVE  MutationInv'
<1>1. Idle \in CallOf
  BY DEF Idle, CallOf, Steps, Hops
<1>2. call' = [call EXCEPT ![t] = Idle]
  BY DEF Refuse
<1>3. ThreadInv(t)'
  BY <1>2 DEF ThreadInv, Idle, MutationInv, TypeOK
<1>4. journal.done \subseteq disk.placed /\ journal \in Journal
  BY DEF MutationInv, DurableFollows, TypeOK
<1>5. ~Idle.fresh
  BY DEF Idle
<1> QED
  BY <1>1, <1>2, <1>3, <1>4, <1>5, ThreadStepPreserves

\* Where a call on an operation begins: the first hop of its kind.
LEMMA ContinueFits ==
  ASSUME TypeOK, NEW o \in Ops, plan[o] # None
  PROVE  /\ Continue(o)[1] \in {"manifest", "check"} /\ Continue(o)[2] \in HopsOf(plan[o].kind)
         /\ Continue(o)[1] = "manifest" => Continue(o)[2] = "stage"
         /\ Continue(o)[2] # "unpark" /\ Continue(o)[2] \in Hops
BY PlanFacts DEF Continue, ContinueTrash, ContinueRestore, ContinueNormalMove,
  ContinueCaseRename, HopsOf, Kinds, Hops

LEMMA CallPreserves ==
  ASSUME MutationInv, NEW t \in Threads, NEW o \in Ops, Call(t, o)
  PROVE  MutationInv'
<1> DEFINE c == IF o \in journal.intents
                THEN [pc |-> Continue(o)[1], op |-> o, hop |-> Continue(o)[2], fresh |-> FALSE]
                ELSE [Idle EXCEPT !.pc = "publish", !.op = o]
<1>0. TypeOK /\ plan[o] # None
  BY DEF MutationInv, Call
<1>1. call' = [call EXCEPT ![t] = c]
  BY DEF Call, Enter
<1>2. c \in CallOf /\ ~c.fresh
  BY <1>0, ContinueFits DEF Idle, CallOf, Steps, Hops
<1>3. call'[t] = c
  BY <1>0, <1>1 DEF TypeOK
<1>4. ThreadInv(t)'
  BY <1>0, <1>3, ContinueFits DEF ThreadInv, Idle, Call, Op
<1>5. journal.done \subseteq disk.placed /\ flushed.intents \subseteq journal.intents
      /\ flushed.done \subseteq journal.done
      /\ journal \in Journal /\ flushed \in Journal /\ told \subseteq Ops /\ faults \in 0 .. MaxFaults
  BY DEF MutationInv, DurableFollows, TypeOK
<1> QED
  BY <1>1, <1>2, <1>4, <1>5, ThreadStepPreserves DEF Call

LEMMA PublishIntentPreserves ==
  ASSUME MutationInv, NEW t \in Threads, PublishIntent(t)
  PROVE  MutationInv'
<1> DEFINE c == [call[t] EXCEPT !.pc = "sync_intent", !.fresh = Op(t) \notin journal.intents]
<1>0. TypeOK /\ StateInv /\ ThreadInv(t) /\ call[t] \in CallOf /\ call[t].pc = "publish"
  BY InvParts DEF PublishIntent, TypeOK, CallOf, At
<1>1. call' = [call EXCEPT ![t] = c]
  BY <1>0 DEF PublishIntent, TypeOK
<1>2. c \in CallOf /\ c.op = Op(t) /\ c.pc = "sync_intent" /\ c.hop = call[t].hop
      /\ c.fresh = (Op(t) \notin journal.intents)
  BY <1>0 DEF CallOf, Steps, Op
<1>3. call'[t] = c
  BY <1>0, <1>1 DEF TypeOK
<1>4. /\ journal' \in Journal /\ journal'.intents = journal.intents \cup {Op(t)}
      /\ journal'.done = journal.done
      /\ Op(t) \in Ops /\ plan[Op(t)] # None
  BY <1>0 DEF PublishIntent, TypeOK, Journal, ThreadInv
<1>5. ASSUME Op(t) \notin journal.intents
      PROVE  /\ \A u \in Threads : call'[u].fresh /\ call'[u].op = Op(t) => u = t
             /\ plan[Op(t)].kind \in {"move", "case"} =>
                  Op(t) \notin vault.moved /\ vault.at[Temp(Op(t))] = None
  <2>1. Op(t) \notin flushed.intents
    BY <1>0, <1>5 DEF StateInv
  <2>2. plan[Op(t)].kind \in {"move", "case"} =>
          Op(t) \notin vault.moved /\ vault.at[Temp(Op(t))] = None
    BY <1>0, <1>4, <2>1 DEF StateInv, Explained, Described
  <2>3. ASSUME NEW u \in Threads, u # t PROVE ~(call'[u].fresh /\ call'[u].op = Op(t))
    BY <1>0, <1>1, <1>5, <2>3, InvParts DEF ThreadInv, TypeOK, Op
  <2> QED
    BY <2>2, <2>3
<1>6. ThreadInv(t)'
  <2> HIDE DEF c
  <2> QED
  BY <1>0, <1>2, <1>3, <1>4, <1>5 DEF ThreadInv, Op, PublishIntent, Before
<1>7. /\ journal.done \subseteq disk.placed /\ flushed.intents \subseteq journal.intents
      /\ flushed.done \subseteq journal.done
      /\ flushed \in Journal /\ told \subseteq Ops /\ faults \in 0 .. MaxFaults
  BY <1>0 DEF StateInv, TypeOK
<1> QED
  <2> HIDE DEF c
  <2> QED
    BY <1>1, <1>2, <1>4, <1>6, <1>7, ThreadStepPreserves DEF PublishIntent

\* A sync and its result stay within the bounds.
LEMMA SyncFacts ==
  ASSUME TypeOK, NEW ok \in BOOLEAN, MayFail(ok), Syncs(ok)
  PROVE  faults' \in 0 .. MaxFaults
BY BoundsAssumption DEF TypeOK, MayFail, Syncs

LEMMA SyncIntentPreserves ==
  ASSUME MutationInv, NEW t \in Threads, SyncIntent(t)
  PROVE  MutationInv'
<1>0. TypeOK /\ StateInv /\ ThreadInv(t) /\ call[t] \in CallOf /\ call[t].pc = "sync_intent"
      /\ UNCHANGED <<plan, vault, disk, journal, lock, told, edits>>
  BY InvParts DEF SyncIntent, TypeOK, CallOf, At
<1>1. PICK ok \in BOOLEAN :
        /\ MayFail(ok) /\ Syncs(ok)
        /\ flushed' = IF ok THEN [flushed EXCEPT !.intents = journal.intents] ELSE flushed
        /\ IF ok THEN Enter(t, Op(t), call[t].fresh) ELSE Refuse(t)
  BY DEF SyncIntent
<1>2. faults' \in 0 .. MaxFaults
  BY <1>0, <1>1, SyncFacts
<1>3. /\ flushed' \in Journal /\ flushed.intents \subseteq flushed'.intents
      /\ flushed'.intents \subseteq journal.intents /\ flushed'.done = flushed.done
      /\ flushed'.done \subseteq journal.done /\ journal.done \subseteq disk.placed
      /\ journal \in Journal /\ told \subseteq Ops
      /\ ok => flushed'.intents = journal.intents
  BY <1>0, <1>1 DEF TypeOK, Journal, StateInv
<1>4. CASE ~ok
  BY <1>0, <1>1, <1>2, <1>3, <1>4, RefusePreserves
<1>5. CASE ok
  <2> DEFINE c == [pc |-> Continue(Op(t))[1], op |-> Op(t), hop |-> Continue(Op(t))[2],
                   fresh |-> call[t].fresh]
  <2>0. Op(t) \in Ops /\ plan[Op(t)] # None
    BY <1>0 DEF ThreadInv
  <2>1. call' = [call EXCEPT ![t] = c] /\ call'[t] = c
    BY <1>0, <1>1, <1>5 DEF Enter, TypeOK
  <2>2. c \in CallOf
    BY <1>0, <2>0, ContinueFits DEF CallOf, Steps
  <2>3. ThreadInv(t)'
    <3>1. call[t].fresh => \A u \in Threads : call'[u].fresh /\ call'[u].op = Op(t) => u = t
      BY <1>0, <2>1 DEF ThreadInv, Op, TypeOK
    <3> QED
      BY <1>0, <1>3, <1>5, <2>0, <2>1, <3>1, ContinueFits DEF ThreadInv, Op, Before
  <2> QED
    BY <1>0, <1>2, <1>3, <2>1, <2>2, <2>3, ThreadStepPreserves
<1> QED
  BY <1>4, <1>5

LEMMA CompletePreserves ==
  ASSUME MutationInv, NEW t \in Threads, Complete(t)
  PROVE  MutationInv'
<1> DEFINE c == [call[t] EXCEPT !.pc = "sync_tombstone"]
<1>0. TypeOK /\ StateInv /\ ThreadInv(t) /\ call[t] \in CallOf /\ call[t].pc = "complete"
      /\ UNCHANGED <<plan, vault, disk, flushed, lock, told, faults, edits>>
  BY InvParts DEF Complete, TypeOK, CallOf, At
<1>1. /\ journal.done \subseteq disk.placed /\ flushed.intents \subseteq journal.intents
      /\ flushed.done \subseteq journal.done
      /\ flushed \in Journal /\ told \subseteq Ops /\ faults \in 0 .. MaxFaults
  BY <1>0 DEF StateInv, TypeOK
<1>2. CASE Op(t) \notin journal.intents
  BY <1>0, <1>1, <1>2, RefusePreserves DEF Complete
<1>3. CASE Op(t) \in journal.intents
  <2>1. call' = [call EXCEPT ![t] = c] /\ call'[t] = c /\ c \in CallOf
    BY <1>0, <1>3 DEF Complete, Goto, TypeOK, CallOf, Steps
  <2>2. c.op = Op(t) /\ c.pc = "sync_tombstone" /\ c.hop = call[t].hop /\ c.fresh = call[t].fresh
    BY <1>0 DEF CallOf, Op
  <2>3. /\ journal' \in Journal /\ journal'.intents = journal.intents
        /\ journal'.done = journal.done \cup {Op(t)}
        /\ Op(t) \in Ops /\ plan[Op(t)] # None /\ Op(t) \in disk.placed
    BY <1>0, <1>3 DEF Complete, TypeOK, Journal, ThreadInv
  <2> HIDE DEF c
  <2>4. ThreadInv(t)'
    <3>1. call[t].fresh => \A u \in Threads : call'[u].fresh /\ call'[u].op = Op(t) => u = t
      BY <1>0, <2>1, <2>2 DEF ThreadInv, Op, TypeOK
    <3> QED
      BY <1>0, <2>1, <2>2, <2>3, <3>1 DEF ThreadInv, Op, Before
  <2> QED
    BY <1>0, <1>1, <2>1, <2>2, <2>3, <2>4, ThreadStepPreserves
<1> QED
  BY <1>2, <1>3

LEMMA SyncTombstonePreserves ==
  ASSUME MutationInv, NEW t \in Threads, SyncTombstone(t)
  PROVE  MutationInv'
<1>0. TypeOK /\ StateInv /\ ThreadInv(t) /\ call[t].pc = "sync_tombstone"
      /\ UNCHANGED <<plan, vault, disk, journal, lock, edits>> /\ Refuse(t)
  BY InvParts DEF SyncTombstone, At
<1>1. PICK ok \in BOOLEAN :
        /\ MayFail(ok) /\ Syncs(ok)
        /\ flushed' = IF ok THEN [flushed EXCEPT !.done = journal.done] ELSE flushed
        /\ told' = IF ok THEN told \cup {Op(t)} ELSE told
  BY DEF SyncTombstone
<1>2. faults' \in 0 .. MaxFaults
  BY <1>0, <1>1, SyncFacts
<1>3. /\ flushed' \in Journal /\ flushed.intents = flushed'.intents
      /\ flushed'.intents \subseteq journal.intents
      /\ flushed'.done \subseteq journal.done /\ told' \subseteq Ops
  BY <1>0, <1>1 DEF TypeOK, Journal, StateInv, ThreadInv
<1> QED
  BY <1>0, <1>2, <1>3, RefusePreserves
-----------------------------------------------------------------------------
(* Steps under the vault's lock. *)

\* A step of the thread that holds the lock, or may take it: no other thread is
\* inside a primitive, so the others only care for what closes their way.
LEMMA VaultStepPreserves ==
  ASSUME MutationInv, NEW t \in Threads, NEW c \in CallOf,
         call' = [call EXCEPT ![t] = c], c.fresh => call[t].fresh /\ c.op = Op(t),
         UNCHANGED <<plan, journal, flushed, told, edits>>, faults' \in 0 .. MaxFaults,
         lock \in {None, t}, lock' \in {None, t},
         vault' \in Vault, disk' \in {disk, vault'},
         vault.moved \subseteq vault'.moved, vault.placed \subseteq vault'.placed,
         Closed(vault)', Explained(vault)',
         \A u \in Threads \ {t} :
           call[u].fresh /\ Before(u) => Op(u) \notin vault'.moved /\ vault'.at[Temp(Op(u))] = None,
         ThreadInv(t)'
  PROVE  MutationInv'
<1> USE InvParts DEF Op
<1>1. TypeOK'
  BY DEF TypeOK, CallOf, StateInv
<1>2. StateInv'
  <2>1. Described' = Described
    BY DEF Described
  <2>2. disk'.moved \subseteq vault'.moved /\ disk'.placed \subseteq vault'.placed
        /\ disk.placed \subseteq disk'.placed
    BY DEF StateInv
  <2>3. Closed(disk)'
    BY DEF StateInv, Closed
  <2>4. Explained(disk)'
    BY <2>1 DEF StateInv, Explained
  <2> QED
    BY <2>2, <2>3, <2>4 DEF StateInv
<1>3. ASSUME NEW u \in Threads, u # t PROVE ThreadInv(u)'
  <2>1. call'[u] = call[u] /\ call'[t] = c
    BY <1>3 DEF TypeOK
  <2>2. ThreadInv(u) /\ ThreadInv(t) /\ None \notin Threads
    BY NamesAssumption DEF TypeOK
  <2>3. disk.placed \subseteq disk'.placed
    BY DEF StateInv
  <2>4. call[u].pc \notin {"write_manifest", "sync_manifest", "rename", "confirm"}
    BY <1>3, <2>2 DEF ThreadInv
  <2>5. call[u].fresh => \A w \in Threads : call'[w].fresh /\ call'[w].op = call[u].op => w = u
    BY <2>1, <2>2 DEF ThreadInv, TypeOK
  <2>6. call[u].fresh /\ Before(u)' => Op(u) \notin vault'.moved /\ vault'.at[Temp(Op(u))] = None
    BY <1>3, <2>1, <2>4 DEF Before
  <2> QED
    BY <2>1, <2>2, <2>3, <2>4, <2>5, <2>6 DEF ThreadInv
<1>4. (\A u \in Threads : ThreadInv(u))'
  BY <1>3
<1> QED
  BY <1>1, <1>2, <1>4, InvPartsNext

\* A thread goes on to another step or hop, with the same operation.
Moves(t, c) ==
  /\ c \in CallOf
  /\ call' = [call EXCEPT ![t] = c] /\ call'[t] = c
  /\ c.op = Op(t) /\ c.fresh = call[t].fresh
  /\ call[t].fresh /\ ThreadInv(t) =>
       \A u \in Threads : call'[u].fresh /\ call'[u].op = Op(t) => u = t

Goes(t, pc, hop) == call' = [call EXCEPT ![t] = [call[t] EXCEPT !.pc = pc, !.hop = hop]]

LEMMA ChangeMoves ==
  ASSUME TypeOK, NEW t \in Threads, NEW pc \in Steps, NEW hop \in Hops, Goes(t, pc, hop)
  PROVE  \E c \in CallOf : Moves(t, c) /\ c.pc = pc /\ c.hop = hop
<1> DEFINE d == [call[t] EXCEPT !.pc = pc, !.hop = hop]
<1>1. d \in CallOf /\ d.op = call[t].op /\ d.fresh = call[t].fresh /\ d.pc = pc /\ d.hop = hop
  BY DEF CallOf, TypeOK
<1> HIDE DEF d
<1>2. Moves(t, d)
  BY <1>1 DEF d, Goes, Moves, TypeOK, Op, ThreadInv
<1> QED
  BY <1>1, <1>2

LEMMA GotoMoves ==
  ASSUME TypeOK, NEW t \in Threads, NEW pc \in Steps, Goto(t, pc)
  PROVE  \E c \in CallOf : Moves(t, c) /\ c.pc = pc /\ c.hop = call[t].hop
<1>1. call[t].hop \in Hops
  BY DEF TypeOK
<1>2. Goes(t, pc, call[t].hop)
  BY DEF Goes, Goto, TypeOK
<1> QED
  BY <1>1, <1>2, ChangeMoves

\* The vault with other areas or manifests, or with more operations in place,
\* is still closed and explained when nothing is published by it.
LEMMA SameFilesClosed ==
  ASSUME MutationInv, vault' \in Vault, UNCHANGED <<plan, flushed>>,
         vault'.at = vault.at, vault'.moved = vault.moved, vault.placed \subseteq vault'.placed,
         \A o \in Ops : vault.area[o] = "items" <=> vault'.area[o] = "items",
         \A o \in Ops : vault.manifest[o] # None => vault'.manifest[o] # None
  PROVE  Closed(vault)' /\ Explained(vault)'
<1>1. Described' = Described
  BY DEF Described
<1>2. Closed(vault)'
  BY PlanFacts DEF MutationInv, TypeOK, Vault, Closed
<1> QED
  BY <1>1, <1>2 DEF MutationInv, Explained

LEMMA PrepareManifestPreserves ==
  ASSUME MutationInv, NEW t \in Threads, PrepareManifest(t)
  PROVE  MutationInv'
<1> DEFINE made == [vault EXCEPT !.area[Op(t)] = "staging"]
<1>0. TypeOK /\ StateInv /\ ThreadInv(t) /\ call[t] \in CallOf /\ call[t].pc = "manifest"
      /\ lock = None /\ UNCHANGED <<plan, journal, flushed, told, edits>>
  BY InvParts DEF PrepareManifest, TypeOK, CallOf, At
<1>1. /\ Op(t) \in Ops /\ plan[Op(t)] # None /\ call[t].hop = "stage"
      /\ vault \in Vault /\ journal \in Journal /\ flushed \in Journal /\ told \subseteq Ops
      /\ flushed.intents \subseteq journal.intents /\ flushed.done \subseteq journal.done
      /\ journal.done \subseteq disk.placed
  BY <1>0 DEF ThreadInv, TypeOK, StateInv
<1>2. PICK ok \in BOOLEAN :
        /\ MayFail(ok) /\ Syncs(ok)
        /\ CASE vault.area[Op(t)] = "none" ->
                  \/ /\ ok
                     /\ vault' = made
                     /\ disk' = vault'
                     /\ lock' = t /\ Goto(t, "write_manifest")
                  \/ /\ ~ok
                     /\ vault' \in {vault, made}
                     /\ UNCHANGED <<disk, lock>> /\ Refuse(t)
             [] OTHER ->
                  /\ disk' = IF ok THEN vault ELSE disk
                  /\ IF ok /\ ValidItem(Op(t), Expected(Op(t)), "optional")
                     THEN Goto(t, "check") ELSE Refuse(t)
                  /\ UNCHANGED <<vault, lock>>
  BY DEF PrepareManifest
<1>3. faults' \in 0 .. MaxFaults
  BY <1>0, <1>2, SyncFacts
<1>4. CASE vault.area[Op(t)] # "none"
  <2>1. /\ disk' = IF ok THEN vault ELSE disk
        /\ (IF ok /\ ValidItem(Op(t), Expected(Op(t)), "optional")
           THEN Goto(t, "check") ELSE Refuse(t))
        /\ UNCHANGED <<vault, lock>>
    BY <1>2, <1>4
  <2>2. CASE Refuse(t)
    BY <1>0, <1>1, <1>3, <2>1, <2>2, RefusePreserves
  <2>3. CASE Goto(t, "check")
    <3>1. "check" \in Steps /\ "stage" \in Hops
      BY DEF Steps, Hops
    <3>2. PICK c \in CallOf : Moves(t, c) /\ c.pc = "check" /\ c.hop = "stage"
      BY <1>0, <1>1, <2>3, <3>1, GotoMoves
    <3>3. ThreadInv(t)'
      BY <1>0, <1>1, <2>1, <3>2 DEF ThreadInv, Op, Before, HopsOf, Moves
    <3> QED
      BY <1>0, <1>1, <1>3, <2>1, <3>2, <3>3, ThreadStepPreserves DEF Moves
  <2> QED
    BY <2>1, <2>2, <2>3
<1>5. CASE vault.area[Op(t)] = "none"
  <2>1. /\ made # vault /\ made \in Vault /\ made.at = vault.at /\ made.moved = vault.moved
        /\ made.placed = vault.placed /\ made.manifest = vault.manifest
        /\ \A o \in Ops : vault.area[o] = "items" <=> made.area[o] = "items"
    BY <1>1, <1>5 DEF Vault
  <2> HIDE DEF made
  <2>2. CASE vault' = vault
    BY <1>0, <1>1, <1>2, <1>3, <1>5, <2>1, <2>2, RefusePreserves
  <2>3. CASE vault' = made
    <3>1. Closed(vault)' /\ Explained(vault)'
      BY <1>0, <2>1, <2>3, SameFilesClosed
    <3>2. \A u \in Threads \ {t} :
            call[u].fresh /\ Before(u) =>
              Op(u) \notin vault'.moved /\ vault'.at[Temp(Op(u))] = None
      BY <2>1, <2>3, InvParts DEF ThreadInv
    <3>3. CASE ok
      <4>1. /\ "write_manifest" \in Steps /\ "stage" \in Hops
            /\ Goto(t, "write_manifest") /\ lock' = t /\ disk' = vault'
        BY <1>2, <1>5, <3>3 DEF Steps, Hops
      <4>2. PICK c \in CallOf : Moves(t, c) /\ c.pc = "write_manifest" /\ c.hop = "stage"
        BY <1>0, <1>1, <4>1, GotoMoves
      <4>3. ThreadInv(t)'
        BY <1>0, <1>1, <2>1, <2>3, <4>1, <4>2 DEF ThreadInv, Op, Before, HopsOf, Moves
      <4> QED
        BY <1>0, <1>1, <1>3, <2>1, <2>3, <3>1, <3>2, <4>1, <4>2, <4>3, VaultStepPreserves
        DEF Moves
    <3>4. CASE ~ok
      <4>1. Refuse(t) /\ UNCHANGED <<disk, lock>>
        BY <1>2, <1>5, <3>4
      <4>2. call' = [call EXCEPT ![t] = Idle] /\ Idle \in CallOf /\ call'[t] = Idle
        BY <1>0, <4>1 DEF Refuse, TypeOK, Idle, CallOf, Steps, Hops
      <4>3. ThreadInv(t)' /\ ~Idle.fresh
        BY <4>2 DEF ThreadInv, Idle
      <4> QED
        BY <1>0, <1>1, <1>3, <2>1, <2>3, <3>1, <3>2, <4>1, <4>2, <4>3, VaultStepPreserves
    <3> QED
      BY <3>3, <3>4
  <2> QED
    BY <1>2, <1>5, <2>2, <2>3
<1> QED
  BY <1>4, <1>5

LEMMA WriteManifestPreserves ==
  ASSUME MutationInv, NEW t \in Threads, WriteManifest(t)
  PROVE  MutationInv'
<1> DEFINE written == [vault EXCEPT !.manifest[Op(t)] = Expected(Op(t))]
<1>0. /\ TypeOK /\ StateInv /\ ThreadInv(t) /\ call[t].pc = "write_manifest" /\ lock = t
      /\ UNCHANGED <<plan, disk, journal, flushed, lock, told, faults, edits>>
  BY InvParts DEF WriteManifest, ThreadInv, At
<1>1. /\ Op(t) \in Ops /\ plan[Op(t)] # None /\ call[t].hop = "stage"
      /\ vault \in Vault /\ faults \in 0 .. MaxFaults
      /\ "sync_manifest" \in Steps /\ "stage" \in Hops
  BY <1>0 DEF ThreadInv, TypeOK, Steps, Hops
<1>2. PICK c \in CallOf : Moves(t, c) /\ c.pc = "sync_manifest" /\ c.hop = "stage"
  BY <1>0, <1>1, GotoMoves DEF WriteManifest
<1>3. /\ written \in Vault /\ written.at = vault.at /\ written.moved = vault.moved
      /\ written.placed = vault.placed /\ written.area = vault.area
      /\ \A o \in Ops : vault.manifest[o] # None => written.manifest[o] # None
  BY <1>0, <1>1, PlanFacts DEF Vault
<1>4. vault' = written
  BY DEF WriteManifest
<1> HIDE DEF written
<1>5. Closed(vault)' /\ Explained(vault)'
  BY <1>0, <1>3, <1>4, SameFilesClosed
<1>6. \A u \in Threads \ {t} :
        call[u].fresh /\ Before(u) => Op(u) \notin vault'.moved /\ vault'.at[Temp(Op(u))] = None
  BY <1>3, <1>4, InvParts DEF ThreadInv
<1>7. ThreadInv(t)'
  BY <1>0, <1>1, <1>2, <1>3, <1>4 DEF ThreadInv, Op, Before, HopsOf, Moves
<1> QED
  BY <1>0, <1>1, <1>2, <1>3, <1>4, <1>5, <1>6, <1>7, VaultStepPreserves DEF Moves

LEMMA SyncManifestPreserves ==
  ASSUME MutationInv, NEW t \in Threads, SyncManifest(t)
  PROVE  MutationInv'
<1>0. /\ TypeOK /\ StateInv /\ ThreadInv(t) /\ call[t].pc = "sync_manifest" /\ lock = t
      /\ UNCHANGED <<plan, vault, journal, flushed, told, edits>> /\ lock' = None
  BY InvParts DEF SyncManifest, ThreadInv, At
<1>1. /\ Op(t) \in Ops /\ plan[Op(t)] # None /\ call[t].hop = "stage"
      /\ vault \in Vault /\ journal \in Journal /\ flushed \in Journal /\ told \subseteq Ops
      /\ flushed.intents \subseteq journal.intents /\ flushed.done \subseteq journal.done
      /\ journal.done \subseteq disk.placed
      /\ "check" \in Steps /\ "stage" \in Hops
  BY <1>0 DEF ThreadInv, TypeOK, StateInv, Steps, Hops
<1>2. PICK ok \in BOOLEAN :
        /\ MayFail(ok) /\ Syncs(ok)
        /\ disk' = IF ok THEN vault ELSE disk
        /\ IF ok THEN Goto(t, "check") ELSE Refuse(t)
  BY DEF SyncManifest
<1>3. faults' \in 0 .. MaxFaults
  BY <1>0, <1>2, SyncFacts
<1>4. CASE Refuse(t)
  BY <1>0, <1>1, <1>2, <1>3, <1>4, RefusePreserves
<1>5. CASE Goto(t, "check")
  <2>1. PICK c \in CallOf : Moves(t, c) /\ c.pc = "check" /\ c.hop = "stage"
    BY <1>0, <1>1, <1>5, GotoMoves
  <2>2. ThreadInv(t)'
    BY <1>0, <1>1, <1>2, <2>1 DEF ThreadInv, Op, Before, HopsOf, Moves
  <2> QED
    BY <1>0, <1>1, <1>2, <1>3, <2>1, <2>2, ThreadStepPreserves DEF Moves
<1> QED
  BY <1>2, <1>4, <1>5

\* Where a hop that is done leads.
LEMMA AfterFacts ==
  ASSUME TypeOK, NEW t \in Threads, call' = [call EXCEPT ![t] = After(t, call[t].hop)]
  PROVE  \E c \in CallOf : /\ Moves(t, c)
                /\ IF call[t].hop = "stage" THEN c.pc = "check" /\ c.hop = "publish"
                   ELSE c.pc = "complete" /\ c.hop = call[t].hop
<1>0. call[t] \in CallOf /\ call[t].hop \in Hops
  BY DEF TypeOK, CallOf
<1>1. {"check", "complete"} \subseteq Steps /\ "publish" \in Hops
  BY DEF Steps, Hops
<1>2. CASE call[t].hop = "stage"
  <2>1. Goes(t, "check", "publish")
    BY <1>2 DEF After, Goes
  <2> QED
    BY <1>1, <1>2, <2>1, ChangeMoves
<1>3. CASE call[t].hop # "stage"
  <2>1. Goto(t, "complete")
    BY <1>0, <1>3 DEF After, Goto, TypeOK
  <2> QED
    BY <1>0, <1>1, <1>3, <2>1, GotoMoves
<1> QED
  BY <1>2, <1>3

LEMMA ConfirmPreserves ==
  ASSUME MutationInv, NEW t \in Threads, Confirm(t)
  PROVE  MutationInv'
<1>0. /\ TypeOK /\ StateInv /\ ThreadInv(t) /\ call[t].pc = "confirm" /\ lock = t
      /\ UNCHANGED <<plan, vault, journal, flushed, told, edits>>
  BY InvParts DEF Confirm, ThreadInv, At
<1>1. /\ Op(t) \in Ops /\ plan[Op(t)] # None /\ call[t].hop \in HopsOf(plan[Op(t)].kind)
      /\ vault \in Vault /\ journal \in Journal /\ flushed \in Journal /\ told \subseteq Ops
      /\ flushed.intents \subseteq journal.intents /\ flushed.done \subseteq journal.done
      /\ journal.done \subseteq disk.placed
      /\ "rename" \in Steps /\ "unpark" \in Hops /\ call[t].hop \in Hops
      /\ call[t].hop \notin {"stage", "park"} => call[t].hop \in LastHops
  BY <1>0 DEF ThreadInv, TypeOK, StateInv, Steps, Hops, LastHops
<1>2. PICK ok \in BOOLEAN :
        /\ MayFail(ok) /\ Syncs(ok)
        /\ disk' = IF ok THEN vault ELSE disk
        /\ IF ok /\ Verified(Op(t), call[t].hop)
           THEN IF call[t].hop = "park"
                THEN /\ call' = [call EXCEPT ![t].pc = "rename", ![t].hop = "unpark"]
                     /\ UNCHANGED lock
                ELSE call' = [call EXCEPT ![t] = After(t, call[t].hop)] /\ lock' = None
           ELSE Refuse(t) /\ lock' = None
  BY DEF Confirm
<1>3. faults' \in 0 .. MaxFaults
  BY <1>0, <1>2, SyncFacts
<1>4. CASE Refuse(t) /\ lock' = None
  BY <1>0, <1>1, <1>2, <1>3, <1>4, RefusePreserves
<1>5. CASE ok /\ call[t].hop = "park" /\ UNCHANGED lock
           /\ call' = [call EXCEPT ![t].pc = "rename", ![t].hop = "unpark"]
  <2>1. PICK c \in CallOf : Moves(t, c) /\ c.pc = "rename" /\ c.hop = "unpark"
    <3>1. Goes(t, "rename", "unpark")
      BY <1>0, <1>5 DEF TypeOK, Goes
    <3> QED
      BY <1>0, <1>1, <3>1, ChangeMoves
  <2>2. ThreadInv(t)'
    <3>1. plan[Op(t)].kind = "case" /\ "unpark" \in HopsOf("case")
      BY <1>0, <1>1, <1>5, PlanFacts DEF HopsOf, Kinds
    <3>2. Op(t) \in flushed.intents
      BY <1>0, <1>5 DEF ThreadInv
    <3>3. /\ call'[t] = c /\ c.op = Op(t) /\ c.fresh = call[t].fresh
          /\ Op(t)' = Op(t) /\ (\A u \in Threads : Op(u)' = call'[u].op)
      BY <2>1 DEF Moves, Op
    <3>4. c.fresh =>
            /\ Op(t) \in journal.intents
            /\ \A u \in Threads : call'[u].fresh /\ call'[u].op = Op(t) => u = t
      BY <1>0, <2>1, <3>3 DEF ThreadInv, Moves
    <3>5. /\ UNCHANGED <<plan, journal, flushed>> /\ lock' = t
          /\ c.pc = "rename" /\ c.hop = "unpark"
          /\ Op(t) \in Ops /\ plan[Op(t)] # None /\ "unpark" \in HopsOf(plan[Op(t)].kind)
      BY <1>0, <1>1, <1>5, <2>1, <3>1
    <3>6. (\A u \in Threads : call[u].fresh /\ Op(u) = Op(t) => u = t)' \/ ~c.fresh
      BY <3>3, <3>4
    <3>7. ~Before(t)'
      BY <3>3, <3>5 DEF Before
    <3> QED
      BY <3>2, <3>3, <3>4, <3>5, <3>6, <3>7 DEF ThreadInv
  <2> QED
    BY <1>0, <1>1, <1>2, <1>3, <1>5, <2>1, <2>2, ThreadStepPreserves DEF Moves
<1>6. CASE ok /\ call[t].hop # "park" /\ lock' = None
           /\ call' = [call EXCEPT ![t] = After(t, call[t].hop)]
  <2>1. PICK c \in CallOf : /\ Moves(t, c)
                 /\ IF call[t].hop = "stage" THEN c.pc = "check" /\ c.hop = "publish"
                    ELSE c.pc = "complete" /\ c.hop = call[t].hop
    BY <1>0, <1>6, AfterFacts
  <2>2. ThreadInv(t)'
    <3>1. /\ call'[t] = c /\ c.op = Op(t) /\ c.fresh = call[t].fresh
          /\ Op(t)' = Op(t) /\ (\A u \in Threads : Op(u)' = call'[u].op)
      BY <2>1 DEF Moves, Op
    <3>2. c.hop \in HopsOf(plan[Op(t)].kind) /\ (c.pc = "check" => c.hop # "unpark")
      BY <1>0, <1>1, <2>1, PlanFacts DEF HopsOf, Kinds
    <3>3. c.fresh =>
            /\ Op(t) \in journal.intents /\ Op(t) \in flushed.intents
            /\ \A u \in Threads : call'[u].fresh /\ call'[u].op = Op(t) => u = t
      BY <1>0, <2>1, <3>1 DEF ThreadInv, Moves
    <3>4. c.pc = "check" => plan[Op(t)].kind = "trash"
      BY <1>0, <1>1, <2>1, PlanFacts DEF HopsOf, Kinds
    <3>5. UNCHANGED <<plan, journal, flushed>> /\ Op(t) \in Ops /\ plan[Op(t)] # None
          /\ c.pc \in {"check", "complete"} /\ c.hop \in HopsOf(plan[Op(t)].kind)
      BY <1>0, <1>1, <2>1, <3>2
    <3>6. (\A u \in Threads : call[u].fresh /\ Op(u) = Op(t) => u = t)' \/ ~c.fresh
      BY <3>1, <3>3
    <3>7. ~Before(t)'
      BY <3>1, <3>4, <3>5 DEF Before
    <3>8. c.pc = "complete" => Op(t) \in disk'.placed
      BY <1>0, <1>1, <1>2, <1>6, <2>1 DEF ThreadInv
    <3> QED
      BY <3>1, <3>2, <3>3, <3>5, <3>6, <3>7, <3>8 DEF ThreadInv
  <2> QED
    BY <1>0, <1>1, <1>2, <1>3, <1>6, <2>1, <2>2, ThreadStepPreserves DEF Moves
<1> QED
  BY <1>2, <1>4, <1>5, <1>6

\* A verdict to go on says what the thread may count on when it renames.
LEMMA VerdictFacts ==
  ASSUME TypeOK, NEW o \in Ops, plan[o] # None, NEW fresh \in BOOLEAN,
         NEW hop \in HopsOf(plan[o].kind), hop # "unpark",
         Verdict(o, hop, fresh) \notin {"refuse", "already"}
  PROVE  /\ hop \in {"move", "park"} /\ Verdict(o, hop, fresh) # "go_on" => fresh
         /\ Verdict(o, hop, fresh) = "go_on" => hop = "park" /\ vault.at[Temp(o)] # None
         /\ hop \in {"stage", "publish"} => vault.area[o] = "staging"
         /\ hop = "publish" => vault.manifest[o] # None
         /\ hop = "restore" => vault.area[plan[o].id] = "items"
<1>0. vault.area[o] \in {"none", "staging", "items"} /\ plan[o].rev # None
      /\ Expected(o) # None
  BY PlanFacts DEF TypeOK, Vault
<1>1. CASE hop = "move"
  BY <1>1 DEF Verdict, MoveVerdict
<1>2. CASE hop = "park"
  BY <1>0, <1>2 DEF Verdict, CaseVerdict, Is
<1>3. CASE hop = "stage"
  BY <1>0, <1>3 DEF Verdict, StageVerdict
<1>4. CASE hop = "publish"
  BY <1>0, <1>4 DEF Verdict, PublishVerdict, ValidItem
<1>5. CASE hop = "restore"
  BY <1>0, <1>5 DEF Verdict, RestoreVerdict
<1> QED
  BY <1>1, <1>2, <1>3, <1>4, <1>5, PlanFacts DEF HopsOf, Kinds

LEMMA CheckPreserves ==
  ASSUME MutationInv, NEW t \in Threads, Check(t)
  PROVE  MutationInv'
<1> DEFINE o == Op(t)
           hop == call[t].hop
           verdict == Verdict(o, hop, call[t].fresh)
           seen == [vault EXCEPT !.placed = @ \cup {o}]
<1>0. /\ TypeOK /\ StateInv /\ ThreadInv(t) /\ call[t].pc = "check" /\ lock = None
      /\ UNCHANGED <<plan, journal, flushed, told, edits>>
  BY InvParts DEF Check, At
<1>1. /\ o \in Ops /\ plan[o] # None /\ hop \in HopsOf(plan[o].kind) /\ hop # "unpark"
      /\ vault \in Vault /\ call[t].fresh \in BOOLEAN
      /\ {"rename", "check", "complete"} \subseteq Steps /\ "unpark" \in Hops /\ hop \in Hops
  BY <1>0 DEF ThreadInv, TypeOK, Steps, Hops
<1>2. PICK ok \in BOOLEAN :
        /\ MayFail(ok) /\ Syncs(ok)
        /\ vault' = IF verdict = "already" THEN seen ELSE vault
        /\ disk' = IF ok THEN vault' ELSE disk
        /\ IF verdict = "refuse" \/ (~ok /\ NeedsFirstSync(hop, verdict))
           THEN Refuse(t) /\ UNCHANGED lock
           ELSE IF verdict = "already"
           THEN call' = [call EXCEPT ![t] = After(t, hop)] /\ UNCHANGED lock
           ELSE /\ call' = [call EXCEPT ![t].pc = "rename",
                                        ![t].hop = IF verdict = "go_on" THEN "unpark" ELSE hop]
                /\ lock' = t
  BY DEF Check
<1>3. faults' \in 0 .. MaxFaults
  BY <1>0, <1>2, SyncFacts
<1>4. /\ seen \in Vault /\ seen.at = vault.at /\ seen.moved = vault.moved
      /\ seen.placed = vault.placed \cup {o} /\ seen.area = vault.area
      /\ seen.manifest = vault.manifest
  BY <1>1 DEF Vault
<1> HIDE DEF seen
<1>5. /\ vault' \in Vault /\ vault'.at = vault.at /\ vault'.moved = vault.moved
      /\ vault'.area = vault.area /\ vault'.manifest = vault.manifest
      /\ vault.placed \subseteq vault'.placed
      /\ verdict = "already" => o \in vault'.placed
      /\ disk' \in {disk, vault'}
  BY <1>1, <1>2, <1>4
<1>6. Closed(vault)' /\ Explained(vault)'
  BY <1>0, <1>5, SameFilesClosed
<1>7. \A u \in Threads \ {t} :
        call[u].fresh /\ Before(u) => Op(u) \notin vault'.moved /\ vault'.at[Temp(Op(u))] = None
  BY <1>5, InvParts DEF ThreadInv
<1>8. CASE Refuse(t) /\ UNCHANGED lock
  <2>1. call' = [call EXCEPT ![t] = Idle] /\ Idle \in CallOf /\ call'[t] = Idle
    BY <1>0, <1>8 DEF Refuse, TypeOK, Idle, CallOf, Steps, Hops
  <2>2. ThreadInv(t)' /\ ~Idle.fresh
    BY <2>1 DEF ThreadInv, Idle
  <2> QED
    BY <1>0, <1>1, <1>3, <1>5, <1>6, <1>7, <1>8, <2>1, <2>2, VaultStepPreserves
<1>9. CASE verdict = "already" /\ ok /\ UNCHANGED lock
           /\ call' = [call EXCEPT ![t] = After(t, hop)]
  <2>1. PICK c \in CallOf : /\ Moves(t, c)
                            /\ IF hop = "stage" THEN c.pc = "check" /\ c.hop = "publish"
                               ELSE c.pc = "complete" /\ c.hop = hop
    BY <1>0, <1>9, AfterFacts
  <2>2. disk' = vault' /\ o \in disk'.placed
    BY <1>2, <1>5, <1>9
  <2>3. hop = "stage" => plan[o].kind = "trash" /\ "publish" \in HopsOf("trash")
    BY <1>0, <1>1, PlanFacts DEF HopsOf, Kinds
  <2>4. ThreadInv(t)'
    <3> HIDE DEF verdict
    <3> QED
      BY <1>0, <1>1, <1>5, <2>1, <2>2, <2>3 DEF ThreadInv, Op, Before, Moves
  <2> QED
    BY <1>0, <1>1, <1>3, <1>5, <1>6, <1>7, <1>9, <2>1, <2>4, VaultStepPreserves DEF Moves
<1>10. CASE /\ verdict \notin {"refuse", "already"} /\ lock' = t
            /\ call' = [call EXCEPT ![t].pc = "rename",
                                    ![t].hop = IF verdict = "go_on" THEN "unpark" ELSE hop]
  <2> DEFINE h == IF verdict = "go_on" THEN "unpark" ELSE hop
  <2>1. PICK c \in CallOf : Moves(t, c) /\ c.pc = "rename" /\ c.hop = h
    <3>1. Goes(t, "rename", h) /\ h \in Hops
      BY <1>0, <1>1, <1>10 DEF TypeOK, Goes
    <3> HIDE DEF h
    <3> QED
      BY <1>0, <1>1, <3>1, ChangeMoves
  <2>2. /\ hop \in {"move", "park"} /\ verdict # "go_on" => call[t].fresh
        /\ verdict = "go_on" => hop = "park" /\ vault.at[Temp(o)] # None
        /\ hop \in {"stage", "publish"} => vault.area[o] = "staging"
        /\ hop = "publish" => vault.manifest[o] # None
        /\ hop = "restore" => vault.area[plan[o].id] = "items"
    <3> HIDE DEF o, hop
    <3> QED
      BY <1>0, <1>1, <1>10, VerdictFacts
  <2>3. hop = "park" => plan[o].kind = "case" /\ "unpark" \in HopsOf("case")
    BY <1>0, <1>1, PlanFacts DEF HopsOf, Kinds
  <2>4. vault.at[Temp(o)] # None => o \in flushed.intents
    BY <1>0, <1>1 DEF StateInv, Explained
  <2>5. ThreadInv(t)'
    <3> HIDE DEF verdict
    <3>1. CASE verdict = "go_on"
      <4>1. /\ call'[t] = c /\ c.op = o /\ c.hop = "unpark" /\ c.fresh = call[t].fresh
            /\ Op(t)' = o /\ (\A u \in Threads : Op(u)' = call'[u].op)
        BY <2>1, <3>1 DEF Moves, Op
      <4>2. c.fresh =>
              /\ o \in journal.intents
              /\ \A u \in Threads : call'[u].fresh /\ call'[u].op = o => u = t
        BY <1>0, <2>1, <4>1 DEF ThreadInv, Moves
      <4>3. o \in flushed.intents /\ "unpark" \in HopsOf(plan[o].kind)
        BY <2>2, <2>3, <2>4, <3>1
      <4>4. /\ UNCHANGED <<plan, journal, flushed>> /\ lock' = t /\ c.pc = "rename"
            /\ o \in Ops /\ plan[o] # None
        BY <1>0, <1>1, <1>10, <2>1
      <4>5. ~Before(t)'
        BY <4>1, <4>4 DEF Before
      <4>6. (\A u \in Threads : call[u].fresh /\ Op(u) = Op(t) => u = t)' \/ ~c.fresh
        BY <4>1, <4>2
      <4> HIDE DEF o, hop
      <4> QED
        BY <4>1, <4>2, <4>3, <4>4, <4>5, <4>6 DEF ThreadInv
    <3>2. CASE verdict # "go_on"
      <4>1. /\ call'[t] = c /\ c.op = o /\ c.hop = hop /\ c.fresh = call[t].fresh
            /\ Op(t)' = o /\ (\A u \in Threads : Op(u)' = call'[u].op)
        BY <2>1, <3>2 DEF Moves, Op
      <4>2. c.fresh =>
              /\ o \in journal.intents /\ o \in flushed.intents
              /\ \A u \in Threads : call'[u].fresh /\ call'[u].op = o => u = t
        BY <1>0, <2>1, <4>1 DEF ThreadInv, Moves
      <4>3. c.fresh /\ plan[o].kind \in {"move", "case"} =>
              o \notin vault.moved /\ vault.at[Temp(o)] = None
        BY <1>0, <4>1 DEF ThreadInv, Before
      <4>4. /\ UNCHANGED <<plan, journal, flushed>> /\ lock' = t /\ c.pc = "rename"
            /\ vault'.at = vault.at /\ vault'.moved = vault.moved
            /\ vault'.area = vault.area /\ vault'.manifest = vault.manifest
            /\ o \in Ops /\ plan[o] # None /\ hop \in HopsOf(plan[o].kind) /\ hop # "unpark"
        BY <1>0, <1>1, <1>5, <1>10, <2>1
      <4>5. /\ hop \in {"move", "park"} => c.fresh
            /\ hop \in {"stage", "publish"} => vault.area[o] = "staging"
            /\ hop = "publish" => vault.manifest[o] # None
            /\ hop = "restore" => vault.area[plan[o].id] = "items"
        BY <2>2, <3>2, <4>1
      <4>6. c.fresh =>
              /\ (\A u \in Threads : call[u].fresh /\ Op(u) = Op(t) => u = t)'
              /\ Before(t)' => o \notin vault'.moved /\ vault'.at[Temp(o)] = None
        BY <4>1, <4>2, <4>3, <4>4 DEF Before
      <4> HIDE DEF o, hop
      <4> QED
        BY <4>1, <4>2, <4>4, <4>5, <4>6 DEF ThreadInv
    <3> QED
      BY <3>1, <3>2
  <2> QED
    BY <1>0, <1>1, <1>3, <1>5, <1>6, <1>7, <1>10, <2>1, <2>5, VaultStepPreserves DEF Moves
<1> QED
  <2>1. verdict = "already" => NeedsFirstSync(hop, verdict)
    BY DEF NeedsFirstSync
  <2> HIDE DEF verdict
  <2> QED
    BY <1>2, <1>8, <1>9, <1>10, <2>1

\* The two places of a rename, and that they differ.
LEMMA PathFacts ==
  ASSUME TypeOK, NEW o \in Ops, plan[o] # None, NEW hop \in HopsOf(plan[o].kind), hop # "publish"
  PROVE  /\ Source(o, hop) \in Slots /\ Target(o, hop) \in Slots
         /\ Source(o, hop) # Target(o, hop)
         /\ hop = "park" => Target(o, hop) = Temp(o) /\ Source(o, hop) \in Names
         /\ hop = "unpark" => Source(o, hop) = Temp(o) /\ Target(o, hop) \in Names
         /\ hop = "stage" => Target(o, hop) = Payload(o) /\ Source(o, hop) \in Names
         /\ hop = "restore" => Source(o, hop) = Payload(plan[o].id) /\ Target(o, hop) \in Names
         /\ hop = "move" => Source(o, hop) \in Names /\ Target(o, hop) \in Names
<1>1. /\ plan[o].from \in Names /\ plan[o].to \in Names /\ plan[o].id \in Ops
      /\ Related(plan[o]) /\ plan[o].kind \in Kinds
  BY PlanFacts
<1>2. CASE hop = "move"
  <2>1. plan[o].kind = "move"
    BY <1>1, <1>2 DEF HopsOf, Kinds
  <2>2. plan[o].from # plan[o].to
    BY <1>1, <2>1 DEF Related
  <2> QED
    BY <1>1, <1>2, <2>2, SlotFacts DEF Source, Target, Paths, MovePaths
<1>3. CASE hop = "park"
  BY <1>1, <1>3, SlotFacts DEF Source, Target, Paths, ParkPaths
<1>4. CASE hop = "unpark"
  BY <1>1, <1>4, SlotFacts DEF Source, Target, Paths, UnparkPaths
<1>5. CASE hop = "stage"
  BY <1>1, <1>5, SlotFacts DEF Source, Target, Paths, StagePaths
<1>6. CASE hop = "restore"
  BY <1>1, <1>6, SlotFacts DEF Source, Target, Paths, RestorePaths
<1> QED
  BY <1>1, <1>2, <1>3, <1>4, <1>5, <1>6 DEF HopsOf, Kinds

\* What a rename does to the vault.
LEMMA RenamesFacts ==
  ASSUME TypeOK, NEW o \in Ops, plan[o] # None, NEW hop \in HopsOf(plan[o].kind)
  PROVE  LET w == Renames(o, hop)
             last == IF hop \in LastHops THEN {o} ELSE {}
         IN  /\ w \in Vault
             /\ w.moved = vault.moved \cup last /\ w.placed = vault.placed \cup last
             /\ w.manifest = vault.manifest
             /\ hop = "publish" => /\ w.at = vault.at
                                   /\ w.area = [vault.area EXCEPT ![o] = "items"]
             /\ hop # "publish" => /\ w.area = vault.area
                                   /\ w.at = [vault.at EXCEPT ![Target(o, hop)] = vault.at[Source(o, hop)],
                                                              ![Source(o, hop)] = None]
<1> DEFINE last == IF hop \in LastHops THEN {o} ELSE {}
           after == [vault EXCEPT !.moved = @ \cup last, !.placed = @ \cup last]
           s == Source(o, hop)
           d == Target(o, hop)
<1>0. vault \in Vault /\ last \subseteq Ops
  BY DEF TypeOK
<1> HIDE DEF last
<1>1. /\ after \in Vault /\ after.moved = vault.moved \cup last
      /\ after.placed = vault.placed \cup last
      /\ after.manifest = vault.manifest /\ after.area = vault.area /\ after.at = vault.at
  BY <1>0 DEF Vault
<1>2. CASE hop = "publish"
  <2>1. Renames(o, hop) = [after EXCEPT !.area[o] = "items"]
    BY <1>2 DEF Renames, last
  <2> HIDE DEF after
  <2>2. /\ [after EXCEPT !.area[o] = "items"] \in Vault
        /\ [after EXCEPT !.area[o] = "items"].moved = after.moved
        /\ [after EXCEPT !.area[o] = "items"].placed = after.placed
        /\ [after EXCEPT !.area[o] = "items"].manifest = after.manifest
        /\ [after EXCEPT !.area[o] = "items"].at = after.at
        /\ [after EXCEPT !.area[o] = "items"].area = [after.area EXCEPT ![o] = "items"]
    BY <1>1 DEF Vault
  <2> QED
    BY <1>1, <1>2, <2>1, <2>2 DEF last
<1>3. CASE hop # "publish"
  <2>1. Renames(o, hop) = [after EXCEPT !.at[d] = vault.at[s], !.at[s] = None]
    BY <1>3 DEF Renames, last
  <2>2. s \in Slots /\ d \in Slots /\ vault.at[s] \in Revs \cup {None}
    BY <1>0, <1>3, PathFacts DEF Vault
  <2> HIDE DEF after, s, d
  <2> DEFINE w == [after EXCEPT !.at[d] = vault.at[s], !.at[s] = None]
  <2>3. /\ w \in Vault /\ w.moved = after.moved /\ w.placed = after.placed
        /\ w.manifest = after.manifest /\ w.area = after.area
        /\ w.at = [after.at EXCEPT ![d] = vault.at[s], ![s] = None]
    BY <1>1, <2>2 DEF Vault
  <2> QED
    BY <1>1, <1>3, <2>1, <2>3 DEF last, s, d
<1> QED
  BY <1>2, <1>3

\* The last rename of an operation is not made again: whatever else happened,
\* the way of a file that was moved is closed.
LEMMA RenameIsFirst ==
  ASSUME MutationInv, NEW t \in Threads, call[t].pc = "rename", call[t].hop \in LastHops,
         CanRename(Op(t), call[t].hop)
  PROVE  Op(t) \notin vault.moved
<1> DEFINE o == Op(t)
           hop == call[t].hop
<1>0. TypeOK /\ StateInv /\ ThreadInv(t) /\ hop \in Hops
  BY InvParts DEF TypeOK
<1>1. o \in Ops /\ plan[o] # None /\ hop \in HopsOf(plan[o].kind)
  BY <1>0 DEF ThreadInv
<1>2. CASE hop = "move"
  <2>1. plan[o].kind = "move"
    BY <1>0, <1>1, <1>2, PlanFacts DEF HopsOf, Kinds
  <2> QED
    BY <1>0, <1>2, <2>1 DEF ThreadInv, Before
<1>3. CASE hop = "unpark"
  <2>1. plan[o].kind = "case" /\ Source(o, hop) = Temp(o)
    BY <1>0, <1>1, <1>3, PlanFacts, PathFacts DEF HopsOf, Kinds
  <2> QED
    BY <1>0, <1>3, <2>1 DEF StateInv, Closed, CanRename, Here
<1>4. CASE hop = "publish"
  <2>1. plan[o].kind = "trash"
    BY <1>0, <1>1, <1>4, PlanFacts DEF HopsOf, Kinds
  <2> QED
    BY <1>0, <1>4, <2>1 DEF StateInv, Closed, ThreadInv
<1>5. CASE hop = "restore"
  <2>1. plan[o].kind = "restore" /\ Source(o, hop) = Payload(plan[o].id)
    BY <1>0, <1>1, <1>5, PlanFacts, PathFacts DEF HopsOf, Kinds
  <2> QED
    BY <1>0, <1>5, <2>1 DEF StateInv, Closed, CanRename, Here
<1> QED
  BY <1>0, <1>2, <1>3, <1>4, <1>5 DEF LastHops

LEMMA RenamePreserves ==
  ASSUME MutationInv, NEW t \in Threads, Rename(t)
  PROVE  MutationInv'
<1> DEFINE o == Op(t)
           hop == call[t].hop
           s == Source(o, hop)
           d == Target(o, hop)
           last == IF hop \in LastHops THEN {o} ELSE {}
<1>0. /\ TypeOK /\ StateInv /\ ThreadInv(t) /\ call[t].pc = "rename" /\ lock = t
      /\ UNCHANGED <<plan, disk, journal, flushed, told, faults, edits>>
  BY InvParts DEF Rename, At, ThreadInv
<1>1. /\ o \in Ops /\ plan[o] # None /\ hop \in HopsOf(plan[o].kind) /\ hop \in Hops
      /\ vault \in Vault /\ journal \in Journal /\ flushed \in Journal /\ told \subseteq Ops
      /\ flushed.intents \subseteq journal.intents /\ flushed.done \subseteq journal.done
      /\ journal.done \subseteq disk.placed /\ faults \in 0 .. MaxFaults
      /\ "confirm" \in Steps
  BY <1>0 DEF ThreadInv, TypeOK, StateInv, Steps
<1>2. CASE ~CanRename(o, hop)
  BY <1>0, <1>1, <1>2, RefusePreserves DEF Rename
<1>3. CASE CanRename(o, hop)
  <2>1. vault' = Renames(o, hop) /\ Goto(t, "confirm") /\ lock' = lock
    BY <1>3 DEF Rename
  <2>2. /\ vault' \in Vault
        /\ vault'.moved = vault.moved \cup last /\ vault'.placed = vault.placed \cup last
        /\ vault'.manifest = vault.manifest
        /\ hop = "publish" => vault'.at = vault.at /\ vault'.area = [vault.area EXCEPT ![o] = "items"]
        /\ hop # "publish" => /\ vault'.area = vault.area
                              /\ vault'.at = [vault.at EXCEPT ![d] = vault.at[s], ![s] = None]
    <3> HIDE DEF o, hop
    <3> QED
      BY <1>0, <1>1, <2>1, RenamesFacts DEF s, d, last
  <2>3. PICK c \in CallOf : Moves(t, c) /\ c.pc = "confirm" /\ c.hop = hop
    BY <1>0, <1>1, <2>1, GotoMoves
  <2>4. hop # "publish" => /\ s \in Slots /\ d \in Slots /\ s # d
                           /\ vault'.at[s] = None /\ vault'.at[d] = vault.at[s]
                           /\ \A x \in Slots \ {s, d} : vault'.at[x] = vault.at[x]
                           /\ vault.at[s] # None /\ vault.at[d] = None
    <3>1. hop # "publish" => s \in Slots /\ d \in Slots /\ s # d
      BY <1>0, <1>1, PathFacts
    <3>2. hop # "publish" => vault.at[s] # None /\ vault.at[d] = None
      BY <1>3 DEF CanRename, Here
    <3> QED
      BY <1>1, <2>2, <3>1, <3>2 DEF Vault
  <2>5. /\ hop = "park" => d = Temp(o) /\ s \in Names
        /\ hop = "unpark" => s = Temp(o) /\ d \in Names
        /\ hop = "stage" => d = Payload(o) /\ s \in Names
        /\ hop = "restore" => s = Payload(plan[o].id) /\ d \in Names
        /\ hop = "move" => s \in Names /\ d \in Names
    BY <1>0, <1>1, PathFacts
  <2>6. /\ hop = "move" <=> plan[o].kind = "move"
        /\ hop \in {"park", "unpark"} <=> plan[o].kind = "case"
        /\ hop \in {"stage", "publish"} <=> plan[o].kind = "trash"
        /\ hop = "restore" <=> plan[o].kind = "restore"
        /\ plan[o].id \in Ops
    BY <1>0, <1>1, PlanFacts DEF HopsOf, Kinds
  <2>7. /\ hop \in LastHops => o \notin vault.moved
        /\ hop \in {"move", "park"} => call[t].fresh /\ o \in flushed.intents /\ o \notin vault.moved
        /\ hop = "unpark" => o \in flushed.intents
        /\ hop \in {"stage", "publish"} => vault.area[o] = "staging"
        /\ hop = "publish" => vault.manifest[o] # None
        /\ hop = "restore" => vault.area[plan[o].id] = "items"
    BY <1>0, <1>3, <2>6, RenameIsFirst DEF ThreadInv, Before
  <2>8. /\ \A p \in Ops : vault.area[p] = "items" => vault'.area[p] = "items"
        /\ \A p \in Ops \ {o} : vault'.area[p] = vault.area[p]
        /\ hop = "publish" => vault'.area[o] = "items"
        /\ hop # "publish" => vault'.area = vault.area
    BY <1>1, <2>2 DEF Vault
  <2>9. /\ \A p \in Ops : vault'.at[Temp(p)] # None =>
                             vault.at[Temp(p)] # None \/ (p = o /\ hop = "park")
        /\ \A p \in Ops : vault'.at[Payload(p)] # None =>
                             vault.at[Payload(p)] # None \/ (p = o /\ hop = "stage")
        /\ hop = "unpark" => vault'.at[Temp(o)] = None
        /\ hop = "restore" => vault'.at[Payload(plan[o].id)] = None
    <3> HIDE DEF o, hop, s, d
    <3>1. CASE hop = "publish"
      BY <2>2, <3>1
    <3>2. CASE hop # "publish"
      BY <1>1, <2>4, <2>5, <3>2, SlotFacts DEF Hops
    <3> QED
      BY <3>1, <3>2
  <2>10. Closed(vault)'
    <3> HIDE DEF o, hop, s, d
    <3> SUFFICES ASSUME NEW p \in vault'.moved
                 PROVE  /\ plan[p] # None
                        /\ plan[p].kind = "case" => vault'.at[Temp(p)] = None
                        /\ plan[p].kind = "trash" => vault'.area[p] = "items"
                        /\ plan[p].kind = "restore" =>
                             /\ vault'.area[plan[p].id] = "items"
                             /\ vault'.at[Payload(plan[p].id)] = None
      BY <1>0 DEF Closed
    <3>0. p \in Ops /\ p \in vault.moved \cup last
      BY <2>2 DEF Vault
    <3>1. CASE p \in vault.moved
      <4>1. /\ plan[p] # None
            /\ plan[p].kind = "case" => vault.at[Temp(p)] = None
            /\ plan[p].kind = "trash" => vault.area[p] = "items"
            /\ plan[p].kind = "restore" =>
                 vault.area[plan[p].id] = "items" /\ vault.at[Payload(plan[p].id)] = None
        BY <1>0, <3>1 DEF StateInv, Closed
      <4>2. plan[p].id \in Ops
        BY <1>0, <3>0, <4>1, PlanFacts
      <4> QED
        BY <2>7, <2>8, <2>9, <3>0, <3>1, <4>1, <4>2
    <3>2. CASE p \in last
      <4>1. p = o /\ hop \in LastHops
        BY <3>2 DEF o, hop
      <4> QED
        BY <1>1, <2>6, <2>7, <2>8, <2>9, <4>1 DEF LastHops
    <3> QED
      BY <3>0, <3>1, <3>2
  <2>11. Explained(vault)'
    <3> HIDE DEF o, hop, s, d
    <3>1. Described' = Described /\ (hop \in {"publish", "restore"} => o \in Described)
      BY <1>0, <1>1, <2>6 DEF Described
    <3>2. \A p \in Ops : vault'.area[p] = "items" => vault'.manifest[p] # None
      BY <1>0, <2>2, <2>7, <2>8 DEF StateInv, Explained
    <3>3. \A p \in Ops : vault'.at[Temp(p)] # None => p \in flushed.intents
      BY <1>0, <2>7, <2>9 DEF StateInv, Explained
    <3>4. last \subseteq flushed.intents \cup Described
      BY <2>7, <3>1 DEF last, LastHops, o, hop
    <3> QED
      BY <1>0, <2>2, <3>1, <3>2, <3>3, <3>4 DEF StateInv, Explained
  <2>12. \A u \in Threads \ {t} :
           call[u].fresh /\ Before(u) =>
             Op(u) \notin vault'.moved /\ vault'.at[Temp(Op(u))] = None
    <3> SUFFICES ASSUME NEW u \in Threads \ {t}, call[u].fresh, Before(u)
                 PROVE  Op(u) \notin vault'.moved /\ vault'.at[Temp(Op(u))] = None
      OBVIOUS
    <3>1. /\ ThreadInv(u) /\ Op(u) \in Ops
          /\ Op(u) \notin vault.moved /\ vault.at[Temp(Op(u))] = None
          /\ plan[Op(u)].kind \in {"move", "case"}
      BY InvParts DEF ThreadInv, Before
    <3>2. call[t].fresh => Op(u) # o
      BY <3>1 DEF ThreadInv
    <3> HIDE DEF o, hop, s, d
    <3>3. CASE Op(u) # o
      BY <2>2, <2>9, <3>1, <3>3 DEF last
    <3>4. CASE Op(u) = o
      <4>1. hop = "unpark"
        BY <2>6, <2>7, <3>1, <3>2, <3>4
      <4> QED
        BY <2>4, <2>5, <3>1, <3>4, <4>1
    <3> QED
      BY <3>3, <3>4
  <2>13. ThreadInv(t)'
    <3> HIDE DEF s, d
    <3>1. hop \in LastHops => o \in vault'.placed
      BY <2>2
    <3> QED
      BY <1>0, <1>1, <2>1, <2>3, <2>7, <3>1 DEF ThreadInv, Op, Before, Moves
  <2> QED
    <3> HIDE DEF s, d, last
    <3> QED
      BY <1>0, <1>1, <2>1, <2>2, <2>3, <2>10, <2>11, <2>12, <2>13, VaultStepPreserves DEF Moves
<1> QED
  BY <1>2, <1>3
-----------------------------------------------------------------------------
(* The world. *)

\* After a crash or a power failure no call is left, and the vault is one of two
\* that were closed and explained.
LEMMA RestartPreserves ==
  ASSUME MutationInv, NEW I, Restarts(I),
         vault' \in {vault, disk}, disk' \in {disk, vault'}, journal' \in Journal, flushed' \in Journal,
         disk.placed \subseteq disk'.placed,
         flushed.intents \subseteq flushed'.intents, flushed'.intents \subseteq journal'.intents,
         flushed'.done \subseteq journal'.done, journal'.done \subseteq journal.done,
         disk'.moved \subseteq vault'.moved, disk'.placed \subseteq vault'.placed,
         UNCHANGED <<told, edits>>
  PROVE  MutationInv'
<1>0. /\ TypeOK /\ StateInv
      /\ plan' \in [Ops -> Operation \cup {None}] /\ Described' = Described
      /\ \A o \in Ops : /\ plan'[o] = None <=> plan[o] = None
                        /\ plan[o] # None => /\ plan'[o].kind = plan[o].kind
                                             /\ plan'[o].id = plan[o].id
  BY InvParts, RestartKeepsPlans
<1>1. call' = [t \in Threads |-> Idle] /\ lock' = None
      /\ faults' \in 0 .. MaxFaults
  BY <1>0, BoundsAssumption DEF Restarts, TypeOK
<1>2. TypeOK'
  BY <1>0, <1>1 DEF TypeOK, Idle, Steps, Hops
<1>3. ASSUME NEW t \in Threads PROVE ThreadInv(t)'
  BY <1>1 DEF ThreadInv, Idle
<1>4. Closed(vault)' /\ Closed(disk)'
  BY <1>0 DEF StateInv, Closed, TypeOK, Vault
<1>5. Explained(vault)' /\ Explained(disk)'
  BY <1>0 DEF StateInv, Explained
<1>6. StateInv'
  BY <1>0, <1>4, <1>5 DEF StateInv
<1>7. (\A t \in Threads : ThreadInv(t))'
  BY <1>3
<1> QED
  BY <1>2, <1>6, <1>7, InvPartsNext

LEMMA CrashPreserves == MutationInv /\ Crash => MutationInv'
<1> SUFFICES ASSUME MutationInv, Crash PROVE MutationInv'
  OBVIOUS
<1>1. TypeOK /\ StateInv
  BY InvParts
<1> QED
  BY <1>1, RestartPreserves DEF Crash, TypeOK, StateInv

LEMMA PowerFailurePreserves == MutationInv /\ PowerFailure => MutationInv'
<1> SUFFICES ASSUME MutationInv, PowerFailure PROVE MutationInv'
  OBVIOUS
<1>1. TypeOK /\ StateInv
  BY InvParts
<1>2. PICK v \in {vault, disk}, i \in {journal.intents, flushed.intents},
           d \in {journal.done, flushed.done} :
        /\ vault' = v /\ disk' = v
        /\ journal' = [intents |-> i, done |-> d] /\ flushed' = journal'
        /\ Restarts(i)
  BY DEF PowerFailure
<1>3. journal' \in Journal /\ flushed' \in Journal /\ journal'.intents = i /\ journal'.done = d
  BY <1>1, <1>2 DEF TypeOK, Journal
<1> QED
  BY <1>1, <1>2, <1>3, RestartPreserves DEF PowerFailure, TypeOK, StateInv

LEMMA EditPreserves ==
  ASSUME MutationInv, NEW n \in Names, NEW r \in Revs \cup {None}, Edit(n, r)
  PROVE  MutationInv'
<1>0. /\ TypeOK /\ StateInv /\ \A t \in Threads : ThreadInv(t)
      /\ UNCHANGED <<plan, disk, journal, flushed, call, lock, told, faults>>
      /\ edits' \in 0 .. MaxEdits
  BY InvParts, BoundsAssumption DEF Edit, TypeOK
<1> DEFINE w == [vault EXCEPT !.at[n] = r]
<1>1. vault' = w
  BY DEF Edit
<1>2. /\ w \in Vault /\ w.moved = vault.moved /\ w.placed = vault.placed
      /\ w.area = vault.area /\ w.manifest = vault.manifest
      /\ \A x \in Slots \ {n} : w.at[x] = vault.at[x]
  BY <1>0, SlotFacts DEF TypeOK, Vault
<1> HIDE DEF w
<1>3. \A o \in Ops : w.at[Temp(o)] = vault.at[Temp(o)] /\ w.at[Payload(o)] = vault.at[Payload(o)]
  BY <1>2, SlotFacts
<1>4. Described' = Described
  BY <1>0 DEF Described
<1>5. TypeOK'
  BY <1>0, <1>1, <1>2 DEF TypeOK
<1>6. Closed(vault)'
  <2>1. \A o \in vault.moved : o \in Ops /\ (plan[o] # None => plan[o].id \in Ops)
    BY <1>0, PlanFacts DEF TypeOK, Vault
  <2> QED
    BY <1>0, <1>1, <1>2, <1>3, <2>1 DEF StateInv, Closed
<1>7. StateInv'
  BY <1>0, <1>1, <1>2, <1>3, <1>4, <1>6 DEF StateInv, Explained, Closed
<1>8. ASSUME NEW t \in Threads PROVE ThreadInv(t)'
  BY <1>0, <1>1, <1>2, <1>3 DEF ThreadInv, Op, Before
<1> QED
  BY <1>5, <1>7, <1>8, InvPartsNext

LEMMA PlansPreserve ==
  ASSUME MutationInv, NEW o \in Ops
  PROVE  /\ \A n \in Names : PlanTrash(o, n) => MutationInv'
         /\ \A i \in Ops : PlanRestore(o, i) => MutationInv'
         /\ \A n, m \in Names : PlanNormalMove(o, n, m) \/ PlanCaseRename(o, n, m) => MutationInv'
<1>0. TypeOK /\ StateInv /\ vault \in Vault /\ \A n \in Names : vault.at[n] \in Revs \cup {None}
  BY InvParts, SlotFacts DEF TypeOK, Vault
<1>1. ASSUME NEW n \in Names, PlanTrash(o, n) PROVE MutationInv'
  <2>1. TrashOperation(o, n, vault.at[n]) \in Operation
    BY <1>0, <1>1 DEF PlanTrash, TrashOperation, Operation, Related, Kinds
  <2> QED
    BY <1>1, <2>1, PlannedPreserves DEF PlanTrash
<1>2. ASSUME NEW i \in Ops, PlanRestore(o, i) PROVE MutationInv'
  <2>1. vault.manifest[i] \in Manifest
    BY <1>0, <1>2 DEF PlanRestore, StateInv, Explained, Vault
  <2>2. RestoreOperation(i, vault.manifest[i]) \in Operation
    BY <2>1 DEF RestoreOperation, Operation, Related, Kinds, Manifest
  <2> QED
    BY <1>2, <2>2, PlannedPreserves DEF PlanRestore
<1>3. ASSUME NEW n \in Names, NEW m \in Names, PlanNormalMove(o, n, m) PROVE MutationInv'
  <2>1. NormalMoveOperation(o, n, m, vault.at[n]) \in Operation
    BY <1>0, <1>3 DEF PlanNormalMove, NormalMoveOperation, Operation, Related, Kinds
  <2> QED
    BY <1>3, <2>1, PlannedPreserves DEF PlanNormalMove
<1>4. ASSUME NEW n \in Names, NEW m \in Names, PlanCaseRename(o, n, m) PROVE MutationInv'
  <2>1. CaseRenameOperation(o, n, m, vault.at[n]) \in Operation
    BY <1>0, <1>4 DEF PlanCaseRename, CaseRenameOperation, Operation, Related, Kinds
  <2> QED
    BY <1>4, <2>1, PlannedPreserves DEF PlanCaseRename
<1> QED
  BY <1>1, <1>2, <1>3, <1>4

\* Every step keeps the invariant.
LEMMA NextPreserves == MutationInv /\ [Next]_vars => MutationInv'
<1> SUFFICES ASSUME MutationInv, [Next]_vars PROVE MutationInv'
  OBVIOUS
<1>1. CASE UNCHANGED vars
  <2>1. UNCHANGED <<plan, vault, disk, journal, flushed, call, lock, told, faults, edits>>
    BY <1>1 DEF vars
  <2>2. TypeOK' /\ StateInv'
    BY <2>1, InvParts DEF TypeOK, StateInv, Closed, Explained, Described
  <2>3. ASSUME NEW t \in Threads PROVE ThreadInv(t)'
    BY <2>1, InvParts DEF ThreadInv, Op, Before
  <2> QED
    BY <2>2, <2>3, InvPartsNext
<1>2. ASSUME NEW t \in Threads, Step(t) PROVE MutationInv'
  BY <1>2, PublishIntentPreserves, SyncIntentPreserves, CompletePreserves, SyncTombstonePreserves,
    PrepareManifestPreserves, WriteManifestPreserves, SyncManifestPreserves, CheckPreserves,
    RenamePreserves, ConfirmPreserves
  DEF Step
<1> QED
  BY <1>1, <1>2, PlansPreserve, CallPreserves, CrashPreserves, PowerFailurePreserves, EditPreserves
  DEF Next

\* The state of every call, the lock, the journal and what is durable of it all
\* fit together in every reachable state (MutationService, RecoveryJournal).
THEOREM MutationInvHolds == Spec => []MutationInv
BY InitHasInv, NextPreserves, PTL DEF Spec
-----------------------------------------------------------------------------
(* The properties of the run. *)

\* A file that comes back where a move, a case rename, a trash or a restore took
\* it from is not moved a second time, however often the operation is resumed and
\* whatever a crash or a power failure took back (continue_* of MutationService).
THEOREM MovedOnceHolds == Spec => MovedOnce
<1>1. ASSUME MutationInv, NEW o \in Ops,
             \E t \in Threads : Op(t) = o /\ call[t].hop \in LastHops /\ Rename(t) /\ vault' # vault
      PROVE  o \notin vault.moved
  <2>1. PICK t \in Threads : Op(t) = o /\ call[t].hop \in LastHops /\ Rename(t) /\ vault' # vault
    BY <1>1
  <2>2. call[t].pc = "rename" /\ CanRename(Op(t), call[t].hop)
    BY <2>1 DEF Rename, At
  <2> QED
    BY <1>1, <2>1, <2>2, RenameIsFirst
<1>2. MutationInv /\ [Next]_vars =>
        [\A o \in Ops :
          (\E t \in Threads : Op(t) = o /\ call[t].hop \in LastHops /\ Rename(t) /\ vault' # vault)
            => o \notin vault.moved]_vars
  BY <1>1
<1> QED
  BY <1>2, MutationInvHolds, PTL DEF Spec, MovedOnce

LEMMA SlotsAreFinite == IsFiniteSet(Slots)
<1>1. IsFiniteSet(Temps)
  <2>1. [o \in Ops |-> Temp(o)] \in Surjection(Ops, Temps)
    BY DEF Surjection, Temps
  <2> QED
    BY <2>1, FiniteAssumption, FS_Surjection
<1>2. IsFiniteSet(Payloads)
  <2>1. [o \in Ops |-> Payload(o)] \in Surjection(Ops, Payloads)
    BY DEF Surjection, Payloads
  <2> QED
    BY <2>1, FiniteAssumption, FS_Surjection
<1>3. IsFiniteSet(Names \cup Temps)
  BY <1>1, FiniteAssumption, FS_Union
<1> QED
  BY <1>2, <1>3, FS_Union DEF Slots

\* Moving what is at s to the empty place d keeps the number of its copies.
LEMMA MovingKeepsCopies ==
  ASSUME vault \in Vault, vault' \in Vault, NEW s \in Slots, NEW d \in Slots, s # d,
         vault.at[s] # None, vault.at[d] = None,
         vault'.at = [vault.at EXCEPT ![d] = vault.at[s], ![s] = None],
         NEW r \in Revs
  PROVE  Copies(vault', r) = Copies(vault, r)
<1> DEFINE S == {x \in Slots : vault.at[x] = r}
           T == {x \in Slots : vault'.at[x] = r}
<1>0. r # None
  BY NamesAssumption
<1>1. IsFiniteSet(S) /\ Cardinality(S) \in Nat
  BY SlotsAreFinite, FS_Subset, FS_CardinalityType
<1>2. vault'.at[s] = None /\ vault'.at[d] = vault.at[s]
      /\ \A x \in Slots \ {s, d} : vault'.at[x] = vault.at[x]
  BY DEF Vault
<1>3. CASE vault.at[s] # r
  <2>1. T = S
    BY <1>0, <1>2, <1>3
  <2> QED
    BY <2>1 DEF Copies
<1>4. CASE vault.at[s] = r
  <2>1. T = (S \ {s}) \cup {d} /\ s \in S /\ d \notin S \ {s}
    BY <1>0, <1>2, <1>4
  <2> HIDE DEF S, T
  <2>2. IsFiniteSet(S \ {s}) /\ Cardinality(S \ {s}) = Cardinality(S) - 1
    BY <1>1, <2>1, FS_RemoveElement
  <2>3. Cardinality((S \ {s}) \cup {d}) = Cardinality(S \ {s}) + 1
    BY <2>1, <2>2, FS_AddElement
  <2>4. Cardinality(T) = Cardinality(S)
    BY <1>1, <2>1, <2>2, <2>3
  <2> QED
    BY <2>4 DEF Copies, S, T
<1> QED
  BY <1>3, <1>4

LEMMA StepKeepsCopies ==
  ASSUME MutationInv, NEW t \in Threads, Step(t), NEW r \in Revs
  PROVE  Copies(vault', r) = Copies(vault, r)
<1> DEFINE o == Op(t)
           hop == call[t].hop
<1>0. TypeOK /\ TypeOK' /\ ThreadInv(t) /\ vault \in Vault /\ vault' \in Vault
  <2>1. MutationInv'
    BY NextPreserves DEF Next
  <2> QED
    BY <2>1, InvParts, InvPartsNext DEF TypeOK
<1>1. CASE vault'.at = vault.at
  BY <1>1 DEF Copies
<1>2. CASE Rename(t) /\ vault'.at # vault.at
  <2>1. /\ o \in Ops /\ plan[o] # None /\ hop \in HopsOf(plan[o].kind)
        /\ CanRename(o, hop) /\ vault' = Renames(o, hop)
    BY <1>0, <1>2 DEF Rename, At, ThreadInv
  <2> HIDE DEF o, hop
  <2>2. /\ hop # "publish"
        /\ vault'.at = [vault.at EXCEPT ![Target(o, hop)] = vault.at[Source(o, hop)],
                                        ![Source(o, hop)] = None]
    BY <1>0, <1>2, <2>1, RenamesFacts
  <2>3. /\ Source(o, hop) \in Slots /\ Target(o, hop) \in Slots /\ Source(o, hop) # Target(o, hop)
        /\ vault.at[Source(o, hop)] # None /\ vault.at[Target(o, hop)] = None
    BY <1>0, <2>1, <2>2, PathFacts DEF CanRename, Here
  <2> QED
    BY <1>0, <2>2, <2>3, MovingKeepsCopies
<1>3. Rename(t) \/ vault'.at = vault.at
  <2>1. PrepareManifest(t) => vault'.at = vault.at
    BY <1>0 DEF PrepareManifest, Vault
  <2>2. WriteManifest(t) => vault'.at = vault.at
    BY <1>0 DEF WriteManifest, Vault
  <2>3. Check(t) => vault'.at = vault.at
    BY <1>0 DEF Check, Vault
  <2> QED
    BY <2>1, <2>2, <2>3
    DEF Step, PublishIntent, SyncIntent, Complete, SyncTombstone, SyncManifest, Confirm
<1> QED
  BY <1>1, <1>2, <1>3

\* No rename of the application overwrites or loses a content, whatever another
\* program puts in its way between the check and the rename (rename_noreplace).
THEOREM ContentsAreKeptHolds == Spec => ContentsAreKept
<1>1. MutationInv /\ [Next]_vars =>
        [AppStep => \A r \in Revs : Copies(vault', r) = Copies(vault, r)]_vars
  BY StepKeepsCopies DEF AppStep
<1> QED
  BY <1>1, MutationInvHolds, PTL DEF Spec, ContentsAreKept
-----------------------------------------------------------------------------
(* The journal's promise. *)

\* A step that leaves what is durable, told and described as it is.
LEMMA StutterStep ==
  ASSUME UNCHANGED <<disk, flushed, told>>, Described' = Described
  PROVE  UNCHANGED Promise!vars
BY DEF Promise!vars, Described

\* A step that syncs the vault, or no part of it, is a placement or nothing.
LEMMA PlaceStep ==
  ASSUME MutationInv, MutationInv', UNCHANGED <<plan, flushed, told>>,
         \/ disk' = disk
         \/ disk' = vault' /\ vault'.moved = vault.moved /\ vault.placed \subseteq vault'.placed
  PROVE  [Promise!Next]_(Promise!vars)
<1>0. TypeOK /\ TypeOK' /\ StateInv /\ StateInv' /\ Described' = Described
  BY InvParts, InvPartsNext DEF Described
<1>1. CASE disk' = disk
  BY <1>0, <1>1, StutterStep
<1>2. CASE disk' = vault' /\ vault'.moved = vault.moved /\ vault.placed \subseteq vault'.placed
  <2> DEFINE M == vault.moved
             S == vault'.placed
  <2>1. /\ M \in SUBSET Ops /\ S \in SUBSET Ops
        /\ M \subseteq flushed.intents \cup Described /\ M \subseteq S
        /\ disk'.moved = disk.moved \cup M /\ disk'.placed = disk.placed \cup S
    BY <1>0, <1>2 DEF TypeOK, Vault, StateInv, Explained
  <2> HIDE DEF M, S
  <2>2. Promise!Place(M, S)
    BY <1>0, <2>1 DEF Promise!Place, Described
  <2> QED
    BY <2>1, <2>2 DEF Promise!Next
<1> QED
  BY <1>1, <1>2

LEMMA PlanStep ==
  ASSUME NEW o \in Ops, NEW p, TypeOK, Planned(o, p)
  PROVE  [Promise!Next]_(Promise!vars)
<1>1. /\ \A q \in Ops \ {o} : plan'[q] = plan[q]
      /\ plan[o] = None /\ UNCHANGED <<disk, flushed, told>>
  BY DEF Planned, TypeOK
<1>2. CASE o \in Described'
  <2>1. Described' = Described \cup {o}
    BY <1>1, <1>2 DEF Described
  <2>2. Promise!Plan(o)
    BY <1>1, <2>1 DEF Promise!Plan, Described
  <2> QED
    BY <2>2 DEF Promise!Next
<1>3. CASE o \notin Described'
  <2>1. Described' = Described
    BY <1>1, <1>3 DEF Described
  <2> QED
    BY <1>1, <2>1, StutterStep
<1> QED
  BY <1>2, <1>3

LEMMA ThreadStepKeepsPromise ==
  ASSUME MutationInv, MutationInv', NEW t \in Threads, Step(t)
  PROVE  [Promise!Next]_(Promise!vars)
<1>0. TypeOK /\ StateInv /\ ThreadInv(t) /\ vault \in Vault
  BY InvParts DEF TypeOK
<1>1. CASE PublishIntent(t) \/ Complete(t) \/ WriteManifest(t) \/ Rename(t)
  <2>1. UNCHANGED <<plan, disk, flushed, told>>
    BY <1>1 DEF PublishIntent, Complete, WriteManifest, Rename
  <2> QED
    BY <2>1, PlaceStep
<1>2. CASE SyncManifest(t) \/ Confirm(t)
  <2>1. UNCHANGED <<plan, vault, flushed, told>> /\ disk' \in {disk, vault}
    BY <1>2 DEF SyncManifest, Confirm
  <2> QED
    BY <2>1, PlaceStep
<1>3. CASE PrepareManifest(t)
  <2>1. /\ UNCHANGED <<plan, flushed, told>> /\ disk' \in {disk, vault'}
        /\ vault'.moved = vault.moved /\ vault'.placed = vault.placed
    BY <1>0, <1>3 DEF PrepareManifest, Vault
  <2> QED
    BY <2>1, PlaceStep
<1>4. CASE Check(t)
  <2>1. UNCHANGED <<plan, flushed, told>> /\ disk' \in {disk, vault'}
    BY <1>4 DEF Check
  <2>2. vault' \in {vault, [vault EXCEPT !.placed = @ \cup {Op(t)}]}
    BY <1>4 DEF Check
  <2>3. vault'.moved = vault.moved /\ vault.placed \subseteq vault'.placed
    BY <1>0, <2>2 DEF Vault
  <2> QED
    BY <2>1, <2>3, PlaceStep
<1>5. CASE SyncIntent(t)
  <2>1. PICK ok \in BOOLEAN :
          flushed' = IF ok THEN [flushed EXCEPT !.intents = journal.intents] ELSE flushed
    BY <1>5 DEF SyncIntent
  <2>2. UNCHANGED <<plan, disk, told>> /\ Described' = Described
    BY <1>5 DEF SyncIntent, Described
  <2>3. CASE ~ok
    BY <2>1, <2>2, <2>3, StutterStep
  <2>4. CASE ok
    <3> DEFINE I == journal.intents
    <3>1. /\ I \in SUBSET Ops /\ flushed'.intents = flushed.intents \cup I
          /\ flushed'.done = flushed.done
      BY <1>0, <2>1, <2>4 DEF TypeOK, Journal, StateInv
    <3> HIDE DEF I
    <3>2. Promise!Record(I)
      BY <2>2, <3>1 DEF Promise!Record, Described
    <3> QED
      BY <3>1, <3>2 DEF Promise!Next
  <2> QED
    BY <2>3, <2>4
<1>6. CASE SyncTombstone(t)
  <2>1. PICK ok \in BOOLEAN :
          /\ flushed' = IF ok THEN [flushed EXCEPT !.done = journal.done] ELSE flushed
          /\ told' = IF ok THEN told \cup {Op(t)} ELSE told
    BY <1>6 DEF SyncTombstone
  <2>2. UNCHANGED <<plan, disk>> /\ Described' = Described
    BY <1>6 DEF SyncTombstone, Described
  <2>3. CASE ~ok
    BY <2>1, <2>2, <2>3, StutterStep
  <2>4. CASE ok
    <3> DEFINE F == journal.done
               o == Op(t)
    <3>1. /\ F \in SUBSET Ops /\ o \in Ops /\ o \in F /\ F \subseteq disk.placed
          /\ flushed'.done = flushed.done \cup F /\ flushed'.intents = flushed.intents
          /\ told' = told \cup {o}
      BY <1>0, <1>6, <2>1, <2>4 DEF SyncTombstone, At, TypeOK, Journal, StateInv, ThreadInv
    <3> HIDE DEF F, o
    <3>2. Promise!Finish(F, o)
      BY <2>2, <3>1 DEF Promise!Finish, Described
    <3> QED
      BY <3>1, <3>2 DEF Promise!Next
  <2> QED
    BY <2>3, <2>4
<1> QED
  BY <1>1, <1>2, <1>3, <1>4, <1>5, <1>6 DEF Step

LEMMA PowerFailureKeepsPromise ==
  ASSUME MutationInv, PowerFailure
  PROVE  [Promise!Next]_(Promise!vars)
<1>1. PICK v \in {vault, disk}, i \in {journal.intents, flushed.intents},
           d \in {journal.done, flushed.done} :
        /\ vault' = v /\ disk' = v
        /\ journal' = [intents |-> i, done |-> d] /\ flushed' = journal'
        /\ Restarts(i)
  BY DEF PowerFailure
<1>2. TypeOK /\ StateInv /\ Described' = Described /\ told' = told
  BY <1>1, InvParts, RestartKeepsPlans DEF PowerFailure
<1> DEFINE M == v.moved
           S == v.placed
<1>3. /\ i \in SUBSET Ops /\ M \in SUBSET Ops /\ S \in SUBSET Ops /\ d \in SUBSET Ops
      /\ M \subseteq flushed.intents \cup Described /\ M \subseteq S /\ d \subseteq disk.placed
      /\ flushed'.intents = flushed.intents \cup i /\ flushed'.done = flushed.done \cup d
      /\ disk'.moved = disk.moved \cup M /\ disk'.placed = disk.placed \cup S
  BY <1>1, <1>2 DEF TypeOK, Journal, Vault, StateInv, Explained
<1> HIDE DEF M, S
<1>4. Promise!Settle(i, M, S, d)
  BY <1>2, <1>3 DEF Promise!Settle, Described
<1> QED
  BY <1>3, <1>4 DEF Promise!Next

\* Every step of the service is a step of the promise, or none.
LEMMA StepKeepsPromise == MutationInv /\ MutationInv' /\ [Next]_vars => [Promise!Next]_(Promise!vars)
<1> SUFFICES ASSUME MutationInv, MutationInv', [Next]_vars PROVE [Promise!Next]_(Promise!vars)
  OBVIOUS
<1>0. TypeOK
  BY InvParts
<1>1. CASE UNCHANGED vars
  BY <1>1, StutterStep DEF vars, Described
<1>2. ASSUME NEW o \in Ops, NEW n \in Names,
             \/ PlanTrash(o, n)
             \/ \E m \in Names : PlanNormalMove(o, n, m) \/ PlanCaseRename(o, n, m)
      PROVE  [Promise!Next]_(Promise!vars)
  BY <1>0, <1>2, PlanStep DEF PlanTrash, PlanNormalMove, PlanCaseRename
<1>3. ASSUME NEW o \in Ops, NEW i \in Ops, PlanRestore(o, i)
      PROVE  [Promise!Next]_(Promise!vars)
  BY <1>0, <1>3, PlanStep DEF PlanRestore
<1>4. ASSUME NEW t \in Threads, NEW o \in Ops, Call(t, o) PROVE [Promise!Next]_(Promise!vars)
  BY <1>4, PlaceStep DEF Call
<1>5. ASSUME NEW n \in Names, NEW r \in Revs \cup {None}, Edit(n, r)
      PROVE  [Promise!Next]_(Promise!vars)
  BY <1>5, PlaceStep DEF Edit
<1>6. CASE Crash
  <2>1. Described' = Described
    BY <1>0, <1>6, RestartKeepsPlans DEF Crash
  <2> QED
    BY <1>6, <2>1, StutterStep DEF Crash
<1> QED
  BY <1>1, <1>2, <1>3, <1>4, <1>5, <1>6, ThreadStepKeepsPromise, PowerFailureKeepsPromise
  DEF Next

LEMMA InitKeepsPromise == Init => Promise!Init
BY DEF Init, Promise!Init

\* The intent is durable before the file moves, the move before the tombstone and
\* the tombstone before the caller is told: the service with its vault, journal,
\* crashes and power failures implements DurableIntent, whose promise follows.
THEOREM DurableInOrderHolds == Spec => DurableInOrder
BY InitKeepsPromise, StepKeepsPromise, MutationInvHolds, PTL
DEF Spec, DurableInOrder, Promise!Spec

\* What follows from the promise alone.  Both halves are inductive together as they
\* stand: every action adds to a set only what the guards found in the set before it.
PromiseInv == Promise!ToldIsDurable /\ Promise!MovedIsExplained

LEMMA PromiseInit == Promise!Init => PromiseInv
BY DEF Promise!Init, PromiseInv, Promise!ToldIsDurable, Promise!MovedIsExplained

LEMMA PromisePreserves == PromiseInv /\ [Promise!Next]_(Promise!vars) => PromiseInv'
<1> SUFFICES ASSUME PromiseInv, [Promise!Next]_(Promise!vars) PROVE PromiseInv'
  OBVIOUS
<1> USE DEF PromiseInv, Promise!ToldIsDurable, Promise!MovedIsExplained
<1>1. ASSUME NEW o \in Ops, Promise!Plan(o) PROVE PromiseInv'
  BY <1>1 DEF Promise!Plan
<1>2. ASSUME NEW S \in SUBSET Ops, Promise!Record(S) PROVE PromiseInv'
  BY <1>2 DEF Promise!Record
<1>3. ASSUME NEW S \in SUBSET Ops, NEW M \in SUBSET Ops, Promise!Place(M, S) PROVE PromiseInv'
  BY <1>3 DEF Promise!Place
<1>4. ASSUME NEW S \in SUBSET Ops, NEW o \in Ops, Promise!Finish(S, o) PROVE PromiseInv'
  BY <1>4 DEF Promise!Finish
<1>5. ASSUME NEW R \in SUBSET Ops, NEW M \in SUBSET Ops, NEW S \in SUBSET Ops,
             NEW F \in SUBSET Ops, Promise!Settle(R, M, S, F)
      PROVE  PromiseInv'
  BY <1>5 DEF Promise!Settle
<1>6. CASE UNCHANGED Promise!vars
  BY <1>6 DEF Promise!vars
<1> QED
  BY <1>1, <1>2, <1>3, <1>4, <1>5, <1>6 DEF Promise!Next

\* A caller of MutationService that was told its move, case rename, trash or restore
\* succeeded has a durable tombstone and a file durably in place, and no file has
\* durably moved for which neither the journal nor a manifest says why.
THEOREM PromiseKept == Spec => [](Promise!ToldIsDurable /\ Promise!MovedIsExplained)
<1>1. PromiseInv => Promise!ToldIsDurable /\ Promise!MovedIsExplained
  BY DEF PromiseInv
<1> QED
  BY <1>1, InitKeepsPromise, PromiseInit, StepKeepsPromise, PromisePreserves, MutationInvHolds,
    PTL
  DEF Spec

\* No step of the service, no crash and no power failure takes back what is durable
\* in the vault and the journal or what a caller was told.
THEOREM DurableForGood == Spec => Promise!NothingIsTakenBack
<1>1. [Promise!Next]_(Promise!vars) =>
        [/\ flushed.intents \subseteq (flushed.intents)' /\ disk.moved \subseteq (disk.moved)'
         /\ disk.placed \subseteq (disk.placed)'
         /\ flushed.done \subseteq (flushed.done)' /\ told \subseteq told']_(Promise!vars)
  BY DEF Promise!Next, Promise!vars, Promise!Plan, Promise!Record, Promise!Place,
    Promise!Finish, Promise!Settle
<1> QED
  BY <1>1, StepKeepsPromise, MutationInvHolds, PTL DEF Spec, Promise!NothingIsTakenBack
-----------------------------------------------------------------------------
(* What an operation that nobody disturbs leaves at its paths. *)

\* An id stands for the operation itself, or for the trash that a restore undoes.
PlanFits(o, p, undone) ==
  IF p.kind = "restore"
  THEN undone # None /\ undone.kind = "trash" /\ undone.from = p.to /\ undone.rev = p.rev
  ELSE p.id = o
PlansFit == \A o \in Ops : plan[o] # None => PlanFits(o, plan[o], plan[plan[o].id])
IntentsFit == \A o \in journal.intents : plan[o] # None

\* An item of the trash belongs to a trash operation and describes it.
ItemFits(v, o, p) ==
  /\ v.area[o] # "none" => p # None /\ p.kind = "trash"
  /\ v.manifest[o] # None => p # None /\ v.manifest[o] = [path |-> p.from, rev |-> p.rev]
ItemsFit == \A o \in Ops : ItemFits(vault, o, plan[o]) /\ ItemFits(disk, o, plan[o])

\* Before anything was planned or edited the vault is on the disk.
NothingPlanned == edits = 0 /\ \A o \in Ops : plan[o] = None
UntouchedFits ==
  NothingPlanned =>
    /\ disk = vault /\ vault.moved = {}
    /\ \A o \in Ops : /\ vault.area[o] = "none"
                       /\ vault.at[Temp(o)] = None /\ vault.at[Payload(o)] = None

\* How far an operation of each kind is, in the vault or on the disk: where its file was,
\* on its way, or where it goes.
MoveFits(v, o, p) ==
  IF o \in v.moved THEN v.at[p.from] = None /\ v.at[p.to] = p.rev
  ELSE v.at[p.from] = p.rev
CaseFits(v, o, p) ==
  IF o \in v.moved
  THEN v.at[p.from] = None /\ v.at[Temp(o)] = None /\ v.at[p.to] = p.rev
  ELSE \/ v.at[p.from] = p.rev /\ v.at[Temp(o)] = None
       \/ v.at[p.from] = None /\ v.at[p.to] = None /\ v.at[Temp(o)] = p.rev
TrashFits(v, o, p) ==
  \/ /\ v.at[p.from] = p.rev /\ v.at[Payload(o)] = None
     /\ v.area[o] # "items" /\ o \notin v.moved
  \/ /\ v.at[p.from] = None /\ v.at[Payload(o)] = p.rev
     /\ v.area[o] # "none" /\ (o \in v.moved => v.area[o] = "items")
RestoreFits(v, o, p) ==
  IF o \in v.moved
  THEN v.at[Payload(p.id)] = None /\ v.at[p.to] = p.rev /\ v.area[p.id] = "items"
  ELSE v.at[Payload(p.id)] = p.rev /\ v.at[p.to] = None /\ v.area[p.id] # "none"
Fits(v, o, p) == CASE p.kind = "move" -> MoveFits(v, o, p)
                   [] p.kind = "case" -> CaseFits(v, o, p)
                   [] p.kind = "trash" -> TrashFits(v, o, p)
                   [] OTHER -> RestoreFits(v, o, p)
Undisturbed(o) == plan[o] # None /\ edits = 0 /\ Alone(o)

\* Both sides of a power failure fit, and an item is published only once its payload is
\* durable.
FileFits(o) ==
  /\ Fits(vault, o, plan[o]) /\ Fits(disk, o, plan[o])
  /\ plan[o].kind = "trash" /\ vault.area[o] = "items" => disk.at[Payload(o)] # None
FilesFit == \A o \in Ops : Undisturbed(o) => FileFits(o)

\* What a call found of them: a case rename parks when its other name is free, and an item is
\* published with its payload.
CallFound(c) ==
  /\ c.pc = "rename" /\ c.hop = "park" => vault.at[plan[c.op].to] = None
  /\ c.pc \in {"check", "rename"} /\ c.hop = "publish" =>
       vault.at[Payload(c.op)] # None /\ disk.at[Payload(c.op)] # None
FoundFits ==
  \A t \in Threads : call[t].pc # "idle" /\ Undisturbed(Op(t)) => CallFound(call[t])

TopologyInv ==
  /\ MutationInv
  /\ PlansFit /\ IntentsFit /\ ItemsFit /\ UntouchedFits /\ FilesFit /\ FoundFits

\* Two vaults with the same files, and two plans that differ in what the process knows, fit
\* alike; a staging directory may have been made.
LEMMA FitsLike ==
  ASSUME NEW v, NEW w, NEW o \in Ops, NEW p, NEW q, p.id \in Ops,
         q.kind = p.kind, q.from = p.from, q.to = p.to, q.rev = p.rev, q.id = p.id,
         w.at = v.at, w.moved = v.moved,
         \A i \in Ops : w.area[i] = v.area[i] \/ (v.area[i] = "none" /\ w.area[i] = "staging"),
         Fits(v, o, p)
  PROVE  Fits(w, o, q)
<1>1. CASE p.kind = "move"
  BY <1>1 DEF Fits, MoveFits
<1>2. CASE p.kind = "case"
  BY <1>2 DEF Fits, CaseFits
<1>3. CASE p.kind = "trash"
  BY <1>3 DEF Fits, TrashFits
<1>4. CASE p.kind \notin {"move", "case", "trash"}
  BY <1>4 DEF Fits, RestoreFits
<1> QED
  BY <1>1, <1>2, <1>3, <1>4

\* Whoever is undisturbed shares the vault with the trash it restores at most.
LEMMA UndisturbedFacts ==
  ASSUME TypeOK, PlansFit, NEW o \in Ops, Undisturbed(o)
  PROVE  /\ plan[o] # None /\ edits = 0
         /\ \A q \in Ops : plan[q] # None => q = o \/ (plan[o].kind = "restore" /\ q = plan[o].id)
         /\ plan[o].kind = "restore" => /\ plan[o].id \in Ops /\ plan[plan[o].id] # None
                                        /\ plan[plan[o].id].kind = "trash"
                                        /\ plan[plan[o].id].from = plan[o].to
                                        /\ plan[plan[o].id].rev = plan[o].rev
<1>1. plan[o] # None /\ edits = 0 /\ \A q \in Ops \ {o} : plan[q] = None \/ q = plan[o].id
  BY DEF Undisturbed, Alone
<1>2. plan[o].id \in Ops /\ PlanFits(o, plan[o], plan[plan[o].id])
  BY <1>1, PlanFacts DEF PlansFit
<1> QED
  BY <1>1, <1>2 DEF PlanFits

\* The published item of an undisturbed trash has its payload in the vault.
LEMMA PublishedFacts ==
  ASSUME TypeOK, NEW o \in Ops, plan[o] # None, plan[o].kind = "trash", vault.area[o] = "items",
         Fits(vault, o, plan[o])
  PROVE  /\ vault.at[Payload(o)] = plan[o].rev /\ vault.at[plan[o].from] = None
         /\ vault.at[Payload(o)] # None
BY PlanFacts DEF Fits, TrashFits

\* A thread's step that moves no file: what it adds are items of its own trash operation, syncs,
\* intents and what the thread found.
LEMMA QuietPreserves ==
  ASSUME TopologyInv, MutationInv', NEW t \in Threads,
         \A u \in Threads \ {t} : call'[u] = call[u], UNCHANGED <<plan, edits>>,
         NEW o \in Ops, plan[o] # None,
         vault'.at = vault.at, vault'.moved = vault.moved,
         \A i \in Ops : \/ vault'.area[i] = vault.area[i]
                        \/ /\ vault.area[i] = "none" /\ vault'.area[i] = "staging"
                           /\ plan[i] # None /\ plan[i].kind = "trash",
         \A i \in Ops : \/ vault'.manifest[i] = vault.manifest[i]
                        \/ plan[i] # None /\ vault'.manifest[i] = Expected(i),
         disk' \in {disk, vault'},
         journal'.intents \subseteq journal.intents \cup {o},
         call'[t].pc # "idle" /\ Undisturbed(call'[t].op) => CallFound(call[t])'
  PROVE  TopologyInv'
<1> USE DEF TopologyInv
<1>0. TypeOK /\ TypeOK'
  BY DEF MutationInv
<1>1. PlansFit' /\ IntentsFit'
  BY DEF PlansFit, IntentsFit
<1>2. ItemsFit'
  BY DEF ItemsFit, ItemFits, Expected
<1>3. UntouchedFits'
  BY DEF UntouchedFits, NothingPlanned
<1>4. \A p : Undisturbed(p)' <=> Undisturbed(p)
  BY DEF Undisturbed, Alone
<1>5. FilesFit'
  <2> SUFFICES ASSUME NEW p \in Ops, Undisturbed(p) PROVE FileFits(p)'
    BY <1>4 DEF FilesFit
  <2>1. FileFits(p) /\ plan[p] # None /\ plan[p].id \in Ops
    BY <1>0, PlanFacts DEF FilesFit, Undisturbed
  <2>2. Fits(vault', p, plan[p])
    BY <2>1, FitsLike DEF FileFits
  <2>3. Fits(disk', p, plan[p])
    BY <2>1, <2>2 DEF FileFits
  <2>4. plan[p].kind = "trash" /\ vault'.area[p] = "items" => disk'.at[Payload(p)] # None
    <3> SUFFICES ASSUME plan[p].kind = "trash", vault'.area[p] = "items"
                 PROVE  disk'.at[Payload(p)] # None
      OBVIOUS
    <3>1. vault.area[p] = "items"
      OBVIOUS
    <3>2. vault.at[Payload(p)] # None /\ disk.at[Payload(p)] # None
      BY <1>0, <2>1, <3>1, PublishedFacts DEF FileFits
    <3> QED
      BY <3>2
  <2> QED
    BY <2>2, <2>3, <2>4 DEF FileFits
<1>6. FoundFits'
  <2> SUFFICES ASSUME NEW u \in Threads, call'[u].pc # "idle", Undisturbed(call'[u].op)
               PROVE  CallFound(call[u])'
    BY <1>4 DEF FoundFits, Op
  <2>1. CASE u = t
    BY <2>1
  <2>2. CASE u # t
    <3>1. call'[u] = call[u]
      BY <2>2
    <3>2. CallFound(call[u])
      BY <3>1 DEF FoundFits, Op
    <3> QED
      BY <3>1, <3>2 DEF CallFound
  <2> QED
    BY <2>1, <2>2
<1> QED
  BY <1>1, <1>2, <1>3, <1>5, <1>6

LEMMA TopologyInit == Init => TopologyInv
<1> SUFFICES ASSUME Init PROVE TopologyInv
  OBVIOUS
<1>1. MutationInv
  BY InitHasInv
<1>2. \A o \in Ops : /\ plan[o] = None /\ vault.area[o] = "none" /\ vault.manifest[o] = None
                     /\ vault.at[Temp(o)] = None /\ vault.at[Payload(o)] = None
  BY SlotFacts DEF Init
<1>3. /\ disk = vault /\ vault.moved = {} /\ journal.intents = {}
      /\ \A t \in Threads : call[t].pc = "idle"
  BY DEF Init, Idle
<1> QED
  BY <1>1, <1>2, <1>3 DEF TopologyInv, PlansFit, IntentsFit, ItemsFit, ItemFits, UntouchedFits,
    FilesFit, FoundFits, Undisturbed

\* A new plan is undisturbed only when it is the first, or restores what the first trashed.
LEMMA PlanIsFirst ==
  ASSUME TopologyInv, NEW o \in Ops, NEW p \in Operation, Planned(o, p)
  PROVE  /\ \A q \in Ops \ {o} : ~Undisturbed(q)'
         /\ Undisturbed(o)' => edits = 0 /\ \A q \in Ops \ {o} : plan[q] = None \/ q = p.id
         /\ p # None /\ plan'[o] = p /\ plan[o] = None
         /\ \A q \in Ops \ {o} : plan'[q] = plan[q]
<1>0. TypeOK
  BY DEF TopologyInv, MutationInv
<1>1. /\ \A q \in Ops \ {o} : plan'[q] = plan[q]
      /\ plan'[o] = p /\ plan[o] = None /\ p # None /\ edits' = edits
  BY <1>0, NamesAssumption DEF Planned, TypeOK
<1>2. ASSUME NEW q \in Ops \ {o}, Undisturbed(q)' PROVE FALSE
  <2>1. plan[q] # None /\ edits = 0 /\ o = plan[q].id
    BY <1>1, <1>2 DEF Undisturbed, Alone
  <2>2. PlanFits(q, plan[q], plan[o])
    BY <2>1 DEF TopologyInv, PlansFit
  <2> QED
    BY <1>1, <2>1, <2>2 DEF PlanFits
<1> QED
  BY <1>1, <1>2 DEF Undisturbed, Alone

LEMMA PlannedKeepsTopology ==
  ASSUME TopologyInv, MutationInv', NEW o \in Ops, NEW p \in Operation, Planned(o, p),
         PlanFits(o, p, plan[p.id]),
         Undisturbed(o)' => /\ Fits(vault, o, p) /\ Fits(disk, o, p)
                            /\ p.kind = "trash" => vault.area[o] # "items"
  PROVE  TopologyInv'
<1>0. TypeOK
  BY DEF TopologyInv, MutationInv
<1>1. UNCHANGED <<vault, disk, journal, call, edits>>
  BY DEF Planned
<1>2. /\ \A q \in Ops \ {o} : ~Undisturbed(q)'
      /\ p # None /\ plan'[o] = p /\ plan[o] = None
      /\ \A q \in Ops \ {o} : plan'[q] = plan[q]
  BY PlanIsFirst
<1>3. PlansFit'
  <2> SUFFICES ASSUME NEW q \in Ops, plan'[q] # None
               PROVE  PlanFits(q, plan'[q], plan'[plan'[q].id])
    BY DEF PlansFit
  <2>1. CASE q = o
    <3>1. p.kind = "restore" => plan'[p.id] = plan[p.id]
      BY <1>2 DEF PlanFits, Operation
    <3> QED
      BY <1>2, <2>1, <3>1 DEF PlanFits
  <2>2. CASE q # o
    <3>1. plan[q] # None /\ PlanFits(q, plan[q], plan[plan[q].id]) /\ plan[q].id \in Ops
      BY <1>0, <1>2, <2>2, PlanFacts DEF TopologyInv, PlansFit
    <3> QED
      BY <1>2, <2>2, <3>1 DEF PlanFits
  <2> QED
    BY <2>1, <2>2
<1>4. IntentsFit' /\ ItemsFit'
  <2>1. journal.intents \subseteq Ops
    BY <1>0 DEF TypeOK, Journal
  <2>2. ItemsFit'
    BY <1>1, <1>2 DEF TopologyInv, ItemsFit, ItemFits
  <2> QED
    BY <1>1, <1>2, <2>1, <2>2 DEF TopologyInv, IntentsFit
<1>5. UntouchedFits'
  BY <1>2 DEF UntouchedFits, NothingPlanned
<1>6. FilesFit'
  BY <1>1, <1>2 DEF FilesFit, FileFits
<1>7. FoundFits'
  <2>1. \A t \in Threads : call[t].pc # "idle" => Op(t) \in Ops /\ plan[Op(t)] # None
    BY DEF TopologyInv, MutationInv, CallsFit
  <2> QED
    BY <1>1, <1>2, <2>1 DEF FoundFits, Op
<1> QED
  BY <1>3, <1>4, <1>5, <1>6, <1>7 DEF TopologyInv

LEMMA PlansKeepTopology ==
  ASSUME TopologyInv, MutationInv', NEW o \in Ops
  PROVE  /\ \A n \in Names : PlanTrash(o, n) => TopologyInv'
         /\ \A i \in Ops : PlanRestore(o, i) => TopologyInv'
         /\ \A n, m \in Names : PlanNormalMove(o, n, m) => TopologyInv'
         /\ \A n, m \in Names : PlanCaseRename(o, n, m) => TopologyInv'
<1>0. /\ TypeOK /\ StateInv /\ vault \in Vault
      /\ \A n \in Names : vault.at[n] \in Revs \cup {None}
  BY InvParts, SlotFacts DEF TopologyInv, TypeOK, Vault
\* The first plan finds the vault as it was.
<1>1. ASSUME NEW p \in Operation, Planned(o, p), p.id = o, Undisturbed(o)'
      PROVE  /\ disk = vault /\ o \notin vault.moved /\ vault.area[o] = "none"
             /\ vault.at[Temp(o)] = None /\ vault.at[Payload(o)] = None
  <2>1. edits = 0 /\ plan[o] = None /\ \A q \in Ops \ {o} : plan[q] = None
    BY <1>1, PlanIsFirst
  <2> QED
    BY <2>1 DEF TopologyInv, UntouchedFits, NothingPlanned
<1>2. ASSUME NEW n \in Names, PlanTrash(o, n) PROVE TopologyInv'
  <2>1. PICK p : p = TrashOperation(o, n, vault.at[n])
    OBVIOUS
  <2>2. /\ p \in Operation /\ p.kind = "trash" /\ p.id = o /\ p.from = n
        /\ p.rev = vault.at[n] /\ Planned(o, p)
    BY <1>0, <1>2, <2>1 DEF PlanTrash, TrashOperation, Operation, Related, Kinds
  <2>3. Undisturbed(o)' => /\ Fits(vault, o, p) /\ Fits(disk, o, p) /\ vault.area[o] # "items"
    BY <1>1, <2>2 DEF Fits, TrashFits
  <2>4. PlanFits(o, p, plan[p.id])
    BY <2>2 DEF PlanFits
  <2> QED
    BY <2>2, <2>3, <2>4, PlannedKeepsTopology
<1>3. ASSUME NEW n \in Names, NEW m \in Names, PlanNormalMove(o, n, m) PROVE TopologyInv'
  <2>1. PICK p : p = NormalMoveOperation(o, n, m, vault.at[n])
    OBVIOUS
  <2>2. /\ p \in Operation /\ p.kind = "move" /\ p.id = o /\ p.from = n
        /\ p.rev = vault.at[n] /\ Planned(o, p)
    BY <1>0, <1>3, <2>1 DEF PlanNormalMove, NormalMoveOperation, Operation, Related, Kinds
  <2>3. Undisturbed(o)' => Fits(vault, o, p) /\ Fits(disk, o, p)
    BY <1>1, <2>2 DEF Fits, MoveFits
  <2>4. PlanFits(o, p, plan[p.id])
    BY <2>2 DEF PlanFits
  <2> QED
    BY <2>2, <2>3, <2>4, PlannedKeepsTopology
<1>4. ASSUME NEW n \in Names, NEW m \in Names, PlanCaseRename(o, n, m) PROVE TopologyInv'
  <2>1. PICK p : p = CaseRenameOperation(o, n, m, vault.at[n])
    OBVIOUS
  <2>2. /\ p \in Operation /\ p.kind = "case" /\ p.id = o /\ p.from = n
        /\ p.rev = vault.at[n] /\ Planned(o, p)
    BY <1>0, <1>4, <2>1 DEF PlanCaseRename, CaseRenameOperation, Operation, Related, Kinds
  <2>3. Undisturbed(o)' => Fits(vault, o, p) /\ Fits(disk, o, p)
    BY <1>1, <2>2 DEF Fits, CaseFits
  <2>4. PlanFits(o, p, plan[p.id])
    BY <2>2 DEF PlanFits
  <2> QED
    BY <2>2, <2>3, <2>4, PlannedKeepsTopology
<1>5. ASSUME NEW i \in Ops, PlanRestore(o, i) PROVE TopologyInv'
  <2>1. PICK p : p = RestoreOperation(i, vault.manifest[i])
    OBVIOUS
  <2>2. /\ vault.area[i] = "items" /\ vault.manifest[i] # None /\ vault.manifest[i] \in Manifest
        /\ ItemFits(vault, i, plan[i]) /\ ItemFits(disk, i, plan[i])
    BY <1>0, <1>5 DEF PlanRestore, StateInv, Explained, TopologyInv, ItemsFit, Vault
  <2>3. /\ plan[i] # None /\ plan[i].kind = "trash"
        /\ vault.manifest[i].path = plan[i].from /\ vault.manifest[i].rev = plan[i].rev
    BY <2>2 DEF ItemFits
  <2>4. p \in Operation /\ Planned(o, p)
    BY <1>5, <2>1, <2>2 DEF PlanRestore, RestoreOperation, Operation, Related, Kinds, Manifest
  <2>5. p.kind = "restore" /\ p.id = i /\ p.to = plan[i].from /\ p.rev = plan[i].rev
    BY <2>1, <2>3 DEF RestoreOperation
  <2>6. PlanFits(o, p, plan[p.id])
    BY <2>3, <2>5 DEF PlanFits
  <2>7. ASSUME Undisturbed(o)' PROVE Fits(vault, o, p) /\ Fits(disk, o, p)
    <3>1. edits = 0 /\ plan[o] = None /\ \A q \in Ops \ {o} : plan[q] = None \/ q = i
      BY <2>4, <2>5, <2>7, PlanIsFirst
    <3>2. Undisturbed(i)
      BY <2>3, <3>1 DEF Undisturbed, Alone
    <3>3. FileFits(i) /\ plan[i].rev # None
      BY <1>0, <2>3, <3>2, PlanFacts DEF TopologyInv, FilesFit
    <3>4. TrashFits(vault, i, plan[i]) /\ TrashFits(disk, i, plan[i]) /\ disk.at[Payload(i)] # None
      BY <2>2, <2>3, <3>3 DEF FileFits, Fits
    <3>5. o \notin vault.moved /\ o \notin disk.moved
      BY <1>0, <3>1 DEF StateInv, Closed
    <3> QED
      BY <2>2, <2>5, <3>3, <3>4, <3>5 DEF Fits, RestoreFits, TrashFits
  <2> QED
    BY <2>4, <2>5, <2>6, <2>7, PlannedKeepsTopology
<1> QED
  BY <1>2, <1>3, <1>4, <1>5

-----------------------------------------------------------------------------
\* A step that leaves the vault alone.
LEMMA StillKeepsTopology ==
  ASSUME TopologyInv, MutationInv', NEW t \in Threads, NEW o \in Ops, plan[o] # None,
         \A u \in Threads \ {t} : call'[u] = call[u], UNCHANGED <<plan, vault, edits>>,
         disk' \in {disk, vault},
         journal'.intents \subseteq journal.intents \cup {o},
         \/ call'[t].pc \notin {"check", "rename"}
         \/ call'[t].pc = "check" /\ call'[t].hop # "publish"
  PROVE  TopologyInv'
<1>1. CallFound(call[t])'
  BY DEF CallFound
<1> QED
  BY <1>1, QuietPreserves

LEMMA JournalKeepsTopology ==
  ASSUME TopologyInv, MutationInv', NEW t \in Threads
  PROVE  /\ \A o \in Ops : Call(t, o) => TopologyInv'
         /\ PublishIntent(t) \/ SyncIntent(t) \/ Complete(t) \/ SyncTombstone(t) => TopologyInv'
<1>0. TypeOK /\ (call[t].pc # "idle" => Op(t) \in Ops /\ plan[Op(t)] # None)
  BY DEF TopologyInv, MutationInv, CallsFit
<1>1. ASSUME NEW o \in Ops, plan[o] # None, NEW fresh, Enter(t, o, fresh)
      PROVE  /\ \A u \in Threads \ {t} : call'[u] = call[u]
             /\ \/ call'[t].pc \notin {"check", "rename"}
                \/ call'[t].pc = "check" /\ call'[t].hop # "publish"
  <2>1. PICK a, h : a = Continue(o)[1] /\ h = Continue(o)[2]
    OBVIOUS
  <2>2. a \in {"manifest", "check"} /\ h # "publish"
    BY <1>0, <1>1, <2>1, PlanFacts DEF Continue, ContinueTrash, ContinueRestore,
      ContinueNormalMove, ContinueCaseRename, Kinds
  <2>3. call' = [call EXCEPT ![t] = [pc |-> a, op |-> o, hop |-> h, fresh |-> fresh]]
    BY <1>1, <2>1 DEF Enter
  <2> QED
    BY <1>0, <2>2, <2>3 DEF TypeOK
<1>2. ASSUME Refuse(t)
      PROVE  call'[t].pc = "idle" /\ \A u \in Threads \ {t} : call'[u] = call[u]
  BY <1>0, <1>2 DEF Refuse, Idle, TypeOK
<1>3. ASSUME NEW o \in Ops, Call(t, o) PROVE TopologyInv'
  <2>1. plan[o] # None /\ UNCHANGED <<plan, vault, disk, journal, edits>>
    BY <1>3 DEF Call
  <2>2. CASE Enter(t, o, FALSE)
    BY <1>1, <2>1, <2>2, StillKeepsTopology
  <2>3. CASE call' = [call EXCEPT ![t] = [Idle EXCEPT !.pc = "publish", !.op = o]]
    <3>1. call'[t].pc = "publish" /\ \A u \in Threads \ {t} : call'[u] = call[u]
      BY <1>0, <2>3 DEF Idle, TypeOK
    <3> QED
      BY <2>1, <3>1, StillKeepsTopology
  <2> QED
    BY <1>3, <2>2, <2>3 DEF Call
<1>4. ASSUME PublishIntent(t) PROVE TopologyInv'
  <2>1. /\ Op(t) \in Ops /\ plan[Op(t)] # None /\ UNCHANGED <<plan, vault, disk, edits>>
        /\ journal'.intents \subseteq journal.intents \cup {Op(t)}
    BY <1>0, <1>4 DEF PublishIntent, At, TypeOK, Journal
  <2>2. call'[t].pc = "sync_intent" /\ \A u \in Threads \ {t} : call'[u] = call[u]
    BY <1>0, <1>4 DEF PublishIntent, TypeOK
  <2> QED
    BY <2>1, <2>2, StillKeepsTopology
<1>5. ASSUME SyncIntent(t) PROVE TopologyInv'
  <2>1. /\ Op(t) \in Ops /\ plan[Op(t)] # None /\ UNCHANGED <<plan, vault, disk, journal, edits>>
        /\ Enter(t, Op(t), call[t].fresh) \/ Refuse(t)
    BY <1>0, <1>5 DEF SyncIntent, At
  <2> QED
    BY <1>1, <1>2, <2>1, StillKeepsTopology
<1>6. ASSUME Complete(t) PROVE TopologyInv'
  <2>1. /\ Op(t) \in Ops /\ plan[Op(t)] # None /\ UNCHANGED <<plan, vault, disk, edits>>
        /\ journal'.intents = journal.intents
        /\ Goto(t, "sync_tombstone") \/ Refuse(t)
    BY <1>0, <1>6 DEF Complete, At, TypeOK, Journal
  <2>2. CASE Goto(t, "sync_tombstone")
    <3>1. call'[t].pc = "sync_tombstone" /\ \A u \in Threads \ {t} : call'[u] = call[u]
      BY <1>0, <2>2 DEF Goto, TypeOK
    <3> QED
      BY <2>1, <3>1, StillKeepsTopology
  <2> QED
    BY <1>2, <2>1, <2>2, StillKeepsTopology
<1>7. ASSUME SyncTombstone(t) PROVE TopologyInv'
  <2>1. /\ Op(t) \in Ops /\ plan[Op(t)] # None /\ UNCHANGED <<plan, vault, disk, journal, edits>>
        /\ Refuse(t)
    BY <1>0, <1>7 DEF SyncTombstone, At
  <2> QED
    BY <1>2, <2>1, StillKeepsTopology
<1> QED
  BY <1>3, <1>4, <1>5, <1>6, <1>7

LEMMA ManifestKeepsTopology ==
  ASSUME TopologyInv, MutationInv', NEW t \in Threads
  PROVE  PrepareManifest(t) \/ WriteManifest(t) \/ SyncManifest(t) => TopologyInv'
<1>0. /\ TypeOK /\ vault \in Vault
      /\ call[t].pc \in {"manifest", "write_manifest", "sync_manifest"} =>
           /\ Op(t) \in Ops /\ plan[Op(t)] # None /\ plan[Op(t)].kind = "trash"
           /\ call[t].hop = "stage"
  <2>1. TypeOK /\ CallsFit
    BY DEF TopologyInv, MutationInv
  <2>2. call[t].pc \in {"manifest", "write_manifest", "sync_manifest"} =>
           /\ Op(t) \in Ops /\ plan[Op(t)] # None /\ "stage" \in HopsOf(plan[Op(t)].kind)
           /\ call[t].hop = "stage"
    BY <2>1 DEF CallsFit
  <2> QED
    BY <2>1, <2>2, PlanFacts DEF HopsOf, Kinds, TypeOK
<1>1. ASSUME Refuse(t)
      PROVE  call'[t].pc = "idle" /\ \A u \in Threads \ {t} : call'[u] = call[u]
  BY <1>0, <1>1 DEF Refuse, Idle, TypeOK
<1>2. ASSUME NEW pc, Goto(t, pc)
      PROVE  /\ call'[t].pc = pc /\ call'[t].hop = call[t].hop
             /\ \A u \in Threads \ {t} : call'[u] = call[u]
  BY <1>0, <1>2 DEF Goto, TypeOK
<1>3. ASSUME PrepareManifest(t) PROVE TopologyInv'
  <2>0. /\ Op(t) \in Ops /\ plan[Op(t)] # None /\ plan[Op(t)].kind = "trash"
        /\ call[t].hop = "stage" /\ UNCHANGED <<plan, journal, edits>>
    BY <1>0, <1>3 DEF PrepareManifest, At
  <2>1. PICK made : made = [vault EXCEPT !.area[Op(t)] = "staging"]
    OBVIOUS
  <2>2. /\ made.at = vault.at /\ made.moved = vault.moved /\ made.manifest = vault.manifest
        /\ \A i \in Ops : made.area[i] = IF i = Op(t) THEN "staging" ELSE vault.area[i]
    BY <1>0, <2>0, <2>1 DEF Vault
  <2>3. /\ disk' \in {disk, vault'}
        /\ Goto(t, "write_manifest") \/ Goto(t, "check") \/ Refuse(t)
        /\ vault' = vault \/ (vault.area[Op(t)] = "none" /\ vault' = made)
    BY <1>3, <2>1 DEF PrepareManifest
  <2>4. /\ \A u \in Threads \ {t} : call'[u] = call[u]
        /\ \/ call'[t].pc \notin {"check", "rename"}
           \/ call'[t].pc = "check" /\ call'[t].hop # "publish"
    BY <1>1, <1>2, <2>0, <2>3
  <2>5. CallFound(call[t])'
    BY <2>4 DEF CallFound
  <2>6. /\ vault'.at = vault.at /\ vault'.moved = vault.moved
        /\ \A i \in Ops : \/ vault'.area[i] = vault.area[i]
                           \/ /\ vault.area[i] = "none" /\ vault'.area[i] = "staging"
                              /\ plan[i] # None /\ plan[i].kind = "trash"
        /\ vault'.manifest = vault.manifest
    BY <2>0, <2>2, <2>3
  <2> QED
    BY <2>0, <2>3, <2>4, <2>5, <2>6, QuietPreserves
<1>4. ASSUME WriteManifest(t) PROVE TopologyInv'
  <2>1. /\ Op(t) \in Ops /\ plan[Op(t)] # None /\ Goto(t, "sync_manifest")
        /\ UNCHANGED <<plan, disk, journal, edits>>
    BY <1>0, <1>4 DEF WriteManifest, At
  <2>2. /\ vault'.at = vault.at /\ vault'.moved = vault.moved /\ vault'.area = vault.area
        /\ \A i \in Ops : vault'.manifest[i] = IF i = Op(t) THEN Expected(i) ELSE vault.manifest[i]
    BY <1>0, <1>4, <2>1 DEF WriteManifest, Vault
  <2>3. CallFound(call[t])' /\ \A u \in Threads \ {t} : call'[u] = call[u]
    BY <1>2, <2>1 DEF CallFound
  <2> QED
    BY <2>1, <2>2, <2>3, QuietPreserves
<1>5. ASSUME SyncManifest(t) PROVE TopologyInv'
  <2>1. /\ Op(t) \in Ops /\ plan[Op(t)] # None /\ call[t].hop = "stage"
        /\ UNCHANGED <<plan, vault, journal, edits>> /\ disk' \in {disk, vault}
        /\ Goto(t, "check") \/ Refuse(t)
    BY <1>0, <1>5 DEF SyncManifest, At
  <2> QED
    BY <1>1, <1>2, <2>1, StillKeepsTopology
<1> QED
  BY <1>3, <1>4, <1>5

-----------------------------------------------------------------------------
\* Where a hop that is done leads.
LEMMA AfterMoves ==
  ASSUME TypeOK, NEW t \in Threads, NEW hop, call' = [call EXCEPT ![t] = After(t, hop)]
  PROVE  /\ \A u \in Threads \ {t} : call'[u] = call[u]
         /\ IF hop = "stage"
            THEN call'[t].pc = "check" /\ call'[t].hop = "publish" /\ call'[t].op = Op(t)
            ELSE call'[t].pc = "complete"
BY DEF TypeOK, After, Op

LEMMA CheckKeepsTopology ==
  ASSUME TopologyInv, MutationInv', NEW t \in Threads, Check(t)
  PROVE  TopologyInv'
<1> DEFINE o == Op(t)
           hop == call[t].hop
           verdict == Verdict(o, hop, call[t].fresh)
<1>0. /\ TypeOK /\ vault \in Vault /\ o \in Ops /\ plan[o] # None /\ plan[o].rev # None
      /\ plan[o].from \in Names /\ plan[o].to \in Names /\ Related(plan[o])
      /\ hop \in HopsOf(plan[o].kind) /\ hop # "unpark" /\ plan[o].kind \in Kinds
      /\ UNCHANGED <<plan, journal, edits>>
  <2>1. TypeOK /\ vault \in Vault /\ o \in Ops /\ plan[o] # None
        /\ hop \in HopsOf(plan[o].kind) /\ hop # "unpark" /\ UNCHANGED <<plan, journal, edits>>
    BY DEF Check, At, TopologyInv, MutationInv, CallsFit, TypeOK
  <2> QED
    BY <2>1, PlanFacts
<1>1. PICK ok \in BOOLEAN :
        /\ vault' = IF verdict = "already" THEN [vault EXCEPT !.placed = @ \cup {o}] ELSE vault
        /\ disk' = IF ok THEN vault' ELSE disk
        /\ IF verdict = "refuse" \/ (~ok /\ NeedsFirstSync(hop, verdict))
           THEN Refuse(t)
           ELSE IF verdict = "already"
           THEN call' = [call EXCEPT ![t] = After(t, hop)]
           ELSE call' = [call EXCEPT ![t].pc = "rename",
                                     ![t].hop = IF verdict = "go_on" THEN "unpark" ELSE hop]
  BY DEF Check
<1>2. /\ vault'.at = vault.at /\ vault'.moved = vault.moved
      /\ vault'.area = vault.area /\ vault'.manifest = vault.manifest
      /\ disk' \in {disk, vault'} /\ (ok => disk' = vault')
  BY <1>0, <1>1 DEF Vault
<1>3. verdict \notin {"refuse", "already"} /\ hop = "park" /\ verdict # "go_on" =>
        vault.at[plan[o].to] = None
  <2> SUFFICES ASSUME verdict \notin {"refuse", "already"}, hop = "park", verdict # "go_on"
               PROVE  vault.at[plan[o].to] = None
    OBVIOUS
  <2>1. CaseState(o) = {plan[o].from}
    BY DEF Verdict, CaseVerdict
  <2>2. plan[o].from # plan[o].to /\ plan[o].to # Temp(o) /\ plan[o].from # Temp(o)
    <3>1. plan[o].kind = "case"
      BY <1>0 DEF HopsOf, Kinds
    <3> QED
      BY <1>0, <3>1, SlotFacts DEF Related
  <2> QED
    BY <2>1, <2>2 DEF CaseState, Here
<1>4. verdict \notin {"refuse", "already"} /\ hop = "publish" => vault.at[Payload(o)] # None
  BY DEF Verdict, PublishVerdict, ValidItem
<1>5. verdict = "already" /\ hop = "stage" => vault.at[Payload(o)] # None
  BY DEF Verdict, StageVerdict, Staged, ValidItem
<1>6. call[t].pc = "check" /\ (Undisturbed(o) => CallFound(call[t]))
  BY DEF TopologyInv, FoundFits, Check, At
<1> HIDE DEF verdict
<1>7. CASE Refuse(t)
  <2>1. CallFound(call[t])' /\ \A u \in Threads \ {t} : call'[u] = call[u]
    BY <1>0, <1>7 DEF Refuse, Idle, TypeOK, CallFound
  <2> QED
    BY <1>0, <1>2, <2>1, QuietPreserves
<1>8. CASE verdict = "already" /\ ok /\ call' = [call EXCEPT ![t] = After(t, hop)]
  <2>1. /\ \A u \in Threads \ {t} : call'[u] = call[u]
        /\ IF hop = "stage"
           THEN call'[t].pc = "check" /\ call'[t].hop = "publish" /\ call'[t].op = o
           ELSE call'[t].pc = "complete"
    BY <1>0, <1>8, AfterMoves
  <2>2. CallFound(call[t])'
    BY <1>2, <1>5, <1>8, <2>1 DEF CallFound
  <2> QED
    BY <1>0, <1>2, <2>1, <2>2, QuietPreserves
<1>9. CASE /\ verdict \notin {"refuse", "already"}
           /\ call' = [call EXCEPT ![t].pc = "rename",
                                   ![t].hop = IF verdict = "go_on" THEN "unpark" ELSE hop]
  <2>1. /\ \A u \in Threads \ {t} : call'[u] = call[u]
        /\ call'[t].pc = "rename" /\ call'[t].op = o
        /\ call'[t].hop = IF verdict = "go_on" THEN "unpark" ELSE hop
    BY <1>0, <1>9 DEF TypeOK, Op
  <2>2. ASSUME Undisturbed(call'[t].op) PROVE CallFound(call[t])'
    <3>1. hop = "publish" => disk.at[Payload(o)] # None
      BY <1>6, <2>1, <2>2 DEF CallFound, Op
    <3>2. hop = "publish" => disk'.at[Payload(o)] # None
      BY <1>2, <1>4, <1>9, <3>1
    <3> HIDE DEF o, hop
    <3> QED
      BY <1>0, <1>2, <1>3, <1>4, <1>9, <2>1, <3>2 DEF CallFound
  <2> QED
    BY <1>0, <1>2, <2>1, <2>2, QuietPreserves
<1> QED
  <2>1. verdict = "already" => NeedsFirstSync(hop, verdict)
    BY DEF NeedsFirstSync
  <2> QED
    BY <1>1, <1>7, <1>8, <1>9, <2>1

LEMMA ConfirmKeepsTopology ==
  ASSUME TopologyInv, MutationInv', NEW t \in Threads, Confirm(t)
  PROVE  TopologyInv'
<1> DEFINE o == Op(t)
           hop == call[t].hop
<1>0. /\ TypeOK /\ o \in Ops /\ plan[o] # None /\ plan[o].rev # None
      /\ UNCHANGED <<plan, vault, journal, edits>>
  <2>1. TypeOK /\ o \in Ops /\ plan[o] # None /\ UNCHANGED <<plan, vault, journal, edits>>
    BY DEF Confirm, At, TopologyInv, MutationInv, CallsFit
  <2> QED
    BY <2>1, PlanFacts
<1>1. PICK ok \in BOOLEAN :
        /\ disk' = IF ok THEN vault ELSE disk
        /\ IF ok /\ Verified(o, hop)
           THEN IF hop = "park"
                THEN call' = [call EXCEPT ![t].pc = "rename", ![t].hop = "unpark"]
                ELSE call' = [call EXCEPT ![t] = After(t, hop)]
           ELSE Refuse(t)
  BY DEF Confirm
<1>2. CASE Refuse(t)
  <2>1. call'[t].pc = "idle" /\ \A u \in Threads \ {t} : call'[u] = call[u]
    BY <1>0, <1>2 DEF Refuse, Idle, TypeOK
  <2> QED
    BY <1>0, <1>1, <2>1, StillKeepsTopology
<1>3. CASE call' = [call EXCEPT ![t].pc = "rename", ![t].hop = "unpark"]
  <2>1. /\ call'[t].pc = "rename" /\ call'[t].hop = "unpark"
        /\ \A u \in Threads \ {t} : call'[u] = call[u]
    BY <1>0, <1>3 DEF TypeOK
  <2>2. CallFound(call[t])'
    BY <2>1 DEF CallFound
  <2> QED
    BY <1>0, <1>1, <2>1, <2>2, QuietPreserves
<1>4. CASE ok /\ Verified(o, hop) /\ call' = [call EXCEPT ![t] = After(t, hop)]
  <2>1. /\ \A u \in Threads \ {t} : call'[u] = call[u]
        /\ IF hop = "stage"
           THEN call'[t].pc = "check" /\ call'[t].hop = "publish" /\ call'[t].op = o
           ELSE call'[t].pc = "complete"
    BY <1>0, <1>4, AfterMoves
  <2>2. hop = "stage" => vault.at[Payload(o)] # None
    BY <1>0, <1>4 DEF Verified, StagedInPlace, Is
  <2>3. CallFound(call[t])'
    <3> HIDE DEF o, hop
    <3> QED
      BY <1>0, <1>1, <1>4, <2>1, <2>2 DEF CallFound
  <2> QED
    BY <1>0, <1>1, <2>1, <2>3, QuietPreserves
<1> QED
  BY <1>1, <1>2, <1>3, <1>4

-----------------------------------------------------------------------------
(* The renames of an undisturbed operation. *)

\* w is v with the file at s moved to d.
MovesFile(v, w, s, d) ==
  /\ \A x \in Slots \ {s, d} : w.at[x] = v.at[x]
  /\ w.at[d] = v.at[s] /\ w.at[s] = None

LEMMA RenameMoves ==
  ASSUME TypeOK, NEW o \in Ops, plan[o] # None, NEW hop \in HopsOf(plan[o].kind)
  PROVE  LET w == Renames(o, hop)
         IN  /\ w.moved = vault.moved \cup (IF hop \in LastHops THEN {o} ELSE {})
             /\ w.manifest = vault.manifest
             /\ IF hop = "publish"
                THEN /\ w.at = vault.at /\ w.area[o] = "items"
                     /\ \A i \in Ops \ {o} : w.area[i] = vault.area[i]
                ELSE /\ w.area = vault.area
                     /\ MovesFile(vault, w, Source(o, hop), Target(o, hop))
<1>1. PICK w : w = Renames(o, hop)
  OBVIOUS
<1>2. /\ w.moved = vault.moved \cup (IF hop \in LastHops THEN {o} ELSE {})
      /\ w.manifest = vault.manifest /\ vault \in Vault
      /\ hop = "publish" => w.at = vault.at /\ w.area = [vault.area EXCEPT ![o] = "items"]
      /\ hop # "publish" => /\ w.area = vault.area
                            /\ w.at = [vault.at EXCEPT ![Target(o, hop)] = vault.at[Source(o, hop)],
                                                       ![Source(o, hop)] = None]
  BY <1>1, RenamesFacts DEF TypeOK
<1>3. CASE hop = "publish"
  BY <1>1, <1>2, <1>3 DEF Vault
<1>4. CASE hop # "publish"
  <2>1. PICK s, d : s = Source(o, hop) /\ d = Target(o, hop)
    OBVIOUS
  <2>2. s \in Slots /\ d \in Slots /\ s # d
    BY <1>4, <2>1, PathFacts
  <2>3. MovesFile(vault, w, s, d)
    BY <1>2, <1>4, <2>1, <2>2 DEF MovesFile, Vault
  <2> QED
    BY <1>1, <1>2, <1>4, <2>1, <2>3
<1> QED
  BY <1>3, <1>4

\* The operation that renames goes on to its next place.
LEMMA OwnRenameFits ==
  ASSUME TopologyInv, NEW t \in Threads, call[t].pc = "rename", Undisturbed(Op(t)),
         CanRename(Op(t), call[t].hop)
  PROVE  /\ Fits(Renames(Op(t), call[t].hop), Op(t), plan[Op(t)])
         /\ call[t].hop = "publish" => disk.at[Payload(Op(t))] # None
<1>1. PICK o, hop, p, w : o = Op(t) /\ hop = call[t].hop /\ p = plan[o] /\ w = Renames(o, hop)
  OBVIOUS
<1>2. TypeOK /\ ThreadInv(t) /\ o \in Ops /\ p # None /\ hop \in HopsOf(p.kind)
  BY <1>1, InvParts DEF TopologyInv, ThreadInv
<1>3. /\ p.kind \in Kinds /\ p.from \in Names /\ p.to \in Names /\ p.id \in Ops
      /\ p.rev # None /\ Related(p)
  BY <1>1, <1>2, PlanFacts
<1>4. /\ w.moved = vault.moved \cup (IF hop \in LastHops THEN {o} ELSE {})
      /\ IF hop = "publish"
         THEN w.at = vault.at /\ w.area[o] = "items"
         ELSE w.area = vault.area /\ MovesFile(vault, w, Source(o, hop), Target(o, hop))
  BY <1>1, <1>2, RenameMoves
<1>5. /\ Fits(vault, o, p) /\ CallFound(call[t])
      /\ hop # "publish" => vault.at[Source(o, hop)] # None /\ vault.at[Target(o, hop)] = None
  BY <1>1, <1>2 DEF TopologyInv, FilesFit, FileFits, FoundFits, CanRename, Here
<1>6. /\ hop = "park" => vault.at[p.to] = None
      /\ hop = "publish" => vault.at[Payload(o)] # None /\ disk.at[Payload(o)] # None
      /\ hop = "restore" => vault.area[p.id] = "items"
      /\ hop = "stage" => vault.area[o] = "staging"
  BY <1>1, <1>2, <1>5 DEF CallFound, Op, ThreadInv
<1>7. /\ p.from \in Slots /\ p.to \in Slots /\ Temp(o) \in Slots /\ Payload(o) \in Slots
      /\ p.from # Temp(o) /\ p.to # Temp(o) /\ p.from # Payload(o)
      /\ p.kind \in {"move", "case"} => p.from # p.to
  BY <1>2, <1>3, SlotFacts DEF Related
<1>8. Fits(w, o, p)
  <2>1. CASE hop = "move"
    <3>1. p.kind = "move" /\ Source(o, hop) = p.from /\ Target(o, hop) = p.to
      BY <1>1, <1>2, <1>3, <2>1 DEF HopsOf, Kinds, Source, Target, Paths, MovePaths
    <3> QED
      BY <1>3, <1>4, <1>5, <1>7, <2>1, <3>1 DEF Fits, MoveFits, MovesFile, LastHops
  <2>2. CASE hop = "park"
    <3>1. p.kind = "case" /\ Source(o, hop) = p.from /\ Target(o, hop) = Temp(o)
      BY <1>1, <1>2, <1>3, <2>2 DEF HopsOf, Kinds, Source, Target, Paths, ParkPaths
    <3> QED
      BY <1>3, <1>4, <1>5, <1>6, <1>7, <2>2, <3>1 DEF Fits, CaseFits, MovesFile, LastHops
  <2>3. CASE hop = "unpark"
    <3>1. p.kind = "case" /\ Source(o, hop) = Temp(o) /\ Target(o, hop) = p.to
      BY <1>1, <1>2, <1>3, <2>3 DEF HopsOf, Kinds, Source, Target, Paths, UnparkPaths
    <3> QED
      BY <1>3, <1>4, <1>5, <1>7, <2>3, <3>1 DEF Fits, CaseFits, MovesFile, LastHops
  <2>4. CASE hop = "stage"
    <3>1. p.kind = "trash" /\ Source(o, hop) = p.from /\ Target(o, hop) = Payload(o)
      BY <1>1, <1>2, <1>3, <2>4 DEF HopsOf, Kinds, Source, Target, Paths, StagePaths
    <3> QED
      BY <1>3, <1>4, <1>5, <1>6, <1>7, <2>4, <3>1 DEF Fits, TrashFits, MovesFile, LastHops
  <2>5. CASE hop = "publish"
    <3>1. p.kind = "trash"
      BY <1>2, <1>3, <2>5 DEF HopsOf, Kinds
    <3> QED
      BY <1>3, <1>4, <1>5, <1>6, <1>7, <2>5, <3>1 DEF Fits, TrashFits, LastHops
  <2>6. CASE hop = "restore"
    <3>1. p.kind = "restore" /\ Source(o, hop) = Payload(p.id) /\ Target(o, hop) = p.to
      BY <1>1, <1>2, <1>3, <2>6 DEF HopsOf, Kinds, Source, Target, Paths, RestorePaths
    <3> QED
      BY <1>3, <1>4, <1>5, <1>6, <1>7, <2>6, <3>1 DEF Fits, RestoreFits, MovesFile, LastHops
  <2> QED
    BY <1>2, <1>3, <2>1, <2>2, <2>3, <2>4, <2>5, <2>6 DEF HopsOf, Kinds
<1> QED
  BY <1>1, <1>6, <1>8

\* A restore is not disturbed by the trash that it undoes: whatever is left of that one to do
\* is to publish the item again, when a power failure took it back.
LEMMA UndoneRenameFits ==
  ASSUME TopologyInv, NEW t \in Threads, call[t].pc = "rename", CanRename(Op(t), call[t].hop),
         NEW o \in Ops, Undisturbed(o), plan[o].kind = "restore", Op(t) = plan[o].id
  PROVE  call[t].hop = "publish" /\ Fits(Renames(Op(t), call[t].hop), o, plan[o])
<1>1. PICK i, hop, w : i = Op(t) /\ hop = call[t].hop /\ w = Renames(i, hop)
  OBVIOUS
<1>2. /\ TypeOK /\ ThreadInv(t) /\ i \in Ops /\ plan[i] # None /\ hop \in HopsOf(plan[i].kind)
      /\ RestoreFits(vault, o, plan[o])
  BY <1>1, InvParts DEF TopologyInv, ThreadInv, FilesFit, FileFits, Fits
<1>3. plan[i].kind = "trash" /\ plan[i].from = plan[o].to /\ plan[i].rev = plan[o].rev /\ i # o
  BY <1>1, <1>2, UndisturbedFacts DEF TopologyInv
<1>4. plan[o].rev # None
  BY <1>2, PlanFacts DEF Undisturbed
<1>5. hop = "publish"
  <2> SUFFICES ASSUME hop = "stage" PROVE FALSE
    BY <1>2, <1>3 DEF HopsOf
  <2>1. vault.at[Payload(i)] = None
    BY <1>1 DEF CanRename, Here, Target, Paths, StagePaths
  <2>2. vault.area[i] = "staging"
    BY <1>1, <1>2 DEF ThreadInv
  <2> QED
    BY <1>1, <1>2, <1>4, <2>1, <2>2 DEF RestoreFits
<1>6. /\ w.moved = vault.moved \cup {i} /\ w.at = vault.at /\ w.area[i] = "items"
  BY <1>1, <1>2, <1>5, RenameMoves DEF LastHops
<1> QED
  BY <1>1, <1>2, <1>3, <1>5, <1>6 DEF Fits, RestoreFits

LEMMA RenameKeepsTopology ==
  ASSUME TopologyInv, MutationInv', NEW t \in Threads, Rename(t)
  PROVE  TopologyInv'
<1>1. PICK o, hop, w : o = Op(t) /\ hop = call[t].hop /\ w = Renames(o, hop)
  OBVIOUS
<1>2. /\ TypeOK /\ ThreadInv(t) /\ o \in Ops /\ plan[o] # None /\ hop \in HopsOf(plan[o].kind)
      /\ call[t].pc = "rename" /\ UNCHANGED <<plan, disk, journal, edits>>
  BY <1>1, InvParts DEF TopologyInv, ThreadInv, Rename, At
<1>3. CASE UNCHANGED vault /\ Refuse(t)
  <2>1. call'[t].pc = "idle" /\ \A u \in Threads \ {t} : call'[u] = call[u]
    BY <1>2, <1>3 DEF Refuse, Idle, TypeOK
  <2> QED
    BY <1>2, <1>3, <2>1, StillKeepsTopology
<1>4. CASE CanRename(o, hop) /\ vault' = w /\ Goto(t, "confirm")
  <2>1. call'[t].pc = "confirm" /\ \A u \in Threads \ {t} : call'[u] = call[u]
    BY <1>2, <1>4 DEF Goto, TypeOK
  <2>2. /\ w.moved = vault.moved \cup (IF hop \in LastHops THEN {o} ELSE {})
        /\ w.manifest = vault.manifest
        /\ IF hop = "publish"
           THEN /\ w.at = vault.at /\ w.area[o] = "items"
                /\ \A i \in Ops \ {o} : w.area[i] = vault.area[i]
           ELSE /\ w.area = vault.area
                /\ MovesFile(vault, w, Source(o, hop), Target(o, hop))
    BY <1>1, <1>2, RenameMoves
  <2>3. hop = "publish" => plan[o].kind = "trash"
    BY <1>2, PlanFacts DEF HopsOf, Kinds
  <2>4. PlansFit' /\ IntentsFit' /\ UntouchedFits'
    BY <1>2 DEF TopologyInv, PlansFit, IntentsFit, UntouchedFits, NothingPlanned
  <2>5. ItemsFit'
    <3> SUFFICES ASSUME NEW i \in Ops PROVE ItemFits(w, i, plan[i]) /\ ItemFits(disk, i, plan[i])
      BY <1>2, <1>4 DEF ItemsFit
    <3>1. ItemFits(vault, i, plan[i]) /\ ItemFits(disk, i, plan[i])
      BY DEF TopologyInv, ItemsFit
    <3>2. w.area[i] # "none" => plan[i] # None /\ plan[i].kind = "trash"
      BY <1>2, <2>2, <2>3, <3>1 DEF ItemFits
    <3> QED
      BY <2>2, <3>1, <3>2 DEF ItemFits
  <2>6. \A p : Undisturbed(p)' <=> Undisturbed(p)
    BY <1>2 DEF Undisturbed, Alone
  <2>7. FilesFit'
    <3> SUFFICES ASSUME NEW p \in Ops, Undisturbed(p) PROVE FileFits(p)'
      BY <2>6 DEF FilesFit
    <3>1. FileFits(p)
      BY DEF TopologyInv, FilesFit
    <3>2. p = o \/ (plan[p].kind = "restore" /\ o = plan[p].id)
      BY <1>2, UndisturbedFacts DEF TopologyInv
    <3>3. Fits(w, p, plan[p])
      BY <1>1, <1>2, <1>4, <3>2, OwnRenameFits, UndoneRenameFits
    <3>4. plan[p].kind = "trash" /\ w.area[p] = "items" => disk.at[Payload(p)] # None
      <4> SUFFICES ASSUME plan[p].kind = "trash", w.area[p] = "items"
                   PROVE  disk.at[Payload(p)] # None
        OBVIOUS
      <4>1. p = o
        BY <3>2
      <4>2. CASE hop = "publish"
        BY <1>1, <1>2, <1>4, <4>1, <4>2, OwnRenameFits
      <4>3. CASE hop # "publish"
        BY <2>2, <3>1, <4>3 DEF FileFits
      <4> QED
        BY <4>2, <4>3
    <3> QED
      BY <1>2, <1>4, <3>1, <3>3, <3>4 DEF FileFits
  <2>8. FoundFits'
    <3> SUFFICES ASSUME NEW u \in Threads, call'[u].pc # "idle", Undisturbed(call'[u].op)
                 PROVE  CallFound(call[u])'
      BY <2>6 DEF FoundFits, Op
    <3>1. CASE u = t
      BY <2>1, <3>1 DEF CallFound
    <3>2. CASE u # t
      <4>1. PICK c : c = call[u]
        OBVIOUS
      <4>2. /\ call'[u] = c /\ CallFound(c) /\ c.op \in Ops
        BY <2>1, <3>2, <4>1, InvParts DEF TopologyInv, FoundFits, ThreadInv, Op
      <4>3. c.pc # "rename"
        BY <1>2, <3>2, <4>1, InvParts DEF TopologyInv, ThreadInv
      <4>4. ASSUME c.pc = "check", c.hop = "publish"
            PROVE  w.at[Payload(c.op)] # None /\ disk.at[Payload(c.op)] # None
        <5>1. plan[c.op] # None /\ "publish" \in HopsOf(plan[c.op].kind)
          BY <3>2, <4>1, <4>2, <4>4, InvParts DEF TopologyInv, ThreadInv, Op
        <5>2. plan[c.op].kind = "trash"
          BY <1>2, <4>2, <5>1, PlanFacts DEF HopsOf, Kinds
        <5>3. c.op = o
          BY <1>2, <4>2, <5>2, UndisturbedFacts DEF TopologyInv
        <5>4. vault.at[Payload(o)] # None /\ disk.at[Payload(o)] # None
          BY <4>2, <4>4, <5>3 DEF CallFound
        <5>5. hop \in {"stage", "publish"}
          BY <1>2, <5>2, <5>3 DEF HopsOf
        <5>6. hop # "stage"
          BY <1>4, <5>4 DEF CanRename, Here, Target, Paths, StagePaths
        <5> QED
          BY <2>2, <5>3, <5>4, <5>5, <5>6
      <4> QED
        BY <1>2, <1>4, <4>2, <4>3, <4>4 DEF CallFound
    <3> QED
      BY <3>1, <3>2
  <2> QED
    BY <2>4, <2>5, <2>7, <2>8 DEF TopologyInv
<1> QED
  BY <1>1, <1>3, <1>4 DEF Rename

\* After a crash or a power failure no call is under way, and the vault is one of the two.
LEMMA RestartKeepsTopology ==
  ASSUME TopologyInv, MutationInv', NEW I, Restarts(I), edits' = edits,
         \/ UNCHANGED <<vault, disk>>
         \/ vault' \in {vault, disk} /\ disk' = vault',
         journal'.intents \subseteq journal.intents
  PROVE  TopologyInv'
<1>0. TypeOK /\ journal.intents \subseteq Ops
  BY DEF TopologyInv, MutationInv, TypeOK, Journal
<1>1. \A o \in Ops : /\ plan'[o] = None <=> plan[o] = None
                     /\ plan[o] # None =>
                          /\ plan'[o].kind = plan[o].kind /\ plan'[o].id = plan[o].id
                          /\ plan'[o].from = plan[o].from /\ plan'[o].to = plan[o].to
                          /\ plan'[o].rev = plan[o].rev /\ plan[o].id \in Ops
  BY <1>0, RestartKeepsPlans, PlanFacts
<1>2. PlansFit'
  <2> SUFFICES ASSUME NEW o \in Ops, plan'[o] # None
               PROVE  PlanFits(o, plan'[o], plan'[plan'[o].id])
    BY DEF PlansFit
  <2>1. plan[o] # None /\ PlanFits(o, plan[o], plan[plan[o].id])
    BY <1>1 DEF TopologyInv, PlansFit
  <2> QED
    BY <1>1, <2>1 DEF PlanFits
<1>3. IntentsFit'
  BY <1>0, <1>1 DEF TopologyInv, IntentsFit
<1>4. ItemsFit'
  <2> SUFFICES ASSUME NEW o \in Ops PROVE ItemFits(vault', o, plan'[o]) /\ ItemFits(disk', o, plan'[o])
    BY DEF ItemsFit
  <2>1. ItemFits(vault, o, plan[o]) /\ ItemFits(disk, o, plan[o])
    BY DEF TopologyInv, ItemsFit
  <2>2. ASSUME NEW v, ItemFits(v, o, plan[o]) PROVE ItemFits(v, o, plan'[o])
    BY <1>1, <2>2 DEF ItemFits
  <2> QED
    BY <2>1, <2>2
<1>5. UntouchedFits'
  BY <1>1 DEF TopologyInv, UntouchedFits, NothingPlanned
<1>6. \A o \in Ops : Undisturbed(o)' => Undisturbed(o)
  BY <1>1 DEF Undisturbed, Alone
<1>7. FilesFit'
  <2> SUFFICES ASSUME NEW o \in Ops, Undisturbed(o) PROVE FileFits(o)'
    BY <1>6 DEF FilesFit
  <2>1. FileFits(o) /\ plan[o] # None
    BY DEF TopologyInv, FilesFit, Undisturbed
  <2>2. ASSUME NEW v, Fits(v, o, plan[o]) PROVE Fits(v, o, plan'[o])
    BY <1>1, <2>1, <2>2, FitsLike
  <2>3. Fits(vault', o, plan'[o]) /\ Fits(disk', o, plan'[o])
    BY <2>1, <2>2 DEF FileFits
  <2>4. plan[o].kind = "trash" /\ vault'.area[o] = "items" => disk'.at[Payload(o)] # None
    <3> SUFFICES ASSUME plan[o].kind = "trash", vault'.area[o] = "items"
                 PROVE  disk'.at[Payload(o)] # None
      OBVIOUS
    <3>1. CASE UNCHANGED <<vault, disk>>
      BY <2>1, <3>1 DEF FileFits
    <3>2. CASE vault' \in {vault, disk} /\ disk' = vault'
      <4>1. TrashFits(vault', o, plan[o]) /\ plan[o].rev # None
        BY <1>0, <2>1, <3>2, PlanFacts DEF FileFits, Fits
      <4> QED
        BY <3>2, <4>1 DEF TrashFits
    <3> QED
      BY <3>1, <3>2
  <2> QED
    BY <1>1, <2>1, <2>3, <2>4 DEF FileFits
<1>8. FoundFits'
  BY DEF FoundFits, Restarts, Idle
<1> QED
  BY <1>2, <1>3, <1>4, <1>5, <1>7, <1>8 DEF TopologyInv

LEMMA WorldKeepsTopology ==
  ASSUME TopologyInv, MutationInv'
  PROVE  /\ Crash \/ PowerFailure => TopologyInv'
         /\ \A n \in Names, r \in Revs \cup {None} : Edit(n, r) => TopologyInv'
<1>0. TypeOK /\ MutationInv
  BY DEF TopologyInv, MutationInv
<1>1. ASSUME Crash PROVE TopologyInv'
  BY <1>1, RestartKeepsTopology DEF Crash
<1>2. ASSUME PowerFailure PROVE TopologyInv'
  <2>1. PICK v \in {vault, disk}, i \in {journal.intents, flushed.intents},
             d \in {journal.done, flushed.done} :
          /\ vault' = v /\ disk' = v
          /\ journal' = [intents |-> i, done |-> d] /\ Restarts(i)
    BY <1>2 DEF PowerFailure
  <2>2. journal'.intents \subseteq journal.intents
    BY <1>0, <2>1 DEF MutationInv, DurableFollows
  <2>3. edits' = edits
    BY <1>2 DEF PowerFailure
  <2> QED
    BY <2>1, <2>2, <2>3, RestartKeepsTopology
<1>3. ASSUME NEW n \in Names, NEW r \in Revs \cup {None}, Edit(n, r) PROVE TopologyInv'
  <2>1. /\ UNCHANGED <<plan, disk, journal, call>> /\ edits' # 0
        /\ vault'.area = vault.area /\ vault'.manifest = vault.manifest
    BY <1>0, <1>3, BoundsAssumption DEF Edit, TypeOK, Vault
  <2>2. PlansFit' /\ IntentsFit' /\ ItemsFit'
    BY <2>1 DEF TopologyInv, PlansFit, IntentsFit, ItemsFit, ItemFits
  <2>3. UntouchedFits' /\ FilesFit' /\ FoundFits'
    BY <2>1 DEF UntouchedFits, NothingPlanned, FilesFit, FoundFits, Undisturbed
  <2> QED
    BY <2>2, <2>3 DEF TopologyInv
<1> QED
  BY <1>1, <1>2, <1>3

LEMMA TopologyNext == TopologyInv /\ [Next]_vars => TopologyInv'
<1> SUFFICES ASSUME TopologyInv, [Next]_vars PROVE TopologyInv'
  OBVIOUS
<1>0. MutationInv'
  BY NextPreserves DEF TopologyInv
<1>1. CASE UNCHANGED vars
  BY <1>0, <1>1 DEF vars, TopologyInv, PlansFit, IntentsFit, ItemsFit, UntouchedFits, NothingPlanned,
    FilesFit, FileFits, FoundFits, CallFound, Undisturbed, Alone, Op
<1>2. ASSUME NEW t \in Threads, Step(t) PROVE TopologyInv'
  BY <1>0, <1>2, JournalKeepsTopology, ManifestKeepsTopology, CheckKeepsTopology,
    RenameKeepsTopology, ConfirmKeepsTopology
  DEF Step
<1> QED
  BY <1>0, <1>1, <1>2, PlansKeepTopology, JournalKeepsTopology, WorldKeepsTopology DEF Next

\* Whatever crashes and power failures did, an operation that nobody disturbs is where its file
\* was, on its way, or where it goes, in the vault and on the disk (MutationService, Vault).
THEOREM TopologyInvHolds == Spec => []TopologyInv
BY TopologyInit, TopologyNext, PTL DEF Spec

\* An unfinished intent whose paths nobody else touched shows decide_recovery
\* (myvault-recovery, lib.rs) a topology it can go on from, or the destination that was taken
\* when the operation was planned; never a data loss or an external mutation.
THEOREM TopologyIsRecoverableHolds == Spec => []TopologyIsRecoverable
<1>1. ASSUME TopologyInv PROVE TopologyIsRecoverable
  <2> SUFFICES ASSUME NEW o \in ActiveIds, edits = 0, Alone(o)
               PROVE  \/ Decide(o) \in {"not_started", "in_progress_at_temp", "committed"}
                      \/ /\ o \notin vault.moved
                         /\ Decide(o) \in {"duplicate_manual", "destination_collision"}
    BY DEF TopologyIsRecoverable
  <2>1. TypeOK /\ vault \in Vault /\ o \in Ops /\ o \in journal.intents
    BY <1>1 DEF TopologyInv, MutationInv, TypeOK, ActiveIds, Journal
  <2>2. PICK p : p = plan[o]
    OBVIOUS
  <2>3. p # None /\ Fits(vault, o, p)
    BY <1>1, <2>1, <2>2 DEF TopologyInv, IntentsFit, FilesFit, FileFits, Undisturbed
  <2>4. p.kind \in Kinds /\ p.rev # None /\ p.id \in Ops
    BY <2>1, <2>2, <2>3, PlanFacts
  <2>5. PICK y : y = TopologyOf(o)
    OBVIOUS
  <2>6. vault.area[o] \in {"none", "staging", "items"}
    BY <2>1 DEF Vault
  <2>7. CASE p.kind = "move"
    <3>1. y.from = vault.at[p.from] /\ y.to = vault.at[p.to] /\ y.temp = None
      BY <2>2, <2>5, <2>7 DEF TopologyOf
    <3> QED
      BY <2>2, <2>3, <2>4, <2>5, <2>7, <3>1 DEF Decide, Fits, MoveFits
  <2>8. CASE p.kind = "case"
    <3>1. y.from = vault.at[p.from] /\ y.to = vault.at[p.to] /\ y.temp = vault.at[Temp(o)]
      BY <2>2, <2>5, <2>8 DEF TopologyOf
    <3> QED
      BY <2>2, <2>3, <2>4, <2>5, <2>8, <3>1 DEF Decide, Fits, CaseFits
  <2>9. CASE p.kind = "trash"
    <3>1. /\ y.from = vault.at[p.from]
          /\ y.to = IF vault.area[o] = "items" THEN vault.at[Payload(o)] ELSE None
          /\ y.temp = IF vault.area[o] = "staging" THEN vault.at[Payload(o)] ELSE None
      BY <2>2, <2>5, <2>9 DEF TopologyOf
    <3> QED
      BY <2>2, <2>3, <2>4, <2>5, <2>6, <2>9, <3>1 DEF Decide, Fits, TrashFits
  <2>10. CASE p.kind = "restore"
    <3>1. y.from = vault.at[Payload(p.id)] /\ y.to = vault.at[p.to] /\ y.temp = None
      BY <2>2, <2>5, <2>10 DEF TopologyOf
    <3> QED
      BY <2>2, <2>3, <2>4, <2>5, <2>10, <3>1 DEF Decide, Fits, RestoreFits
  <2> QED
    BY <2>4, <2>7, <2>8, <2>9, <2>10 DEF Kinds
<1> QED
  BY <1>1, TopologyInvHolds, PTL
=============================================================================
