-------------------------- MODULE SyncRuntimeProofs --------------------------
(***************************************************************************)
(* Proofs about SyncRuntime, for any sessions, accounts and threads and any *)
(* number of commands: the marker always has an owner, a store is open at   *)
(* most once, and a detached store is worked on with its own account only.  *)
(* RuntimeInv is inductive.                                                 *)
(***************************************************************************)
EXTENDS SyncRuntime, TLAPS

Runtime == [active : {0} \cup Ids, running : {0} \cup Ids, account : Grants, auth : Grants]
Command == [kind : Kinds \cup {"none"}, stage : Stages, id : {0} \cup Ids,
            account : Grants, token : Grants, fresh : BOOLEAN]

\* The stages of a command that took the store, or that has just closed it.
Holding == {"detached", "worked", "discarding"}
Disconnects(c) == c.kind = "disconnect" /\ c.stage \in {"revoking", "revoked", "failed"}

\* What a command is known to be by its stage.
CommandFits(c) ==
    /\ c.stage # "idle" => c.id \in Ids
    /\ c.stage \in Holding \cup {"released"} => c.kind \in {"scan", "run"}
    /\ c.kind \in {"scan", "run"} /\ c.stage \in {"authorized", "detached", "worked"} =>
         c.token = c.account /\ c.account = bound[VaultOf(c.id)] /\ c.account # None
CommandsFit == \A t \in Threads : CommandFits(cmd[t])

\* A command owns the marker that names its session.  While the runtime has a store
\* only a disconnect can own it: who took the store left the runtime without one.
Owns(c, r) ==
    /\ c.id = r.running
    /\ Disconnects(c) \/ (r.active = 0 /\ c.stage \in Holding \cup {"released"})
MarkerIsOwned == rt.running # 0 => \E t \in Threads : Owns(cmd[t], rt)

RuntimeInv == TypeOK /\ CommandsFit /\ MarkerIsOwned /\ StoreIsOpenOnce
-----------------------------------------------------------------------------
LEMMA SessionFacts ==
    /\ \A id \in Ids : VaultOf(id) \in Vaults
    /\ Ids \subseteq Nat /\ 0 \notin Ids /\ 1 \in Ids
    /\ \A id \in Ids : id < Len(SessionVault) => id + 1 \in Ids
BY SessionsHaveVaults DEF VaultOf, Ids

LEMMA IdleFits == Idle \in Command /\ CommandFits(Idle) /\ Idle.stage = "idle" /\ Idle.kind = "none"
<1>1. Idle \in Command
  BY DEF Idle, Command, Kinds, Stages, Grants
<1> QED
  BY <1>1 DEF Idle, CommandFits, Holding

LEMMA InitHasInv == Init => RuntimeInv
<1> SUFFICES ASSUME Init PROVE RuntimeInv
  OBVIOUS
<1>1. rt \in Runtime /\ rt.running = 0 /\ \A t \in Threads : cmd[t] = Idle
  BY DEF Init, Runtime, Grants
<1>2. TypeOK
  BY <1>1, IdleFits, SessionFacts, CommandsAreBounded DEF Init, TypeOK, Runtime, Command
<1> QED
  BY <1>1, <1>2, IdleFits
  DEF RuntimeInv, CommandsFit, MarkerIsOwned, StoreIsOpenOnce, HoldsStore

\* What a step of the thread t has to see to.
LEMMA ThreadPreserves ==
  ASSUME RuntimeInv, NEW t \in Threads, NEW c \in Command,
         cmd' = [cmd EXCEPT ![t] = c], TypeOK',
         \A v \in Vaults : bound[v] # None => bound'[v] = bound[v],
         CommandFits(c)',
         \/ rt'.active \in {0, rt.active}
         \/ \A u \in Threads \ {t} : HoldsStore(u) => Vault(u) # VaultOf(rt'.active),
         c.stage \in Holding =>
           /\ rt'.active # 0 => VaultOf(rt'.active) # VaultOf(c.id)
           /\ \A u \in Threads \ {t} : HoldsStore(u) => Vault(u) # VaultOf(c.id),
         rt'.running # 0 =>
           \/ Owns(c, rt')
           \/ rt'.running = rt.running /\ rt'.active = rt.active /\ ~Owns(cmd[t], rt)
  PROVE  RuntimeInv'
<1> USE DEF RuntimeInv
<1>2. cmd'[t] = c /\ \A u \in Threads \ {t} : cmd'[u] = cmd[u]
  BY DEF TypeOK
<1>3. \A u \in Threads : CommandFits(cmd[u])
  BY DEF CommandsFit
<1>4. CommandsFit'
  <2>1. ASSUME NEW u \in Threads \ {t} PROVE CommandFits(cmd[u])'
    <3>1. cmd'[u] = cmd[u] /\ CommandFits(cmd[u])
      BY <1>2, <1>3
    <3>2. cmd[u].stage # "idle" => VaultOf(cmd[u].id) \in Vaults
      BY <3>1, SessionFacts DEF CommandFits
    <3> QED
      BY <3>1, <3>2 DEF CommandFits, VaultOf
  <2> QED
    BY <1>2, <2>1 DEF CommandsFit
<1>5. MarkerIsOwned'
  <2> SUFFICES ASSUME rt'.running # 0 PROVE \E u \in Threads : Owns(cmd'[u], rt')
    BY DEF MarkerIsOwned
  <2>1. CASE Owns(c, rt')
    BY <1>2, <2>1
  <2>2. CASE rt'.running = rt.running /\ rt'.active = rt.active /\ ~Owns(cmd[t], rt)
    <3>1. PICK u \in Threads : Owns(cmd[u], rt)
      BY <2>2 DEF MarkerIsOwned
    <3>2. cmd'[u] = cmd[u]
      BY <1>2, <2>2, <3>1
    <3> QED
      BY <2>2, <3>1, <3>2 DEF Owns
  <2> QED
    BY <2>1, <2>2
<1>6. StoreIsOpenOnce'
  <2> SUFFICES ASSUME NEW u \in Threads, HoldsStore(u)'
               PROVE  /\ rt'.active # 0 => VaultOf(rt'.active) # VaultOf(cmd'[u].id)
                      /\ \A w \in Threads \ {u} : HoldsStore(w)' => VaultOf(cmd'[w].id) # VaultOf(cmd'[u].id)
    BY DEF StoreIsOpenOnce, Vault, VaultOf
  <2>1. \A w \in Threads \ {t} : /\ HoldsStore(w)' <=> HoldsStore(w)
                                 /\ VaultOf(cmd'[w].id) = Vault(w)
    BY <1>2 DEF HoldsStore, Vault
  <2>2. HoldsStore(t)' <=> c.stage \in Holding
    BY <1>2 DEF HoldsStore, Holding
  <2>3. CASE u = t
    BY <1>2, <2>1, <2>2, <2>3
  <2>4. CASE u # t
    <3>1. HoldsStore(u) /\ VaultOf(cmd'[u].id) = Vault(u)
      BY <2>1, <2>4
    <3>2. rt'.active # 0 => VaultOf(rt'.active) # Vault(u)
      BY <2>4, <3>1 DEF StoreIsOpenOnce
    <3> QED
      BY <1>2, <2>1, <2>2, <2>4, <3>1, <3>2 DEF StoreIsOpenOnce
  <2> QED
    BY <2>3, <2>4
<1> QED
  BY <1>4, <1>5, <1>6

\* The same for the steps that leave the session and the keyring alone.
LEMMA StepPreserves ==
  ASSUME RuntimeInv, NEW t \in Threads, NEW c \in Command,
         cmd' = [cmd EXCEPT ![t] = c],
         rt' \in Runtime,
         bound' \in [Vaults -> Grants], ready' \subseteq Vaults,
         \A v \in Vaults : bound[v] # None => bound'[v] = bound[v],
         UNCHANGED <<platform, session, keyring, given>>,
         CommandFits(c)',
         \/ rt'.active \in {0, rt.active}
         \/ \A u \in Threads \ {t} : HoldsStore(u) => Vault(u) # VaultOf(rt'.active),
         c.stage \in Holding =>
           /\ rt'.active # 0 => VaultOf(rt'.active) # VaultOf(c.id)
           /\ \A u \in Threads \ {t} : HoldsStore(u) => Vault(u) # VaultOf(c.id),
         rt'.running # 0 =>
           \/ Owns(c, rt')
           \/ rt'.running = rt.running /\ rt'.active = rt.active /\ ~Owns(cmd[t], rt)
  PROVE  RuntimeInv'
<1>1. TypeOK'
  BY DEF RuntimeInv, TypeOK, Runtime, Command
<1> QED
  BY <1>1, ThreadPreserves

\* ensure_store: it has the store of the session it was asked for or leaves things as
\* they were, but for a store it closed; it never opens a store that is held, and with
\* a marker it opens none.
LEMMA EnsureStoreFacts ==
  ASSUME RuntimeInv, NEW id \in Ids, NEW o \in EnsureStore(id)
  PROVE  /\ o.rt \in Runtime /\ o.ok \in BOOLEAN
         /\ o.rt.running = rt.running
         /\ o.ok => o.rt.active = id
         /\ rt.running # 0 => o.rt.active = rt.active
         /\ o.rt.active \in {0, rt.active} \/ (o.rt.active = id /\ CanOpen(VaultOf(id)))
         /\ platform = "desktop" /\ o.ok => rt.running = 0
<1>0. rt \in Runtime /\ None \in Grants
  BY DEF RuntimeInv, TypeOK, Runtime, Grants
<1>1. ASSUME NEW r \in Runtime, r.active = 0, NEW p \in Opening(r, id)
      PROVE  /\ p.rt \in Runtime /\ p.ok \in BOOLEAN /\ p.rt.running = r.running
             /\ p.ok => p.rt.active = id
             /\ p.rt.active = 0 \/ (p.rt.active = id /\ CanOpen(VaultOf(id)))
  <2>1. \/ p = [ok |-> FALSE, rt |-> r]
        \/ CanOpen(VaultOf(id)) /\ p = [ok |-> TRUE, rt |-> [r EXCEPT !.active = id]]
    BY <1>1 DEF Opening, Refused
  <2>2. CASE p = [ok |-> FALSE, rt |-> r]
    BY <1>1, <2>2
  <2>3. CASE CanOpen(VaultOf(id)) /\ p = [ok |-> TRUE, rt |-> [r EXCEPT !.active = id]]
    <3>1. /\ [r EXCEPT !.active = id] \in Runtime /\ [r EXCEPT !.active = id].active = id
          /\ [r EXCEPT !.active = id].running = r.running
      BY DEF Runtime
    <3> QED
      BY <2>3, <3>1
  <2> QED
    BY <2>1, <2>2, <2>3
<1>2. CASE platform = "android"
  <2>1. \/ rt.active = id /\ o = [ok |-> TRUE, rt |-> rt]
        \/ rt.running # 0 /\ o = [ok |-> FALSE, rt |-> rt]
        \/ rt.running = 0 /\ o \in Opening([rt EXCEPT !.active = 0], id)
    BY <1>2 DEF EnsureStore, AndroidEnsureStore, Refused
  <2>2. /\ [rt EXCEPT !.active = 0] \in Runtime /\ [rt EXCEPT !.active = 0].active = 0
        /\ [rt EXCEPT !.active = 0].running = rt.running
    BY <1>0 DEF Runtime
  <2>3. CASE rt.active = id /\ o = [ok |-> TRUE, rt |-> rt]
    BY <1>0, <1>2, <2>3
  <2>5. CASE rt.running # 0 /\ o = [ok |-> FALSE, rt |-> rt]
    BY <1>0, <1>2, <2>5
  <2>4. CASE rt.running = 0 /\ o \in Opening([rt EXCEPT !.active = 0], id)
    BY <1>1, <1>2, <2>2, <2>4
  <2> QED
    BY <2>1, <2>3, <2>4, <2>5
<1>3. CASE platform # "android"
  <2> DEFINE r == [rt EXCEPT !.active = 0, !.account = None]
  <2>1. \/ rt.running # 0 /\ o = [ok |-> FALSE, rt |-> rt]
        \/ rt.running = 0 /\ rt.active = id /\ o = [ok |-> TRUE, rt |-> rt]
        \/ rt.running = 0 /\ o \in Opening(r, id)
    BY <1>3 DEF EnsureStore, DesktopEnsureStore, Refused
  <2>2. r \in Runtime /\ r.active = 0 /\ r.running = rt.running
    BY <1>0 DEF Runtime
  <2> HIDE DEF r
  <2>3. CASE rt.running # 0 /\ o = [ok |-> FALSE, rt |-> rt]
    BY <1>0, <2>3
  <2>4. CASE rt.running = 0 /\ rt.active = id /\ o = [ok |-> TRUE, rt |-> rt]
    BY <1>0, <2>4
  <2>5. CASE rt.running = 0 /\ o \in Opening(r, id)
    BY <1>1, <2>2, <2>5
  <2> QED
    BY <2>1, <2>3, <2>4, <2>5
<1> QED
  BY <1>2, <1>3

\* A command that is under way names a session.
LEMMA AtFacts ==
  ASSUME RuntimeInv, NEW t \in Threads, NEW kinds, NEW stage, At(t, kinds, stage), stage # "idle"
  PROVE  /\ cmd[t] \in Command /\ CommandFits(cmd[t]) /\ cmd[t].stage = stage /\ cmd[t].kind \in kinds
         /\ Id(t) \in Ids /\ Vault(t) \in Vaults /\ Id(t) = cmd[t].id
         /\ rt \in Runtime /\ bound \in [Vaults -> Grants] /\ ready \subseteq Vaults
<1>1. cmd[t] \in Command /\ rt \in Runtime /\ bound \in [Vaults -> Grants] /\ ready \subseteq Vaults
  BY DEF RuntimeInv, TypeOK, Command, Runtime
<1>2. CommandFits(cmd[t])
  BY DEF RuntimeInv, CommandsFit
<1> QED
  BY <1>1, <1>2, SessionFacts DEF At, CommandFits, Id, Vault

\* A command ends, and does not leave a marker of its own behind.
LEMMA DonePreserves ==
  ASSUME RuntimeInv, NEW t \in Threads, Done(t), rt' \in Runtime,
         bound' \in [Vaults -> Grants], ready' \subseteq Vaults,
         \A v \in Vaults : bound[v] # None => bound'[v] = bound[v],
         UNCHANGED <<platform, session, keyring, given>>,
         \/ rt'.active \in {0, rt.active}
         \/ \A u \in Threads \ {t} : HoldsStore(u) => Vault(u) # VaultOf(rt'.active),
         rt'.running # 0 => rt'.running = rt.running /\ rt'.active = rt.active /\ ~Owns(cmd[t], rt)
  PROVE  RuntimeInv'
<1>1. CommandFits(Idle)' /\ Idle.stage \notin Holding /\ Idle \in Command
  BY IdleFits DEF Idle, CommandFits, Holding
<1> QED
  BY <1>1, StepPreserves DEF Done

\* The same for a command that neither holds a store nor disconnects and that asked
\* ensure_store at most.
LEMMA EnsuredDonePreserves ==
  ASSUME RuntimeInv, NEW t \in Threads, Done(t), NEW id \in Ids, NEW o \in EnsureStore(id),
         rt' \in Runtime, rt'.active = o.rt.active, rt'.running = o.rt.running,
         bound' \in [Vaults -> Grants], ready' \subseteq Vaults,
         \A v \in Vaults : bound[v] # None => bound'[v] = bound[v],
         UNCHANGED <<platform, session, keyring, given>>,
         ~Owns(cmd[t], rt)
  PROVE  RuntimeInv'
<1>1. /\ o.rt.running = rt.running
      /\ rt.running # 0 => o.rt.active = rt.active
      /\ o.rt.active \in {0, rt.active} \/ (o.rt.active = id /\ CanOpen(VaultOf(id)))
  BY EnsureStoreFacts
<1>2. \/ rt'.active \in {0, rt.active}
      \/ \A u \in Threads \ {t} : HoldsStore(u) => Vault(u) # VaultOf(rt'.active)
  BY <1>1 DEF CanOpen
<1> QED
  BY <1>1, <1>2, DonePreserves

\* A command goes on without touching the stores.
LEMMA AuthorizeFacts ==
  ASSUME RuntimeInv, NEW t \in Threads, cmd[t].stage # "idle"
  PROVE  /\ \A stage \in Stages :
              Step(t, stage) =>
                \E c \in Command : /\ cmd' = [cmd EXCEPT ![t] = c]
                                   /\ c.stage = stage /\ c.kind = cmd[t].kind /\ c.id = cmd[t].id
                                   /\ c.token = cmd[t].token /\ c.account = cmd[t].account
         /\ \A token \in Grants :
              Authorize(t, token) =>
                \E c \in Command : /\ cmd' = [cmd EXCEPT ![t] = c]
                                   /\ c.stage = "authorized" /\ c.kind = cmd[t].kind
                                   /\ c.id = cmd[t].id /\ c.token = token
<1>0. cmd[t] \in Command /\ cmd \in [Threads -> Command]
  BY DEF RuntimeInv, TypeOK, Command
<1>1. ASSUME NEW stage \in Stages, Step(t, stage)
      PROVE  \E c \in Command : /\ cmd' = [cmd EXCEPT ![t] = c]
                                /\ c.stage = stage /\ c.kind = cmd[t].kind /\ c.id = cmd[t].id
                                /\ c.token = cmd[t].token /\ c.account = cmd[t].account
  <2> DEFINE c == [cmd[t] EXCEPT !.stage = stage]
  <2>1. /\ c \in Command /\ c.stage = stage /\ c.kind = cmd[t].kind /\ c.id = cmd[t].id
        /\ c.token = cmd[t].token /\ c.account = cmd[t].account
    BY <1>0 DEF Command
  <2>2. cmd' = [cmd EXCEPT ![t] = c]
    BY <1>0, <1>1 DEF Step
  <2> QED
    BY <2>1, <2>2
<1>2. ASSUME NEW token \in Grants, Authorize(t, token)
      PROVE  \E c \in Command : /\ cmd' = [cmd EXCEPT ![t] = c]
                                /\ c.stage = "authorized" /\ c.kind = cmd[t].kind
                                /\ c.id = cmd[t].id /\ c.token = token
  <2> DEFINE c == [cmd[t] EXCEPT !.stage = "authorized", !.token = token]
  <2>1. c \in Command /\ c.stage = "authorized" /\ c.kind = cmd[t].kind /\ c.id = cmd[t].id
        /\ c.token = token
    BY <1>0 DEF Command, Stages
  <2>2. cmd' = [cmd EXCEPT ![t] = c]
    BY <1>0, <1>2 DEF Authorize
  <2> QED
    BY <2>1, <2>2
<1> QED
  BY <1>1, <1>2

\* A command that holds no store goes on after it asked ensure_store at most.
LEMMA EnsuredStepPreserves ==
  ASSUME RuntimeInv, NEW t \in Threads, NEW c \in Command, cmd' = [cmd EXCEPT ![t] = c],
         CommandFits(c)', c.stage \notin Holding,
         NEW id \in Ids, NEW o \in EnsureStore(id),
         rt' \in Runtime, rt'.active = o.rt.active, rt'.running = o.rt.running,
         UNCHANGED <<platform, session, stores, keyring, given>>,
         ~Owns(cmd[t], rt)
  PROVE  RuntimeInv'
<1>1. /\ o.rt.running = rt.running
      /\ rt.running # 0 => o.rt.active = rt.active
      /\ o.rt.active \in {0, rt.active} \/ (o.rt.active = id /\ CanOpen(VaultOf(id)))
  BY EnsureStoreFacts
<1>2. \/ rt'.active \in {0, rt.active}
      \/ \A u \in Threads \ {t} : HoldsStore(u) => Vault(u) # VaultOf(rt'.active)
  BY <1>1 DEF CanOpen
<1>3. bound' \in [Vaults -> Grants] /\ ready' \subseteq Vaults /\ bound' = bound
  BY DEF RuntimeInv, TypeOK, stores
<1> QED
  BY <1>1, <1>2, <1>3, StepPreserves

\* A command that holds no store and sets no marker goes on, and the runtime keeps its
\* store and its marker.
LEMMA QuietStepPreserves ==
  ASSUME RuntimeInv, NEW t \in Threads, NEW c \in Command, cmd' = [cmd EXCEPT ![t] = c],
         CommandFits(c)', c.stage \notin Holding,
         rt' \in Runtime, rt'.active = rt.active, rt'.running = rt.running,
         UNCHANGED <<platform, session, stores, keyring, given>>,
         ~Owns(cmd[t], rt) \/ Owns(c, rt)
  PROVE  RuntimeInv'
<1>1. bound' \in [Vaults -> Grants] /\ ready' \subseteq Vaults /\ bound' = bound
  BY DEF RuntimeInv, TypeOK, stores
<1>2. Owns(c, rt) => Owns(c, rt')
  BY DEF Owns
<1> QED
  BY <1>1, <1>2, StepPreserves

LEMMA QuietDonePreserves ==
  ASSUME RuntimeInv, NEW t \in Threads, Done(t),
         rt' \in Runtime, rt'.active = rt.active, rt'.running = rt.running,
         UNCHANGED <<platform, session, stores, keyring, given>>,
         ~Owns(cmd[t], rt)
  PROVE  RuntimeInv'
<1>1. CommandFits(Idle)' /\ Idle.stage \notin Holding /\ Idle \in Command
  BY IdleFits DEF Idle, CommandFits, Holding
<1> QED
  BY <1>1, QuietStepPreserves DEF Done
-----------------------------------------------------------------------------
(* sync_connect, sync_list_folders, sync_bind_root and sync_preview.        *)

\* The commands that detach no store and set no marker.
Plain == {"connect", "list", "bind", "preview"}

LEMMA PlainOwnsNothing ==
  ASSUME NEW t \in Threads, NEW stage, At(t, Plain, stage), stage \in {"checked", "authorized", "failed"}
  PROVE  ~Owns(cmd[t], rt)
BY DEF At, Plain, Owns, Disconnects, Holding

LEMMA ConnectBeginPreserves ==
  ASSUME RuntimeInv, NEW t \in Threads, ConnectBegin(t) PROVE RuntimeInv'
<1>1. /\ At(t, {"connect"}, "checked") /\ At(t, Plain, "checked")
      /\ UNCHANGED <<platform, session, stores, keyring, given>>
  BY DEF ConnectBegin, At, Plain
<1>2. /\ cmd[t].kind = "connect" /\ cmd[t].stage = "checked" /\ Id(t) \in Ids /\ cmd[t].id = Id(t)
      /\ bound \in [Vaults -> Grants] /\ ready \subseteq Vaults
  BY <1>1, AtFacts
<1>3. PICK o \in EnsureStore(Id(t)), token \in Grants :
        rt' = o.rt /\ (Authorize(t, token) \/ Done(t))
  BY DEF ConnectBegin
<1>4. o.rt \in Runtime /\ ~Owns(cmd[t], rt)
  BY <1>1, <1>2, EnsureStoreFacts, PlainOwnsNothing
<1>5. CASE Authorize(t, token)
  <2>1. PICK c \in Command : /\ cmd' = [cmd EXCEPT ![t] = c]
                             /\ c.stage = "authorized" /\ c.kind = "connect" /\ c.id = Id(t)
    BY <1>2, <1>5, AuthorizeFacts
  <2>2. CommandFits(c)' /\ c.stage \notin Holding
    BY <1>2, <2>1 DEF CommandFits, Holding
  <2> QED
    BY <1>1, <1>2, <1>3, <1>4, <2>1, <2>2, EnsuredStepPreserves
<1>6. CASE Done(t)
  <2>1. bound' \in [Vaults -> Grants] /\ ready' \subseteq Vaults /\ bound' = bound
    BY <1>1, <1>2 DEF stores
  <2> QED
    BY <1>1, <1>2, <1>3, <1>4, <1>6, <2>1, EnsuredDonePreserves
<1> QED
  BY <1>3, <1>5, <1>6

LEMMA ConnectCommitPreserves ==
  ASSUME RuntimeInv, NEW t \in Threads, ConnectCommit(t) PROVE RuntimeInv'
<1>1. /\ At(t, {"connect"}, "authorized") /\ At(t, Plain, "authorized")
      /\ UNCHANGED <<platform, session, stores, keyring, given>>
  BY DEF ConnectCommit, At, Plain
<1>2. /\ cmd[t].kind = "connect" /\ cmd[t].stage = "authorized" /\ Id(t) \in Ids /\ cmd[t].id = Id(t)
      /\ bound \in [Vaults -> Grants] /\ ready \subseteq Vaults /\ cmd[t] \in Command /\ rt \in Runtime
  BY <1>1, AtFacts
<1>3. ~Owns(cmd[t], rt)
  BY <1>1, PlainOwnsNothing
<1>4. bound' \in [Vaults -> Grants] /\ ready' \subseteq Vaults /\ bound' = bound
  BY <1>1, <1>2 DEF stores
<1>5. ASSUME Step(t, "failed")
      PROVE  \E c \in Command : cmd' = [cmd EXCEPT ![t] = c] /\ CommandFits(c)' /\ c.stage \notin Holding
  <2>1. PICK c \in Command : /\ cmd' = [cmd EXCEPT ![t] = c]
                             /\ c.stage = "failed" /\ c.kind = "connect" /\ c.id = Id(t)
    BY <1>2, <1>5, AuthorizeFacts, "failed" \in Stages DEF Stages
  <2> QED
    BY <1>2, <2>1 DEF CommandFits, Holding
<1>6. CASE Step(t, "failed") /\ UNCHANGED rt
  <2>1. PICK c \in Command : cmd' = [cmd EXCEPT ![t] = c] /\ CommandFits(c)' /\ c.stage \notin Holding
    BY <1>5, <1>6
  <2> QED
    BY <1>1, <1>2, <1>3, <1>6, <2>1, QuietStepPreserves
<1>7. ASSUME NEW o \in EnsureStore(Id(t)),
             \/ rt' = [o.rt EXCEPT !.account = cmd[t].token, !.auth = cmd[t].token] /\ Done(t)
             \/ rt' = o.rt /\ Step(t, "failed")
      PROVE  RuntimeInv'
  <2>1. o.rt \in Runtime
    BY <1>2, EnsureStoreFacts
  <2>2. CASE rt' = [o.rt EXCEPT !.account = cmd[t].token, !.auth = cmd[t].token] /\ Done(t)
    <3>1. rt' \in Runtime /\ rt'.active = o.rt.active /\ rt'.running = o.rt.running
      BY <1>2, <2>1, <2>2 DEF Runtime, Command
    <3> QED
      BY <1>1, <1>2, <1>3, <1>4, <2>2, <3>1, EnsuredDonePreserves
  <2>3. CASE rt' = o.rt /\ Step(t, "failed")
    <3>1. PICK c \in Command : cmd' = [cmd EXCEPT ![t] = c] /\ CommandFits(c)' /\ c.stage \notin Holding
      BY <1>5, <2>3
    <3> QED
      BY <1>1, <1>2, <1>3, <2>1, <2>3, <3>1, EnsuredStepPreserves
  <2> QED
    BY <1>7, <2>2, <2>3
<1>8. \/ Step(t, "failed") /\ UNCHANGED rt
      \/ \E o \in EnsureStore(Id(t)) :
           \/ rt' = [o.rt EXCEPT !.account = cmd[t].token, !.auth = cmd[t].token] /\ Done(t)
           \/ rt' = o.rt /\ Step(t, "failed")
  BY DEF ConnectCommit
<1> QED
  BY <1>6, <1>7, <1>8

LEMMA ConnectCleanupPreserves ==
  ASSUME RuntimeInv, NEW t \in Threads, ConnectCleanup(t) PROVE RuntimeInv'
<1>1. /\ At(t, {"connect"}, "failed") /\ At(t, Plain, "failed") /\ Done(t)
      /\ UNCHANGED <<platform, session, stores, keyring, given>>
  BY DEF ConnectCleanup, At, Plain
<1>2. rt \in Runtime /\ bound \in [Vaults -> Grants] /\ ready \subseteq Vaults
  BY <1>1, AtFacts
<1>3. ~Owns(cmd[t], rt)
  BY <1>1, PlainOwnsNothing
<1>4. bound' \in [Vaults -> Grants] /\ ready' \subseteq Vaults /\ bound' = bound
  BY <1>1, <1>2 DEF stores
<1>5. /\ rt' \in Runtime /\ rt'.active \in {0, rt.active} /\ rt'.running = rt.running
      /\ rt.running # 0 => rt'.active = rt.active
  BY <1>2 DEF ConnectCleanup, Runtime
<1> QED
  BY <1>1, <1>3, <1>4, <1>5, DonePreserves

LEMMA ListBeginPreserves ==
  ASSUME RuntimeInv, NEW t \in Threads, ListBegin(t) \/ BindBegin(t) PROVE RuntimeInv'
<1>1. /\ At(t, {"list", "bind"}, "checked") /\ At(t, Plain, "checked")
      /\ UNCHANGED <<platform, session, stores, keyring, given>> /\ rt' = rt
  BY DEF ListBegin, BindBegin, At, Plain
<1>2. /\ cmd[t].kind \in {"list", "bind"} /\ cmd[t].stage = "checked" /\ Id(t) \in Ids
      /\ cmd[t].id = Id(t) /\ rt \in Runtime
  BY <1>1, AtFacts
<1>3. PICK token \in Grants : Authorize(t, token) \/ Done(t)
  BY DEF ListBegin, BindBegin
<1>4. ~Owns(cmd[t], rt)
  BY <1>1, PlainOwnsNothing
<1>5. CASE Authorize(t, token)
  <2>1. PICK c \in Command : /\ cmd' = [cmd EXCEPT ![t] = c]
                             /\ c.stage = "authorized" /\ c.kind \in {"list", "bind"} /\ c.id = Id(t)
    BY <1>2, <1>5, AuthorizeFacts
  <2>2. CommandFits(c)' /\ c.stage \notin Holding
    BY <1>2, <2>1 DEF CommandFits, Holding
  <2> QED
    BY <1>1, <1>2, <1>4, <2>1, <2>2, QuietStepPreserves
<1>6. CASE Done(t)
  BY <1>1, <1>2, <1>4, <1>6, QuietDonePreserves
<1> QED
  BY <1>3, <1>5, <1>6

LEMMA ListCommitPreserves ==
  ASSUME RuntimeInv, NEW t \in Threads, ListCommit(t) PROVE RuntimeInv'
<1>1. /\ At(t, {"list"}, "authorized") /\ At(t, Plain, "authorized") /\ Done(t)
      /\ UNCHANGED <<platform, session, stores, keyring, given>>
  BY DEF ListCommit, At, Plain
<1>2. rt \in Runtime /\ cmd[t] \in Command
  BY <1>1, AtFacts
<1>3. ~Owns(cmd[t], rt)
  BY <1>1, PlainOwnsNothing
<1>4. rt' \in Runtime /\ rt'.active = rt.active /\ rt'.running = rt.running
  BY <1>2 DEF ListCommit, Runtime, Command
<1> QED
  BY <1>1, <1>3, <1>4, QuietDonePreserves

\* A store that is bound stays bound to its account.
LEMMA BindStoreFacts ==
  ASSUME bound \in [Vaults -> Grants], ready \subseteq Vaults,
         NEW v \in Vaults, NEW account \in Grants, BindStore(v, account) \/ UNCHANGED stores
  PROVE  /\ bound' \in [Vaults -> Grants] /\ ready' \subseteq Vaults
         /\ \A w \in Vaults : bound[w] # None => bound'[w] = bound[w]
BY DEF BindStore, stores

LEMMA BindCommitPreserves ==
  ASSUME RuntimeInv, NEW t \in Threads, BindCommit(t) PROVE RuntimeInv'
<1>1. /\ At(t, {"bind"}, "authorized") /\ At(t, Plain, "authorized") /\ Done(t)
      /\ UNCHANGED <<platform, session, keyring, given>>
  BY DEF BindCommit, At, Plain
<1>2. /\ Id(t) \in Ids /\ cmd[t].id = Id(t) /\ Vault(t) \in Vaults /\ cmd[t].token \in Grants
      /\ bound \in [Vaults -> Grants] /\ ready \subseteq Vaults /\ rt \in Runtime
  BY <1>1, AtFacts DEF Command
<1>3. ~Owns(cmd[t], rt)
  BY <1>1, PlainOwnsNothing
<1>4. CASE UNCHANGED <<rt, stores>>
  BY <1>1, <1>2, <1>3, <1>4, QuietDonePreserves
<1>5. ASSUME NEW o \in EnsureStore(Id(t)),
             \/ /\ BindStore(Vault(t), cmd[t].token)
                /\ rt' = [o.rt EXCEPT !.account = cmd[t].token, !.auth = cmd[t].token]
             \/ rt' = o.rt /\ UNCHANGED stores
      PROVE  RuntimeInv'
  <2>1. o.rt \in Runtime
    BY <1>2, EnsureStoreFacts
  <2>2. rt' \in Runtime /\ rt'.active = o.rt.active /\ rt'.running = o.rt.running
    BY <1>2, <1>5, <2>1 DEF Runtime
  <2>3. BindStore(Vault(t), cmd[t].token) \/ UNCHANGED stores
    BY <1>5
  <2>4. /\ bound' \in [Vaults -> Grants] /\ ready' \subseteq Vaults
        /\ \A w \in Vaults : bound[w] # None => bound'[w] = bound[w]
    BY <1>2, <2>3, BindStoreFacts
  <2> QED
    BY <1>1, <1>2, <1>3, <2>2, <2>4, EnsuredDonePreserves
<1>6. \/ UNCHANGED <<rt, stores>>
      \/ \E o \in EnsureStore(Id(t)) :
           \/ /\ BindStore(Vault(t), cmd[t].token)
              /\ rt' = [o.rt EXCEPT !.account = cmd[t].token, !.auth = cmd[t].token]
           \/ rt' = o.rt /\ UNCHANGED stores
  BY DEF BindCommit
<1> QED
  BY <1>4, <1>5, <1>6

LEMMA PreviewPreserves ==
  ASSUME RuntimeInv, NEW t \in Threads, Preview(t) PROVE RuntimeInv'
<1>1. /\ At(t, {"preview"}, "checked") /\ At(t, Plain, "checked") /\ Done(t)
      /\ UNCHANGED <<platform, session, stores, keyring, given>>
  BY DEF Preview, At, Plain
<1>2. /\ Id(t) \in Ids /\ bound' \in [Vaults -> Grants] /\ ready' \subseteq Vaults /\ bound' = bound
  BY <1>1, AtFacts DEF stores
<1>3. PICK o \in EnsureStore(Id(t)) : rt' = o.rt
  BY DEF Preview
<1>4. o.rt \in Runtime /\ ~Owns(cmd[t], rt)
  BY <1>1, <1>2, EnsureStoreFacts, PlainOwnsNothing
<1> QED
  BY <1>1, <1>2, <1>3, <1>4, EnsuredDonePreserves
-----------------------------------------------------------------------------
(* sync_scan_step and sync_run_guarded.                                      *)

LEMMA WorkBeginPreserves ==
  ASSUME RuntimeInv, NEW t \in Threads, WorkBegin(t) PROVE RuntimeInv'
<1>1. /\ At(t, {"scan", "run"}, "checked")
      /\ UNCHANGED <<platform, session, stores, keyring, given>>
  BY DEF WorkBegin
<1>2. /\ cmd[t].kind \in {"scan", "run"} /\ cmd[t].stage = "checked" /\ Id(t) \in Ids
      /\ cmd[t].id = Id(t) /\ cmd[t] \in Command /\ rt \in Runtime /\ Vault(t) \in Vaults
      /\ bound \in [Vaults -> Grants] /\ ready \subseteq Vaults
  BY <1>1, AtFacts
<1>3. ~Owns(cmd[t], rt)
  BY <1>2 DEF Owns, Disconnects, Holding
<1>4. bound' \in [Vaults -> Grants] /\ ready' \subseteq Vaults /\ bound' = bound
  BY <1>1, <1>2 DEF stores
<1>5. CASE Done(t) /\ UNCHANGED rt
  BY <1>1, <1>2, <1>3, <1>5, QuietDonePreserves
<1>6. ASSUME NEW o \in EnsureStore(Id(t)), rt' = o.rt,
             \/ Done(t)
             \/ /\ bound[Vault(t)] # None
                /\ cmd' = [cmd EXCEPT ![t].stage = "authorized", ![t].token = bound[Vault(t)],
                                      ![t].account = bound[Vault(t)]]
      PROVE  RuntimeInv'
  <2>1. o.rt \in Runtime
    BY <1>2, EnsureStoreFacts
  <2>2. CASE Done(t)
    BY <1>1, <1>2, <1>3, <1>4, <1>6, <2>1, <2>2, EnsuredDonePreserves
  <2>3. CASE /\ bound[Vault(t)] # None
             /\ cmd' = [cmd EXCEPT ![t].stage = "authorized", ![t].token = bound[Vault(t)],
                                   ![t].account = bound[Vault(t)]]
    <3> DEFINE d == [cmd[t] EXCEPT !.stage = "authorized", !.token = bound[Vault(t)],
                                   !.account = bound[Vault(t)]]
    <3>1. /\ d \in Command /\ d.stage = "authorized" /\ d.id = Id(t)
          /\ d.token = bound[Vault(t)] /\ d.account = bound[Vault(t)]
      BY <1>2 DEF Command, Stages
    <3>2. cmd' = [cmd EXCEPT ![t] = d]
      BY <2>3 DEF RuntimeInv, TypeOK
    <3> HIDE DEF d
    <3>3. PICK c \in Command :
            /\ cmd' = [cmd EXCEPT ![t] = c] /\ c.stage = "authorized" /\ c.id = Id(t)
            /\ c.token = bound[Vault(t)] /\ c.account = bound[Vault(t)]
      BY <3>1, <3>2
    <3>4. CommandFits(c)' /\ c.stage \notin Holding
      BY <1>2, <1>4, <2>3, <3>3 DEF CommandFits, Holding, Vault, VaultOf
    <3> QED
      BY <1>1, <1>2, <1>3, <1>6, <2>1, <3>3, <3>4, EnsuredStepPreserves
  <2> QED
    BY <1>6, <2>2, <2>3
<1>7. \/ Done(t) /\ UNCHANGED rt
      \/ \E o \in EnsureStore(Id(t)) :
           /\ rt' = o.rt
           /\ \/ Done(t)
              \/ /\ bound[Vault(t)] # None
                 /\ cmd' = [cmd EXCEPT ![t].stage = "authorized", ![t].token = bound[Vault(t)],
                                       ![t].account = bound[Vault(t)]]
  BY DEF WorkBegin
<1> QED
  BY <1>5, <1>6, <1>7

\* ensure_store answered: the store is in the runtime and nobody holds it.
LEMMA EnsuredIsFree ==
  ASSUME RuntimeInv, NEW id \in Ids, NEW o \in EnsureStore(id), o.ok, NEW u \in Threads, HoldsStore(u)
  PROVE  Vault(u) # VaultOf(id)
<1>1. o.rt.active = id /\ (o.rt.active \in {0, rt.active} \/ CanOpen(VaultOf(id))) /\ id # 0
  BY EnsureStoreFacts, SessionFacts
<1>2. CASE rt.active = id
  BY <1>1, <1>2 DEF RuntimeInv, StoreIsOpenOnce
<1>3. CASE CanOpen(VaultOf(id))
  BY <1>3 DEF CanOpen
<1> QED
  BY <1>1, <1>2, <1>3

\* The store is taken out of the runtime that ensure_store left.
LEMMA TakenPreserves ==
  ASSUME RuntimeInv, NEW t \in Threads, NEW c \in Command, cmd' = [cmd EXCEPT ![t] = c],
         c.id = Id(t), Id(t) \in Ids, c.stage = "detached", CommandFits(c)',
         NEW o \in EnsureStore(Id(t)), o.ok, rt' = Taken(o.rt, Id(t)),
         UNCHANGED <<platform, session, stores, keyring, given>>
  PROVE  RuntimeInv'
<1>1. o.rt \in Runtime
  BY EnsureStoreFacts
<1>2. rt' \in Runtime /\ rt'.active = 0 /\ rt'.running = Id(t)
  BY <1>1 DEF Taken, Runtime
<1>3. \A u \in Threads : HoldsStore(u) => Vault(u) # VaultOf(c.id)
  BY EnsuredIsFree
<1>4. bound' \in [Vaults -> Grants] /\ ready' \subseteq Vaults /\ bound' = bound
  BY DEF RuntimeInv, TypeOK, stores
<1>5. Owns(c, rt')
  BY <1>2 DEF Owns, Holding
<1> QED
  BY <1>2, <1>3, <1>4, <1>5, StepPreserves

LEMMA DetachPreserves ==
  ASSUME RuntimeInv, NEW t \in Threads, Detach(t) PROVE RuntimeInv'
<1>1. /\ At(t, {"scan", "run"}, "authorized")
      /\ UNCHANGED <<platform, session, stores, keyring, given>>
  BY DEF Detach
<1>2. /\ cmd[t].kind \in {"scan", "run"} /\ cmd[t].stage = "authorized" /\ Id(t) \in Ids
      /\ cmd[t].id = Id(t) /\ CommandFits(cmd[t])
  BY <1>1, AtFacts
<1>3. ~Owns(cmd[t], rt)
  BY <1>2 DEF Owns, Disconnects, Holding
<1>4. bound' \in [Vaults -> Grants] /\ ready' \subseteq Vaults /\ bound' = bound
  BY <1>1, AtFacts DEF stores
<1>5. PICK o \in EnsureStore(Id(t)) :
        \/ o.ok /\ rt' = Taken(o.rt, Id(t)) /\ Step(t, "detached")
        \/ rt' = o.rt /\ Done(t)
  BY DEF Detach
<1>6. CASE o.ok /\ rt' = Taken(o.rt, Id(t)) /\ Step(t, "detached")
  <2>1. PICK c \in Command : /\ cmd' = [cmd EXCEPT ![t] = c]
                             /\ c.stage = "detached" /\ c.kind = cmd[t].kind /\ c.id = cmd[t].id
                             /\ c.token = cmd[t].token /\ c.account = cmd[t].account
    BY <1>2, <1>6, AuthorizeFacts, "detached" \in Stages DEF Stages
  <2>2. CommandFits(c)'
    BY <1>2, <1>4, <2>1 DEF CommandFits, Holding
  <2> QED
    BY <1>1, <1>2, <1>6, <2>1, <2>2, TakenPreserves
<1>7. CASE rt' = o.rt /\ Done(t)
  <2>1. o.rt \in Runtime
    BY <1>2, EnsureStoreFacts
  <2> QED
    BY <1>1, <1>2, <1>3, <1>4, <1>7, <2>1, EnsuredDonePreserves
<1> QED
  BY <1>5, <1>6, <1>7

LEMMA DesktopDetachPreserves ==
  ASSUME RuntimeInv, NEW t \in Threads, DesktopDetach(t) PROVE RuntimeInv'
<1>1. /\ At(t, {"run"}, "checked")
      /\ UNCHANGED <<platform, session, stores, keyring, given>>
  BY DEF DesktopDetach
<1>2. /\ cmd[t].kind = "run" /\ cmd[t].stage = "checked" /\ Id(t) \in Ids
      /\ cmd[t].id = Id(t) /\ cmd[t] \in Command /\ rt \in Runtime
  BY <1>1, AtFacts
<1>3. ~Owns(cmd[t], rt)
  BY <1>2 DEF Owns, Disconnects, Holding
<1>4. bound' \in [Vaults -> Grants] /\ ready' \subseteq Vaults /\ bound' = bound
  BY <1>1, AtFacts DEF stores
<1>5. CASE Done(t) /\ UNCHANGED rt
  BY <1>1, <1>2, <1>3, <1>5, QuietDonePreserves
<1>6. ASSUME NEW o \in EnsureStore(Id(t)), rt' = o.rt, Done(t) PROVE RuntimeInv'
  <2>1. o.rt \in Runtime
    BY <1>2, EnsureStoreFacts
  <2> QED
    BY <1>1, <1>2, <1>3, <1>4, <1>6, <2>1, EnsuredDonePreserves
<1>7. ASSUME NEW o \in EnsureStore(Id(t)), o.ok, rt.account # None, bound[Vault(t)] = rt.account,
             rt' = Taken(o.rt, Id(t)),
             cmd' = [cmd EXCEPT ![t].stage = "detached", ![t].account = rt.account,
                                ![t].token = rt.account]
      PROVE  RuntimeInv'
  <2> DEFINE d == [cmd[t] EXCEPT !.stage = "detached", !.account = rt.account, !.token = rt.account]
  <2>1. /\ d \in Command /\ d.stage = "detached" /\ d.id = Id(t) /\ d.kind = "run"
        /\ d.token = rt.account /\ d.account = rt.account
    BY <1>2 DEF Command, Stages, Runtime
  <2>2. cmd' = [cmd EXCEPT ![t] = d]
    BY <1>7 DEF RuntimeInv, TypeOK
  <2> HIDE DEF d
  <2>3. PICK c \in Command :
          /\ cmd' = [cmd EXCEPT ![t] = c] /\ c.stage = "detached" /\ c.id = Id(t) /\ c.kind = "run"
          /\ c.token = rt.account /\ c.account = rt.account
    BY <2>1, <2>2
  <2>4. CommandFits(c)'
    BY <1>2, <1>4, <1>7, <2>3 DEF CommandFits, Holding, Vault, VaultOf
  <2> QED
    BY <1>1, <1>2, <1>7, <2>3, <2>4, TakenPreserves
<1>8. \/ Done(t) /\ UNCHANGED rt
      \/ \E o \in EnsureStore(Id(t)) :
           \/ rt' = o.rt /\ Done(t)
           \/ /\ o.ok /\ rt.account # None /\ bound[Vault(t)] = rt.account /\ rt' = Taken(o.rt, Id(t))
              /\ cmd' = [cmd EXCEPT ![t].stage = "detached", ![t].account = rt.account,
                                    ![t].token = rt.account]
  BY DEF DesktopDetach
<1> QED
  BY <1>5, <1>6, <1>7, <1>8

\* A command that holds the store goes on with it or has closed it.
LEMMA HolderPreserves ==
  ASSUME RuntimeInv, NEW t \in Threads, NEW c \in Command, cmd' = [cmd EXCEPT ![t] = c],
         cmd[t].stage \in Holding, c.stage \in Holding \cup {"released"}, c.id = cmd[t].id,
         CommandFits(c)', ready' \subseteq Vaults,
         UNCHANGED <<platform, session, rt, bound, keyring, given>>
  PROVE  RuntimeInv'
<1>1. rt' \in Runtime /\ rt' = rt /\ bound' \in [Vaults -> Grants] /\ bound' = bound
  BY DEF RuntimeInv, TypeOK, Runtime
<1>2. /\ rt'.active # 0 => VaultOf(rt'.active) # VaultOf(c.id)
      /\ \A u \in Threads \ {t} : HoldsStore(u) => Vault(u) # VaultOf(c.id)
  BY <1>1 DEF RuntimeInv, StoreIsOpenOnce, HoldsStore, Holding, Vault
<1>3. Owns(cmd[t], rt) => Owns(c, rt')
  BY <1>1 DEF Owns, Disconnects, Holding
<1> QED
  BY <1>1, <1>2, <1>3, StepPreserves

LEMMA RefreshPreserves ==
  ASSUME RuntimeInv, NEW t \in Threads, Refresh(t) PROVE RuntimeInv'
<1>1. /\ At(t, {"run"}, "detached")
      /\ UNCHANGED <<platform, session, rt, stores, keyring, given>>
  BY DEF Refresh
<1>2. /\ cmd[t].kind = "run" /\ cmd[t].stage = "detached" /\ Id(t) \in Ids
      /\ cmd[t].id = Id(t) /\ cmd[t] \in Command /\ CommandFits(cmd[t])
      /\ ready' \subseteq Vaults /\ bound' = bound
  BY <1>1, AtFacts DEF stores
<1>3. PICK token \in Refreshed(t) : cmd' = [cmd EXCEPT ![t].token = token, ![t].fresh = FALSE]
  BY DEF Refresh
<1>4. token = cmd[t].account
  BY <1>3 DEF Refreshed
<1> DEFINE d == [cmd[t] EXCEPT !.token = token, !.fresh = FALSE]
<1>5. /\ d \in Command /\ d.stage = "detached" /\ d.id = cmd[t].id /\ d.kind = "run"
      /\ d.token = cmd[t].account /\ d.account = cmd[t].account
  BY <1>2, <1>4 DEF Command
<1>6. cmd' = [cmd EXCEPT ![t] = d]
  BY <1>3 DEF RuntimeInv, TypeOK
<1> HIDE DEF d
<1>7. PICK c \in Command :
        /\ cmd' = [cmd EXCEPT ![t] = c] /\ c.stage = "detached" /\ c.id = cmd[t].id /\ c.kind = "run"
        /\ c.token = cmd[t].account /\ c.account = cmd[t].account
  BY <1>5, <1>6
<1>8. CommandFits(c)'
  BY <1>2, <1>7 DEF CommandFits, Holding, VaultOf
<1>9. cmd[t].stage \in Holding /\ c.stage \in Holding
  BY <1>2, <1>7 DEF Holding
<1> QED
  BY <1>1, <1>2, <1>7, <1>8, <1>9, HolderPreserves

\* A store that cannot go back under its marker leaves nothing of its own behind.
LEMMA RestoredFacts ==
  ASSUME RuntimeInv, NEW t \in Threads, cmd[t].stage \in Holding
  PROVE  /\ Restored(t) \in Runtime
         /\ \/ Restored(t).active \in {0, rt.active}
            \/ \A u \in Threads \ {t} : HoldsStore(u) => Vault(u) # VaultOf(Restored(t).active)
         /\ Restored(t).running # 0 => /\ Restored(t).running = rt.running
                                       /\ Restored(t).active = rt.active /\ ~Owns(cmd[t], rt)
<1>1. /\ rt \in Runtime /\ cmd[t] \in Command /\ CommandFits(cmd[t])
  BY DEF RuntimeInv, TypeOK, Runtime, Command, CommandsFit
<1>2. Id(t) \in Ids /\ Id(t) = cmd[t].id /\ Id(t) # 0
  BY <1>1, SessionFacts DEF CommandFits, Holding, Id
<1>3. \A u \in Threads \ {t} : HoldsStore(u) => Vault(u) # VaultOf(Id(t))
  BY DEF RuntimeInv, StoreIsOpenOnce, HoldsStore, Holding, Vault, Id
<1>4. CASE MayReturn(t)
  <2>1. /\ Restored(t) \in Runtime /\ Restored(t).active = Id(t) /\ Restored(t).running = 0
    BY <1>1, <1>2, <1>4 DEF Restored, Runtime
  <2> QED
    BY <1>3, <2>1
<1>5. CASE ~MayReturn(t)
  <2>1. Restored(t) = rt
    BY <1>5 DEF Restored
  <2>2. ~Owns(cmd[t], rt)
    BY <1>1, <1>2, <1>5 DEF MayReturn, Owns, Disconnects, Holding, CommandFits
  <2> QED
    BY <1>1, <2>1, <2>2
<1> QED
  BY <1>4, <1>5

LEMMA WorkPreserves ==
  ASSUME RuntimeInv, NEW t \in Threads, Work(t) PROVE RuntimeInv'
<1>1. /\ At(t, {"scan", "run"}, "detached")
      /\ UNCHANGED <<platform, session, bound, keyring, given>>
  BY DEF Work
<1>2. /\ cmd[t].kind \in {"scan", "run"} /\ cmd[t].stage = "detached" /\ Id(t) \in Ids
      /\ cmd[t].id = Id(t) /\ cmd[t] \in Command /\ CommandFits(cmd[t])
      /\ bound \in [Vaults -> Grants] /\ ready \subseteq Vaults /\ Vault(t) \in Vaults
  BY <1>1, AtFacts
<1>3. cmd[t].stage \in Holding
  BY <1>2 DEF Holding
<1>4. ASSUME NEW stage \in {"worked", "discarding"}, Step(t, stage), UNCHANGED rt, ready' \subseteq Vaults
      PROVE  RuntimeInv'
  <2>1. PICK c \in Command : /\ cmd' = [cmd EXCEPT ![t] = c]
                             /\ c.stage = stage /\ c.kind = cmd[t].kind /\ c.id = cmd[t].id
                             /\ c.token = cmd[t].token /\ c.account = cmd[t].account
    BY <1>2, <1>4, AuthorizeFacts, stage \in Stages DEF Stages
  <2>2. CommandFits(c)' /\ c.stage \in Holding
    BY <1>1, <1>2, <1>4, <2>1 DEF CommandFits, Holding, VaultOf
  <2> QED
    BY <1>1, <1>3, <1>4, <2>1, <2>2, HolderPreserves
<1>5. CASE rt' = Restored(t) /\ Done(t) /\ UNCHANGED ready
  BY <1>1, <1>2, <1>3, <1>5, RestoredFacts, DonePreserves
<1>6. \/ /\ Step(t, "worked") /\ UNCHANGED rt
         /\ ready' = IF cmd[t].kind = "scan" THEN ready \cup {Vault(t)} ELSE ready
      \/ Step(t, "discarding") /\ UNCHANGED <<rt, ready>>
      \/ rt' = Restored(t) /\ Done(t) /\ UNCHANGED ready
  BY DEF Work
<1>7. CASE /\ Step(t, "worked") /\ UNCHANGED rt
           /\ ready' = IF cmd[t].kind = "scan" THEN ready \cup {Vault(t)} ELSE ready
  <2>1. ready' \subseteq Vaults
    BY <1>2, <1>7
  <2> QED
    BY <1>4, <1>7, <2>1
<1>8. CASE Step(t, "discarding") /\ UNCHANGED <<rt, ready>>
  BY <1>2, <1>4, <1>8
<1> QED
  BY <1>5, <1>6, <1>7, <1>8

LEMMA GiveBackPreserves ==
  ASSUME RuntimeInv, NEW t \in Threads, GiveBack(t) PROVE RuntimeInv'
<1>1. /\ At(t, {"scan", "run"}, "worked")
      /\ UNCHANGED <<platform, session, stores, keyring, given>>
  BY DEF GiveBack
<1>2. /\ cmd[t].kind \in {"scan", "run"} /\ cmd[t].stage = "worked" /\ Id(t) \in Ids
      /\ cmd[t].id = Id(t) /\ cmd[t] \in Command /\ CommandFits(cmd[t]) /\ rt \in Runtime
      /\ bound' \in [Vaults -> Grants] /\ ready' \subseteq Vaults /\ bound' = bound
  BY <1>1, AtFacts DEF stores
<1>3. cmd[t].stage \in Holding
  BY <1>2 DEF Holding
<1>4. CASE rt' = Restored(t) /\ Done(t)
  BY <1>1, <1>2, <1>3, <1>4, RestoredFacts, DonePreserves
<1>5. CASE rt' = Restored(t) /\ MayReturn(t) /\ Step(t, "restored")
  <2>1. PICK c \in Command : /\ cmd' = [cmd EXCEPT ![t] = c]
                             /\ c.stage = "restored" /\ c.kind = cmd[t].kind /\ c.id = cmd[t].id
    BY <1>2, <1>5, AuthorizeFacts, "restored" \in Stages DEF Stages
  <2>2. CommandFits(c)' /\ c.stage \notin Holding
    BY <1>2, <2>1 DEF CommandFits, Holding
  <2>3. rt' \in Runtime /\ rt'.running = 0
    BY <1>2, <1>5 DEF Restored, Runtime
  <2>4. \/ rt'.active \in {0, rt.active}
        \/ \A u \in Threads \ {t} : HoldsStore(u) => Vault(u) # VaultOf(rt'.active)
    BY <1>3, <1>5, RestoredFacts
  <2> QED
    BY <1>1, <1>2, <2>1, <2>2, <2>3, <2>4, StepPreserves
<1>6. CASE Step(t, "discarding") /\ UNCHANGED rt
  <2>1. PICK c \in Command : /\ cmd' = [cmd EXCEPT ![t] = c]
                             /\ c.stage = "discarding" /\ c.kind = cmd[t].kind /\ c.id = cmd[t].id
    BY <1>2, <1>6, AuthorizeFacts, "discarding" \in Stages DEF Stages
  <2>2. CommandFits(c)' /\ c.stage \in Holding
    BY <1>2, <2>1 DEF CommandFits, Holding
  <2> QED
    BY <1>1, <1>2, <1>3, <1>6, <2>1, <2>2, HolderPreserves DEF stores
<1>7. \/ rt' = Restored(t) /\ Done(t)
      \/ rt' = Restored(t) /\ MayReturn(t) /\ Step(t, "restored")
      \/ Step(t, "discarding") /\ UNCHANGED rt
  BY DEF GiveBack
<1> QED
  BY <1>4, <1>5, <1>6, <1>7

LEMMA ConnectedFacts ==
  ASSUME RuntimeInv, NEW r \in Runtime, NEW id \in Ids
  PROVE  /\ Connected(r, id) \in Runtime
         /\ Connected(r, id).active = r.active /\ Connected(r, id).running = r.running
<1>1. keyring \subseteq Grants
  BY DEF RuntimeInv, TypeOK, Grants
<1> QED
  BY <1>1 DEF Connected, Runtime

LEMMA PublishPreserves ==
  ASSUME RuntimeInv, NEW t \in Threads, Publish(t) PROVE RuntimeInv'
<1>1. /\ At(t, {"scan", "run"}, "restored") /\ Done(t)
      /\ UNCHANGED <<platform, session, stores, keyring, given>>
  BY DEF Publish
<1>2. /\ cmd[t].kind \in {"scan", "run"} /\ cmd[t].stage = "restored" /\ Id(t) \in Ids
      /\ cmd[t].id = Id(t) /\ cmd[t] \in Command /\ rt \in Runtime
      /\ bound' \in [Vaults -> Grants] /\ ready' \subseteq Vaults /\ bound' = bound
  BY <1>1, AtFacts DEF stores
<1>3. ~Owns(cmd[t], rt)
  BY <1>2 DEF Owns, Disconnects, Holding
<1>4. CASE UNCHANGED rt
  BY <1>1, <1>2, <1>3, <1>4, QuietDonePreserves
<1>5. ASSUME NEW o \in EnsureStore(Id(t)),
             \/ rt' = Connected(o.rt, Id(t))
             \/ rt' = o.rt
             \/ rt' = [o.rt EXCEPT !.auth = cmd[t].token,
                                   !.account = IF cmd[t].kind = "run" THEN cmd[t].account ELSE @]
      PROVE  RuntimeInv'
  <2>1. o.rt \in Runtime
    BY <1>2, EnsureStoreFacts
  <2>2. CASE rt' = Connected(o.rt, Id(t))
    BY <1>1, <1>2, <1>3, <2>1, <2>2, ConnectedFacts, EnsuredDonePreserves
  <2>3. CASE rt' = o.rt
    BY <1>1, <1>2, <1>3, <2>1, <2>3, EnsuredDonePreserves
  <2>4. CASE rt' = [o.rt EXCEPT !.auth = cmd[t].token,
                                !.account = IF cmd[t].kind = "run" THEN cmd[t].account ELSE @]
    <3>1. rt' \in Runtime /\ rt'.active = o.rt.active /\ rt'.running = o.rt.running
      BY <1>2, <2>1, <2>4 DEF Runtime, Command
    <3> QED
      BY <1>1, <1>2, <1>3, <3>1, EnsuredDonePreserves
  <2> QED
    BY <1>5, <2>2, <2>3, <2>4
<1>6. \/ UNCHANGED rt
      \/ \E o \in EnsureStore(Id(t)) :
           \/ rt' = Connected(o.rt, Id(t))
           \/ rt' = o.rt
           \/ rt' = [o.rt EXCEPT !.auth = cmd[t].token,
                                 !.account = IF cmd[t].kind = "run" THEN cmd[t].account ELSE @]
  BY DEF Publish
<1> QED
  BY <1>4, <1>5, <1>6

LEMMA CloseStorePreserves ==
  ASSUME RuntimeInv, NEW t \in Threads, CloseStore(t) PROVE RuntimeInv'
<1>1. /\ At(t, {"scan", "run"}, "discarding") /\ Step(t, "released")
      /\ UNCHANGED <<platform, session, rt, stores, keyring, given>>
  BY DEF CloseStore
<1>2. /\ cmd[t].kind \in {"scan", "run"} /\ cmd[t].stage = "discarding" /\ Id(t) \in Ids
      /\ cmd[t].id = Id(t) /\ ready' \subseteq Vaults /\ bound' = bound
  BY <1>1, AtFacts DEF stores
<1>3. PICK c \in Command : /\ cmd' = [cmd EXCEPT ![t] = c]
                           /\ c.stage = "released" /\ c.kind = cmd[t].kind /\ c.id = cmd[t].id
  BY <1>1, <1>2, AuthorizeFacts, "released" \in Stages DEF Stages
<1>4. CommandFits(c)' /\ cmd[t].stage \in Holding
  BY <1>2, <1>3 DEF CommandFits, Holding
<1> QED
  BY <1>1, <1>2, <1>3, <1>4, HolderPreserves

LEMMA DiscardStorePreserves ==
  ASSUME RuntimeInv, NEW t \in Threads, DiscardStore(t) PROVE RuntimeInv'
<1>1. /\ At(t, {"scan", "run"}, "released") /\ Done(t) /\ rt' = DiscardMarker(t)
      /\ UNCHANGED <<platform, session, stores, keyring, given>>
  BY DEF DiscardStore
<1>2. /\ cmd[t].kind \in {"scan", "run"} /\ cmd[t].stage = "released" /\ Id(t) \in Ids
      /\ cmd[t].id = Id(t) /\ rt \in Runtime
      /\ bound' \in [Vaults -> Grants] /\ ready' \subseteq Vaults /\ bound' = bound
  BY <1>1, AtFacts DEF stores
<1>3. CASE MayReturn(t)
  <2>1. rt' \in Runtime /\ rt'.running = 0 /\ rt'.active = rt.active
    BY <1>1, <1>2, <1>3 DEF DiscardMarker, Unmarked, Runtime
  <2> QED
    BY <1>1, <1>2, <2>1, DonePreserves
<1>4. CASE ~MayReturn(t)
  <2>1. ~Owns(cmd[t], rt) /\ rt' = rt
    BY <1>1, <1>2, <1>4 DEF MayReturn, Owns, Disconnects, DiscardMarker
  <2> QED
    BY <1>1, <1>2, <2>1, QuietDonePreserves
<1> QED
  BY <1>3, <1>4
-----------------------------------------------------------------------------
(* sync_disconnect.                                                          *)

LEMMA DisconnectBeginPreserves ==
  ASSUME RuntimeInv, NEW t \in Threads, DisconnectBegin(t) PROVE RuntimeInv'
<1>1. /\ At(t, {"disconnect"}, "checked")
      /\ UNCHANGED <<platform, session, stores, keyring, given>>
  BY DEF DisconnectBegin
<1>2. /\ cmd[t].kind = "disconnect" /\ cmd[t].stage = "checked" /\ Id(t) \in Ids
      /\ cmd[t].id = Id(t) /\ cmd[t] \in Command /\ rt \in Runtime
      /\ bound' \in [Vaults -> Grants] /\ ready' \subseteq Vaults /\ bound' = bound
  BY <1>1, AtFacts DEF stores
<1>3. ~Owns(cmd[t], rt)
  BY <1>2 DEF Owns, Disconnects, Holding
<1>4. CASE Done(t) /\ UNCHANGED rt
  BY <1>1, <1>2, <1>3, <1>4, QuietDonePreserves
<1>5. CASE /\ rt' = [rt EXCEPT !.running = Id(t), !.auth = None]
           /\ cmd' = [cmd EXCEPT ![t].stage = "revoking", ![t].token = rt.auth]
  <2> DEFINE d == [cmd[t] EXCEPT !.stage = "revoking", !.token = rt.auth]
  <2>1. d \in Command /\ d.stage = "revoking" /\ d.kind = "disconnect" /\ d.id = Id(t)
    BY <1>2 DEF Command, Stages, Runtime
  <2>2. cmd' = [cmd EXCEPT ![t] = d]
    BY <1>5 DEF RuntimeInv, TypeOK
  <2> HIDE DEF d
  <2>3. PICK c \in Command : /\ cmd' = [cmd EXCEPT ![t] = c] /\ c.stage = "revoking"
                             /\ c.kind = "disconnect" /\ c.id = Id(t)
    BY <2>1, <2>2
  <2>4. rt' \in Runtime /\ rt'.running = Id(t) /\ rt'.active = rt.active
    BY <1>2, <1>5 DEF Runtime, Grants
  <2>5. CommandFits(c)' /\ c.stage \notin Holding /\ Owns(c, rt')
    BY <1>2, <2>3, <2>4 DEF CommandFits, Holding, Owns, Disconnects
  <2> QED
    BY <1>1, <1>2, <2>3, <2>4, <2>5, StepPreserves
<1> QED
  BY <1>4, <1>5 DEF DisconnectBegin

\* A disconnect goes on, or ends without its marker.
LEMMA DisconnectStepPreserves ==
  ASSUME RuntimeInv, NEW t \in Threads, cmd[t].kind = "disconnect", cmd[t].id \in Ids,
         cmd[t].stage # "idle", NEW stage \in {"revoked", "failed"}, Step(t, stage), UNCHANGED rt,
         UNCHANGED <<platform, session, stores, keyring, given>>
  PROVE  RuntimeInv'
<1>1. PICK c \in Command : /\ cmd' = [cmd EXCEPT ![t] = c]
                           /\ c.stage = stage /\ c.kind = "disconnect" /\ c.id = cmd[t].id
  BY AuthorizeFacts, stage \in Stages DEF Stages
<1>2. CommandFits(c)' /\ c.stage \notin Holding
  BY <1>1 DEF CommandFits, Holding
<1>3. Owns(cmd[t], rt) => Owns(c, rt)
  BY <1>1 DEF Owns, Disconnects
<1>4. rt \in Runtime
  BY DEF RuntimeInv, TypeOK, Runtime
<1> QED
  BY <1>1, <1>2, <1>3, <1>4, QuietStepPreserves

LEMMA RevokePreserves ==
  ASSUME RuntimeInv, NEW t \in Threads, Revoke(t) PROVE RuntimeInv'
<1>1. /\ At(t, {"disconnect"}, "revoking")
      /\ UNCHANGED <<platform, session, stores, keyring, given>>
  BY DEF Revoke
<1>2. /\ cmd[t].kind = "disconnect" /\ cmd[t].stage = "revoking" /\ Id(t) \in Ids
      /\ cmd[t].id = Id(t) /\ cmd[t] \in Command /\ rt \in Runtime
      /\ bound' \in [Vaults -> Grants] /\ ready' \subseteq Vaults /\ bound' = bound
  BY <1>1, AtFacts DEF stores
<1>3. CASE Step(t, "revoked") /\ UNCHANGED rt
  BY <1>1, <1>2, <1>3, DisconnectStepPreserves
<1>4. CASE /\ rt' = IF rt.running = Id(t) THEN [rt EXCEPT !.running = 0, !.auth = cmd[t].token] ELSE rt
           /\ Done(t)
  <2>1. CASE rt.running = Id(t)
    <3>1. rt' \in Runtime /\ rt'.running = 0 /\ rt'.active = rt.active
      BY <1>2, <1>4, <2>1 DEF Runtime, Command
    <3> QED
      BY <1>1, <1>2, <1>4, <3>1, DonePreserves
  <2>2. CASE rt.running # Id(t)
    <3>1. rt' = rt /\ ~Owns(cmd[t], rt)
      BY <1>2, <1>4, <2>2 DEF Owns
    <3> QED
      BY <1>1, <1>2, <1>4, <3>1, QuietDonePreserves
  <2> QED
    BY <2>1, <2>2
<1> QED
  BY <1>3, <1>4 DEF Revoke

LEMMA DisconnectCommitPreserves ==
  ASSUME RuntimeInv, NEW t \in Threads, DisconnectCommit(t) PROVE RuntimeInv'
<1>1. /\ At(t, {"disconnect"}, "revoked")
      /\ UNCHANGED <<platform, session, stores, keyring, given>>
  BY DEF DisconnectCommit
<1>2. /\ cmd[t].kind = "disconnect" /\ cmd[t].stage = "revoked" /\ Id(t) \in Ids
      /\ cmd[t].id = Id(t) /\ cmd[t] \in Command /\ rt \in Runtime
      /\ bound' \in [Vaults -> Grants] /\ ready' \subseteq Vaults /\ bound' = bound
  BY <1>1, AtFacts DEF stores
<1>3. CASE Step(t, "failed") /\ UNCHANGED rt
  BY <1>1, <1>2, <1>3, DisconnectStepPreserves
<1> DEFINE cleared == [rt EXCEPT !.running = 0, !.account = None]
           opened == Opening([cleared EXCEPT !.active = 0], Id(t))
<1>4. ASSUME NEW o, rt' = o.rt, Done(t) \/ Step(t, "failed"),
             \/ o = [ok |-> TRUE, rt |-> cleared]
             \/ o \in opened
      PROVE  RuntimeInv'
  <2>1. cleared \in Runtime /\ cleared.running = 0 /\ cleared.active = rt.active
    BY <1>2 DEF Runtime, Grants
  <2>2. /\ [cleared EXCEPT !.active = 0] \in Runtime /\ [cleared EXCEPT !.active = 0].active = 0
        /\ [cleared EXCEPT !.active = 0].running = 0
    BY <2>1 DEF Runtime
  <2>3. /\ [[cleared EXCEPT !.active = 0] EXCEPT !.active = Id(t)] \in Runtime
        /\ [[cleared EXCEPT !.active = 0] EXCEPT !.active = Id(t)].active = Id(t)
        /\ [[cleared EXCEPT !.active = 0] EXCEPT !.active = Id(t)].running = 0
    BY <1>2, <2>2 DEF Runtime
  <2>4. \/ o.rt = cleared
        \/ o.rt = [cleared EXCEPT !.active = 0]
        \/ /\ CanOpen(VaultOf(Id(t)))
           /\ o.rt = [[cleared EXCEPT !.active = 0] EXCEPT !.active = Id(t)]
    <3> HIDE DEF cleared
    <3> QED
      BY <1>4 DEF Opening, Refused
  <2> HIDE DEF cleared
  <2>5. /\ rt' \in Runtime /\ rt'.running = 0
        /\ rt'.active \in {0, rt.active} \/ (rt'.active = Id(t) /\ CanOpen(VaultOf(Id(t))))
    BY <1>4, <2>1, <2>2, <2>3, <2>4
  <2>6. \/ rt'.active \in {0, rt.active}
        \/ \A u \in Threads \ {t} : HoldsStore(u) => Vault(u) # VaultOf(rt'.active)
    BY <2>5 DEF CanOpen
  <2>7. CASE Done(t)
    BY <1>1, <1>2, <2>5, <2>6, <2>7, DonePreserves
  <2>8. CASE Step(t, "failed")
    <3>1. PICK c \in Command : /\ cmd' = [cmd EXCEPT ![t] = c]
                               /\ c.stage = "failed" /\ c.kind = "disconnect" /\ c.id = cmd[t].id
      BY <1>2, <2>8, AuthorizeFacts, "failed" \in Stages DEF Stages
    <3>2. CommandFits(c)' /\ c.stage \notin Holding
      BY <1>2, <3>1 DEF CommandFits, Holding
    <3> QED
      BY <1>1, <1>2, <2>5, <2>6, <3>1, <3>2, StepPreserves
  <2> QED
    BY <1>4, <2>7, <2>8
<1>5. \/ Step(t, "failed") /\ UNCHANGED rt
      \/ \E o \in IF rt.active = Id(t) THEN {[ok |-> TRUE, rt |-> cleared]} ELSE opened :
           rt' = o.rt /\ (Done(t) \/ Step(t, "failed"))
  BY DEF DisconnectCommit
<1> HIDE DEF cleared, opened
<1>6. ASSUME NEW o \in IF rt.active = Id(t) THEN {[ok |-> TRUE, rt |-> cleared]} ELSE opened
      PROVE  o = [ok |-> TRUE, rt |-> cleared] \/ o \in opened
  BY <1>6
<1> QED
  BY <1>3, <1>4, <1>5, <1>6

LEMMA DisconnectCleanupPreserves ==
  ASSUME RuntimeInv, NEW t \in Threads, DisconnectCleanup(t) PROVE RuntimeInv'
<1>1. /\ At(t, {"disconnect"}, "failed") /\ Done(t) /\ rt' = UnmarkedBy(t)
      /\ UNCHANGED <<platform, session, stores, keyring, given>>
  BY DEF DisconnectCleanup
<1>2. /\ cmd[t].id = Id(t) /\ rt \in Runtime
      /\ bound' \in [Vaults -> Grants] /\ ready' \subseteq Vaults /\ bound' = bound
  BY <1>1, AtFacts DEF stores
<1>3. CASE rt.running = Id(t)
  <2>1. rt' \in Runtime /\ rt'.running = 0 /\ rt'.active = rt.active
    BY <1>1, <1>2, <1>3 DEF UnmarkedBy, Unmarked, Runtime
  <2> QED
    BY <1>1, <1>2, <2>1, DonePreserves
<1>4. CASE rt.running # Id(t)
  <2>1. rt' = rt /\ ~Owns(cmd[t], rt)
    BY <1>1, <1>2, <1>4 DEF Owns, UnmarkedBy
  <2> QED
    BY <1>1, <1>2, <2>1, QuietDonePreserves
<1> QED
  BY <1>3, <1>4
-----------------------------------------------------------------------------
(* New commands, the switch and the desktop's one-step commands.             *)

LEMMA GivePreserves ==
  ASSUME RuntimeInv, NEW t \in Threads, NEW kind \in Kinds, Give(t, kind) PROVE RuntimeInv'
<1> DEFINE d == [Idle EXCEPT !.kind = kind, !.stage = "checked", !.id = session]
<1>1. /\ d \in Command /\ d.stage = "checked" /\ d.id = session /\ session \in Ids
  BY IdleFits DEF Command, Stages, RuntimeInv, TypeOK
<1>2. cmd' = [cmd EXCEPT ![t] = d] /\ bound' = bound /\ rt' = rt
  BY DEF Give, stores
<1> HIDE DEF d
<1>3. PICK c \in Command : cmd' = [cmd EXCEPT ![t] = c] /\ c.stage = "checked" /\ c.id \in Ids
  BY <1>1, <1>2
<1>4. CommandFits(c)' /\ c.stage \notin Holding
  BY <1>3 DEF CommandFits, Holding
<1>5. TypeOK'
  BY <1>3, CommandsAreBounded DEF Give, stores, RuntimeInv, TypeOK, Command
<1>6. ~Owns(cmd[t], rt)
  BY IdleFits DEF Give, Owns, Disconnects, Holding
<1> QED
  BY <1>2, <1>3, <1>4, <1>5, <1>6, ThreadPreserves

\* A step of no thread: what it opens is not held.
LEMMA OtherPreserves ==
  ASSUME RuntimeInv, TypeOK', UNCHANGED cmd,
         \A v \in Vaults : bound[v] # None => bound'[v] = bound[v],
         rt'.running = rt.running, rt.running # 0 => rt'.active = rt.active,
         \/ rt'.active \in {0, rt.active}
         \/ \A u \in Threads : HoldsStore(u) => Vault(u) # VaultOf(rt'.active)
  PROVE  RuntimeInv'
<1> USE DEF RuntimeInv
<1>1. CommandsFit'
  <2>1. ASSUME NEW u \in Threads PROVE CommandFits(cmd[u])'
    <3>1. CommandFits(cmd[u])
      BY DEF CommandsFit
    <3>2. cmd[u].stage # "idle" => VaultOf(cmd[u].id) \in Vaults
      BY <3>1, SessionFacts DEF CommandFits
    <3> QED
      BY <3>1, <3>2 DEF CommandFits, VaultOf
  <2> QED
    BY <2>1 DEF CommandsFit
<1>2. MarkerIsOwned'
  BY DEF MarkerIsOwned, Owns
<1>3. StoreIsOpenOnce'
  BY DEF StoreIsOpenOnce, HoldsStore, Vault, VaultOf
<1> QED
  BY <1>1, <1>2, <1>3

LEMMA SwitchPreserves ==
  ASSUME RuntimeInv, Switch PROVE RuntimeInv'
<1>1. TypeOK'
  BY SessionFacts DEF Switch, stores, RuntimeInv, TypeOK
<1> QED
  BY <1>1, OtherPreserves DEF Switch, stores

\* A desktop command leaves the runtime as ensure_store left it, but for the account.
LEMMA DesktopPreserves ==
  ASSUME RuntimeInv, Desktop, NEW o \in EnsureStore(session),
         rt' \in Runtime, rt'.active = o.rt.active, rt'.running = o.rt.running,
         bound' \in [Vaults -> Grants], ready' \subseteq Vaults, keyring' \subseteq Accounts,
         \A v \in Vaults : bound[v] # None => bound'[v] = bound[v]
  PROVE  RuntimeInv'
<1>1. TypeOK'
  BY CommandsAreBounded DEF Desktop, RuntimeInv, TypeOK, Runtime
<1>2. session \in Ids
  BY DEF RuntimeInv, TypeOK
<1>3. /\ o.rt.running = rt.running
      /\ rt.running # 0 => o.rt.active = rt.active
      /\ o.rt.active \in {0, rt.active} \/ (o.rt.active = session /\ CanOpen(VaultOf(session)))
  BY <1>2, EnsureStoreFacts
<1>4. \/ rt'.active \in {0, rt.active}
      \/ \A u \in Threads : HoldsStore(u) => Vault(u) # VaultOf(rt'.active)
  BY <1>3 DEF CanOpen
<1> QED
  BY <1>1, <1>3, <1>4, OtherPreserves DEF Desktop

LEMMA DesktopNextPreserves ==
  ASSUME RuntimeInv,
         DesktopStatus \/ DesktopConnect \/ DesktopBind \/ DesktopScan \/ DesktopDisconnect
  PROVE  RuntimeInv'
<1>1. /\ session \in Ids /\ VaultOf(session) \in Vaults /\ rt \in Runtime /\ None \in Grants
      /\ bound \in [Vaults -> Grants] /\ ready \subseteq Vaults /\ keyring \subseteq Accounts
  BY SessionFacts DEF RuntimeInv, TypeOK, Runtime, Grants
<1>2. CASE DesktopStatus
  <2>1. PICK o \in EnsureStore(session) : rt' = Connected(o.rt, session) \/ rt' = o.rt
    BY <1>2 DEF DesktopStatus
  <2>2. o.rt \in Runtime
    BY <1>1, EnsureStoreFacts
  <2>3. rt' \in Runtime /\ rt'.active = o.rt.active /\ rt'.running = o.rt.running
    BY <1>1, <2>1, <2>2, ConnectedFacts
  <2> QED
    BY <1>1, <1>2, <2>3, DesktopPreserves DEF DesktopStatus, stores
<1>3. CASE DesktopConnect
  <2>1. PICK o \in EnsureStore(session), token \in Grants :
          \/ /\ token # None
             /\ rt' = [o.rt EXCEPT !.account = token] /\ keyring' = keyring \cup {token}
          \/ rt' = o.rt /\ UNCHANGED keyring
    BY <1>3 DEF DesktopConnect
  <2>2. o.rt \in Runtime
    BY <1>1, EnsureStoreFacts
  <2>3. /\ rt' \in Runtime /\ rt'.active = o.rt.active /\ rt'.running = o.rt.running
        /\ keyring' \subseteq Accounts
    BY <1>1, <2>1, <2>2 DEF Runtime, Grants
  <2> QED
    BY <1>1, <1>3, <2>3, DesktopPreserves DEF DesktopConnect, stores
<1>4. CASE DesktopBind
  <2>1. PICK o \in EnsureStore(session) :
          rt' = o.rt /\ (BindStore(VaultOf(session), rt.account) \/ UNCHANGED stores)
    BY <1>4 DEF DesktopBind
  <2>2. o.rt \in Runtime
    BY <1>1, EnsureStoreFacts
  <2>3. rt.account \in Grants
    BY <1>1 DEF Runtime
  <2>4. /\ bound' \in [Vaults -> Grants] /\ ready' \subseteq Vaults
        /\ \A w \in Vaults : bound[w] # None => bound'[w] = bound[w]
    BY <1>1, <2>1, <2>3, BindStoreFacts
  <2> QED
    BY <1>1, <1>4, <2>1, <2>2, <2>4, DesktopPreserves DEF DesktopBind
<1>5. CASE DesktopScan
  <2>1. PICK o \in EnsureStore(session) :
          /\ rt' = o.rt
          /\ ready' = IF o.ok /\ bound[VaultOf(session)] = rt.account
                      THEN ready \cup {VaultOf(session)} ELSE ready
    BY <1>5 DEF DesktopScan
  <2>2. o.rt \in Runtime /\ ready' \subseteq Vaults
    BY <1>1, <2>1, EnsureStoreFacts
  <2> QED
    BY <1>1, <1>5, <2>1, <2>2, DesktopPreserves DEF DesktopScan
<1>6. CASE DesktopDisconnect
  <2>1. PICK o \in EnsureStore(session) :
          /\ rt' = [o.rt EXCEPT !.account = None] \/ rt' = o.rt
          /\ keyring' \subseteq keyring
    BY <1>6 DEF DesktopDisconnect
  <2>2. o.rt \in Runtime
    BY <1>1, EnsureStoreFacts
  <2>3. rt' \in Runtime /\ rt'.active = o.rt.active /\ rt'.running = o.rt.running
    BY <1>1, <2>1, <2>2 DEF Runtime
  <2> QED
    BY <1>1, <1>6, <2>1, <2>3, DesktopPreserves DEF DesktopDisconnect, stores
<1> QED
  BY <1>2, <1>3, <1>4, <1>5, <1>6
-----------------------------------------------------------------------------
LEMMA NextPreserves == RuntimeInv /\ [Next]_vars => RuntimeInv'
<1> SUFFICES ASSUME RuntimeInv, [Next]_vars PROVE RuntimeInv'
  OBVIOUS
<1>1. CASE UNCHANGED vars
  BY <1>1 DEF vars, RuntimeInv, TypeOK, CommandsFit, CommandFits, MarkerIsOwned, Owns, Disconnects,
              StoreIsOpenOnce, HoldsStore, Vault
<1>2. CASE Switch
  BY <1>2, SwitchPreserves
<1>3. ASSUME NEW t \in Threads, NEW kind \in Kinds, Give(t, kind) PROVE RuntimeInv'
  BY <1>3, GivePreserves
<1>4. ASSUME NEW t \in Threads, Connecting(t) PROVE RuntimeInv'
  BY <1>4, ConnectBeginPreserves, ConnectCommitPreserves, ConnectCleanupPreserves DEF Connecting
<1>5. ASSUME NEW t \in Threads, Browsing(t) PROVE RuntimeInv'
  BY <1>5, ListBeginPreserves, ListCommitPreserves, BindCommitPreserves, PreviewPreserves DEF Browsing
<1>6. ASSUME NEW t \in Threads, Working(t) PROVE RuntimeInv'
  BY <1>6, WorkBeginPreserves, DetachPreserves, DesktopDetachPreserves, RefreshPreserves,
     WorkPreserves, GiveBackPreserves, PublishPreserves, CloseStorePreserves, DiscardStorePreserves
  DEF Working
<1>7. ASSUME NEW t \in Threads, Disconnecting(t) PROVE RuntimeInv'
  BY <1>7, DisconnectBeginPreserves, RevokePreserves, DisconnectCommitPreserves,
     DisconnectCleanupPreserves
  DEF Disconnecting
<1>8. CASE DesktopStatus \/ DesktopConnect \/ DesktopBind \/ DesktopScan \/ DesktopDisconnect
  BY <1>8, DesktopNextPreserves
<1> QED
  BY <1>1, <1>2, <1>3, <1>4, <1>5, <1>6, <1>7, <1>8 DEF Next

\* RuntimeInv holds in every reachable state, whatever commands are under way together.
THEOREM RuntimeInvHolds == Spec => []RuntimeInv
BY InitHasInv, NextPreserves, PTL DEF Spec

\* The marker in the runtime (SyncRuntime.running) always names the session of a command
\* that is still under way and will clear it: no order of commands, failures and switches
\* leaves a marker that answers Busy for ever.
THEOREM MarkerHasAnOwnerHolds == Spec => []MarkerHasAnOwner
<1>1. RuntimeInv => MarkerHasAnOwner
  BY DEF RuntimeInv, MarkerIsOwned, MarkerHasAnOwner, Owns, Disconnects, Holding, HoldsStore, Id
<1> QED
  BY <1>1, RuntimeInvHolds, PTL

\* ensure_store and detach_store never have the store of one Vault open twice.
THEOREM StoreIsOpenOnceHolds == Spec => []StoreIsOpenOnce
<1>1. RuntimeInv => StoreIsOpenOnce
  BY DEF RuntimeInv
<1> QED
  BY <1>1, RuntimeInvHolds, PTL

\* A detached store is worked on only with a token of the account its Vault is bound to,
\* though the account was looked up before the store was detached.
THEOREM BoundAccountIsUsedHolds == Spec => []BoundAccountIsUsed
<1>1. RuntimeInv => BoundAccountIsUsed
  BY DEF RuntimeInv, CommandsFit, CommandFits, BoundAccountIsUsed, Holding, Vault
<1> QED
  BY <1>1, RuntimeInvHolds, PTL
=============================================================================
