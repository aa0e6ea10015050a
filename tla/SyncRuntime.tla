----------------------------- MODULE SyncRuntime -----------------------------
(***************************************************************************)
(* The sync commands of the application and the runtime they share: the     *)
(* one open SyncStore, the account and authorization in memory, and the     *)
(* marker of the session whose store is detached for a long operation.      *)
(*                                                                         *)
(* On Android a command releases the runtime's mutex and the session's      *)
(* before every network call, so it is a sequence of steps between which    *)
(* other commands run and another Vault is chosen.  On the desktop every    *)
(* command but sync_run_guarded keeps both, and is one step.                *)
(*                                                                         *)
(* Source: apps/tauri/src-tauri/src/sync_commands.rs.  A session number      *)
(* names its Vault; an authorization is the account it was granted for.      *)
(* What the detached store does is TransferLedger's and IncrementalSync's    *)
(* subject: here it succeeds or fails.                                       *)
(***************************************************************************)
EXTENDS Integers, Sequences, FiniteSets

CONSTANTS
    SessionVault,  \* the Vault of each session, in the order they are chosen
    Vaults,
    Accounts,      \* Google accounts
    Threads,       \* commands that can be under way together
    MaxCommands,   \* bound on the commands given
    None

ASSUME SessionsHaveVaults == SessionVault \in Seq(Vaults) /\ SessionVault # <<>>
ASSUME CommandsAreBounded == MaxCommands \in Nat

VARIABLES
    platform,  \* "android" or "desktop", fixed
    session,   \* the active session
    rt,        \* SyncRuntime: active, running, account, authorization
    cmd,       \* the command of each thread
    bound,     \* the account every Vault's store is bound to
    ready,     \* the Vaults whose store has been scanned to Ready
    keyring,   \* accounts with a refresh token in the OS keyring (desktop)
    given      \* commands given so far

vars == <<platform, session, rt, cmd, bound, ready, keyring, given>>
stores == <<bound, ready>>

Ids == 1 .. Len(SessionVault)
Grants == Accounts \cup {None}
Kinds == {"connect", "list", "bind", "scan", "run", "preview", "disconnect"}
Stages == {"idle", "checked", "authorized", "detached", "worked", "restored", "failed",
           "discarding", "released", "revoking", "revoked"}

Idle == [kind |-> "none", stage |-> "idle", id |-> 0, account |-> None, token |-> None, fresh |-> TRUE]
VaultOf(id) == SessionVault[id]
Vault(t) == VaultOf(cmd[t].id)

\* The threads that own a store taken out of the runtime.
HoldsStore(t) == cmd[t].stage \in {"detached", "worked", "discarding"}

TypeOK ==
    /\ platform \in {"android", "desktop"} /\ session \in Ids
    /\ rt \in [active : {0} \cup Ids, running : {0} \cup Ids, account : Grants, auth : Grants]
    /\ cmd \in [Threads -> [kind : Kinds \cup {"none"}, stage : Stages, id : {0} \cup Ids,
                            account : Grants, token : Grants, fresh : BOOLEAN]]
    /\ bound \in [Vaults -> Grants] /\ ready \subseteq Vaults /\ keyring \subseteq Accounts
    /\ given \in 0 .. MaxCommands

\* The application starts on stores that earlier runs of it left behind.
Init ==
    /\ platform \in {"android", "desktop"} /\ session = 1
    /\ rt = [active |-> 0, running |-> 0, account |-> None, auth |-> None]
    /\ cmd = [t \in Threads |-> Idle]
    /\ bound \in [Vaults -> Grants]
    /\ ready = {v \in Vaults : bound[v] # None}
    /\ keyring = IF platform = "desktop" THEN {a \in Accounts : \E v \in Vaults : bound[v] = a} ELSE {}
    /\ given = 0

-----------------------------------------------------------------------------
(* The runtime.                                                             *)

\* Variant: nothing keeps a store from being opened twice.
CanOpenAgain(v) == TRUE

\* SyncStore::open takes an exclusive lease on the Vault's store.
CanOpen(v) == \A t \in Threads : HoldsStore(t) => Vault(t) # v

Refused(r) == [ok |-> FALSE, rt |-> r]
Opening(r, id) ==
    {Refused(r)} \cup (IF CanOpen(VaultOf(id)) THEN {[ok |-> TRUE, rt |-> [r EXCEPT !.active = id]]}
                                               ELSE {})

\* ensure_store: its possible outcomes, each with the runtime it leaves.  A
\* store of another session is closed before the new one is opened.
AndroidEnsureStore(id) ==
    IF rt.active = id THEN {[ok |-> TRUE, rt |-> rt]}
    ELSE IF rt.running # 0 THEN {Refused(rt)}
    ELSE Opening([rt EXCEPT !.active = 0], id)

\* The desktop refuses whenever the marker is set, and forgets the connected
\* account with the store of the other session.
DesktopEnsureStore(id) ==
    IF rt.running # 0 THEN {Refused(rt)}
    ELSE IF rt.active = id THEN {[ok |-> TRUE, rt |-> rt]}
    ELSE Opening([rt EXCEPT !.active = 0, !.account = None], id)

EnsureStore(id) == IF platform = "android" THEN AndroidEnsureStore(id) ELSE DesktopEnsureStore(id)

\* exact_account: nothing is expected, or exactly what was observed.
ExactAccount(expected, observed) == expected = None \/ expected = observed

Step(t, stage) == cmd' = [cmd EXCEPT ![t].stage = stage]
Done(t) == cmd' = [cmd EXCEPT ![t] = Idle]
At(t, kinds, stage) == cmd[t].kind \in kinds /\ cmd[t].stage = stage
IsCurrent(t) == session = cmd[t].id
Id(t) == cmd[t].id

\* restore_inner and discard_store take the runtime back only from the session
\* that the marker names.
MayReturn(t) == rt.active = 0 /\ rt.running = Id(t)
Unmarked == [rt EXCEPT !.running = 0]
Restored(t) == IF MayReturn(t) THEN [rt EXCEPT !.active = Id(t), !.running = 0] ELSE rt

\* A command is given in the active session.
Give(t, kind) ==
    /\ cmd[t] = Idle /\ given < MaxCommands
    /\ platform = "android" \/ kind = "run"
    /\ cmd' = [cmd EXCEPT ![t] = [Idle EXCEPT !.kind = kind, !.stage = "checked", !.id = session]]
    /\ given' = given + 1
    /\ UNCHANGED <<platform, session, rt, stores, keyring>>

\* Another Vault is chosen.  It waits for the lease of a command that is about
\* to publish its result.
Switch ==
    /\ session < Len(SessionVault)
    /\ platform = "android" => \A t \in Threads : cmd[t].stage # "restored"
    /\ session' = session + 1
    /\ UNCHANGED <<platform, rt, cmd, stores, keyring, given>>

-----------------------------------------------------------------------------
(* sync_connect, sync_list_folders, sync_bind_root and sync_preview on       *)
(* Android.  Every network call may fail, and grants whatever account is     *)
(* chosen on the device.                                                     *)

Authorize(t, token) == cmd' = [cmd EXCEPT ![t].stage = "authorized", ![t].token = token]

ConnectBegin(t) ==
    /\ At(t, {"connect"}, "checked")
    /\ \E o \in EnsureStore(Id(t)), token \in Grants :
         /\ rt' = o.rt
         /\ IF o.ok /\ token # None /\ ExactAccount(bound[Vault(t)], token)
            THEN Authorize(t, token) ELSE Done(t)
    /\ UNCHANGED <<platform, session, stores, keyring, given>>

ConnectCommit(t) ==
    /\ At(t, {"connect"}, "authorized")
    /\ \/ /\ ~IsCurrent(t) /\ Step(t, "failed") /\ UNCHANGED rt
       \/ /\ IsCurrent(t)
          /\ \E o \in EnsureStore(Id(t)) :
               IF o.ok THEN rt' = [o.rt EXCEPT !.account = cmd[t].token, !.auth = cmd[t].token] /\ Done(t)
                       ELSE rt' = o.rt /\ Step(t, "failed")
    /\ UNCHANGED <<platform, session, stores, keyring, given>>

\* A connect that could not be finished closes the store it may have opened.
ConnectCleanup(t) ==
    /\ At(t, {"connect"}, "failed")
    /\ rt' = IF rt.running = 0 /\ rt.active = Id(t) THEN [rt EXCEPT !.active = 0] ELSE rt
    /\ Done(t)
    /\ UNCHANGED <<platform, session, stores, keyring, given>>

ListBegin(t) ==
    /\ At(t, {"list"}, "checked")
    /\ \E token \in Grants :
         IF token # None /\ rt.account = token THEN Authorize(t, token) ELSE Done(t)
    /\ UNCHANGED <<platform, session, rt, stores, keyring, given>>

ListCommit(t) ==
    /\ At(t, {"list"}, "authorized")
    /\ rt' = IF IsCurrent(t) THEN [rt EXCEPT !.auth = cmd[t].token] ELSE rt
    /\ Done(t)
    /\ UNCHANGED <<platform, session, stores, keyring, given>>

BindBegin(t) ==
    /\ At(t, {"bind"}, "checked")
    /\ \E token \in Grants : IF token # None THEN Authorize(t, token) ELSE Done(t)
    /\ UNCHANGED <<platform, session, rt, stores, keyring, given>>

\* bind_remote_root: a store is bound once, and then only confirms its account.
BindStore(v, account) ==
    /\ bound[v] \in {None, account}
    /\ bound' = [bound EXCEPT ![v] = account]
    /\ ready' = IF bound[v] = None THEN ready \ {v} ELSE ready

BindCommit(t) ==
    /\ At(t, {"bind"}, "authorized")
    /\ IF IsCurrent(t) /\ ExactAccount(rt.account, cmd[t].token)
       THEN \E o \in EnsureStore(Id(t)) :
              \/ /\ o.ok /\ BindStore(Vault(t), cmd[t].token)
                 /\ rt' = [o.rt EXCEPT !.account = cmd[t].token, !.auth = cmd[t].token]
              \/ rt' = o.rt /\ UNCHANGED stores
       ELSE UNCHANGED <<rt, stores>>
    /\ Done(t)
    /\ UNCHANGED <<platform, session, keyring, given>>

\* sync_preview and sync_status: the session was current when it was checked.
Preview(t) ==
    /\ At(t, {"preview"}, "checked")
    /\ \E o \in EnsureStore(Id(t)) : rt' = o.rt
    /\ Done(t)
    /\ UNCHANGED <<platform, session, stores, keyring, given>>

-----------------------------------------------------------------------------
(* sync_scan_step and sync_run_guarded.                                      *)

\* The first look at the runtime and the store, then a token of the account the
\* store is bound to.
WorkBegin(t) ==
    /\ platform = "android" /\ At(t, {"scan", "run"}, "checked")
    /\ IF cmd[t].kind = "run" /\ rt.auth = None THEN Done(t) /\ UNCHANGED rt
       ELSE \E o \in EnsureStore(Id(t)), token \in Grants :
              /\ rt' = o.rt
              /\ IF /\ o.ok /\ bound[Vault(t)] # None /\ rt.auth # None
                    /\ cmd[t].kind = "run" => Vault(t) \in ready
                    /\ token = bound[Vault(t)]
                 THEN cmd' = [cmd EXCEPT ![t].stage = "authorized", ![t].token = token,
                                         ![t].account = bound[Vault(t)]]
                 ELSE Done(t)
    /\ UNCHANGED <<platform, session, stores, keyring, given>>

Taken(r, id) == [r EXCEPT !.active = 0, !.running = id]

\* detach_store.
Detach(t) ==
    /\ At(t, {"scan", "run"}, "authorized")
    /\ \E o \in EnsureStore(Id(t)) :
         IF o.ok THEN rt' = Taken(o.rt, Id(t)) /\ Step(t, "detached")
                 ELSE rt' = o.rt /\ Done(t)
    /\ UNCHANGED <<platform, session, stores, keyring, given>>

\* The desktop's run looks and detaches under one lock; the account connected
\* must be the bound one, and its keyring entry gives the token.
DesktopDetach(t) ==
    /\ platform = "desktop" /\ At(t, {"run"}, "checked")
    /\ IF rt.account = None THEN Done(t) /\ UNCHANGED rt
       ELSE \E o \in EnsureStore(Id(t)) :
              IF o.ok /\ Vault(t) \in ready /\ bound[Vault(t)] = rt.account
              THEN /\ rt' = Taken(o.rt, Id(t))
                   /\ cmd' = [cmd EXCEPT ![t].stage = "detached", ![t].account = rt.account,
                                         ![t].token = rt.account]
              ELSE rt' = o.rt /\ Done(t)
    /\ UNCHANGED <<platform, session, stores, keyring, given>>

\* Variant: whatever account the device grants now will do.
RefreshedAny(t) == Accounts

\* The account of a refreshed token must be the one the run began with.  A
\* desktop refreshes that account's own token.
Refreshed(t) == IF platform = "desktop" THEN {cmd[t].account} \cap keyring ELSE {cmd[t].account}

\* refresh_run_authorization_once, when a transfer meets an expired token.
Refresh(t) ==
    /\ At(t, {"run"}, "detached") /\ cmd[t].fresh
    /\ \E token \in Refreshed(t) : cmd' = [cmd EXCEPT ![t].token = token, ![t].fresh = FALSE]
    /\ UNCHANGED <<platform, session, rt, stores, keyring, given>>

\* The work of a scan step or of a guarded run.  A scan that fails gives its
\* store back as it is dropped; a run that fails discards it.
Work(t) ==
    /\ At(t, {"scan", "run"}, "detached")
    /\ \/ /\ Step(t, "worked")
          /\ UNCHANGED rt
          /\ ready' = IF cmd[t].kind = "scan" THEN ready \cup {Vault(t)} ELSE ready
       \/ /\ cmd[t].kind = "run" /\ Step(t, "discarding")
          /\ UNCHANGED <<rt, ready>>
       \/ /\ cmd[t].kind = "scan" /\ rt' = Restored(t) /\ Done(t)
          /\ UNCHANGED ready
    /\ UNCHANGED <<platform, session, bound, keyring, given>>

\* The session is confirmed before the store goes back to the runtime: on
\* Android under the session's lease, on the desktop before it.
GiveBack(t) ==
    /\ At(t, {"scan", "run"}, "worked")
    /\ IF IsCurrent(t)
       THEN /\ rt' = Restored(t)
            /\ IF MayReturn(t) THEN Step(t, "restored") ELSE Done(t)
       ELSE Step(t, "discarding") /\ UNCHANGED rt
    /\ UNCHANGED <<platform, session, stores, keyring, given>>

\* refresh_connected_state: a desktop without a connected account looks for the
\* token of the bound one.
Connected(r, id) ==
    IF r.account = None /\ bound[VaultOf(id)] \in keyring
    THEN [r EXCEPT !.account = bound[VaultOf(id)]] ELSE r

\* The result is published: on Android the authorization is kept for the next
\* command; the desktop asks for its status.
Publish(t) ==
    /\ At(t, {"scan", "run"}, "restored")
    /\ IF platform = "desktop" /\ ~IsCurrent(t) THEN UNCHANGED rt
       ELSE \E o \in EnsureStore(Id(t)) :
              rt' = IF platform = "desktop" THEN IF o.ok THEN Connected(o.rt, Id(t)) ELSE o.rt
                    ELSE [o.rt EXCEPT !.auth = cmd[t].token,
                            !.account = IF cmd[t].kind = "run" THEN cmd[t].account ELSE @]
    /\ Done(t)
    /\ UNCHANGED <<platform, session, stores, keyring, given>>

\* discard_store: the store is closed, then the marker is taken back.
CloseStore(t) ==
    /\ At(t, {"scan", "run"}, "discarding")
    /\ Step(t, "released")
    /\ UNCHANGED <<platform, session, rt, stores, keyring, given>>

DiscardMarker(t) == IF MayReturn(t) THEN Unmarked ELSE rt

DiscardStore(t) ==
    /\ At(t, {"scan", "run"}, "released")
    /\ rt' = DiscardMarker(t)
    /\ Done(t)
    /\ UNCHANGED <<platform, session, stores, keyring, given>>

-----------------------------------------------------------------------------
(* sync_disconnect on Android.                                               *)

\* The marker is set and the authorization taken, or the command is refused.
DisconnectBegin(t) ==
    /\ At(t, {"disconnect"}, "checked")
    /\ IF rt.running # 0 THEN Done(t) /\ UNCHANGED rt
       ELSE /\ rt' = [rt EXCEPT !.running = Id(t), !.auth = None]
            /\ cmd' = [cmd EXCEPT ![t].stage = "revoking", ![t].token = rt.auth]
    /\ UNCHANGED <<platform, session, stores, keyring, given>>

\* The device forgets the authorization; if it cannot, it is put back.
Revoke(t) ==
    /\ At(t, {"disconnect"}, "revoking")
    /\ \/ Step(t, "revoked") /\ UNCHANGED rt
       \/ /\ cmd[t].token # None
          /\ rt' = IF rt.running = Id(t) THEN [rt EXCEPT !.running = 0, !.auth = cmd[t].token] ELSE rt
          /\ Done(t)
    /\ UNCHANGED <<platform, session, stores, keyring, given>>

DisconnectCommit(t) ==
    /\ At(t, {"disconnect"}, "revoked")
    /\ IF ~IsCurrent(t) \/ rt.running # Id(t) THEN Step(t, "failed") /\ UNCHANGED rt
       ELSE \* the marker is gone before ensure_store looks for it
            LET cleared == [rt EXCEPT !.running = 0, !.account = None] IN
            \E o \in IF rt.active = Id(t) THEN {[ok |-> TRUE, rt |-> cleared]}
                     ELSE Opening([cleared EXCEPT !.active = 0], Id(t)) :
              rt' = o.rt /\ IF o.ok THEN Done(t) ELSE Step(t, "failed")
    /\ UNCHANGED <<platform, session, stores, keyring, given>>

\* Variant: a disconnect that could not be finished just ends.
UnmarkedNever(t) == rt

\* A disconnect that could not be finished takes its marker back.
UnmarkedBy(t) == IF rt.running = Id(t) THEN Unmarked ELSE rt

DisconnectCleanup(t) ==
    /\ At(t, {"disconnect"}, "failed")
    /\ rt' = UnmarkedBy(t)
    /\ Done(t)
    /\ UNCHANGED <<platform, session, stores, keyring, given>>

-----------------------------------------------------------------------------
(* The desktop's commands that are one step: the session's lease and the     *)
(* runtime's mutex are held across the network calls.                        *)

Desktop == platform = "desktop" /\ given < MaxCommands /\ given' = given + 1
           /\ UNCHANGED <<platform, session, cmd>>

\* status_impl, and sync_preview, which does not look for a token.
DesktopStatus ==
    /\ Desktop
    /\ \E o \in EnsureStore(session) :
         \/ o.ok /\ rt' = Connected(o.rt, session)
         \/ rt' = o.rt
    /\ UNCHANGED <<stores, keyring>>

DesktopConnect ==
    /\ Desktop
    /\ \E o \in EnsureStore(session), token \in Grants :
         IF o.ok /\ token # None /\ ExactAccount(bound[VaultOf(session)], token)
         THEN rt' = [o.rt EXCEPT !.account = token] /\ keyring' = keyring \cup {token}
         ELSE rt' = o.rt /\ UNCHANGED keyring
    /\ UNCHANGED stores

\* sync_bind_root and sync_scan_step use the connected account that was there
\* before ensure_store forgot it for a new session.
DesktopBind ==
    /\ Desktop /\ rt.account \in keyring
    /\ \E o \in EnsureStore(session) :
         /\ rt' = o.rt
         /\ \/ o.ok /\ BindStore(VaultOf(session), rt.account)
            \/ UNCHANGED stores
    /\ UNCHANGED keyring

DesktopScan ==
    /\ Desktop /\ rt.account \in keyring
    /\ \E o \in EnsureStore(session) :
         /\ rt' = o.rt
         /\ ready' = IF o.ok /\ bound[VaultOf(session)] = rt.account
                     THEN ready \cup {VaultOf(session)} ELSE ready
    /\ UNCHANGED <<bound, keyring>>

DesktopDisconnect ==
    /\ Desktop
    /\ \E o \in EnsureStore(session) :
         \/ LET b == bound[VaultOf(session)] IN
            /\ o.ok
            /\ keyring' = keyring \ {IF b # None THEN b ELSE o.rt.account}
            /\ rt' = [o.rt EXCEPT !.account = None]
         \/ rt' = o.rt /\ UNCHANGED keyring
    /\ UNCHANGED stores

-----------------------------------------------------------------------------

Connecting(t) == ConnectBegin(t) \/ ConnectCommit(t) \/ ConnectCleanup(t)
Browsing(t) == ListBegin(t) \/ ListCommit(t) \/ BindBegin(t) \/ BindCommit(t) \/ Preview(t)
Working(t) == WorkBegin(t) \/ Detach(t) \/ DesktopDetach(t) \/ Refresh(t) \/ Work(t) \/ GiveBack(t)
              \/ Publish(t) \/ CloseStore(t) \/ DiscardStore(t)
Disconnecting(t) == DisconnectBegin(t) \/ Revoke(t) \/ DisconnectCommit(t) \/ DisconnectCleanup(t)

Next ==
    \/ Switch
    \/ \E t \in Threads :
         \/ \E kind \in Kinds : Give(t, kind)
         \/ Connecting(t) \/ Browsing(t) \/ Working(t) \/ Disconnecting(t)
    \/ DesktopStatus \/ DesktopConnect \/ DesktopBind \/ DesktopScan \/ DesktopDisconnect

Spec == Init /\ [][Next]_vars

-----------------------------------------------------------------------------
(* Properties.                                                              *)

\* The marker is never left behind: it names the session of a command that is
\* still under way and will clear it, whatever commands and switches came in
\* between.  A marker without an owner answers Busy to every later command.
MarkerHasAnOwner ==
    rt.running # 0 =>
      \E t \in Threads :
        /\ Id(t) = rt.running
        /\ \/ HoldsStore(t) \/ cmd[t].stage = "released"
           \/ cmd[t].kind = "disconnect" /\ cmd[t].stage \in {"revoking", "revoked", "failed"}

\* A detached store is worked on only with a token of the account its Vault is
\* bound to, though the account was looked up before the store was detached and
\* the token may have been refreshed since.
BoundAccountIsUsed ==
    \A t \in Threads : cmd[t].stage \in {"detached", "worked"} => cmd[t].token = bound[Vault(t)]

\* The store of a Vault is open at most once, also while a disconnect clears
\* the marker under a run that holds the store.
StoreIsOpenOnce ==
    \A t \in Threads : HoldsStore(t) =>
      /\ rt.active # 0 => VaultOf(rt.active) # Vault(t)
      /\ \A u \in Threads \ {t} : HoldsStore(u) => Vault(u) # Vault(t)

=============================================================================
