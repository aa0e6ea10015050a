---------------------------- MODULE TransferLedger ----------------------------
(***************************************************************************)
(* The durable transfer queue of the SyncStore (store.rs), the Worker that *)
(* claims and settles its rows (myvault-transfer, lib.rs), the change      *)
(* batch whose downloads are rows of the queue, and the guarded run that   *)
(* drives them (sync_run_guarded, sync_commands.rs).                       *)
(*                                                                         *)
(* What a transfer moves is left out: the executor may report any of its   *)
(* outcomes.  What is kept is every transaction on a row with its times,   *)
(* the gate before a batch download touches the vault, the single refresh  *)
(* of an expired credential, and the reopening of the store after an error *)
(* or a crash.  Times are readings of a wall clock that may be set back    *)
(* between two readings; within one drain it is the cutoff plus a          *)
(* monotonic interval.                                                     *)
(***************************************************************************)
EXTENDS Naturals, FiniteSets

CONSTANTS Uploads,        \* operation ids of uploads
          Downloads,      \* operation ids of downloads
          NoOp,           \* no operation is being executed
          MaxTime,        \* bound: the latest time the wall clock shows
          MaxOperations   \* MAX_GUARDED_OPERATIONS, claims per drain

Ops == Uploads \cup Downloads
Times == 0 .. MaxTime

ASSUME OpsAssumption == Uploads \cap Downloads = {} /\ NoOp \notin Ops
ASSUME LimitsAssumption == MaxTime \in Nat /\ MaxOperations \in Nat

VARIABLES
  row,        \* transfers: phase, next attempt, last update, last error code
  history,    \* transfer_history: the operations completed
  open,       \* whether a change batch is active
  mutation,   \* change_batch_mutations of the active batch
  pc,         \* where the guarded run is
  final,      \* whether the page of the batch was the last one
  prepared,   \* whether the run is past prepare_guarded_transfers
  refreshed,  \* refresh_attempted
  cutoff,     \* eligibility_cutoff_unix_ms of the drain
  claimed,    \* the operations this drain has claimed
  op,         \* the operation being executed
  gated       \* whether its executor passed before_local_publish

ledger == <<row, history, open, mutation>>
control == <<pc, final, prepared, refreshed, cutoff, claimed, op, gated>>
vars == <<ledger, control>>

Phases == {"absent", "pending", "running", "retry_scheduled", "auth_required",
           "needs_reconcile", "completed"}
Codes == {"none", "reconcile_requested", "other"}
Row == [phase : Phases, next : Times, updated : Times, code : Codes]
Absent == [phase |-> "absent", next |-> 0, updated |-> 0, code |-> "none"]

TypeOK ==
  /\ row \in [Ops -> Row]
  /\ history \in SUBSET Ops
  /\ open \in BOOLEAN
  /\ mutation \in [Downloads -> {"none", "pending", "applying", "committed"}]
  /\ pc \in {"idle", "pages", "drain", "claim", "exec", "refresh", "drained", "prepare"}
  /\ final \in BOOLEAN
  /\ prepared \in BOOLEAN
  /\ refreshed \in BOOLEAN
  /\ cutoff \in Times
  /\ claimed \in SUBSET Ops
  /\ op \in Ops \cup {NoOp}
  /\ gated \in BOOLEAN

Init ==
  /\ row = [o \in Ops |-> Absent]
  /\ history = {}
  /\ open = FALSE
  /\ mutation = [o \in Downloads |-> "none"]
  /\ pc = "idle"
  /\ final = FALSE
  /\ prepared = FALSE
  /\ refreshed = FALSE
  /\ cutoff = 0
  /\ claimed = {}
  /\ op = NoOp
  /\ gated = FALSE

Declared == {o \in Downloads : mutation[o] # "none"}

\* The state of the mutation an operation stands for in the active batch.
MutationOf(o) == IF o \in Downloads THEN mutation[o] ELSE "none"

-----------------------------------------------------------------------------
(* Transactions on rows. *)

\* register_transfer: an operation that is already there keeps its row.
Registered(S) ==
  [o \in Ops |-> IF o \in S /\ row[o].phase = "absent"
                 THEN [Absent EXCEPT !.phase = "pending"]
                 ELSE row[o]]

\* resume_auth_required_transfers: code auth_restored.
Resumed(now) ==
  [o \in Ops |->
     IF row[o].phase = "auth_required" /\ row[o].updated <= now
     THEN [phase |-> "retry_scheduled", next |-> now, updated |-> now, code |-> "other"]
     ELSE row[o]]

\* Variant: the wall clock as it is.
RequeueAtNow(now, o) == now

\* The caller never asks for an earlier time than the row has.
RequeueTime(now, o) == IF now < row[o].updated THEN row[o].updated ELSE now

\* requeue_transfer_for_reconciliation, for the operations of S that need it.
Requeued(rows, now, S) ==
  [o \in Ops |->
     IF o \in S /\ row[o].phase = "needs_reconcile"
     THEN [phase |-> "retry_scheduled", next |-> RequeueTime(now, o),
           updated |-> RequeueTime(now, o), code |-> "reconcile_requested"]
     ELSE rows[o]]

\* Variant: a restart leaves running rows as they are.
RecoveredNothing == row

\* recover_interrupted_jobs: code interrupted_unknown_outcome, times kept.
Recovered ==
  [o \in Ops |->
     IF row[o].phase = "running"
     THEN [row[o] EXCEPT !.phase = "needs_reconcile", !.code = "other"]
     ELSE row[o]]

-----------------------------------------------------------------------------
(* The guarded run. *)

\* The locals of a run that is over.
RunIsOver ==
  /\ pc' = "idle"
  /\ final' = FALSE /\ prepared' = FALSE /\ refreshed' = FALSE
  /\ cutoff' = 0 /\ claimed' = {}
  /\ op' = NoOp /\ gated' = FALSE

\* An error discards the store, and a crash loses it: it is opened again with
\* its interrupted rows recovered.
Reopen ==
  /\ row' = Recovered
  /\ RunIsOver
  /\ UNCHANGED <<history, open, mutation>>

StartRun(now) ==
  /\ pc = "idle"
  /\ row' = Resumed(now)
  /\ pc' = "pages"
  /\ UNCHANGED <<history, open, mutation, final, prepared, refreshed, cutoff, claimed, op, gated>>

\* requeue_active_batch_reconciliation, when a batch is already active.
RequeueActiveBatch(now) ==
  /\ pc = "pages" /\ open
  /\ row' = Requeued(row, now, Declared)
  /\ pc' = "drain"
  /\ final' = FALSE
  /\ UNCHANGED <<history, open, mutation, prepared, refreshed, cutoff, claimed, op, gated>>

\* begin_transfer_change_batch: the batch, its downloads and one declared
\* mutation for each of them, in one transaction. A completed operation cannot
\* be declared again (TransferCollision).
BeginTransferChangeBatch(D, last) ==
  /\ pc = "pages" /\ ~open
  /\ \A o \in D : row[o].phase # "completed"
  /\ open' = TRUE
  /\ mutation' = [o \in Downloads |-> IF o \in D THEN "pending" ELSE "none"]
  /\ row' = Registered(D)
  /\ pc' = "drain"
  /\ final' = last
  /\ UNCHANGED <<history, prepared, refreshed, cutoff, claimed, op, gated>>

\* run_guarded_worker: one cutoff for the whole drain.
StartDrain(now) ==
  /\ pc = "drain"
  /\ cutoff' = now
  /\ claimed' = {}
  /\ pc' = "claim"
  /\ UNCHANGED <<ledger, final, prepared, refreshed, op, gated>>

Due(o) == row[o].phase \in {"pending", "retry_scheduled"} /\ row[o].next <= cutoff

\* claim_next_transfer. The order by operation id is left open: ids are hashes.
ClaimNextTransfer(o) ==
  /\ pc = "claim"
  /\ Cardinality(claimed) < MaxOperations
  /\ Due(o)
  /\ row' = [row EXCEPT ![o].phase = "running", ![o].updated = cutoff]
  /\ claimed' = claimed \cup {o}
  /\ op' = o
  /\ gated' = FALSE
  /\ pc' = "exec"
  /\ UNCHANGED <<history, open, mutation, final, prepared, refreshed, cutoff>>

Drained ==
  /\ pc = "claim"
  /\ Cardinality(claimed) = MaxOperations \/ \A o \in Ops : ~Due(o)
  /\ pc' = "drained"
  /\ cutoff' = 0 /\ claimed' = {}
  /\ UNCHANGED <<ledger, final, prepared, refreshed, op, gated>>

\* Variant: the gate reads the wall clock instead of the cutoff.
GateTimeNow == MaxTime

GateTime == cutoff

\* Variant: a mutation that is already applying is always refused.
GateRefusesApplying(o) == MutationOf(o) \in {"none", "pending"}

\* begin_local_publish: an operation outside the batch passes, a pending
\* mutation becomes applying, and one that is applying passes only when its row
\* was requeued for exactly this reason.
GatePasses(o) ==
  \/ MutationOf(o) \in {"none", "pending"}
  \/ MutationOf(o) = "applying" /\ row[o].code = "reconcile_requested"

BeginLocalPublish ==
  /\ pc = "exec" /\ op \in Downloads /\ ~gated
  /\ GatePasses(op)
  /\ gated' = TRUE
  /\ IF mutation[op] = "pending"
     THEN /\ mutation' = [mutation EXCEPT ![op] = "applying"]
          /\ row' = [row EXCEPT ![op].updated = GateTime]
     ELSE UNCHANGED <<mutation, row>>
  /\ UNCHANGED <<history, open, pc, final, prepared, refreshed, cutoff, claimed, op>>

\* MutationNeedsReconcile: the gate's error ends the run and leaves the row
\* running, for the next opening of the store to recover.
GateRefused ==
  /\ pc = "exec" /\ op \in Downloads /\ ~gated
  /\ ~GatePasses(op)
  /\ Reopen

\* The next operation of the drain.
Settle(settled) ==
  /\ row' = [row EXCEPT ![op] = settled]
  /\ op' = NoOp
  /\ gated' = FALSE
  /\ UNCHANGED <<open, final, prepared, refreshed, cutoff, claimed>>

\* What the store requires of a completion at time t, and of a failure.
CompletionAccepted(t) ==
  /\ row[op].phase \in {"running", "needs_reconcile"} /\ row[op].updated <= t
  /\ MutationOf(op) \in {"none", "applying"}
FailureAccepted(t) == row[op].phase = "running" /\ row[op].updated <= t

\* Variant: the completion leaves the declared mutation applying.
MutationKept(o) == mutation

MutationCommitted(o) ==
  IF MutationOf(o) = "applying" THEN [mutation EXCEPT ![o] = "committed"] ELSE mutation

\* complete_verified_transfer: history, row and mutation in one transaction.
CompleteVerifiedTransfer(t) ==
  /\ pc = "exec" /\ t >= cutoff
  /\ op \in Uploads \/ gated
  /\ CompletionAccepted(t)
  /\ history' = history \cup {op}
  /\ mutation' = MutationCommitted(op)
  /\ Settle([phase |-> "completed", next |-> t, updated |-> t, code |-> "none"])
  /\ pc' = "claim"

\* Variant: a backoff of no time at all.
NotBefore(t) == t .. MaxTime

\* A backoff is never shorter than BASE_BACKOFF_MS.
AfterBackoff(t) == (t + 1) .. MaxTime

\* schedule_transfer_retry and pause_transfer_offline: the row is updated as of
\* its next attempt. No executor retries after the gate.
ScheduleRetry(t) ==
  /\ pc = "exec" /\ t >= cutoff
  /\ ~gated
  /\ FailureAccepted(t)
  /\ \E next \in AfterBackoff(t) :
       Settle([phase |-> "retry_scheduled", next |-> next, updated |-> next, code |-> "other"])
  /\ pc' = "claim"
  /\ UNCHANGED <<history, mutation>>

MarkNeedsReconcile(t) ==
  /\ pc = "exec" /\ t >= cutoff
  /\ FailureAccepted(t)
  /\ Settle([row[op] EXCEPT !.phase = "needs_reconcile", !.updated = t, !.code = "other"])
  /\ pc' = "claim"
  /\ UNCHANGED <<history, mutation>>

\* The worker claims nothing more with an expired credential.
MarkAuthRequired(t) ==
  /\ pc = "exec" /\ t >= cutoff
  /\ ~gated
  /\ FailureAccepted(t)
  /\ Settle([row[op] EXCEPT !.phase = "auth_required", !.updated = t, !.code = "other"])
  /\ pc' = "refresh"
  /\ UNCHANGED <<history, mutation>>

\* refresh_run_access_once: one refresh per run, then a second drain.
RefreshAccess(now) ==
  /\ pc = "refresh" /\ ~refreshed
  /\ refreshed' = TRUE
  /\ row' = Resumed(now)
  /\ pc' = "drain"
  /\ UNCHANGED <<history, open, mutation, final, prepared, cutoff, claimed, op, gated>>

\* The refresh is spent by an expired credential of prepare_incremental_change_batch
\* or of prepare_guarded_transfers as well, which are then tried again.
RefreshForMetadata ==
  /\ (pc = "pages" /\ ~open) \/ pc = "prepare"
  /\ ~refreshed
  /\ refreshed' = TRUE
  /\ UNCHANGED <<ledger, pc, final, prepared, cutoff, claimed, op, gated>>

AuthBlocked ==
  /\ pc = "refresh" /\ refreshed
  /\ RunIsOver
  /\ UNCHANGED ledger

BatchIsDone == \A o \in Declared : mutation[o] = "committed"

\* commit_transfer_change_batch of a page without downloads: the cursor moves,
\* and the last page is followed by the local files.
CommitTransferChangeBatch ==
  /\ pc = "drained" /\ ~prepared
  /\ Declared = {}
  /\ open' = FALSE
  /\ pc' = IF final THEN "prepare" ELSE "pages"
  /\ final' = FALSE
  /\ UNCHANGED <<row, history, mutation, prepared, refreshed, cutoff, claimed, op, gated>>

\* LocalMutationIncomplete for every batch that declared a download.
CommitRefused ==
  /\ pc = "drained" /\ ~prepared
  /\ Declared # {} /\ BatchIsDone
  /\ Reopen

EndRun ==
  /\ pc = "drained"
  /\ prepared \/ ~BatchIsDone
  /\ RunIsOver
  /\ UNCHANGED ledger

\* prepare_guarded_transfers: whatever the local files and the mirror call for
\* is registered, or requeued when it needs reconciliation.
PrepareGuardedTransfers(S, now) ==
  /\ pc = "prepare"
  /\ row' = Requeued(Registered(S), now, S)
  /\ prepared' = TRUE
  /\ pc' = "drain"
  /\ UNCHANGED <<history, open, mutation, final, refreshed, cutoff, claimed, op, gated>>

\* The process dies, or any other call of the run fails.
Crash == pc # "idle" /\ Reopen

-----------------------------------------------------------------------------
Next ==
  \/ \E now \in Times :
       \/ StartRun(now) \/ RequeueActiveBatch(now) \/ StartDrain(now) \/ RefreshAccess(now)
       \/ \E S \in SUBSET Ops : PrepareGuardedTransfers(S, now)
  \/ \E D \in SUBSET Downloads, last \in BOOLEAN : BeginTransferChangeBatch(D, last)
  \/ \E o \in Ops : ClaimNextTransfer(o)
  \/ Drained \/ BeginLocalPublish \/ GateRefused
  \/ \E t \in Times :
       \/ CompleteVerifiedTransfer(t) \/ ScheduleRetry(t)
       \/ MarkNeedsReconcile(t) \/ MarkAuthRequired(t)
  \/ RefreshForMetadata \/ AuthBlocked \/ CommitTransferChangeBatch \/ CommitRefused \/ EndRun
  \/ Crash

Spec == Init /\ [][Next]_vars

\* The user keeps starting runs, the wall clock is not stuck in the past, a run
\* takes its next step or dies, and no step on the way of a download to its
\* completion fails every time it is tried.
Fairness ==
  /\ WF_vars(pc # "idle" /\ Next)
  /\ SF_vars(StartRun(MaxTime))
  /\ SF_vars(\E now \in Times : RequeueActiveBatch(now))
  /\ SF_vars(StartDrain(MaxTime))
  /\ \A o \in Downloads : SF_vars(ClaimNextTransfer(o))
  /\ SF_vars(BeginLocalPublish) /\ SF_vars(GateRefused)
  /\ SF_vars(\E t \in Times : CompleteVerifiedTransfer(t))

FairSpec == Spec /\ Fairness

-----------------------------------------------------------------------------
(* Properties. *)

\* A row is running exactly while the worker executes it: no error, gate
\* refusal or crash leaves a row that no later claim or requeue can reach.
RunningIsOwned ==
  \A o \in Ops : row[o].phase = "running" <=> (pc = "exec" /\ o = op)

\* The three tables agree although rows are registered by the batch and by the
\* local files alike: an operation is in the history exactly when its row is
\* completed, a declared mutation is committed exactly then, and one that is
\* applying has been claimed before.
LedgerAgrees ==
  /\ \A o \in Ops : o \in history <=> row[o].phase = "completed"
  /\ \A o \in Declared :
       /\ open
       /\ mutation[o] = "committed" <=> row[o].phase = "completed"
       /\ mutation[o] = "applying" => row[o].phase \notin {"absent", "pending"}

\* The store accepts every outcome of an execution, whatever the wall clock did
\* since the row was written: a transfer that was carried out is never lost to
\* an InvalidStateTransition of complete_verified_transfer or of the failure
\* transitions.
OutcomeIsAccepted ==
  pc = "exec" => \A t \in cutoff .. MaxTime :
    /\ FailureAccepted(t)
    /\ (op \in Uploads \/ gated) => CompletionAccepted(t)

\* One drain claims an operation once: what it scheduled for later is not due
\* again before the drain ends (drain_guarded_snapshot).
ClaimedOncePerDrain ==
  pc \in {"claim", "exec"} => \A o \in claimed : ~Due(o)

\* What keeps the times in order: a row that may be claimed was not updated after
\* its next attempt, and the row being executed not after the cutoff.
TimesAreOrdered ==
  /\ \A o \in Ops :
       /\ row[o].phase = "absent" => row[o] = Absent
       /\ row[o].phase \in {"pending", "retry_scheduled"} => row[o].updated <= row[o].next
  /\ pc = "exec" =>
       /\ op \in Ops
       /\ row[op].updated <= cutoff
       /\ gated => op \in Downloads /\ mutation[op] \in {"none", "applying"}

\* The inductive invariant.
LedgerInv ==
  /\ TypeOK
  /\ RunningIsOwned
  /\ LedgerAgrees
  /\ ClaimedOncePerDrain
  /\ TimesAreOrdered

\* updated_at_unix_ms never goes back, even when the wall clock does.
UpdatedNeverGoesBack ==
  [][\A o \in Ops : row[o].updated <= row'[o].updated]_vars

\* A completed row is never written again: not by a registration, a requeue, a
\* recovery or a second completion.
CompletedIsFinal ==
  [][\A o \in Ops : row[o].phase = "completed" => row'[o] = row[o]]_vars

\* Every download a batch declared is carried out in the end, through crashes
\* after the gate, retries that overwrite the reconcile_requested code the gate
\* looks for, expired credentials and clocks set back.
BatchDownloadsFinish ==
  \A o \in Downloads : mutation[o] = "pending" ~> mutation[o] = "committed"

=============================================================================
