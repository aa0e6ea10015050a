------------------------- MODULE TransferLedgerProofs -------------------------
(***************************************************************************)
(* Proofs about TransferLedger, for any operations, any bound on the clock *)
(* and any limit of claims per drain.  LedgerInv is inductive; the         *)
(* properties of the runs follow from it.                                  *)
(***************************************************************************)
EXTENDS TransferLedger, TLAPS

\* What recovery, requeueing, resuming and registering do to the rows keeps the
\* rows well formed and their times in order.
LEMMA RowsOfTypes ==
  ASSUME TypeOK, NEW now \in Times, NEW S \in SUBSET Ops
  PROVE  /\ Recovered \in [Ops -> Row]
         /\ Resumed(now) \in [Ops -> Row]
         /\ Registered(S) \in [Ops -> Row]
         /\ Requeued(row, now, S) \in [Ops -> Row]
         /\ Requeued(Registered(S), now, S) \in [Ops -> Row]
<1>1. \A o \in Ops : RequeueTime(now, o) \in Times
  BY DEF TypeOK, RequeueTime, Row, Times
<1> DEFINE pendingRow == [Absent EXCEPT !.phase = "pending"]
<1>2. pendingRow \in Row
  BY LimitsAssumption DEF Absent, Row, Phases, Codes, Times
<1>3. Registered(S) \in [Ops -> Row]
  BY <1>2 DEF TypeOK, Registered
<1>4. Recovered \in [Ops -> Row]
  BY DEF TypeOK, Recovered, Row, Phases, Codes
<1>5. Resumed(now) \in [Ops -> Row]
  BY DEF TypeOK, Resumed, Row, Phases, Codes
<1>6. ASSUME NEW rows \in [Ops -> Row] PROVE Requeued(rows, now, S) \in [Ops -> Row]
  BY <1>1, <1>6 DEF Requeued, Row, Phases, Codes
<1> QED
  BY <1>3, <1>4, <1>5, <1>6 DEF TypeOK

\* A store that holds no transfer satisfies the invariant.
LEMMA InitHasInv == Init => LedgerInv
<1> SUFFICES ASSUME Init PROVE LedgerInv
  OBVIOUS
<1>0. Absent \in Row /\ 0 \in Times
  BY LimitsAssumption DEF Absent, Row, Phases, Codes, Times
<1>1. TypeOK
  BY <1>0 DEF Init, TypeOK
<1> QED
  BY <1>1, OpsAssumption
  DEF Init, LedgerInv, RunningIsOwned, LedgerAgrees, ClaimedOncePerDrain, TimesAreOrdered,
      Declared, Absent

\* Reopening the store, after an error or a crash at any step.
LEMMA ReopenPreserves == LedgerInv /\ Reopen => LedgerInv'
<1> SUFFICES ASSUME LedgerInv, Reopen PROVE LedgerInv'
  OBVIOUS
<1> USE DEF LedgerInv, Reopen, RunIsOver
<1>0. 0 \in Times /\ Downloads \subseteq Ops
  BY LimitsAssumption DEF Times, Ops
<1>1. TypeOK'
  <2>1. Recovered \in [Ops -> Row]
    BY <1>0, RowsOfTypes
  <2> QED
    BY <1>0, <2>1 DEF TypeOK
<1>2. \A o \in Ops : /\ row'[o].phase # "running"
                     /\ row[o].phase # "running" => row'[o] = row[o]
                     /\ row[o].phase = "running" => row'[o].phase = "needs_reconcile"
  BY DEF Recovered, TypeOK, Row
<1>3. RunningIsOwned'
  BY <1>2 DEF RunningIsOwned
<1>4. LedgerAgrees'
  BY <1>0, <1>2 DEF LedgerAgrees, Declared
<1>5. ClaimedOncePerDrain' /\ TimesAreOrdered'
  BY <1>2 DEF ClaimedOncePerDrain, TimesAreOrdered
<1> QED
  BY <1>1, <1>3, <1>4, <1>5

\* A step outside execution that only moves rows between waiting phases: it
\* starts no row, completes none, and puts off no update.
LEMMA RowsMovePreserves ==
  ASSUME LedgerInv,
         row' \in [Ops -> Row],
         \A o \in Ops :
           \/ row'[o] = row[o]
           \/ row[o].phase = "absent" /\ row'[o].phase = "pending" /\ row'[o].updated <= row'[o].next
           \/ /\ row[o].phase \in {"auth_required", "needs_reconcile"}
              /\ row'[o].phase = "retry_scheduled"
              /\ row'[o].updated <= row'[o].next,
         pc # "exec", pc' \in {"pages", "drain"},
         final' \in BOOLEAN, prepared' \in BOOLEAN, refreshed' \in BOOLEAN,
         UNCHANGED <<history, cutoff, claimed, op, gated>>,
         \/ UNCHANGED <<open, mutation>>
         \/ /\ ~open /\ open' = TRUE
            /\ mutation' \in [Downloads -> {"none", "pending"}]
            /\ \A o \in Downloads : mutation'[o] = "pending" => row[o].phase # "completed"
  PROVE  LedgerInv'
<1> USE DEF LedgerInv
<1>1. TypeOK'
  BY DEF TypeOK
<1>2. RunningIsOwned'
  BY DEF RunningIsOwned
<1>3. \A o \in Ops : row'[o].phase = "completed" <=> row[o].phase = "completed"
  OBVIOUS
<1>4. Downloads \subseteq Ops
  BY DEF Ops
<1>5. CASE UNCHANGED <<open, mutation>>
  BY <1>1, <1>2, <1>3, <1>4, <1>5
  DEF LedgerAgrees, Declared, ClaimedOncePerDrain, TimesAreOrdered
<1>6. CASE ~open /\ open' = TRUE
           /\ mutation' \in [Downloads -> {"none", "pending"}]
           /\ \A o \in Downloads : mutation'[o] = "pending" => row[o].phase # "completed"
  <2>1. LedgerAgrees'
    BY <1>3, <1>4, <1>6 DEF LedgerAgrees, Declared
  <2> QED
    BY <1>1, <1>2, <2>1 DEF ClaimedOncePerDrain, TimesAreOrdered
<1> QED
  BY <1>5, <1>6

\* What resuming, requeueing and registering do to one row.
LEMMA MovedRows ==
  ASSUME LedgerInv, NEW now \in Times, NEW S \in SUBSET Ops, NEW o \in Ops
  PROVE  LET moved(r) == /\ row[o].phase \in {"auth_required", "needs_reconcile"}
                         /\ r.phase = "retry_scheduled"
                         /\ r.updated <= r.next
             new(r) == row[o].phase = "absent" /\ r.phase = "pending" /\ r.updated <= r.next
         IN  /\ Resumed(now)[o] = row[o] \/ moved(Resumed(now)[o])
             /\ Registered(S)[o] = row[o] \/ new(Registered(S)[o])
             /\ Requeued(row, now, S)[o] = row[o] \/ moved(Requeued(row, now, S)[o])
             /\ \/ Requeued(Registered(S), now, S)[o] = row[o]
                \/ moved(Requeued(Registered(S), now, S)[o])
                \/ new(Requeued(Registered(S), now, S)[o])
<1>1. row[o].updated \in Nat /\ now \in Nat
  BY DEF LedgerInv, TypeOK, Row, Times
<1>2. RequeueTime(now, o) \in Nat
  BY <1>1 DEF RequeueTime
<1>3. Resumed(now)[o] =
        IF row[o].phase = "auth_required" /\ row[o].updated <= now
        THEN [phase |-> "retry_scheduled", next |-> now, updated |-> now, code |-> "other"]
        ELSE row[o]
  BY DEF Resumed
<1>4. Registered(S)[o] = IF o \in S /\ row[o].phase = "absent"
                         THEN [phase |-> "pending", next |-> 0, updated |-> 0, code |-> "none"]
                         ELSE row[o]
  BY DEF Registered, Absent
<1>5. ASSUME NEW rows
      PROVE  Requeued(rows, now, S)[o] =
               IF o \in S /\ row[o].phase = "needs_reconcile"
               THEN [phase |-> "retry_scheduled", next |-> RequeueTime(now, o),
                     updated |-> RequeueTime(now, o), code |-> "reconcile_requested"]
               ELSE rows[o]
  BY DEF Requeued
<1> QED
  BY <1>1, <1>2, <1>3, <1>4, <1>5

\* The steps between drains: starting a run, requeueing or beginning a batch,
\* refreshing the credential, and registering what the local files call for.
LEMMA BetweenDrainsPreserves ==
  ASSUME LedgerInv, NEW now \in Times,
         \/ StartRun(now) \/ RequeueActiveBatch(now) \/ RefreshAccess(now)
         \/ \E S \in SUBSET Ops : PrepareGuardedTransfers(S, now)
         \/ \E D \in SUBSET Downloads, last \in BOOLEAN : BeginTransferChangeBatch(D, last)
  PROVE  LedgerInv'
<1>0. Downloads \subseteq Ops /\ Declared \subseteq Ops
  BY DEF Ops, Declared
<1>1. CASE StartRun(now)
  BY <1>0, <1>1, RowsMovePreserves, MovedRows, RowsOfTypes DEF StartRun, LedgerInv, TypeOK
<1>2. CASE RequeueActiveBatch(now)
  <2>1. row' \in [Ops -> Row]
    BY <1>0, <1>2, RowsOfTypes DEF RequeueActiveBatch, LedgerInv
  <2>2. \A o \in Ops : \/ row'[o] = row[o]
                       \/ /\ row[o].phase \in {"auth_required", "needs_reconcile"}
                          /\ row'[o].phase = "retry_scheduled"
                          /\ row'[o].updated <= row'[o].next
    BY <1>0, <1>2, MovedRows DEF RequeueActiveBatch
  <2> QED
    BY <1>2, <2>1, <2>2, RowsMovePreserves DEF RequeueActiveBatch, LedgerInv, TypeOK
<1>3. CASE RefreshAccess(now)
  BY <1>0, <1>3, RowsMovePreserves, MovedRows, RowsOfTypes DEF RefreshAccess, LedgerInv, TypeOK
<1>4. CASE \E S \in SUBSET Ops : PrepareGuardedTransfers(S, now)
  <2>1. PICK S \in SUBSET Ops : PrepareGuardedTransfers(S, now)
    BY <1>4
  <2> QED
    BY <2>1, RowsMovePreserves, MovedRows, RowsOfTypes
    DEF PrepareGuardedTransfers, LedgerInv, TypeOK
<1>5. CASE \E D \in SUBSET Downloads, last \in BOOLEAN : BeginTransferChangeBatch(D, last)
  <2>1. PICK D \in SUBSET Downloads, last \in BOOLEAN : BeginTransferChangeBatch(D, last)
    BY <1>5
  <2>2. mutation' \in [Downloads -> {"none", "pending"}]
        /\ \A o \in Downloads : mutation'[o] = "pending" => row[o].phase # "completed"
    BY <2>1 DEF BeginTransferChangeBatch
  <2>3. row' \in [Ops -> Row]
    BY <1>0, <2>1, RowsOfTypes DEF BeginTransferChangeBatch, LedgerInv
  <2>4. \A o \in Ops : \/ row'[o] = row[o]
                       \/ /\ row[o].phase = "absent"
                          /\ row'[o].phase = "pending"
                          /\ row'[o].updated <= row'[o].next
    BY <1>0, <2>1, MovedRows DEF BeginTransferChangeBatch
  <2> QED
    BY <2>1, <2>2, <2>3, <2>4, RowsMovePreserves
    DEF BeginTransferChangeBatch, LedgerInv, TypeOK
<1> QED
  BY <1>1, <1>2, <1>3, <1>4, <1>5

\* The steps that leave the rows alone.
LEMMA ControlPreserves ==
  ASSUME LedgerInv,
         \/ \E now \in Times : StartDrain(now)
         \/ Drained \/ RefreshForMetadata \/ AuthBlocked \/ EndRun \/ CommitTransferChangeBatch
         \/ UNCHANGED vars
  PROVE  LedgerInv'
<1> USE DEF LedgerInv
<1>0. 0 \in Times
  BY LimitsAssumption DEF Times
<1>1. CASE \E now \in Times : StartDrain(now)
  BY <1>1 DEF StartDrain, ledger, TypeOK, RunningIsOwned, LedgerAgrees, Declared,
              ClaimedOncePerDrain, TimesAreOrdered
<1>2. CASE Drained
  BY <1>0, <1>2 DEF Drained, ledger, TypeOK, RunningIsOwned, LedgerAgrees, Declared,
                    ClaimedOncePerDrain, TimesAreOrdered
<1>3. CASE AuthBlocked \/ EndRun
  BY <1>0, <1>3 DEF AuthBlocked, EndRun, RunIsOver, ledger, TypeOK, RunningIsOwned,
                    LedgerAgrees, Declared, ClaimedOncePerDrain, TimesAreOrdered
<1>4. CASE CommitTransferChangeBatch
  BY <1>4 DEF CommitTransferChangeBatch, TypeOK, RunningIsOwned, LedgerAgrees, Declared,
              ClaimedOncePerDrain, TimesAreOrdered
<1>5. CASE RefreshForMetadata
  BY <1>5 DEF RefreshForMetadata, ledger, TypeOK, RunningIsOwned, LedgerAgrees, Declared,
              ClaimedOncePerDrain, Due, TimesAreOrdered
<1>6. CASE UNCHANGED vars
  BY <1>6 DEF vars, ledger, control, TypeOK, RunningIsOwned, LedgerAgrees, Declared,
              ClaimedOncePerDrain, Due, TimesAreOrdered
<1> QED
  BY <1>1, <1>2, <1>3, <1>4, <1>5, <1>6

\* claim_next_transfer.
LEMMA ClaimPreserves ==
  ASSUME LedgerInv, NEW o \in Ops, ClaimNextTransfer(o)
  PROVE  LedgerInv'
<1> USE DEF LedgerInv
<1>0. Downloads \subseteq Ops
  BY DEF Ops
<1>1. /\ row' = [row EXCEPT ![o] = [row[o] EXCEPT !.phase = "running", !.updated = cutoff]]
      /\ row'[o].phase = "running" /\ row'[o].updated = cutoff
      /\ \A p \in Ops \ {o} : row'[p] = row[p]
  BY DEF ClaimNextTransfer, TypeOK, Row
<1>2. TypeOK'
  <2>1. [row[o] EXCEPT !.phase = "running", !.updated = cutoff] \in Row
    BY DEF TypeOK, Row, Phases
  <2> QED
    BY <1>1, <2>1 DEF ClaimNextTransfer, TypeOK
<1>3. RunningIsOwned'
  BY <1>1 DEF ClaimNextTransfer, RunningIsOwned
<1>6. row[o].phase \notin {"completed", "absent"}
  BY DEF ClaimNextTransfer, Due
<1>7. LedgerAgrees'
  BY <1>0, <1>1, <1>6 DEF ClaimNextTransfer, LedgerAgrees, Declared
<1>4. ClaimedOncePerDrain'
  BY <1>1 DEF ClaimNextTransfer, ClaimedOncePerDrain, Due, TypeOK
<1>5. TimesAreOrdered'
  BY <1>1 DEF ClaimNextTransfer, TimesAreOrdered, TypeOK, Times
<1> QED
  BY <1>2, <1>3, <1>4, <1>5, <1>7

\* begin_local_publish when the gate lets the download through.
LEMMA GatePreserves == LedgerInv /\ BeginLocalPublish => LedgerInv'
<1> SUFFICES ASSUME LedgerInv, BeginLocalPublish PROVE LedgerInv'
  OBVIOUS
<1> USE DEF LedgerInv
<1>0. op \in Ops /\ op \in Downloads /\ Downloads \subseteq Ops /\ pc = "exec"
  BY DEF BeginLocalPublish, Ops
<1>1. row[op].phase = "running" /\ row[op].updated <= cutoff
  BY <1>0 DEF RunningIsOwned, TimesAreOrdered
<1>2. CASE mutation[op] = "pending"
  <2>1. /\ row' = [row EXCEPT ![op] = [row[op] EXCEPT !.updated = cutoff]]
        /\ row'[op].phase = "running" /\ row'[op].updated = cutoff
        /\ \A p \in Ops \ {op} : row'[p] = row[p]
    BY <1>0, <1>1, <1>2 DEF BeginLocalPublish, GateTime, TypeOK, Row
  <2>2. TypeOK'
    <3>1. [row[op] EXCEPT !.updated = cutoff] \in Row
      BY <1>0 DEF TypeOK, Row
    <3> QED
      BY <1>0, <1>2, <2>1, <3>1 DEF BeginLocalPublish, TypeOK
  <2>3. mutation' = [mutation EXCEPT ![op] = "applying"]
    BY <1>2 DEF BeginLocalPublish
  <2>4. RunningIsOwned'
    BY <1>1, <2>1 DEF BeginLocalPublish, RunningIsOwned
  <2>5. LedgerAgrees'
    BY <1>0, <1>1, <1>2, <2>1, <2>3 DEF BeginLocalPublish, LedgerAgrees, Declared, TypeOK
  <2>6. ClaimedOncePerDrain'
    BY <1>0, <2>1 DEF BeginLocalPublish, ClaimedOncePerDrain, Due, TypeOK
  <2>7. TimesAreOrdered'
    BY <1>0, <2>1, <2>3 DEF BeginLocalPublish, TimesAreOrdered, TypeOK, Times
  <2> QED
    BY <2>2, <2>4, <2>5, <2>6, <2>7
<1>3. CASE mutation[op] # "pending"
  <2>1. UNCHANGED <<mutation, row, history, open, pc, final, prepared, refreshed, cutoff,
                    claimed, op>> /\ gated'
    BY <1>3 DEF BeginLocalPublish
  <2>2. mutation[op] \in {"none", "applying"}
    BY <1>0, <1>3 DEF BeginLocalPublish, GatePasses, MutationOf
  <2> QED
    BY <1>0, <2>1, <2>2 DEF BeginLocalPublish, TypeOK, RunningIsOwned, LedgerAgrees, Declared,
                            ClaimedOncePerDrain, Due, TimesAreOrdered
<1> QED
  BY <1>2, <1>3

\* An execution settles: the row leaves Running, is not due again in this drain,
\* and is completed exactly when the history and the mutation say so.
LEMMA SettlePreserves ==
  ASSUME LedgerInv, pc = "exec", NEW settled \in Row, Settle(settled),
         pc' \in {"claim", "refresh"},
         settled.phase \in {"completed", "needs_reconcile", "auth_required", "retry_scheduled"},
         settled.phase = "retry_scheduled" =>
           cutoff < settled.next /\ settled.updated <= settled.next,
         settled.phase # "completed" => UNCHANGED <<history, mutation>>,
         settled.phase = "completed" =>
           history' = history \cup {op} /\ mutation' = MutationCommitted(op)
             /\ MutationOf(op) \in {"none", "applying"}
  PROVE  LedgerInv'
<1> USE DEF LedgerInv
<1>0. op \in Ops /\ Downloads \subseteq Ops /\ row[op].phase = "running"
  BY DEF TimesAreOrdered, RunningIsOwned, Ops
<1>1. /\ row' = [row EXCEPT ![op] = settled]
      /\ row'[op] = settled
      /\ \A p \in Ops \ {op} : row'[p] = row[p]
  BY <1>0 DEF Settle, TypeOK
<1>2. /\ mutation' \in [Downloads -> {"none", "pending", "applying", "committed"}]
      /\ \A p \in Downloads \ {op} : mutation'[p] = mutation[p]
      /\ op \in Downloads /\ settled.phase = "completed" =>
           mutation'[op] = IF mutation[op] = "applying" THEN "committed" ELSE mutation[op]
      /\ settled.phase # "completed" => mutation' = mutation
  BY <1>0 DEF MutationCommitted, MutationOf, TypeOK
<1>3. TypeOK'
  BY <1>0, <1>1, <1>2 DEF Settle, TypeOK
<1>4. RunningIsOwned'
  BY <1>0, <1>1 DEF Settle, RunningIsOwned
<1>5. \A o \in Ops : (o \in history)' <=> row'[o].phase = "completed"
  BY <1>0, <1>1 DEF LedgerAgrees
<1>6. ASSUME NEW o \in Downloads, mutation'[o] # "none"
      PROVE  /\ open'
             /\ mutation'[o] = "committed" <=> row'[o].phase = "completed"
             /\ mutation'[o] = "applying" => row'[o].phase \notin {"absent", "pending"}
  <2>1. open' = open /\ mutation[o] # "none"
    BY <1>2, <1>6 DEF Settle
  <2>2. CASE o # op
    BY <1>0, <1>1, <1>2, <2>1, <2>2 DEF LedgerAgrees, Declared
  <2>3. CASE o = op /\ settled.phase = "completed"
    BY <1>0, <1>1, <1>2, <2>1, <2>3 DEF LedgerAgrees, Declared, MutationOf
  <2>4. CASE o = op /\ settled.phase # "completed"
    BY <1>0, <1>1, <1>2, <2>1, <2>4 DEF LedgerAgrees, Declared
  <2> QED
    BY <2>2, <2>3, <2>4
<1>7. LedgerAgrees'
  BY <1>5, <1>6 DEF LedgerAgrees, Declared
<1>8. ClaimedOncePerDrain'
  BY <1>0, <1>1 DEF Settle, ClaimedOncePerDrain, Due, TypeOK, Row, Times
<1>9. TimesAreOrdered'
  BY <1>0, <1>1 DEF Settle, TimesAreOrdered
<1> QED
  BY <1>3, <1>4, <1>7, <1>8, <1>9

\* Every outcome of an execution preserves the invariant.
LEMMA OutcomePreserves ==
  ASSUME LedgerInv, NEW t \in Times,
         \/ CompleteVerifiedTransfer(t) \/ ScheduleRetry(t)
         \/ MarkNeedsReconcile(t) \/ MarkAuthRequired(t)
  PROVE  LedgerInv'
<1>0. pc = "exec" /\ op \in Ops /\ row[op] \in Row /\ cutoff \in Times
  BY DEF CompleteVerifiedTransfer, ScheduleRetry, MarkNeedsReconcile, MarkAuthRequired,
         LedgerInv, TimesAreOrdered, TypeOK
<1>1. CASE CompleteVerifiedTransfer(t)
  <2> DEFINE settled == [phase |-> "completed", next |-> t, updated |-> t, code |-> "none"]
  <2>1. settled \in Row
    BY DEF Row, Phases, Codes
  <2> QED
    BY <1>0, <1>1, <2>1, SettlePreserves DEF CompleteVerifiedTransfer, CompletionAccepted
<1>2. CASE ScheduleRetry(t)
  <2>1. PICK next \in AfterBackoff(t) :
          Settle([phase |-> "retry_scheduled", next |-> next, updated |-> next, code |-> "other"])
    BY <1>2 DEF ScheduleRetry
  <2>2. next \in Times /\ cutoff < next
    BY <1>0, <1>2, LimitsAssumption DEF ScheduleRetry, AfterBackoff, Times
  <2> DEFINE settled ==
        [phase |-> "retry_scheduled", next |-> next, updated |-> next, code |-> "other"]
  <2>3. settled \in Row /\ settled.updated <= settled.next
    BY <2>2 DEF Row, Phases, Codes, Times
  <2> QED
    BY <1>0, <1>2, <2>1, <2>2, <2>3, SettlePreserves DEF ScheduleRetry
<1>3. CASE MarkNeedsReconcile(t)
  <2> DEFINE settled ==
        [row[op] EXCEPT !.phase = "needs_reconcile", !.updated = t, !.code = "other"]
  <2>1. settled \in Row /\ settled.phase = "needs_reconcile"
    BY <1>0 DEF Row, Phases, Codes
  <2> QED
    BY <1>0, <1>3, <2>1, SettlePreserves DEF MarkNeedsReconcile
<1>4. CASE MarkAuthRequired(t)
  <2> DEFINE settled ==
        [row[op] EXCEPT !.phase = "auth_required", !.updated = t, !.code = "other"]
  <2>1. settled \in Row /\ settled.phase = "auth_required"
    BY <1>0 DEF Row, Phases, Codes
  <2> QED
    BY <1>0, <1>4, <2>1, SettlePreserves DEF MarkAuthRequired
<1> QED
  BY <1>1, <1>2, <1>3, <1>4

\* Every step preserves the invariant.
LEMMA StepPreserves == LedgerInv /\ [Next]_vars => LedgerInv'
<1> SUFFICES ASSUME LedgerInv, [Next]_vars PROVE LedgerInv'
  OBVIOUS
<1>0. 0 \in Times
  BY LimitsAssumption DEF Times
<1>1. CASE \E now \in Times :
             \/ StartRun(now) \/ RequeueActiveBatch(now) \/ RefreshAccess(now)
             \/ \E S \in SUBSET Ops : PrepareGuardedTransfers(S, now)
  BY <1>1, BetweenDrainsPreserves
<1>2. CASE \E D \in SUBSET Downloads, last \in BOOLEAN : BeginTransferChangeBatch(D, last)
  BY <1>0, <1>2, BetweenDrainsPreserves
<1>3. CASE \/ \E now \in Times : StartDrain(now)
           \/ Drained \/ RefreshForMetadata \/ AuthBlocked \/ EndRun \/ CommitTransferChangeBatch
           \/ UNCHANGED vars
  BY <1>3, ControlPreserves
<1>4. CASE \E o \in Ops : ClaimNextTransfer(o)
  BY <1>4, ClaimPreserves
<1>5. CASE BeginLocalPublish
  BY <1>5, GatePreserves
<1>6. CASE GateRefused \/ CommitRefused \/ Crash
  BY <1>6, ReopenPreserves DEF GateRefused, CommitRefused, Crash
<1>7. CASE \E t \in Times :
             \/ CompleteVerifiedTransfer(t) \/ ScheduleRetry(t)
             \/ MarkNeedsReconcile(t) \/ MarkAuthRequired(t)
  BY <1>7, OutcomePreserves
<1> QED
  BY <1>1, <1>2, <1>3, <1>4, <1>5, <1>6, <1>7 DEF Next

\* Every state of the transfer queue satisfies the invariant.
THEOREM LedgerInvHolds == Spec => []LedgerInv
BY InitHasInv, StepPreserves, PTL DEF Spec

\* The rows, the batch and the run keep their types.
THEOREM TypeCorrect == Spec => []TypeOK
<1>1. LedgerInv => TypeOK
  BY DEF LedgerInv
<1> QED
  BY <1>1, LedgerInvHolds, PTL

\* The queue, the history and the batch agree at every step, and no row is left
\* running by an error or a crash (complete_verified_transfer,
\* recover_interrupted_jobs).
THEOREM LedgerCorrect == Spec => [](RunningIsOwned /\ LedgerAgrees)
<1>1. LedgerInv => RunningIsOwned /\ LedgerAgrees
  BY DEF LedgerInv
<1> QED
  BY <1>1, LedgerInvHolds, PTL

\* Whatever the wall clock did, the store accepts the outcome of every execution.
THEOREM OutcomesAccepted == Spec => []OutcomeIsAccepted
<1>1. LedgerInv => OutcomeIsAccepted
  <2> SUFFICES ASSUME LedgerInv, pc = "exec", NEW t \in cutoff .. MaxTime
               PROVE  /\ FailureAccepted(t)
                      /\ (op \in Uploads \/ gated) => CompletionAccepted(t)
    BY DEF OutcomeIsAccepted
  <2>1. op \in Ops /\ row[op].phase = "running" /\ row[op].updated <= cutoff
    BY DEF LedgerInv, RunningIsOwned, TimesAreOrdered
  <2>2. row[op].updated <= t
    BY <2>1, LimitsAssumption DEF LedgerInv, TypeOK, Row, Times
  <2>3. (op \in Uploads \/ gated) => MutationOf(op) \in {"none", "applying"}
    BY OpsAssumption DEF LedgerInv, TimesAreOrdered, MutationOf
  <2> QED
    BY <2>1, <2>2, <2>3 DEF FailureAccepted, CompletionAccepted
<1> QED
  BY <1>1, LedgerInvHolds, PTL

\* No drain claims an operation twice (drain_guarded_snapshot).
THEOREM ClaimsCorrect == Spec => []ClaimedOncePerDrain
<1>1. LedgerInv => ClaimedOncePerDrain
  BY DEF LedgerInv
<1> QED
  BY <1>1, LedgerInvHolds, PTL

\* What one step does to one row: its time does not go back, and it stays as it
\* is once it is completed.
LEMMA RowStep ==
  ASSUME LedgerInv, Next, NEW o \in Ops
  PROVE  /\ row[o].updated <= row'[o].updated
         /\ row[o].phase = "completed" => row'[o] = row[o]
<1> DEFINE Kept == /\ row[o].updated <= row'[o].updated
                   /\ row[o].phase = "completed" => row'[o] = row[o]
<1>0. row[o].updated \in Nat /\ row \in [Ops -> Row]
  BY DEF LedgerInv, TypeOK, Row, Times
<1>1. CASE row' = row
  BY <1>0, <1>1
<1>2. ASSUME NEW now \in Times, NEW S \in SUBSET Ops
      PROVE  /\ row' = Resumed(now) => Kept
             /\ row' = Registered(S) => Kept
             /\ row' = Requeued(row, now, S) => Kept
             /\ row' = Requeued(Registered(S), now, S) => Kept
  <2>1. now \in Nat /\ RequeueTime(now, o) \in Nat /\ row[o].updated <= RequeueTime(now, o)
    BY <1>0 DEF Times, RequeueTime
  <2>2. row' = Resumed(now) => Kept
    BY <1>0, <2>1 DEF Resumed
  <2>3. Registered(S)[o] = row[o] \/ (row[o] = Absent /\ Registered(S)[o].updated = 0)
    BY DEF Registered, Absent, LedgerInv, TimesAreOrdered
  <2>4. row' = Registered(S) => Kept
    BY <1>0, <2>3 DEF Absent
  <2>5. ASSUME NEW rows, rows = row \/ rows = Registered(S), row' = Requeued(rows, now, S)
        PROVE  Kept
    BY <1>0, <2>1, <2>3, <2>5 DEF Requeued, Absent
  <2> QED
    BY <2>2, <2>4, <2>5
<1>3. CASE \E now \in Times :
             \/ StartRun(now) \/ RequeueActiveBatch(now) \/ RefreshAccess(now)
             \/ \E S \in SUBSET Ops : PrepareGuardedTransfers(S, now)
  <2>1. Declared \subseteq Ops
    BY DEF Declared, Ops
  <2> QED
    BY <1>2, <1>3, <2>1
    DEF StartRun, RequeueActiveBatch, RefreshAccess, PrepareGuardedTransfers
<1>4. CASE \E D \in SUBSET Downloads, last \in BOOLEAN : BeginTransferChangeBatch(D, last)
  <2>1. 0 \in Times /\ Downloads \subseteq Ops
    BY LimitsAssumption DEF Times, Ops
  <2> QED
    BY <1>2, <1>4, <2>1 DEF BeginTransferChangeBatch
<1>5. CASE \E p \in Ops : ClaimNextTransfer(p)
  <2>1. PICK p \in Ops : ClaimNextTransfer(p)
    BY <1>5
  <2>2. row[p].phase # "completed" /\ row[p].updated <= cutoff
    BY <2>1 DEF ClaimNextTransfer, Due, LedgerInv, TypeOK, TimesAreOrdered, Row, Times
  <2> QED
    BY <1>0, <2>1, <2>2 DEF ClaimNextTransfer, Row
<1>6. CASE BeginLocalPublish
  <2>1. pc = "exec" /\ op \in Ops /\ row[op].phase = "running" /\ row[op].updated <= cutoff
    BY <1>6 DEF BeginLocalPublish, LedgerInv, RunningIsOwned, TimesAreOrdered
  <2> QED
    BY <1>0, <1>6, <2>1 DEF BeginLocalPublish, GateTime, Row
<1>7. CASE GateRefused \/ CommitRefused \/ Crash
  <2>1. row'[o] = IF row[o].phase = "running"
                  THEN [row[o] EXCEPT !.phase = "needs_reconcile", !.code = "other"]
                  ELSE row[o]
    BY <1>7 DEF GateRefused, CommitRefused, Crash, Reopen, Recovered
  <2>2. row'[o].updated = row[o].updated
    BY <1>0, <2>1 DEF Row
  <2> QED
    BY <1>0, <2>1, <2>2
<1>8. CASE \E t \in Times :
             \/ CompleteVerifiedTransfer(t) \/ ScheduleRetry(t)
             \/ MarkNeedsReconcile(t) \/ MarkAuthRequired(t)
  <2>1. PICK t \in Times : \/ CompleteVerifiedTransfer(t) \/ ScheduleRetry(t)
                          \/ MarkNeedsReconcile(t) \/ MarkAuthRequired(t)
    BY <1>8
  <2>2. pc = "exec" /\ t \in Nat /\ row[op].updated <= t /\ row[op].phase # "completed"
    BY <2>1 DEF CompleteVerifiedTransfer, ScheduleRetry, MarkNeedsReconcile, MarkAuthRequired,
                CompletionAccepted, FailureAccepted, Times
  <2>3. op \in Ops
    BY <2>2 DEF LedgerInv, TimesAreOrdered
  <2>4. ASSUME NEW settled, settled.updated \in Nat, t <= settled.updated, Settle(settled)
        PROVE  Kept
    <3>1. row' = [row EXCEPT ![op] = settled]
      BY <2>4 DEF Settle
    <3>2. row[op].updated \in Nat /\ row[op].updated <= settled.updated
      BY <1>0, <2>2, <2>3, <2>4 DEF Row, Times
    <3> QED
      BY <1>0, <2>2, <2>3, <3>1, <3>2
  <2>5. CASE CompleteVerifiedTransfer(t)
    BY <2>2, <2>4, <2>5 DEF CompleteVerifiedTransfer
  <2>6. CASE ScheduleRetry(t)
    <3>1. PICK next \in AfterBackoff(t) :
            Settle([phase |-> "retry_scheduled", next |-> next, updated |-> next,
                    code |-> "other"])
      BY <2>6 DEF ScheduleRetry
    <3>2. next \in Nat /\ t <= next
      BY <2>2, LimitsAssumption DEF AfterBackoff
    <3> QED
      BY <2>4, <3>1, <3>2
  <2>7. CASE MarkNeedsReconcile(t)
    <3> DEFINE settled ==
          [row[op] EXCEPT !.phase = "needs_reconcile", !.updated = t, !.code = "other"]
    <3>1. settled.updated = t /\ Settle(settled)
      BY <1>0, <2>3, <2>7 DEF Row, MarkNeedsReconcile
    <3> HIDE DEF settled
    <3> QED
      BY <2>2, <2>4, <3>1
  <2>8. CASE MarkAuthRequired(t)
    <3> DEFINE settled ==
          [row[op] EXCEPT !.phase = "auth_required", !.updated = t, !.code = "other"]
    <3>1. settled.updated = t /\ Settle(settled)
      BY <1>0, <2>3, <2>8 DEF Row, MarkAuthRequired
    <3> HIDE DEF settled
    <3> QED
      BY <2>2, <2>4, <3>1
  <2> QED
    BY <2>1, <2>5, <2>6, <2>7, <2>8
<1>9. CASE \/ \E now \in Times : StartDrain(now)
           \/ Drained \/ RefreshForMetadata \/ AuthBlocked \/ EndRun \/ CommitTransferChangeBatch
  BY <1>1, <1>9 DEF StartDrain, Drained, RefreshForMetadata, AuthBlocked, EndRun,
                     CommitTransferChangeBatch, ledger
<1> QED
  BY <1>3, <1>4, <1>5, <1>6, <1>7, <1>8, <1>9 DEF Next

\* updated_at_unix_ms never goes back, whatever the wall clock does between two
\* readings: every transition either clamps or refuses.
THEOREM TimesCorrect == Spec => UpdatedNeverGoesBack
<1>1. LedgerInv /\ [Next]_vars => [\A o \in Ops : row[o].updated <= row'[o].updated]_vars
  BY RowStep
<1> QED
  BY <1>1, LedgerInvHolds, PTL DEF Spec, UpdatedNeverGoesBack

\* A completed transfer is never written again.
THEOREM CompletionCorrect == Spec => CompletedIsFinal
<1>1. LedgerInv /\ [Next]_vars =>
        [\A o \in Ops : row[o].phase = "completed" => row'[o] = row[o]]_vars
  BY RowStep
<1> QED
  BY <1>1, LedgerInvHolds, PTL DEF Spec, CompletedIsFinal

=============================================================================
