--------------------------- MODULE MutationLedger ---------------------------
(***************************************************************************)
(* The typed mutation ledger of a vault's sync database                    *)
(* (myvault-sync-engine, store.rs) and the change batch that holds the     *)
(* durable cursor until the operations it depends on are proved applied.   *)
(* Every action is one SQLite transaction.                                 *)
(*                                                                         *)
(* A fingerprint is what it is a digest of; evidence ids and timestamps    *)
(* are left out: the last evidence of a row is its disposition and code.   *)
(* The retry phases of the schema are reserved: no transition leads there. *)
(***************************************************************************)
EXTENDS Conflict

VARIABLES ledger,     \* operation id -> its immutable intent and current state
          envelopes,  \* conflict id -> its immutable conflict evidence
          batch,      \* the active change batch, or NoBatch
          cursor      \* the durable position in the remote change feed

ledgerVars == <<ledger, envelopes, batch, cursor>>

NoBatch == [kind |-> "none"]

LedgerInit ==
  /\ ledger = <<>> /\ envelopes = <<>>
  /\ batch = NoBatch /\ cursor = 0

Put(f, k, v) == [x \in DOMAIN f \cup {k} |-> IF x = k THEN v ELSE f[x]]

Row(intent, phase, version, disposition, evidence) ==
  [intent |-> intent, phase |-> phase, version |-> version,
   disposition |-> disposition, evidence |-> evidence]

---------------------------------------------------------------------------
(* Operations *)

\* A blocked operation is registered together with its preflight evidence and
\* rests in needs_reconcile; any other one waits for its claim.
InitialRow(intent) ==
  IF intent.kind = "remote_existing_blocked"
  THEN Row(intent, "needs_reconcile", 1, "needs_reconcile", "preflight")
  ELSE Row(intent, "intent_durable", 0, "none", "none")

\* validate_mutation_intent: a blocked operation names the remote object.
ValidIntent(intent) ==
  intent.kind = "remote_existing_blocked" => intent.expectedRemote # NoContent

\* The fingerprint and the marker of a registered operation.
Registered(op, intent) == op \in DOMAIN ledger /\ ledger[op].intent = intent

\* register_mutation_intent: a known operation is left as it is, whether the
\* intent is the same (AlreadyPresent, AlreadyCompleted) or not (Collision).
RegisterMutationIntent(op, intent) ==
  /\ ValidIntent(intent)
  /\ ledger' = IF op \in DOMAIN ledger THEN ledger ELSE Put(ledger, op, InitialRow(intent))
  /\ UNCHANGED <<envelopes, batch, cursor>>

\* update_mutation_state: the row is replaced if it still has the version
\* that the caller has read.
UpdateMutationState(op, version, row) ==
  /\ ledger[op].version = version
  /\ ledger' = [ledger EXCEPT ![op] = row]
  /\ UNCHANGED <<envelopes, batch, cursor>>

\* The mistake of claiming an operation whose outcome is unknown.
ClaimableAgain(row) == row.phase \in {"intent_durable", "needs_reconcile"}

Claimable(row) == row.phase \in {"intent_durable", "retry_scheduled"}

ClaimMutation(op, version) ==
  /\ op \in DOMAIN ledger
  /\ ledger[op].intent.kind # "remote_existing_blocked"
  /\ Claimable(ledger[op])
  /\ LET row == ledger[op]
     IN UpdateMutationState(op, version,
          Row(row.intent, "running", row.version + 1, "none", row.evidence))

Expected(expected, none, observed) == expected = none \/ expected = observed

\* validate_verified_applied_evidence: one observed content is compared with
\* the expected local AND the expected remote content.
VerifiedApplied(intent, seen) ==
  /\ Expected(intent.lrev, NoContent, seen.lrev)
  /\ intent.rrev = seen.rrev
  /\ Expected(intent.expectedLocal, NoContent, seen.content)
  /\ Expected(intent.expectedRemote, NoContent, seen.content)

\* transition_target: the two transitions that the store accepts.
TransitionTarget(row, transition) ==
  CASE transition = "VerifiedApplied" /\ row.phase \in {"running", "needs_reconcile"} ->
         {Row(row.intent, "completed", row.version + 1, "verified_applied", "post_verify")}
    [] transition = "NeedsReconcile" /\ row.phase = "running" ->
         {Row(row.intent, "needs_reconcile", row.version + 1, "needs_reconcile", "reconcile")}
    [] OTHER -> {}

RecordMutationOutcome(op, version, transition, seen) ==
  /\ op \in DOMAIN ledger
  /\ transition = "VerifiedApplied" => VerifiedApplied(ledger[op].intent, seen)
  /\ \E row \in TransitionTarget(ledger[op], transition) : UpdateMutationState(op, version, row)

\* validate_conflict_evidence: a conflict copy is named with its content.
ValidConflictEvidence(e) == \A c \in e.copies : c.content # NoContent

\* record_conflict_evidence: one envelope per conflict, about a registered
\* operation, naming a registered conflict copy; an exact rerun is a no-op.
RecordConflictEvidence(e) ==
  /\ ValidConflictEvidence(e)
  /\ e.op \in DOMAIN ledger
  /\ IF e.id \in DOMAIN envelopes THEN envelopes[e.id] = e
     ELSE \A c \in e.copies : /\ c.op \in DOMAIN ledger
                              /\ ledger[c.op].intent.kind = "conflict_copy_publish"
  /\ envelopes' = Put(envelopes, e.id, e)
  /\ UNCHANGED <<ledger, batch, cursor>>

Recovered(row) ==
  Row(row.intent, "needs_reconcile", row.version + 1, "needs_reconcile", "reconcile")

\* recover_interrupted_jobs, when the store is opened.
RecoverInterruptedJobs ==
  /\ ledger' = [op \in DOMAIN ledger |->
                  IF ledger[op].phase = "running" THEN Recovered(ledger[op]) ELSE ledger[op]]
  /\ UNCHANGED <<envelopes, batch, cursor>>

---------------------------------------------------------------------------
(* Change batches *)

\* begin_r3_change_batch: the dependencies are registered already.
BeginR3ChangeBatch(expected, next, deps) ==
  /\ cursor = expected /\ batch = NoBatch
  /\ deps \subseteq DOMAIN ledger
  /\ batch' = [kind |-> "r3", expected |-> expected, next |-> next,
               deps |-> [op \in deps |-> "pending"]]
  /\ UNCHANGED <<ledger, envelopes, cursor>>

\* begin_change_batch: dependencies of the old kind are mere names.
BeginChangeBatch(expected, next, ids) ==
  /\ cursor = expected /\ batch = NoBatch
  /\ batch' = [kind |-> "legacy", expected |-> expected, next |-> next,
               deps |-> [id \in ids |-> "pending"]]
  /\ UNCHANGED <<ledger, envelopes, cursor>>

SetDependency(kind, op, from, to) ==
  /\ batch.kind = kind /\ op \in DOMAIN batch.deps
  /\ batch.deps[op] = from
  /\ batch' = [batch EXCEPT !.deps[op] = to]
  /\ UNCHANGED <<ledger, envelopes, cursor>>

ExactCompletion(op) ==
  ledger[op].phase = "completed" /\ ledger[op].disposition = "verified_applied"

CommitR3ChangeDependency(op) ==
  batch # NoBatch /\ SetDependency("r3", op, "pending", "committed") /\ ExactCompletion(op)

BeginLocalMutation(id) == batch # NoBatch /\ SetDependency("legacy", id, "pending", "applying")

MarkLocalMutationCommitted(id) ==
  batch # NoBatch /\ SetDependency("legacy", id, "applying", "committed")

ResetLocalMutationAfterVerifiedAbsence(id) ==
  batch # NoBatch /\ SetDependency("legacy", id, "applying", "pending")

AdvanceCursor ==
  /\ cursor = batch.expected
  /\ cursor' = batch.next /\ batch' = NoBatch
  /\ UNCHANGED <<ledger, envelopes>>

\* The mistake of asking only that nothing of the batch is still to be done.
DependenciesClaimed == \A op \in DOMAIN batch.deps : ledger[op].phase # "intent_durable"

DependenciesComplete ==
  \A op \in DOMAIN batch.deps : batch.deps[op] = "committed" /\ ExactCompletion(op)

CommitR3ChangeBatch ==
  batch # NoBatch /\ batch.kind = "r3" /\ DependenciesComplete /\ AdvanceCursor

\* commit_change_batch: only a batch without dependencies has no legacy one.
CommitChangeBatch == batch # NoBatch /\ DOMAIN batch.deps = {} /\ AdvanceCursor

AbortChangeBatch ==
  /\ batch # NoBatch
  /\ \A op \in DOMAIN batch.deps : batch.deps[op] = "pending"
  /\ batch' = NoBatch
  /\ UNCHANGED <<ledger, envelopes, cursor>>
=============================================================================
