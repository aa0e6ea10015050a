------------------------ MODULE ConflictResolution -------------------------
(***************************************************************************)
(* One note with a base, a local and a remote content; the classifier and  *)
(* the materializer (Conflict) that say what to do when they differ; and   *)
(* the mutation ledger (MutationLedger) that makes it durable.             *)
(*                                                                         *)
(* The code that drives them is not in the repository yet.  It is modelled *)
(* as the contract of the two libraries asks: it looks at the world, has   *)
(* its claim classified, registers the drafts, opens a batch, claims,      *)
(* applies with the revision guard, verifies and records, and commits.     *)
(* The user, the remote side, a reconciler and crashes interleave with it. *)
(* What it claims about content is arbitrary: refusing a claim that the    *)
(* content does not bear out is the classifier's job.                      *)
(***************************************************************************)
EXTENDS MutationLedger

CONSTANTS LocalAtoms,    \* edits the user can make
          RemoteAtoms,   \* edits made elsewhere
          Claims,        \* the kinds of case that the driver claims
          Rungs,         \* length of the ladder of copy names
          MaxFeed,       \* bound on remote changes
          MaxEdits,      \* bound on local changes
          MaxPlans,      \* bound on the plans that are made
          MaxCrashes

ASSUME ClaimsAssumption == Claims \subseteq ContentCases \cup MetadataCases

VARIABLES base, local, remote,
          feed,     \* the remote contents in the order of the change feed
          copies,   \* name of a conflict copy -> the conflict and its content
          mine,     \* what the user last wrote here, {} once the user deleted it
          home,     \* every content that has been local or in a copy
          applied,  \* operation -> how often its effect was carried out
          plan,     \* the materialized plan at hand, volatile
          todo,     \* claimed operations, volatile: [op, version, seen]
          edits, plans, crashes

world  == <<base, local, remote, feed, copies, mine, home>>
driver == <<plan, todo>>
bounds == <<edits, plans, crashes>>
vars   == <<ledgerVars, world, applied, driver, bounds>>

NoPlan == [ok |-> FALSE]
Start  == {"start"}

\* An edit is made in one place.
ASSUME AtomsAssumption == LocalAtoms \cap (RemoteAtoms \cup Start) = {}

Revision == IF remote = NoContent THEN NoRevision ELSE Len(feed) + 1
FeedAt(n) == IF n = 0 THEN Start ELSE feed[n]

Init ==
  /\ LedgerInit
  /\ base \in {Start, NoContent} /\ local = Start /\ remote = Start
  /\ feed = <<>> /\ copies = <<>> /\ mine = Start /\ home = {Start}
  /\ applied = <<>> /\ plan = NoPlan /\ todo = {}
  /\ edits = 0 /\ plans = 0 /\ crashes = 0

---------------------------------------------------------------------------
(* The user and the other devices *)

WriteLocal(content) ==
  /\ edits < MaxEdits /\ content # local
  /\ edits' = edits + 1
  /\ local' = content /\ mine' = content /\ home' = home \cup {content}
  /\ UNCHANGED <<ledgerVars, base, remote, feed, copies, applied, driver, plans, crashes>>

EditLocal   == \E a \in LocalAtoms : a \notin local /\ WriteLocal(local \cup {a})
DeleteLocal == WriteLocal(NoContent)

WriteRemote(content) ==
  /\ Len(feed) < MaxFeed
  /\ remote' = content /\ feed' = Append(feed, content)
  /\ UNCHANGED <<ledgerVars, base, local, copies, mine, home, applied, driver, bounds>>

EditRemote   == \E a \in RemoteAtoms : a \notin remote /\ WriteRemote(remote \cup {a})
RevertRemote == WriteRemote(Start)  \* if it never changed: its name did
DeleteRemote == WriteRemote(NoContent)

---------------------------------------------------------------------------
(* Looking and planning *)

\* The captured facts.  A revision is the content it is the digest of on the
\* local side, the position of the change on the remote side.
Facts(merged) ==
  [base |-> base, local |-> local, remote |-> remote, lrev |-> local, rrev |-> Revision,
   merged |-> merged, target |-> TRUE, sameRename |-> TRUE, sameMove |-> TRUE,
   deletedVerified |-> local = NoContent /\ remote = NoContent]

\* What the driver sees for itself when it claims a change of metadata.  That both
\* sides made the same change is claimed of equal contents, and nothing else is.
Honest(f, c) ==
  CASE c.kind = "LocalDeleteRemoteEdited" -> f.local = NoContent /\ f.remote # f.base
    [] c.kind = "LocalEditedRemoteDelete" -> f.remote = NoContent
    [] c.kind \in {"LocalRenameRemoteEdited", "LocalMoveRemoteEdited"} ->
         f.base \notin {NoContent, f.remote} /\ f.local = f.base
    [] OTHER -> TRUE

Replays(f) ==
  {Fresh} \cup
  UNION {{Replay(ReplayProof(op, ledger[op].intent, ledger[op], d), "GuardedLocalReplace") :
            d \in ReplayDispositions(ledger[op], f)} : op \in DOMAIN ledger}

Merges == {NoContent} \cup (IF NoContent \in {local, remote} THEN {} ELSE {local \cup remote})

\* A plan that asks for nothing leaves nothing behind; a boundary that is not
\* approved has no other plan.
Observe ==
  /\ plan = NoPlan
  /\ plans < MaxPlans /\ plans' = plans + 1
  /\ \E merged \in Merges :
       \E r \in Replays(Facts(merged)), c \in [kind : Claims, ok : BOOLEAN] :
         LET f == Facts(merged)
             m == Materialize(f, ClassifyConflict("Approved", r, c), copies, Rungs)
         IN /\ (local = remote) = (c.kind \in {"SameExactRename", "SameExactMove"})
            /\ ValidEvidence(f, "Approved", r, c) /\ Honest(f, c)
            /\ m.ok
            /\ Durable(m) # {} \/ m.gate = "ExactVerification"
            /\ plan' = m
  /\ UNCHANGED <<ledgerVars, world, applied, todo, edits, crashes>>

Drop ==
  /\ plan # NoPlan /\ plan' = NoPlan
  /\ UNCHANGED <<ledgerVars, world, applied, todo, bounds>>

---------------------------------------------------------------------------
(* Carrying the plan out *)

\* The drafts are registered one by one, in a fixed order.
Unregistered == {d \in Durable(plan) : d.op \notin DOMAIN ledger}

Register ==
  /\ plan # NoPlan /\ Unregistered # {}
  /\ LET d == CHOOSE d \in Unregistered : TRUE
     IN RegisterMutationIntent(d.op, IntentOf(plan, d))
  /\ UNCHANGED <<world, applied, driver, bounds>>

Explain ==
  /\ plan # NoPlan /\ Unregistered = {} /\ Durable(plan) # {}
  /\ LET d == CHOOSE d \in Durable(plan) : TRUE
     IN RecordConflictEvidence(ConflictEvidence(plan, d))
  /\ UNCHANGED <<world, applied, driver, bounds>>

\* Nothing is carried out before all of it is on record.
OnRecord == Durable(plan) = {} \/ plan.id \in DOMAIN envelopes

\* The cursor waits for a batch only if the plan lets it move at all.
OpenBatch ==
  /\ plan # NoPlan
  /\ plan.gate \in {"AllLocalPublications", "ExactVerification"}
  /\ plan.facts.rrev > cursor + 1 /\ OnRecord
  /\ \A d \in CursorDependencies(plan) : Registered(d.op, IntentOf(plan, d))
  /\ BeginR3ChangeBatch(cursor, plan.facts.rrev - 1, {d.op : d \in CursorDependencies(plan)})
  /\ UNCHANGED <<world, applied, driver, bounds>>

Claim ==
  /\ plan # NoPlan /\ OnRecord
  /\ \E d \in CursorDependencies(plan) :
       /\ Registered(d.op, IntentOf(plan, d))
       /\ \A p \in Prerequisites(plan, d) : p \in DOMAIN ledger /\ ExactCompletion(p)
       /\ ClaimMutation(d.op, ledger[d.op].version)
       /\ todo' = todo \cup {[op |-> d.op, version |-> ledger[d.op].version + 1, done |-> FALSE]}
  /\ UNCHANGED <<world, applied, plan, bounds>>

\* The guarded effect of one operation on the vault.
Effect(op, intent) ==
  CASE intent.kind \in {"local_publish", "merge_publish"} ->
         /\ local = intent.lrev
         /\ local' = intent.expectedLocal /\ home' = home \cup {intent.expectedLocal}
         /\ UNCHANGED <<base, copies>>
    [] intent.kind = "conflict_copy_publish" ->
         /\ intent.name \notin DOMAIN copies
         /\ copies' = Put(copies, intent.name, [id |-> op[2], content |-> intent.expectedLocal])
         /\ home' = home \cup {intent.expectedLocal}
         /\ UNCHANGED <<base, local>>
    [] intent.kind = "base_publish" ->
         base' = intent.expectedLocal /\ UNCHANGED <<local, copies, home>>

Apply ==
  \E t \in todo :
    /\ ~t.done
    /\ Effect(t.op, ledger[t.op].intent)
    /\ todo' = (todo \ {t}) \cup {[t EXCEPT !.done = TRUE]}
    /\ applied' = Put(applied, t.op, IF t.op \in DOMAIN applied THEN applied[t.op] + 1 ELSE 1)
    /\ UNCHANGED <<ledgerVars, remote, feed, mine, plan, bounds>>

\* What a look at the destination of an operation shows.
Seen(op) ==
  LET intent == ledger[op].intent
  IN [lrev |-> intent.lrev, rrev |-> Revision,
      content |-> IF intent.kind \in {"local_publish", "merge_publish"} THEN local
                  ELSE IF intent.kind = "base_publish" THEN base
                  ELSE IF intent.name \in DOMAIN copies THEN copies[intent.name].content
                  ELSE NoContent]

\* The outcome is recorded as verified when the effect is seen, and handed
\* to reconciliation otherwise, or when the verification itself failed.
RecordOutcome ==
  \E t \in todo :
    /\ \/ t.done /\ RecordMutationOutcome(t.op, t.version, "VerifiedApplied", Seen(t.op))
       \/ RecordMutationOutcome(t.op, t.version, "NeedsReconcile", Seen(t.op))
    /\ todo' = todo \ {t}
    /\ UNCHANGED <<world, applied, plan, bounds>>

\* Someone else looks at an operation whose outcome is open.
Reconcile ==
  /\ \E op \in DOMAIN ledger :
       /\ ledger[op].intent.kind # "remote_existing_blocked"
       /\ ledger[op].phase = "needs_reconcile"
       /\ RecordMutationOutcome(op, ledger[op].version, "VerifiedApplied", Seen(op))
  /\ UNCHANGED <<world, applied, driver, bounds>>

BindDependency ==
  /\ batch # NoBatch /\ \E op \in DOMAIN batch.deps : CommitR3ChangeDependency(op)
  /\ UNCHANGED <<world, applied, driver, bounds>>

CloseBatch ==
  /\ CommitR3ChangeBatch \/ CommitChangeBatch \/ AbortChangeBatch
  /\ UNCHANGED <<world, applied, driver, bounds>>

\* The older protocol shares the batch: a page without effects, or one whose
\* effects are named by "page" and can be done and undone but not committed.
LegacyBatch ==
  /\ plan = NoPlan
  /\ \/ Len(feed) > cursor /\ BeginChangeBatch(cursor, Len(feed), {"page"})
     \/ Len(feed) > cursor /\ remote = local /\ BeginChangeBatch(cursor, Len(feed), {})
     \/ BeginLocalMutation("page")
     \/ MarkLocalMutationCommitted("page")
     \/ ResetLocalMutationAfterVerifiedAbsence("page")
  /\ UNCHANGED <<world, applied, driver, bounds>>

Crash ==
  /\ crashes < MaxCrashes /\ crashes' = crashes + 1
  /\ plan' = NoPlan /\ todo' = {}
  /\ RecoverInterruptedJobs
  /\ UNCHANGED <<world, applied, edits, plans>>

Next ==
  \/ EditLocal \/ DeleteLocal \/ EditRemote \/ RevertRemote \/ DeleteRemote
  \/ Observe \/ Drop \/ Register \/ Explain \/ OpenBatch \/ Claim \/ Apply
  \/ RecordOutcome \/ Reconcile \/ BindDependency \/ CloseBatch \/ LegacyBatch
  \/ Crash

Spec == Init /\ [][Next]_vars

---------------------------------------------------------------------------
(* Properties *)

\* No operation has its effect twice, however its attempts are cut short,
\* reconciled and planned again: an operation whose outcome is unknown is
\* never claimed again (store.rs claim_mutation, recover_interrupted_jobs).
AppliedOnce == \A op \in DOMAIN applied : applied[op] = 1

\* The durable cursor never passes a remote change whose content did not
\* arrive in the vault, as the note or as a conflict copy, whoever opened
\* the batch and whatever crashed (store.rs commit_r3_change_batch).
CursorIsEarned == FeedAt(cursor) \in home

\* What the user wrote last is still in the note, or in what it was merged
\* to, whatever was published since (classifier.rs validate_content_predicates
\* together with the revision guard).
EditsSurvive == mine = NoContent \/ mine = Start \/ mine \subseteq local

\* The documentation, refuted by TLC: every merge that is planned and registered
\* can be recorded as applied once it is (store.rs validate_verified_applied_evidence).
MergeIsRecordable ==
  \A op \in DOMAIN ledger :
    LET intent == ledger[op].intent
    IN intent.kind = "merge_publish" =>
         \E content \in {base, local, intent.expectedLocal, intent.expectedRemote} :
           VerifiedApplied(intent, [lrev |-> intent.lrev, rrev |-> intent.rrev,
                                    content |-> content])

\* The documentation, refuted by TLC: the remote edit of a note that was deleted
\* here can be brought home; some
\* truthful claim of it is classified and materialized, whichever revision is
\* given for the missing note (classifier.rs, materialization.rs).
DeletionIsPlanned ==
  local = NoContent /\ remote \notin {base, NoContent} /\ base # NoContent =>
    \E revision \in {NoContent} \cup home :
      LET f == [Facts(NoContent) EXCEPT !.lrev = revision]
          c == [kind |-> "LocalDeleteRemoteEdited", ok |-> TRUE]
      IN /\ ValidEvidence(f, "Approved", Fresh, c)
         /\ Materialize(f, ClassifyConflict("Approved", Fresh, c), copies, Rungs).ok
=============================================================================
