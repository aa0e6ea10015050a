------------------------------ MODULE Conflict ------------------------------
(***************************************************************************)
(* The pure half of conflict handling (myvault-sync-engine, conflict/):    *)
(* which cell of the matrix C01-C34 a situation falls in, what the cell    *)
(* asks for, the identity of the conflict and the operations derived from  *)
(* it.  Nothing here has state.                                            *)
(*                                                                         *)
(* One object is looked at, so the fields that identify it (account, root, *)
(* file id, path, parent) are constants and left out; a fingerprint is the *)
(* content itself, a set of edits, and {} stands for no content.  What the *)
(* classifier retains for the user is not modelled: no step reads it.      *)
(***************************************************************************)
EXTENDS Naturals, Sequences, FiniteSets

NoContent == {}
NoRevision == 0

\* A claim of the caller: one variant of ConflictCase, with its capability,
\* guard or final-state proof as "ok" (Unavailable and Unknown are alike).
ContentCases ==
  {"RemoteContentChanged", "LocalContentChanged", "NonOverlappingMarkdownChanges",
   "OverlappingTextChanges", "BothBinaryChanged", "BothChangedWithoutExactBase",
   "InvalidOrAmbiguousText", "MergeInputExceedsBounds"}

MetadataCases ==
  {"LocalDeleteRemoteEdited", "LocalEditedRemoteDelete", "BothDeleted",
   "LocalRenameRemoteEdited", "LocalEditedRemoteRename", "SameExactRename",
   "EquivalentButByteDifferentRenames", "DivergentRenames", "LocalMoveRemoteEdited",
   "LocalEditedRemoteMove", "SameExactMove", "DivergentMoves", "RenameMoveCycle",
   "RenameMoveConflict", "LocalMetadataChangeRemoteDelete",
   "LocalDeleteRemoteMetadataChange", "DestinationCreatedVsMoveOrRename",
   "DistinctCreatesAtEquivalentPath", "DifferentItemsMoveToSameTarget",
   "DuplicateRemotePath", "ChildChangedWithParentChanged",
   "PortableEquivalentDestinationCollision"}

---------------------------------------------------------------------------
(* Validation of the evidence *)

CaseRequiresGuardedTarget(c) ==
  c.ok /\ c.kind \in {"LocalEditedRemoteRename", "LocalEditedRemoteMove",
                      "RenameMoveConflict", "ChildChangedWithParentChanged"}

\* The sides whose content a case cannot do without.
RequiredContent(c) ==
  CASE c.kind \in {"RemoteContentChanged", "LocalContentChanged",
                   "NonOverlappingMarkdownChanges", "OverlappingTextChanges",
                   "BothBinaryChanged"} -> {"base", "local", "remote"}
    [] c.kind \in {"BothChangedWithoutExactBase", "InvalidOrAmbiguousText",
                   "MergeInputExceedsBounds", "DestinationCreatedVsMoveOrRename",
                   "DistinctCreatesAtEquivalentPath",
                   "PortableEquivalentDestinationCollision"} -> {"local", "remote"}
    [] c.kind \in {"LocalDeleteRemoteEdited", "LocalRenameRemoteEdited",
                   "LocalMoveRemoteEdited"} -> {"remote"}
    [] c.kind \in {"LocalEditedRemoteDelete", "LocalEditedRemoteRename"} -> {"local"}
    [] OTHER -> {}

Captured(f, sides) == \A s \in sides : f[s] # NoContent

\* The mistake of taking a remote change for a fast-forward whatever is local.
ContentPredicateRemoteOnly(f, c) ==
  CASE c.kind = "RemoteContentChanged" -> f.remote # f.base
    [] OTHER -> TRUE

\* What a fresh claim about content must be true of.
ContentPredicate(f, c) ==
  CASE c.kind = "RemoteContentChanged" -> f.local = f.base /\ f.remote # f.base
    [] c.kind = "LocalContentChanged" -> f.remote = f.base /\ f.local # f.base
    [] c.kind \in {"NonOverlappingMarkdownChanges", "OverlappingTextChanges",
                   "BothBinaryChanged"} -> f.local # f.base /\ f.remote # f.base
    [] c.kind = "BothChangedWithoutExactBase" ->
         f.base = NoContent /\ Captured(f, {"local", "remote"})
    [] c.kind \in {"InvalidOrAmbiguousText", "MergeInputExceedsBounds"} ->
         /\ Captured(f, {"local", "remote"})
         /\ f.base = NoContent \/ f.local # f.base \/ f.remote # f.base
    [] OTHER -> TRUE

\* The proofs a case rests on that only the caller can attach.
SemanticProof(f, c) ==
  /\ c.kind = "BothDeleted" /\ c.ok => f.deletedVerified
  /\ c.kind = "SameExactRename" => f.sameRename
  /\ c.kind = "SameExactMove" => f.sameMove

---------------------------------------------------------------------------
(* Replay of a recorded operation *)

\* The sealed record of what the ledger says of an operation.
ReplayProof(op, intent, row, disposition) ==
  [op |-> op, version |-> row.version, disposition |-> disposition,
   kind |-> intent.kind, base |-> intent.base, local |-> intent.expectedLocal,
   remote |-> intent.expectedRemote, lrev |-> intent.lrev, rrev |-> intent.rrev]

\* from_queued_base_change: the captured tuple is no longer the current one.
QueuedBaseChanged(intent, f) ==
  intent.base # f.base \/ intent.lrev # f.lrev \/ intent.rrev # f.rrev

\* from_r3_1: an outcome that was never recorded has no proof.
ReplayDispositions(row, f) ==
  CASE row.phase = "completed" /\ row.disposition = "verified_applied"
         -> {"VerifiedAppliedExactPostState"}
    [] row.phase = "needs_reconcile" /\ row.disposition = "verified_not_applied"
         -> {"VerifiedNotApplied"}
    [] row.phase = "needs_reconcile" /\ row.disposition = "needs_reconcile"
         /\ row.evidence = "reconcile" -> {"SideEffectOutcomeUnknown"}
    [] row.phase = "intent_durable" /\ QueuedBaseChanged(row.intent, f)
         -> {"QueuedIntentCapturedBaseChanged"}
    [] OTHER -> {}

ReplaySnapshotMatches(f, p) ==
  LET applied == p.disposition = "VerifiedAppliedExactPostState"
      baseMatches == (applied /\ p.kind = "base_publish") \/ p.base = f.base
      payload ==
        CASE p.kind \in {"local_publish", "conflict_copy_publish"} -> p.local = f.remote
          [] p.kind = "merge_publish" -> p.local # NoContent
          [] p.kind = "base_publish" -> p.local = f.base
          [] OTHER -> TRUE
      tuple == /\ baseMatches /\ payload
               /\ p.lrev = f.lrev /\ p.rrev = f.rrev
               /\ p.remote = NoContent \/ p.remote = f.remote
      post == applied => CASE p.kind \in {"local_publish", "merge_publish"} -> f.local = p.local
                           [] p.kind = "base_publish" -> f.base = p.local
                           [] OTHER -> TRUE
  IN IF p.disposition = "QueuedIntentCapturedBaseChanged" THEN ~tuple ELSE tuple /\ post

\* A retry is offered only for the operation kind it repeats.
ReplayOperationMatches(r) ==
  r.proof.disposition = "VerifiedNotApplied" =>
    CASE r.retry = "GuardedLocalReplace" -> r.proof.kind = "local_publish"
      [] r.retry = "GuardedConflictCopy" -> r.proof.kind = "conflict_copy_publish"
      [] r.retry = "RemoteExistingMutationBlocked" -> r.proof.kind = "remote_existing_blocked"
      [] OTHER -> TRUE

Fresh == [tag |-> "fresh"]
Replay(proof, retry) == [tag |-> "replay", proof |-> proof, retry |-> retry]

ValidReplayProof(f, r) ==
  r.tag = "replay" => ReplayOperationMatches(r) /\ ReplaySnapshotMatches(f, r.proof)

\* A retry that publishes needs the remote content again.
ReplayContent(r) ==
  IF r.proof.disposition = "VerifiedNotApplied"
       /\ r.retry \in {"GuardedLocalReplace", "GuardedConflictCopy"}
  THEN {"remote"} ELSE {}

\* ConflictInput::new.  Both revisions are asked for, of a deleted side too.
ValidEvidence(f, boundary, r, c) ==
  boundary = "Approved" =>
    /\ f.lrev # NoContent /\ f.rrev # NoRevision
    /\ CaseRequiresGuardedTarget(c) => f.target
    /\ ValidReplayProof(f, r)
    /\ Captured(f, RequiredContent(c))
    /\ r = Fresh /\ c.kind = "NonOverlappingMarkdownChanges" => f.merged # NoContent
    /\ IF r = Fresh THEN ContentPredicate(f, c) ELSE Captured(f, ReplayContent(r))
    /\ SemanticProof(f, c)

---------------------------------------------------------------------------
(* Classification *)

Plan(cell, outcome, drafts, gate) ==
  [cell |-> cell, outcome |-> outcome, drafts |-> drafts, gate |-> gate]

NeedsReconcile(cell, drafts) == Plan(cell, "NeedsReconcile", drafts, "NeedsReconcile")

NoOp(cell) == Plan(cell, "NoOpVerified", <<>>, "ExactVerification")

PreserveBoth(cell) ==
  Plan(cell, "PreserveBothLocal", <<"ConflictCopyPublish">>, "AllLocalPublications")

PreserveIfAvailable(cell, otherwise, ok) ==
  IF ok THEN PreserveBoth(cell) ELSE NeedsReconcile(otherwise, <<>>)

GuardedDraft(ok, draft) == IF ok THEN <<draft>> ELSE <<>>

ClassifyBoundary(b) ==
  CASE b = "ProtectedPath" -> Plan("C27", "UnsupportedProtected", <<>>, "NeedsReconcile")
    [] b = "UnsupportedObjectOrTopology" ->
         Plan("C28a", "UnsupportedProtected", <<>>, "NeedsReconcile")
    [] b = "MalformedObjectMetadata" -> NeedsReconcile("C28b", <<>>)
    [] b = "AccountRootOrAllowlistMismatch" ->
         Plan("C33a", "UnsupportedProtected", <<>>, "NeedsReconcile")
    [] b = "AllowlistedIdentityLineageRevisionOrBaseMismatch" -> NeedsReconcile("C33b", <<>>)

ClassifyReplay(r) ==
  CASE r.proof.disposition = "VerifiedAppliedExactPostState" ->
         IF r.proof.kind = "conflict_copy_publish" THEN NeedsReconcile("C29", <<>>) ELSE NoOp("C29")
    [] r.proof.disposition = "VerifiedNotApplied" ->
         (CASE r.retry = "GuardedLocalReplace" ->
                 Plan("C30", "GuardedLocalReplace", <<"LocalContentPublish">>, "AllLocalPublications")
            [] r.retry = "GuardedConflictCopy" -> PreserveBoth("C30")
            [] r.retry = "RemoteExistingMutationBlocked" ->
                 Plan("C30", "RemoteMutationBlocked", <<"RemoteExistingBlocked">>, "NeedsReconcile")
            [] OTHER -> NeedsReconcile("C30", <<>>))
    [] r.proof.disposition = "SideEffectOutcomeUnknown" -> NeedsReconcile("C31", <<>>)
    [] OTHER -> NeedsReconcile("C32", <<>>)

ClassifyContentCase(c) ==
  CASE c.kind = "RemoteContentChanged" ->
         IF c.ok THEN Plan("C01", "GuardedLocalReplace",
                           <<"LocalContentPublish", "BasePublish">>, "AllLocalPublications")
         ELSE NeedsReconcile("C01", <<>>)
    [] c.kind = "LocalContentChanged" ->
         Plan("C02", "RemoteMutationBlocked", <<"RemoteExistingBlocked">>, "NeedsReconcile")
    [] c.kind = "NonOverlappingMarkdownChanges" ->
         Plan("C03", "SafeTextMergeLocal",
              <<"MergePublish", "BasePublish", "RemoteExistingBlocked">>, "NeedsReconcile")
    [] c.kind = "OverlappingTextChanges" -> PreserveBoth("C04")
    [] c.kind = "BothBinaryChanged" -> PreserveBoth("C05")
    [] c.kind = "BothChangedWithoutExactBase" -> PreserveIfAvailable("C06a", "C06b", c.ok)
    [] c.kind = "InvalidOrAmbiguousText" -> PreserveIfAvailable("C07", "C07", c.ok)
    [] c.kind = "MergeInputExceedsBounds" -> PreserveIfAvailable("C08", "C08", c.ok)

ClassifyMetadataCase(c) ==
  CASE c.kind = "LocalDeleteRemoteEdited" ->
         NeedsReconcile("C09", <<"LocalContentPublish", "BasePublish", "RemoteExistingBlocked">>)
    [] c.kind = "LocalEditedRemoteDelete" -> NeedsReconcile("C10", <<"RemoteExistingBlocked">>)
    [] c.kind = "BothDeleted" -> IF c.ok THEN NoOp("C11") ELSE NeedsReconcile("C11", <<>>)
    [] c.kind = "LocalRenameRemoteEdited" ->
         Plan("C12", "RemoteMutationBlocked",
              <<"LocalContentPublish", "BasePublish", "RemoteExistingBlocked">>, "NeedsReconcile")
    [] c.kind = "LocalEditedRemoteRename" ->
         NeedsReconcile("C13", GuardedDraft(c.ok, "GuardedLocalRename"))
    [] c.kind = "SameExactRename" -> NoOp("C14a")
    [] c.kind = "EquivalentButByteDifferentRenames" -> NeedsReconcile("C14b", <<>>)
    [] c.kind = "DivergentRenames" -> NeedsReconcile("C14c", <<>>)
    [] c.kind = "LocalMoveRemoteEdited" ->
         NeedsReconcile("C15", <<"LocalContentPublish", "RemoteExistingBlocked">>)
    [] c.kind = "LocalEditedRemoteMove" ->
         NeedsReconcile("C16", GuardedDraft(c.ok, "GuardedLocalMove"))
    [] c.kind = "SameExactMove" -> NoOp("C17")
    [] c.kind \in {"DivergentMoves", "RenameMoveCycle"} -> NeedsReconcile("C18", <<>>)
    [] c.kind = "RenameMoveConflict" ->
         NeedsReconcile("C19", GuardedDraft(c.ok, "GuardedLocalRenameMove"))
    [] c.kind = "LocalMetadataChangeRemoteDelete" ->
         NeedsReconcile("C20", <<"RemoteExistingBlocked">>)
    [] c.kind = "LocalDeleteRemoteMetadataChange" -> NeedsReconcile("C21", <<>>)
    [] c.kind = "DestinationCreatedVsMoveOrRename" -> PreserveIfAvailable("C22a", "C22b", c.ok)
    [] c.kind = "DistinctCreatesAtEquivalentPath" -> PreserveIfAvailable("C23", "C23", c.ok)
    [] c.kind = "DifferentItemsMoveToSameTarget" -> NeedsReconcile("C24", <<>>)
    [] c.kind = "DuplicateRemotePath" -> NeedsReconcile("C25", <<>>)
    [] c.kind = "ChildChangedWithParentChanged" ->
         NeedsReconcile("C26", GuardedDraft(c.ok, "GuardedLocalMove"))
    [] c.kind = "PortableEquivalentDestinationCollision" ->
         PreserveIfAvailable("C34", "C34", c.ok)

\* The boundary goes before the replay, the replay before the facts.
ClassifyConflict(boundary, r, c) ==
  IF boundary # "Approved" THEN ClassifyBoundary(boundary)
  ELSE IF r.tag = "replay" THEN ClassifyReplay(r)
  ELSE IF c.kind \in ContentCases THEN ClassifyContentCase(c)
  ELSE ClassifyMetadataCase(c)

---------------------------------------------------------------------------
(* Identity and names *)

\* derive_conflict_id: the revisions of the two sides are not part of it.
ConflictId(f, plan) ==
  [cell |-> plan.cell, outcome |-> plan.outcome,
   base |-> f.base, local |-> f.local, remote |-> f.remote]

\* derive_operation_id: one operation per kind of draft of a conflict.
OperationId(draft, id) == <<draft, id>>

\* The name with the k-th prefix of the id.  The shortest prefix is one that
\* two conflicts may share; every longer one tells them apart.
ConflictCopyName(id, k) == [of |-> IF k = 1 THEN {} ELSE {id}, rung |-> k]

NoName == [of |-> {}, rung |-> 0]

\* The first name that is free (Create) or that already holds this very copy
\* (Reuse); "exhausted" when every rung is taken by something else.
ResolveConflictCopyName(id, content, occupied, rungs) ==
  LET taken(k) == ConflictCopyName(id, k) \in DOMAIN occupied
      same(k)  == occupied[ConflictCopyName(id, k)] = [id |-> id, content |-> content]
      fit      == {k \in 1..rungs : ~taken(k) \/ same(k)}
      first    == CHOOSE k \in fit : \A j \in fit : k <= j
  IN IF fit = {} THEN [tag |-> "exhausted", name |-> NoName]
     ELSE [tag |-> IF taken(first) THEN "reuse" ELSE "create",
           name |-> ConflictCopyName(id, first)]

---------------------------------------------------------------------------
(* Materialization: from a plan to drafts of durable operations *)

Publications == {"local_publish", "merge_publish", "conflict_copy_publish"}

\* The content that becomes the next base; only three outcomes have one.
ResolvedBase(f, plan) ==
  CASE plan.outcome = "SafeTextMergeLocal" -> f.merged
    [] plan.outcome \in {"GuardedLocalReplace", "NeedsReconcile"} -> f.remote
    [] OTHER -> NoContent

Draft(id, draft, kind, content, name) ==
  [op |-> OperationId(draft, id), kind |-> kind, content |-> content, name |-> name]

\* draft_for: a guarded rename or move and a verified reuse have no durable
\* operation; a draft that lacks its content cannot be made.
DraftFor(f, plan, draft, occupied, rungs) ==
  LET id == ConflictId(f, plan)
      copy == ResolveConflictCopyName(id, f.remote, occupied, rungs)
  IN CASE draft = "LocalContentPublish" -> Draft(id, draft, "local_publish", f.remote, NoName)
       [] draft = "MergePublish" -> Draft(id, draft, "merge_publish", f.merged, NoName)
       [] draft = "ConflictCopyPublish" ->
            (CASE copy.tag = "create" ->
                    Draft(id, draft, "conflict_copy_publish", f.remote, copy.name)
               [] copy.tag = "reuse" -> Draft(id, draft, "reuse_verified", f.remote, copy.name)
               [] OTHER -> Draft(id, draft, "failed", NoContent, NoName))
       [] draft = "BasePublish" ->
            Draft(id, draft, "base_publish", ResolvedBase(f, plan), NoName)
       [] draft = "RemoteExistingBlocked" ->
            Draft(id, draft, "remote_existing_blocked", f.remote, NoName)
       [] OTHER -> Draft(id, draft, "guarded_metadata", f.local, NoName)

\* validate_classification_binding: the sources of the plan have the revisions
\* and the contents of the facts, so a side with a revision has a content.
Bound(f) == (f.lrev = NoContent) = (f.local = NoContent) /\ (f.rrev = NoRevision) = (f.remote = NoContent)

\* materialize fails as a whole when one draft has no content to publish.
Materialize(f, plan, occupied, rungs) ==
  LET drafts == [i \in DOMAIN plan.drafts |->
                   DraftFor(f, plan, plan.drafts[i], occupied, rungs)]
      made == {drafts[i] : i \in DOMAIN drafts}
  IN [ok |-> Bound(f) /\ \A d \in made :
               /\ d.kind # "failed"
               /\ d.kind \in Publications \cup {"base_publish"} => d.content # NoContent,
      facts |-> f, id |-> ConflictId(f, plan), drafts |-> made,
      gate |-> IF \E d \in made : d.kind = "reuse_verified" THEN "NeedsReconcile" ELSE plan.gate]

Durable(m) == {d \in m.drafts : d.kind \notin {"reuse_verified", "guarded_metadata"}}

\* What the cursor waits for, and what the base waits for.
CursorDependencies(m) == {d \in m.drafts : d.kind \in Publications \cup {"base_publish"}}

Prerequisites(m, d) ==
  IF d.kind = "base_publish" THEN {p.op : p \in {q \in m.drafts : q.kind \in Publications}} ELSE {}

\* mutation_intent_from_draft: the draft's content is what is expected
\* locally, the remote side of the plan what is expected remotely.
IntentOf(m, d) ==
  [kind |-> d.kind, base |-> m.facts.base, expectedLocal |-> d.content,
   expectedRemote |-> m.facts.remote, lrev |-> m.facts.lrev, rrev |-> m.facts.rrev,
   name |-> d.name]

---------------------------------------------------------------------------
(* The codes of the evidence envelope *)

SideState(deletedIn, cell, base, side) ==
  IF cell \in deletedIn THEN "deleted"
  ELSE IF side = NoContent THEN "not_captured"
  ELSE IF base = NoContent THEN "present_without_base"
  ELSE IF base = side THEN "unchanged_from_base"
  ELSE "changed_from_base"

ContentClass(m) ==
  IF m.id.cell = "C03" THEN "markdown_verified"
  ELSE IF m.id.cell \in {"C04", "C07", "C08"} THEN "text"
  ELSE IF m.id.cell = "C05" THEN "binary"
  ELSE IF {m.id.base, m.id.local, m.id.remote} = {NoContent} THEN "metadata_only"
  ELSE "content_fingerprint_only"

EvidenceSufficiency(outcome) ==
  CASE outcome \in {"NoOpVerified", "GuardedLocalReplace", "SafeTextMergeLocal"} -> "exact"
    [] outcome = "PreserveBothLocal" -> "preserve_both_complete"
    [] outcome = "RemoteMutationBlocked" -> "remote_blocked_complete"
    [] outcome = "NeedsReconcile" -> "reconcile_complete"
    [] OTHER -> "boundary_rejected"

\* conflict_evidence_from_plan for the durable draft d.
ConflictEvidence(m, d) ==
  [op |-> d.op, id |-> m.id,
   localState |-> SideState({"C09", "C11", "C21"}, m.id.cell, m.id.base, m.id.local),
   remoteState |-> SideState({"C10", "C11", "C20"}, m.id.cell, m.id.base, m.id.remote),
   class |-> ContentClass(m), sufficiency |-> EvidenceSufficiency(m.id.outcome),
   copies |-> {c \in m.drafts : c.kind = "conflict_copy_publish"}]
=============================================================================
