---------------------- MODULE ConflictResolutionProofs ----------------------
(***************************************************************************)
(* Proofs about ConflictResolution, for any edits, any set of claims and   *)
(* any number of plans, changes and crashes: no operation has its effect   *)
(* twice, the cursor never passes a content that did not arrive, and what  *)
(* the user wrote last is not lost.  ResolutionInv is inductive.           *)
(*                                                                         *)
(* And about MarkdownMerge, whose text a merge publishes: the answer does  *)
(* not depend on which device merges, and a merged note is the base with   *)
(* every edit of both sides in its place.  apply_edits folds over a list,  *)
(* so these lemmas argue by the least place at which two texts differ.     *)
(***************************************************************************)
EXTENDS ConflictResolution, MarkdownMerge, FiniteSetTheorems, SequenceTheorems,
        WellFoundedInduction, TLAPS

\* The contents that exist elsewhere: no edit of this device is in them.
Foreign == SUBSET (RemoteAtoms \cup Start)
DraftNames == {"LocalContentPublish", "MergePublish", "ConflictCopyPublish", "BasePublish",
               "RemoteExistingBlocked"}
KindOf(draft) == CASE draft = "LocalContentPublish" -> "local_publish"
                   [] draft = "MergePublish" -> "merge_publish"
                   [] draft = "ConflictCopyPublish" -> "conflict_copy_publish"
                   [] draft = "BasePublish" -> "base_publish"
                   [] OTHER -> "remote_existing_blocked"

\* The intent of an operation, as far as its id determines it: the id has the contents
\* of the three sides and the outcome, and leaves the revisions out.
IntentFits(op, intent) ==
  /\ op[1] \in DraftNames
  /\ intent.kind = KindOf(op[1])
  /\ intent.expectedRemote = op[2].remote
  /\ op[2].remote \in Foreign /\ op[2].remote # NoContent
  /\ intent.kind # "remote_existing_blocked" => intent.expectedLocal # NoContent
  /\ intent.kind \in {"local_publish", "conflict_copy_publish"} =>
       intent.expectedLocal = op[2].remote
  /\ intent.kind = "local_publish" => intent.lrev \in Foreign
  /\ intent.kind = "merge_publish" =>
       intent.expectedLocal = op[2].local \cup op[2].remote /\ intent.lrev = op[2].local
  /\ intent.kind = "base_publish" =>
       \/ intent.expectedLocal = op[2].remote
       \/ /\ op[2].outcome = "SafeTextMergeLocal"
          /\ intent.expectedLocal = op[2].local \cup op[2].remote

\* A row, and what its phase says of the world.  A merge is completed only if the remote
\* side has it all, and a base is claimed only once its publication is completed.
RowFits(op, row) ==
  /\ IntentFits(op, row.intent)
  /\ row.phase \in {"intent_durable", "running", "needs_reconcile", "completed"}
  /\ row.disposition # "verified_not_applied"
  /\ row.intent.kind = "remote_existing_blocked" => row.phase = "needs_reconcile"
  /\ row.intent.kind \in Publications /\ row.phase = "completed" =>
       op[2].remote \in home /\ row.intent.expectedLocal = op[2].remote
  /\ row.intent.kind = "base_publish" /\ row.phase # "intent_durable" =>
       op[2].remote \in home /\ row.intent.expectedLocal = op[2].remote
LedgerFits == \A op \in DOMAIN ledger : RowFits(op, ledger[op])

\* A claimed operation is running and is claimed once; it has no effect before it is done.
TodoFits ==
  \A t \in todo :
    /\ t = [op |-> t.op, version |-> t.version, done |-> t.done]
    /\ t.op \in DOMAIN ledger /\ ledger[t.op].phase = "running"
    /\ ~t.done => t.op \notin DOMAIN applied
    /\ \A u \in todo : u.op = t.op => u = t
AppliedFits ==
  \A op \in DOMAIN applied :
    op \in DOMAIN ledger /\ ledger[op].phase # "intent_durable" /\ applied[op] = 1

\* The sides of the note.
WorldFits ==
  /\ feed \in Seq(Foreign) /\ remote \in Foreign /\ remote = FeedAt(Len(feed))
  /\ base \in Foreign
  /\ local \in home /\ \A n \in DOMAIN copies : copies[n].content \in home
  /\ mine \notin {NoContent, Start} => mine \notin Foreign /\ mine \subseteq local

\* The plan is about a remote content that was in the feed, and what lets the cursor
\* move brings it home.
PlanFits ==
  \/ plan = NoPlan
  \/ /\ plan.facts.rrev \in 1 .. Len(feed) + 1
     /\ plan.id.remote = FeedAt(plan.facts.rrev - 1)
     /\ \A d \in Durable(plan) : d.op[2] = plan.id /\ IntentFits(d.op, IntentOf(plan, d))
     /\ plan.gate = "ExactVerification" => plan.id.remote \in home
     /\ plan.gate = "AllLocalPublications" => \E d \in plan.drafts : d.kind \in Publications
     /\ \A d \in plan.drafts : d.kind = "base_publish" =>
          \E q \in plan.drafts :
            /\ q.kind \in Publications
            /\ plan.id.outcome = "SafeTextMergeLocal" => q.kind = "merge_publish"

\* The content a batch moves the cursor to is here, or one of its operations brings it.
Brings(op, content) ==
  op \in DOMAIN ledger /\ ledger[op].intent.kind \in Publications /\ op[2].remote = content
BatchFits ==
  \/ batch = NoBatch
  \/ /\ DOMAIN batch = {"kind", "expected", "next", "deps"}
     /\ batch.kind \in {"r3", "legacy"} /\ batch.next \in 0 .. Len(feed)
     /\ \/ FeedAt(batch.next) \in home
        \/ batch.kind = "legacy" /\ DOMAIN batch.deps # {}
        \/ batch.kind = "r3" /\ \E op \in DOMAIN batch.deps : Brings(op, FeedAt(batch.next))
CursorFits == cursor \in 0 .. Len(feed) /\ CursorIsEarned

ResolutionInv ==
  /\ LedgerFits /\ TodoFits /\ AppliedFits /\ WorldFits /\ PlanFits /\ BatchFits /\ CursorFits
-----------------------------------------------------------------------------
(* What the classifier and the materializer return. *)

Guarded == {"GuardedLocalRename", "GuardedLocalMove", "GuardedLocalRenameMove"}
Asked(p) == {p.drafts[i] : i \in DOMAIN p.drafts}
SideMoved == {"LocalDeleteRemoteEdited", "LocalRenameRemoteEdited", "LocalMoveRemoteEdited"}
SameChange == {"SameExactRename", "SameExactMove"}

\* What a plan asks for says which claim it answers.
PlanShape(p, r, c) ==
  /\ Asked(p) \subseteq DraftNames \cup Guarded
  /\ p.gate = "AllLocalPublications" =>
       "LocalContentPublish" \in Asked(p) \/ "ConflictCopyPublish" \in Asked(p)
  /\ "BasePublish" \in Asked(p) =>
       IF p.outcome = "SafeTextMergeLocal" THEN "MergePublish" \in Asked(p)
       ELSE "LocalContentPublish" \in Asked(p)
  /\ "LocalContentPublish" \in Asked(p) =>
       r.tag # "replay" /\ c.kind \in {"RemoteContentChanged"} \cup SideMoved
  /\ "MergePublish" \in Asked(p) => r.tag # "replay" /\ p.outcome = "SafeTextMergeLocal"
  /\ p.gate = "ExactVerification" =>
       IF r.tag = "replay" THEN /\ r.proof.disposition = "VerifiedAppliedExactPostState"
                                /\ r.proof.kind # "conflict_copy_publish"
       ELSE c.kind \in SameChange \/ (c.kind = "BothDeleted" /\ c.ok)

LEMMA AskedOfTuples ==
  /\ \A p : p.drafts = <<>> => Asked(p) = {}
  /\ \A p, a : p.drafts = <<a>> => Asked(p) = {a}
  /\ \A p, a, b : p.drafts = <<a, b>> => Asked(p) = {a, b}
  /\ \A p, a, b, d : p.drafts = <<a, b, d>> => Asked(p) = {a, b, d}
BY DEF Asked

LEMMA ContentShape ==
  ASSUME NEW c, c.kind \in ContentCases, NEW r, r.tag # "replay"
  PROVE  PlanShape(ClassifyContentCase(c), r, c)
BY AskedOfTuples
DEF ContentCases, ClassifyContentCase, PlanShape, Plan, NeedsReconcile, PreserveBoth,
    PreserveIfAvailable, DraftNames, Guarded, SideMoved, SameChange

LEMMA MetadataDrafts ==
  ASSUME NEW c, c.kind \in MetadataCases, NEW p, p = ClassifyMetadataCase(c)
  PROVE  IF c.kind \in SideMoved
         THEN /\ p.gate = "NeedsReconcile" /\ p.outcome # "SafeTextMergeLocal"
              /\ \/ p.drafts = <<"LocalContentPublish", "BasePublish", "RemoteExistingBlocked">>
                 \/ p.drafts = <<"LocalContentPublish", "RemoteExistingBlocked">>
         ELSE \/ /\ p.drafts = <<>>
                 /\ \/ p.gate = "NeedsReconcile"
                    \/ p.gate = "ExactVerification" /\ c.kind \in SameChange
                    \/ p.gate = "ExactVerification" /\ c.kind = "BothDeleted" /\ c.ok
              \/ p.drafts = <<"ConflictCopyPublish">> /\ p.gate = "AllLocalPublications"
              \/ /\ p.gate = "NeedsReconcile"
                 /\ \E draft \in Guarded \cup {"RemoteExistingBlocked"} : p.drafts = <<draft>>
<1> USE DEF ClassifyMetadataCase, Plan, NeedsReconcile, PreserveBoth, NoOp, GuardedDraft,
            PreserveIfAvailable, SideMoved, SameChange, Guarded
<1>1. CASE c.kind \in SideMoved
  BY <1>1
<1>2. CASE c.kind \in SameChange \cup {"BothDeleted"}
  BY <1>2
<1>3. CASE c.kind \in {"LocalEditedRemoteDelete", "LocalEditedRemoteRename",
                      "EquivalentButByteDifferentRenames", "DivergentRenames",
                      "LocalEditedRemoteMove", "DivergentMoves"}
  BY <1>3
<1>4. CASE c.kind \in {"RenameMoveCycle", "RenameMoveConflict", "LocalMetadataChangeRemoteDelete",
                      "LocalDeleteRemoteMetadataChange", "DestinationCreatedVsMoveOrRename"}
  BY <1>4
<1>5. CASE c.kind \in {"DistinctCreatesAtEquivalentPath", "DifferentItemsMoveToSameTarget",
                      "DuplicateRemotePath", "ChildChangedWithParentChanged",
                      "PortableEquivalentDestinationCollision"}
  BY <1>5
<1> QED
  BY <1>1, <1>2, <1>3, <1>4, <1>5 DEF MetadataCases

LEMMA MetadataShape ==
  ASSUME NEW c, c.kind \in MetadataCases, NEW r, r.tag # "replay"
  PROVE  PlanShape(ClassifyMetadataCase(c), r, c)
<1>1. PICK p : p = ClassifyMetadataCase(c)
  OBVIOUS
<1> USE DEF PlanShape, DraftNames, Guarded, SideMoved
<1>2. CASE c.kind \in SideMoved
  <2>1. /\ p.gate = "NeedsReconcile" /\ p.outcome # "SafeTextMergeLocal"
        /\ \/ Asked(p) = {"LocalContentPublish", "BasePublish", "RemoteExistingBlocked"}
           \/ Asked(p) = {"LocalContentPublish", "RemoteExistingBlocked"}
    BY <1>1, <1>2, MetadataDrafts, AskedOfTuples
  <2> QED
    BY <1>1, <1>2, <2>1
<1>3. CASE c.kind \notin SideMoved
  <2>1. CASE p.drafts = <<>>
    <3>1. Asked(p) = {}
      BY <2>1, AskedOfTuples
    <3> QED
      BY <1>1, <1>3, <2>1, <3>1, MetadataDrafts
  <2>2. CASE p.drafts = <<"ConflictCopyPublish">> /\ p.gate = "AllLocalPublications"
    <3>1. Asked(p) = {"ConflictCopyPublish"}
      BY <2>2, AskedOfTuples
    <3> QED
      BY <1>1, <2>2, <3>1
  <2>3. ASSUME p.gate = "NeedsReconcile", NEW draft \in Guarded \cup {"RemoteExistingBlocked"},
               p.drafts = <<draft>>
        PROVE  PlanShape(p, r, c)
    <3>1. Asked(p) = {draft}
      BY <2>3, AskedOfTuples
    <3> QED
      BY <2>3, <3>1
  <2> QED
    BY <1>1, <1>3, <2>1, <2>2, <2>3, MetadataDrafts
<1> QED
  BY <1>2, <1>3

LEMMA ReplayShape ==
  ASSUME NEW c, NEW r, r.tag = "replay", r.proof.disposition # "VerifiedNotApplied"
  PROVE  PlanShape(ClassifyReplay(r), r, c)
BY AskedOfTuples DEF ClassifyReplay, PlanShape, Plan, NeedsReconcile, NoOp

LEMMA ClassifyShape ==
  ASSUME NEW c, c.kind \in Claims, NEW r, r.tag = "replay" => r.proof.disposition # "VerifiedNotApplied"
  PROVE  PlanShape(ClassifyConflict("Approved", r, c), r, c)
BY ContentShape, MetadataShape, ReplayShape, ClaimsAssumption DEF ClassifyConflict

LEMMA Kinds ==
  /\ KindOf("LocalContentPublish") = "local_publish" /\ KindOf("MergePublish") = "merge_publish"
  /\ KindOf("ConflictCopyPublish") = "conflict_copy_publish" /\ KindOf("BasePublish") = "base_publish"
  /\ KindOf("RemoteExistingBlocked") = "remote_existing_blocked"
BY DEF KindOf

LEMMA DraftOp ==
  ASSUME NEW f, NEW p, NEW draft \in DraftNames \cup Guarded, NEW occupied, NEW rungs
  PROVE  DraftFor(f, p, draft, occupied, rungs).op = <<draft, ConflictId(f, p)>>
BY DEF DraftFor, Draft, OperationId, DraftNames, Guarded

LEMMA PublishDrafts ==
  ASSUME NEW f, NEW p, NEW occupied, NEW rungs
  PROVE  /\ DraftFor(f, p, "LocalContentPublish", occupied, rungs).kind = "local_publish"
         /\ DraftFor(f, p, "LocalContentPublish", occupied, rungs).content = f.remote
         /\ DraftFor(f, p, "MergePublish", occupied, rungs).kind = "merge_publish"
         /\ DraftFor(f, p, "MergePublish", occupied, rungs).content = f.merged
         /\ DraftFor(f, p, "BasePublish", occupied, rungs).kind = "base_publish"
         /\ DraftFor(f, p, "BasePublish", occupied, rungs).content = ResolvedBase(f, p)
         /\ DraftFor(f, p, "RemoteExistingBlocked", occupied, rungs).kind = "remote_existing_blocked"
BY DEF DraftFor, Draft

LEMMA CopyDraft ==
  ASSUME NEW f, NEW p, NEW occupied, NEW rungs
  PROVE  LET d == DraftFor(f, p, "ConflictCopyPublish", occupied, rungs)
         IN  \/ d.kind = "conflict_copy_publish" /\ d.content = f.remote
             \/ d.kind \in {"reuse_verified", "failed"}
BY DEF DraftFor, Draft

LEMMA GuardedDrafts ==
  ASSUME NEW f, NEW p, NEW draft \in Guarded, NEW occupied, NEW rungs
  PROVE  DraftFor(f, p, draft, occupied, rungs).kind = "guarded_metadata"
BY DEF DraftFor, Draft, Guarded

\* The operations of a plan that is made have the intents their ids stand for.
LEMMA MadeFits ==
  ASSUME NEW f, NEW p, NEW r, NEW c, PlanShape(p, r, c), NEW occupied, NEW rungs,
         f.remote \in Foreign, f.remote # NoContent, f.lrev = f.local,
         f.merged \in {NoContent, f.local \cup f.remote},
         "LocalContentPublish" \in Asked(p) => f.local \in Foreign,
         NEW m, m = Materialize(f, p, occupied, rungs), m.ok
  PROVE  /\ m.facts = f /\ m.id.remote = f.remote
         /\ \A d \in Durable(m) : d.op[2] = m.id /\ IntentFits(d.op, IntentOf(m, d))
         /\ m.gate = "ExactVerification" => p.gate = "ExactVerification"
         /\ m.gate = "AllLocalPublications" => \E d \in m.drafts : d.kind \in Publications
         /\ \A d \in m.drafts : d.kind = "base_publish" =>
              \E q \in m.drafts :
                /\ q.kind \in Publications
                /\ m.id.outcome = "SafeTextMergeLocal" => q.kind = "merge_publish"
<1> DEFINE id == ConflictId(f, p)
<1>1. /\ m.facts = f /\ m.id = id /\ Bound(f)
      /\ m.gate = IF \E d \in m.drafts : d.kind = "reuse_verified" THEN "NeedsReconcile" ELSE p.gate
      /\ \A d \in m.drafts :
           /\ d.kind # "failed"
           /\ d.kind \in Publications \cup {"base_publish"} => d.content # NoContent
  BY DEF Materialize
<1>2. m.drafts = {DraftFor(f, p, draft, occupied, rungs) : draft \in Asked(p)}
  <2>1. m.drafts = {DraftFor(f, p, p.drafts[i], occupied, rungs) : i \in DOMAIN p.drafts}
    BY DEF Materialize
  <2> QED
    BY <2>1 DEF Asked
<1>3. /\ id.remote = f.remote /\ id.local = f.local /\ id.outcome = p.outcome
  BY DEF ConflictId
<1>4. Asked(p) \subseteq DraftNames \cup Guarded
  BY DEF PlanShape
<1>5. ASSUME NEW draft \in Asked(p)
      PROVE  \E d \in m.drafts : d = DraftFor(f, p, draft, occupied, rungs)
  BY <1>2
<1>6. ASSUME NEW d \in Durable(m) PROVE d.op[2] = m.id /\ IntentFits(d.op, IntentOf(m, d))
  <2>1. d \in m.drafts /\ d.kind \notin {"reuse_verified", "guarded_metadata", "failed"}
    BY <1>1 DEF Durable
  <2>2. PICK draft \in Asked(p) : d = DraftFor(f, p, draft, occupied, rungs)
    BY <1>2, <2>1
  <2>3. d.op[1] = draft /\ d.op[2] = id /\ draft \in DraftNames
    <3>1. draft \in DraftNames \cup Guarded
      BY <1>4
    <3>2. d.op = <<draft, id>>
      BY <2>2, <3>1, DraftOp
    <3>3. draft \notin Guarded
      BY <2>1, <2>2, GuardedDrafts
    <3> QED
      BY <3>1, <3>2, <3>3
  <2>4. PICK o, i : o = d.op /\ i = IntentOf(m, d)
    OBVIOUS
  <2>11. /\ o[1] = draft /\ o[2] = id
         /\ i.kind = d.kind /\ i.expectedLocal = d.content
         /\ i.expectedRemote = f.remote /\ i.lrev = f.local
    BY <1>1, <2>3, <2>4 DEF IntentOf
  <2>5. d.kind \in Publications \cup {"base_publish"} => d.content # NoContent
    BY <1>1, <2>1
  <2>6. ASSUME draft = "LocalContentPublish" PROVE IntentFits(o, i)
    <3>1. d.kind = "local_publish" /\ d.content = f.remote /\ f.local \in Foreign
      BY <2>2, <2>6, PublishDrafts
    <3> QED
      BY <1>3, <2>3, <2>11, Kinds, <2>6, <3>1 DEF IntentFits
  <2>7. ASSUME draft = "MergePublish" PROVE IntentFits(o, i)
    <3>1. d.kind = "merge_publish" /\ d.content = f.merged
      BY <2>2, <2>7, PublishDrafts
    <3>2. d.content # NoContent /\ d.content = f.local \cup f.remote
      BY <2>5, <3>1 DEF Publications
    <3> QED
      BY <1>3, <2>3, <2>11, Kinds, <2>7, <3>1, <3>2 DEF IntentFits
  <2>8. ASSUME draft = "ConflictCopyPublish" PROVE IntentFits(o, i)
    <3>1. d.kind = "conflict_copy_publish" /\ d.content = f.remote
      BY <2>1, <2>2, <2>8, CopyDraft
    <3> QED
      BY <1>3, <2>3, <2>11, Kinds, <2>8, <3>1 DEF IntentFits
  <2>9. ASSUME draft = "BasePublish" PROVE IntentFits(o, i)
    <3>1. d.kind = "base_publish" /\ d.content = ResolvedBase(f, p)
      BY <2>2, <2>9, PublishDrafts
    <3>2. d.content # NoContent
      BY <2>5, <3>1
    <3>3. \/ d.content = f.remote
          \/ p.outcome = "SafeTextMergeLocal" /\ d.content = f.local \cup f.remote
      BY <3>1, <3>2 DEF ResolvedBase
    <3> QED
      BY <1>3, <2>3, <2>11, Kinds, <2>9, <3>1, <3>2, <3>3 DEF IntentFits
  <2>10. ASSUME draft = "RemoteExistingBlocked" PROVE IntentFits(o, i)
    <3>1. d.kind = "remote_existing_blocked"
      BY <2>2, <2>10, PublishDrafts
    <3> QED
      BY <1>3, <2>3, <2>11, Kinds, <2>10, <3>1 DEF IntentFits
  <2>12. IntentFits(o, i)
    BY <2>3, <2>6, <2>7, <2>8, <2>9, <2>10 DEF DraftNames
  <2> QED
    BY <1>1, <2>3, <2>4, <2>12
<1>7. m.gate = "AllLocalPublications" => \E d \in m.drafts : d.kind \in Publications
  <2> SUFFICES ASSUME m.gate = "AllLocalPublications" PROVE \E d \in m.drafts : d.kind \in Publications
    OBVIOUS
  <2>1. p.gate = "AllLocalPublications" /\ \A d \in m.drafts : d.kind # "reuse_verified"
    BY <1>1
  <2>2. CASE "LocalContentPublish" \in Asked(p)
    BY <1>5, <2>2, PublishDrafts DEF Publications
  <2>3. CASE "ConflictCopyPublish" \in Asked(p)
    <3>1. PICK d \in m.drafts : d = DraftFor(f, p, "ConflictCopyPublish", occupied, rungs)
      BY <1>5, <2>3
    <3> QED
      BY <1>1, <2>1, <3>1, CopyDraft DEF Publications
  <2> QED
    BY <2>1, <2>2, <2>3 DEF PlanShape
<1>8. ASSUME NEW d \in m.drafts, d.kind = "base_publish"
      PROVE  \E q \in m.drafts :
               /\ q.kind \in Publications
               /\ m.id.outcome = "SafeTextMergeLocal" => q.kind = "merge_publish"
  <2>1. PICK draft \in Asked(p) : d = DraftFor(f, p, draft, occupied, rungs)
    BY <1>2
  <2>2. draft \notin Guarded
    BY <1>8, <2>1, GuardedDrafts
  <2>3. draft \notin {"LocalContentPublish", "MergePublish", "RemoteExistingBlocked"}
    BY <1>8, <2>1, PublishDrafts
  <2>4. draft # "ConflictCopyPublish"
    BY <1>8, <2>1, CopyDraft
  <2>5. "BasePublish" \in Asked(p)
    BY <1>4, <2>1, <2>2, <2>3, <2>4 DEF DraftNames
  <2>6. CASE p.outcome = "SafeTextMergeLocal"
    <3>1. "MergePublish" \in Asked(p)
      BY <2>5, <2>6 DEF PlanShape
    <3> QED
      BY <1>5, <3>1, PublishDrafts DEF Publications
  <2>7. CASE p.outcome # "SafeTextMergeLocal"
    <3>1. "LocalContentPublish" \in Asked(p)
      BY <2>5, <2>7 DEF PlanShape
    <3>2. PICK q \in m.drafts : q = DraftFor(f, p, "LocalContentPublish", occupied, rungs)
      BY <1>5, <3>1
    <3> QED
      BY <1>1, <1>3, <2>7, <3>2, PublishDrafts DEF Publications
  <2> QED
    BY <2>6, <2>7
<1> QED
  BY <1>1, <1>3, <1>6, <1>7, <1>8
-----------------------------------------------------------------------------
(* Frames: what a part of the invariant needs of a step. *)

LEMMA InvFacts ==
  ASSUME ResolutionInv
  PROVE  /\ LedgerFits /\ TodoFits /\ AppliedFits /\ WorldFits /\ PlanFits /\ BatchFits
         /\ CursorFits /\ Len(feed) \in Nat
BY DEF ResolutionInv, WorldFits

LEMMA InvFromPartsNext ==
  (/\ LedgerFits /\ TodoFits /\ AppliedFits /\ WorldFits /\ PlanFits /\ BatchFits
   /\ CursorFits)' => ResolutionInv'
BY DEF ResolutionInv

\* Contents stay at home, and the feed only grows.
Grows ==
  /\ home \subseteq home'
  /\ Len(feed) \in Nat /\ Len(feed)' \in Nat /\ Len(feed) <= Len(feed)'
  /\ \A n \in 0 .. Len(feed) : FeedAt(n)' = FeedAt(n)

LEMMA FeedUnchanged ==
  ASSUME ResolutionInv, UNCHANGED feed, home \subseteq home' PROVE Grows
BY InvFacts DEF Grows, FeedAt

LEMMA RowKept ==
  ASSUME home \subseteq home', NEW op, NEW row, RowFits(op, row) PROVE RowFits(op, row)'
BY DEF RowFits

LEMMA LedgerKept ==
  ASSUME ResolutionInv, home \subseteq home', UNCHANGED ledger PROVE LedgerFits'
<1>1. ASSUME NEW op \in DOMAIN ledger PROVE RowFits(op, ledger[op])'
  <2>1. PICK row : row = ledger[op]
    OBVIOUS
  <2>2. RowFits(op, row)'
    BY <2>1, InvFacts, RowKept DEF LedgerFits
  <2> QED
    BY <2>1, <2>2 DEF RowFits
<1> QED
  BY <1>1 DEF LedgerFits

LEMMA TodoKept ==
  ASSUME ResolutionInv, UNCHANGED <<ledger, todo, applied>> PROVE TodoFits' /\ AppliedFits'
BY InvFacts DEF TodoFits, AppliedFits

LEMMA PlanKept ==
  ASSUME ResolutionInv, Grows, plan' \in {plan, NoPlan} PROVE PlanFits'
<1>1. CASE plan' = NoPlan
  BY <1>1 DEF PlanFits
<1>2. CASE plan' = plan /\ plan # NoPlan
  <2>1. PICK n \in 0 .. Len(feed) : n = plan.facts.rrev - 1
    BY <1>2, InvFacts DEF PlanFits
  <2>2. FeedAt(n)' = FeedAt(n) /\ plan.id.remote = FeedAt(n)
    BY <1>2, <2>1, InvFacts DEF PlanFits, Grows
  <2>3. plan.facts.rrev \in 1 .. Len(feed)' + 1 /\ plan.id.remote = FeedAt(plan.facts.rrev - 1)'
    BY <1>2, <2>1, <2>2, InvFacts DEF PlanFits, Grows
  <2> QED
    BY <1>2, <2>3, InvFacts DEF PlanFits, Grows
<1> QED
  BY <1>1, <1>2

LEMMA CursorKept ==
  ASSUME ResolutionInv, Grows, UNCHANGED cursor PROVE CursorFits'
<1>1. cursor \in 0 .. Len(feed) /\ FeedAt(cursor) \in home
  BY InvFacts DEF CursorFits, CursorIsEarned
<1>2. FeedAt(cursor)' = FeedAt(cursor)
  BY <1>1 DEF Grows
<1> QED
  BY <1>1, <1>2 DEF CursorFits, CursorIsEarned, Grows

\* An operation keeps its intent for good.
IntentsKept ==
  \A op \in DOMAIN ledger : op \in DOMAIN ledger' /\ ledger'[op].intent = ledger[op].intent

LEMMA BringsKept ==
  ASSUME IntentsKept, NEW op, NEW content, Brings(op, content) PROVE Brings(op, content)'
BY DEF Brings, IntentsKept

LEMMA BatchKept ==
  ASSUME ResolutionInv, Grows, IntentsKept, UNCHANGED batch PROVE BatchFits'
<1>1. CASE batch = NoBatch
  BY <1>1 DEF BatchFits
<1>2. CASE batch # NoBatch
  <2>1. PICK content : content = FeedAt(batch.next)
    OBVIOUS
  <2>2. /\ DOMAIN batch = {"kind", "expected", "next", "deps"}
        /\ batch.kind \in {"r3", "legacy"} /\ batch.next \in 0 .. Len(feed)
        /\ \/ content \in home
           \/ batch.kind = "legacy" /\ DOMAIN batch.deps # {}
           \/ batch.kind = "r3" /\ \E op \in DOMAIN batch.deps : Brings(op, content)
    BY <1>2, <2>1, InvFacts DEF BatchFits
  <2>3. FeedAt(batch.next)' = content
    BY <2>1, <2>2 DEF Grows
  <2>4. batch.next \in 0 .. Len(feed)'
    BY <2>2 DEF Grows
  <2>5. \/ content \in home'
        \/ batch.kind = "legacy" /\ DOMAIN batch.deps # {}
        \/ batch.kind = "r3" /\ \E op \in DOMAIN batch.deps : Brings(op, content)'
    BY <2>2, BringsKept DEF Grows
  <2> QED
    BY <2>2, <2>3, <2>4, <2>5 DEF BatchFits
<1> QED
  BY <1>1, <1>2

LEMMA SameIntents == ASSUME UNCHANGED ledger PROVE IntentsKept
BY DEF IntentsKept

-----------------------------------------------------------------------------
(* The user and the other devices. *)

LEMMA InitHasInv == Init => ResolutionInv
<1> SUFFICES ASSUME Init PROVE ResolutionInv
  OBVIOUS
<1>1. DOMAIN ledger = {} /\ DOMAIN applied = {} /\ DOMAIN copies = {} /\ todo = {}
  BY DEF Init, LedgerInit
<1>2. Len(feed) = 0 /\ feed \in Seq(Foreign) /\ Start \in Foreign /\ NoContent \in Foreign
  BY DEF Init, Foreign, Start, NoContent
<1>3. WorldFits
  BY <1>1, <1>2 DEF Init, WorldFits, FeedAt
<1>4. CursorFits
  BY <1>2 DEF Init, LedgerInit, CursorFits, CursorIsEarned, FeedAt
<1> QED
  BY <1>1, <1>3, <1>4
  DEF Init, LedgerInit, ResolutionInv, LedgerFits, TodoFits, AppliedFits, PlanFits, BatchFits

LEMMA WriteLocalPreserves ==
  ASSUME ResolutionInv, NEW content, WriteLocal(content),
         content \notin {NoContent, Start} => content \notin Foreign
  PROVE  ResolutionInv'
<1> USE DEF WriteLocal, driver, ledgerVars
<1>1. Grows /\ IntentsKept
  BY FeedUnchanged, SameIntents
<1>2. WorldFits'
  BY InvFacts DEF WorldFits, FeedAt
<1>3. LedgerFits' /\ TodoFits' /\ AppliedFits'
  BY LedgerKept, TodoKept
<1>4. PlanFits' /\ BatchFits' /\ CursorFits'
  BY <1>1, PlanKept, BatchKept, CursorKept
<1> QED
  BY <1>2, <1>3, <1>4, InvFromPartsNext

LEMMA LocalPreserves == ASSUME ResolutionInv, EditLocal \/ DeleteLocal PROVE ResolutionInv'
<1>1. CASE EditLocal
  <2>1. PICK a \in LocalAtoms : WriteLocal(local \cup {a})
    BY <1>1 DEF EditLocal
  <2>2. local \cup {a} \notin Foreign
    BY AtomsAssumption DEF Foreign
  <2> QED
    BY <2>1, <2>2, WriteLocalPreserves
<1>2. CASE DeleteLocal
  BY <1>2, WriteLocalPreserves DEF DeleteLocal
<1> QED
  BY <1>1, <1>2

LEMMA WriteRemotePreserves ==
  ASSUME ResolutionInv, NEW content \in Foreign, WriteRemote(content)
  PROVE  ResolutionInv'
<1> USE DEF WriteRemote, driver, ledgerVars
<1>1. feed \in Seq(Foreign) /\ feed' = Append(feed, content)
  BY InvFacts DEF WorldFits
<1>2. feed' \in Seq(Foreign) /\ Len(feed') = Len(feed) + 1 /\ feed'[Len(feed) + 1] = content
      /\ \A n \in 1 .. Len(feed) : feed'[n] = feed[n]
  BY <1>1
<1>3. Grows
  BY <1>2, InvFacts DEF Grows, FeedAt
<1>4. FeedAt(Len(feed))' = content
  BY <1>2, InvFacts DEF FeedAt
<1>5. WorldFits'
  BY <1>2, <1>4, InvFacts DEF WorldFits
<1>6. LedgerFits' /\ TodoFits' /\ AppliedFits'
  BY LedgerKept, TodoKept
<1>7. PlanFits' /\ BatchFits' /\ CursorFits'
  BY <1>3, SameIntents, PlanKept, BatchKept, CursorKept
<1> QED
  BY <1>5, <1>6, <1>7, InvFromPartsNext

LEMMA RemotePreserves ==
  ASSUME ResolutionInv, EditRemote \/ RevertRemote \/ DeleteRemote PROVE ResolutionInv'
<1>1. Start \in Foreign /\ NoContent \in Foreign
  BY DEF Foreign, Start, NoContent
<1>2. CASE EditRemote
  <2>1. PICK a \in RemoteAtoms : WriteRemote(remote \cup {a})
    BY <1>2 DEF EditRemote
  <2>2. remote \cup {a} \in Foreign
    BY InvFacts DEF WorldFits, Foreign
  <2> QED
    BY <2>1, <2>2, WriteRemotePreserves
<1>3. CASE RevertRemote
  BY <1>1, <1>3, WriteRemotePreserves DEF RevertRemote
<1>4. CASE DeleteRemote
  BY <1>1, <1>4, WriteRemotePreserves DEF DeleteRemote
<1> QED
  BY <1>2, <1>3, <1>4
-----------------------------------------------------------------------------
(* The driver. *)

\* A step that leaves the world and the ledger alone.
LEMMA DriverStep ==
  ASSUME ResolutionInv, UNCHANGED <<ledger, world, applied, todo>>,
         PlanFits', BatchFits', CursorFits'
  PROVE  ResolutionInv'
<1> USE DEF world
<1>1. LedgerFits' /\ TodoFits' /\ AppliedFits'
  BY LedgerKept, TodoKept
<1>2. WorldFits'
  BY InvFacts DEF WorldFits, FeedAt
<1> QED
  BY <1>1, <1>2, InvFromPartsNext

\* A replay is of a row of the ledger, and none was verified as not applied.
LEMMA ReplayFacts ==
  ASSUME ResolutionInv, NEW f, NEW r \in Replays(f), r.tag = "replay"
  PROVE  /\ r.proof.disposition # "VerifiedNotApplied"
         /\ r.proof.disposition = "VerifiedAppliedExactPostState" =>
              \E op \in DOMAIN ledger :
                /\ ledger[op].phase = "completed"
                /\ r.proof.remote = ledger[op].intent.expectedRemote
                /\ r.proof.kind = ledger[op].intent.kind
<1>1. r # Fresh
  BY DEF Fresh
<1>7. PICK op \in DOMAIN ledger :
        r \in {Replay(ReplayProof(op, ledger[op].intent, ledger[op], d), "GuardedLocalReplace") :
                 d \in ReplayDispositions(ledger[op], f)}
  BY <1>1 DEF Replays
<1>2. PICK d \in ReplayDispositions(ledger[op], f) :
        r = Replay(ReplayProof(op, ledger[op].intent, ledger[op], d), "GuardedLocalReplace")
  BY <1>7
<1>3. /\ r.proof.disposition = d
      /\ r.proof.remote = ledger[op].intent.expectedRemote
      /\ r.proof.kind = ledger[op].intent.kind
  BY <1>2 DEF Replay, ReplayProof
<1>4. PICK row : row = ledger[op]
  OBVIOUS
<1>5. row.disposition # "verified_not_applied" /\ d \in ReplayDispositions(row, f)
  BY <1>2, <1>4, InvFacts DEF LedgerFits, RowFits
<1>6. d # "VerifiedNotApplied" /\ (d = "VerifiedAppliedExactPostState" => row.phase = "completed")
  BY <1>5 DEF ReplayDispositions
<1> QED
  BY <1>3, <1>4, <1>6

LEMMA FreshFacts == ASSUME NEW f, NEW r \in Replays(f), r.tag # "replay" PROVE r = Fresh
BY DEF Replays, Replay

\* The remote content of a completed operation that may be replayed has arrived.
LEMMA CompletedIsHome ==
  ASSUME ResolutionInv, NEW op \in DOMAIN ledger, ledger[op].phase = "completed"
  PROVE  ledger[op].intent.expectedRemote \in home /\ ledger[op].intent.expectedRemote # NoContent
<1>1. PICK row : row = ledger[op]
  OBVIOUS
<1>2. RowFits(op, row) /\ row.phase = "completed"
  BY <1>1, InvFacts DEF LedgerFits
<1>3. IntentFits(op, row.intent)
  BY <1>2 DEF RowFits
<1>4. PICK intent, id, name : intent = row.intent /\ id = op[2] /\ name = op[1]
  OBVIOUS
<1>5. /\ name \in DraftNames /\ intent.kind = KindOf(name)
      /\ intent.expectedRemote = id.remote /\ id.remote # NoContent
  BY <1>3, <1>4 DEF IntentFits
<1>6. intent.kind \in Publications \cup {"base_publish", "remote_existing_blocked"}
  BY <1>5, Kinds DEF DraftNames, Publications
<1>7. id.remote \in home
  BY <1>2, <1>4, <1>6 DEF RowFits
<1> QED
  BY <1>1, <1>4, <1>5, <1>7

LEMMA ObservePreserves == ASSUME ResolutionInv, Observe PROVE ResolutionInv'
<1>1. PICK merged \in Merges :
        \E r \in Replays(Facts(merged)), c \in [kind : Claims, ok : BOOLEAN] :
          LET f == Facts(merged)
              m == Materialize(f, ClassifyConflict("Approved", r, c), copies, Rungs)
          IN /\ (local = remote) = (c.kind \in {"SameExactRename", "SameExactMove"})
             /\ ValidEvidence(f, "Approved", r, c) /\ Honest(f, c)
             /\ m.ok
             /\ plan' = m
  BY DEF Observe
<1>2. PICK f : f = Facts(merged)
  OBVIOUS
<1>3. PICK r \in Replays(f), c \in [kind : Claims, ok : BOOLEAN] :
        /\ (local = remote) = (c.kind \in {"SameExactRename", "SameExactMove"})
        /\ ValidEvidence(f, "Approved", r, c) /\ Honest(f, c)
        /\ Materialize(f, ClassifyConflict("Approved", r, c), copies, Rungs).ok
        /\ plan' = Materialize(f, ClassifyConflict("Approved", r, c), copies, Rungs)
  BY <1>1, <1>2
<1>4. PICK p, m : /\ p = ClassifyConflict("Approved", r, c)
                  /\ m = Materialize(f, p, copies, Rungs) /\ m.ok /\ plan' = m
  BY <1>3
<1>5. /\ f.base = base /\ f.local = local /\ f.remote = remote /\ f.lrev = local
      /\ f.rrev = Revision /\ f.merged = merged
      /\ f.deletedVerified = (local = NoContent /\ remote = NoContent)
  BY <1>2 DEF Facts
<1>6. remote # NoContent /\ f.rrev = Len(feed) + 1
  BY <1>3, <1>5 DEF ValidEvidence, Revision, NoRevision
<1>7. f.merged \in {NoContent, f.local \cup f.remote}
  BY <1>1, <1>5 DEF Merges
<1>8. remote \in Foreign /\ base \in Foreign /\ NoContent \in Foreign /\ local \in home
      /\ remote = FeedAt(Len(feed)) /\ Len(feed) \in Nat
  BY InvFacts DEF WorldFits, Foreign, NoContent
<1>9. c.kind \in Claims
  BY <1>3
<1>10. PlanShape(p, r, c)
  BY <1>3, <1>4, <1>9, ReplayFacts, ClassifyShape
<1>11. "LocalContentPublish" \in Asked(p) => f.local \in Foreign
  <2> SUFFICES ASSUME "LocalContentPublish" \in Asked(p) PROVE f.local \in Foreign
    OBVIOUS
  <2>1. r.tag # "replay" /\ c.kind \in {"RemoteContentChanged"} \cup SideMoved
    BY <1>10 DEF PlanShape
  <2>2. r = Fresh
    BY <1>3, <2>1, FreshFacts
  <2>3. CASE c.kind = "RemoteContentChanged"
    <3>1. ContentPredicate(f, c)
      BY <1>3, <2>2 DEF ValidEvidence
    <3> QED
      BY <1>5, <1>8, <2>3, <3>1 DEF ContentPredicate
  <2>4. CASE c.kind \in SideMoved
    BY <1>3, <1>5, <1>8, <2>4 DEF Honest, SideMoved
  <2> QED
    BY <2>1, <2>3, <2>4
<1>12. /\ m.facts = f /\ m.id.remote = f.remote
       /\ \A d \in Durable(m) : d.op[2] = m.id /\ IntentFits(d.op, IntentOf(m, d))
       /\ m.gate = "ExactVerification" => p.gate = "ExactVerification"
       /\ m.gate = "AllLocalPublications" => \E d \in m.drafts : d.kind \in Publications
       /\ \A d \in m.drafts : d.kind = "base_publish" =>
            \E q \in m.drafts :
              /\ q.kind \in Publications
              /\ m.id.outcome = "SafeTextMergeLocal" => q.kind = "merge_publish"
  BY <1>4, <1>5, <1>6, <1>7, <1>8, <1>10, <1>11, MadeFits
<1>13. p.gate = "ExactVerification" => remote \in home
  <2> SUFFICES ASSUME p.gate = "ExactVerification" PROVE remote \in home
    OBVIOUS
  <2>1. CASE r.tag = "replay"
    <3>1. r.proof.disposition = "VerifiedAppliedExactPostState"
      BY <1>10, <2>1 DEF PlanShape
    <3>2. PICK op \in DOMAIN ledger : /\ ledger[op].phase = "completed"
                                     /\ r.proof.remote = ledger[op].intent.expectedRemote
      BY <1>3, <2>1, <3>1, ReplayFacts
    <3>3. ReplaySnapshotMatches(f, r.proof)
      BY <1>3, <2>1 DEF ValidEvidence, ValidReplayProof
    <3>4. r.proof.remote = NoContent \/ r.proof.remote = f.remote
      BY <3>1, <3>3 DEF ReplaySnapshotMatches
    <3> QED
      BY <1>5, <3>2, <3>4, CompletedIsHome
  <2>2. CASE r.tag # "replay"
    <3>1. c.kind \in SameChange \/ (c.kind = "BothDeleted" /\ c.ok)
      BY <1>10, <2>2 DEF PlanShape
    <3>2. SemanticProof(f, c)
      BY <1>3 DEF ValidEvidence
    <3>3. c.kind \in SameChange
      BY <1>5, <1>6, <3>1, <3>2 DEF SemanticProof
    <3> QED
      BY <1>3, <1>8, <3>3 DEF SameChange
  <2> QED
    BY <2>1, <2>2
<1>14. UNCHANGED <<ledger, world, applied, todo, batch, cursor, feed, home>>
  BY DEF Observe, ledgerVars, world
<1>15. Grows /\ IntentsKept
  BY <1>14, FeedUnchanged, SameIntents
<1>16. m.facts.rrev - 1 = Len(feed) /\ m.facts.rrev \in 1 .. Len(feed) + 1
  BY <1>6, <1>8, <1>12
<1>17. FeedAt(m.facts.rrev - 1)' = FeedAt(Len(feed)) /\ m.id.remote = FeedAt(Len(feed))
  BY <1>5, <1>8, <1>12, <1>14, <1>16 DEF FeedAt
<1>18. PlanFits'
  BY <1>4, <1>5, <1>12, <1>13, <1>14, <1>16, <1>17 DEF PlanFits
<1> QED
  BY <1>14, <1>15, <1>18, BatchKept, CursorKept, DriverStep

LEMMA DropPreserves == ASSUME ResolutionInv, Drop PROVE ResolutionInv'
<1>1. UNCHANGED <<ledger, world, applied, todo, batch, cursor, feed, home>> /\ plan' = NoPlan
  BY DEF Drop, ledgerVars, world
<1>2. Grows /\ IntentsKept
  BY <1>1, FeedUnchanged, SameIntents
<1> QED
  BY <1>1, <1>2, PlanKept, BatchKept, CursorKept, DriverStep

LEMMA ExplainPreserves == ASSUME ResolutionInv, Explain PROVE ResolutionInv'
<1>1. UNCHANGED <<ledger, world, applied, todo, batch, cursor, feed, home, plan>>
  BY DEF Explain, RecordConflictEvidence, driver, world
<1>2. Grows /\ IntentsKept
  BY <1>1, FeedUnchanged, SameIntents
<1> QED
  BY <1>1, <1>2, PlanKept, BatchKept, CursorKept, DriverStep

\* A step that writes one row of the ledger.
LEMMA RowStep ==
  ASSUME ResolutionInv, UNCHANGED <<world, applied, batch, cursor>>, plan' \in {plan, NoPlan},
         IntentsKept, TodoFits', AppliedFits',
         \A op \in DOMAIN ledger' :
           (op \in DOMAIN ledger /\ ledger'[op] = ledger[op]) \/ RowFits(op, ledger'[op])
  PROVE  ResolutionInv'
<1> USE DEF world
<1>1. Grows
  BY FeedUnchanged
<1>2. WorldFits'
  BY InvFacts DEF WorldFits, FeedAt
<1>3. LedgerFits'
  <2>1. ASSUME NEW op \in DOMAIN ledger' PROVE RowFits(op, ledger[op])'
    <3>1. PICK row : row = ledger'[op]
      OBVIOUS
    <3>2. RowFits(op, row)
      BY <3>1, InvFacts DEF LedgerFits
    <3>3. RowFits(op, row)'
      BY <3>2, RowKept
    <3> QED
      BY <3>1, <3>3 DEF RowFits
  <2> QED
    BY <2>1 DEF LedgerFits
<1>4. PlanFits' /\ BatchFits' /\ CursorFits'
  BY <1>1, PlanKept, BatchKept, CursorKept
<1> QED
  BY <1>2, <1>3, <1>4, InvFromPartsNext
LEMMA RegisterPreserves == ASSUME ResolutionInv, Register PROVE ResolutionInv'
<1> DEFINE d == CHOOSE d \in Unregistered : TRUE
<1>1. /\ plan # NoPlan /\ d \in Unregistered
      /\ RegisterMutationIntent(d.op, IntentOf(plan, d))
  BY DEF Register
<1>2. PICK op, intent : op = d.op /\ intent = IntentOf(plan, d)
  OBVIOUS
<1> HIDE DEF d
<1>3. op \notin DOMAIN ledger /\ IntentFits(op, intent)
  BY <1>1, <1>2, InvFacts DEF Unregistered, PlanFits
<1>4. ledger' = Put(ledger, op, InitialRow(intent))
  BY <1>1, <1>2, <1>3 DEF RegisterMutationIntent
<1>5. /\ DOMAIN ledger' = DOMAIN ledger \cup {op} /\ ledger'[op] = InitialRow(intent)
      /\ \A o \in DOMAIN ledger : ledger'[o] = ledger[o]
  BY <1>3, <1>4 DEF Put
<1>6. PICK row : row = InitialRow(intent)
  OBVIOUS
<1>7. RowFits(op, row)
  <2>1. CASE intent.kind = "remote_existing_blocked"
    BY <1>3, <1>6, <2>1 DEF InitialRow, Row, RowFits, Publications
  <2>2. CASE intent.kind # "remote_existing_blocked"
    BY <1>3, <1>6, <2>2 DEF InitialRow, Row, RowFits
  <2> QED
    BY <2>1, <2>2
<1>8. UNCHANGED <<world, applied, todo, plan, batch, cursor>>
  BY <1>1 DEF Register, RegisterMutationIntent, driver
<1>9. TodoFits' /\ AppliedFits' /\ IntentsKept
  BY <1>5, <1>8, InvFacts DEF TodoFits, AppliedFits, IntentsKept
<1>10. \A o \in DOMAIN ledger' :
         (o \in DOMAIN ledger /\ ledger'[o] = ledger[o]) \/ RowFits(o, ledger'[o])
  BY <1>5, <1>6, <1>7
<1> QED
  BY <1>8, <1>9, <1>10, RowStep

LEMMA OpenBatchPreserves == ASSUME ResolutionInv, OpenBatch PROVE ResolutionInv'
<1> DEFINE deps == {d.op : d \in CursorDependencies(plan)}
<1>1. /\ plan # NoPlan /\ plan.gate \in {"AllLocalPublications", "ExactVerification"}
      /\ \A d \in CursorDependencies(plan) : Registered(d.op, IntentOf(plan, d))
      /\ BeginR3ChangeBatch(cursor, plan.facts.rrev - 1, deps)
      /\ UNCHANGED <<ledger, world, applied, todo, plan, cursor, feed, home>>
  BY DEF OpenBatch, BeginR3ChangeBatch, driver, world
<1>2. PICK next \in 0 .. Len(feed) : next = plan.facts.rrev - 1 /\ plan.id.remote = FeedAt(next)
  BY <1>1, InvFacts DEF PlanFits
<1>8. PICK content : content = plan.id.remote
  OBVIOUS
<1>3. /\ DOMAIN batch' = {"kind", "expected", "next", "deps"}
      /\ batch'.kind = "r3" /\ batch'.next = next /\ DOMAIN batch'.deps = deps
  BY <1>1, <1>2 DEF BeginR3ChangeBatch
<1>4. Grows /\ IntentsKept
  BY <1>1, FeedUnchanged, SameIntents
<1>5. FeedAt(next)' = content
  BY <1>2, <1>4, <1>8 DEF Grows
<1>6. \/ content \in home'
      \/ \E op \in deps : Brings(op, content)'
  <2>1. CASE plan.gate = "ExactVerification"
    BY <1>1, <1>8, <2>1, InvFacts DEF PlanFits
  <2>2. CASE plan.gate = "AllLocalPublications"
    <3>1. PICK d \in plan.drafts : d.kind \in Publications
      BY <1>1, <2>2, InvFacts DEF PlanFits
    <3>2. d \in CursorDependencies(plan) /\ d \in Durable(plan)
      BY <3>1 DEF CursorDependencies, Durable, Publications
    <3>3. d.op \in deps /\ d.op[2] = plan.id
      BY <1>1, <3>2, InvFacts DEF PlanFits
    <3>4. PICK op, intent : op = d.op /\ intent = IntentOf(plan, d)
      OBVIOUS
    <3>5. op \in DOMAIN ledger /\ ledger[op].intent = intent
      BY <1>1, <3>2, <3>4 DEF Registered
    <3>6. intent.kind = d.kind
      BY <3>4 DEF IntentOf
    <3>7. Brings(op, content)
      BY <1>8, <3>1, <3>3, <3>4, <3>5, <3>6 DEF Brings
    <3> QED
      BY <1>4, <3>3, <3>4, <3>7, BringsKept
  <2> QED
    BY <1>1, <2>1, <2>2
<1>7. BatchFits'
  BY <1>1, <1>2, <1>3, <1>5, <1>6 DEF BatchFits
<1> QED
  BY <1>1, <1>4, <1>7, PlanKept, CursorKept, DriverStep

\* A base is claimed only after its publication: its content is the remote one, and here.
LEMMA BaseIsEarned ==
  ASSUME ResolutionInv, plan # NoPlan, NEW d \in CursorDependencies(plan),
         d.kind = "base_publish", \A p \in Prerequisites(plan, d) : p \in DOMAIN ledger /\ ExactCompletion(p)
  PROVE  plan.id.remote \in home /\ d.content = plan.id.remote
<1>1. d \in plan.drafts /\ d \in Durable(plan)
  BY DEF CursorDependencies, Durable, Publications
<1>2. PICK q \in plan.drafts :
        /\ q.kind \in Publications
        /\ plan.id.outcome = "SafeTextMergeLocal" => q.kind = "merge_publish"
  BY <1>1, InvFacts DEF PlanFits
<1>3. q.op \in Prerequisites(plan, d) /\ q \in Durable(plan)
  BY <1>2 DEF Prerequisites, Durable, Publications
<1>4. PICK op, intent : op = q.op /\ intent = IntentOf(plan, q)
  OBVIOUS
<1>5. op[2] = plan.id /\ IntentFits(op, intent) /\ intent.kind = q.kind
  BY <1>3, <1>4, InvFacts DEF PlanFits, IntentOf
<1>6. PICK row : row = ledger[op]
  OBVIOUS
<1>7. RowFits(op, row) /\ row.phase = "completed"
  BY <1>3, <1>4, <1>6, InvFacts DEF LedgerFits, ExactCompletion
<1>8. IntentFits(op, row.intent) /\ row.intent.kind = q.kind
  BY <1>5, <1>7 DEF RowFits, IntentFits
<1>9. plan.id.remote \in home /\ row.intent.expectedLocal = plan.id.remote
  BY <1>2, <1>5, <1>7, <1>8 DEF RowFits
<1>10. plan.id.outcome = "SafeTextMergeLocal" => plan.id.local \cup plan.id.remote = plan.id.remote
  BY <1>2, <1>5, <1>8, <1>9 DEF IntentFits
<1>11. PICK o, i : o = d.op /\ i = IntentOf(plan, d)
  OBVIOUS
<1>12. /\ o[2] = plan.id /\ IntentFits(o, i) /\ i.kind = "base_publish" /\ i.expectedLocal = d.content
  BY <1>1, <1>11, InvFacts DEF PlanFits, IntentOf
<1>13. \/ d.content = plan.id.remote
       \/ /\ plan.id.outcome = "SafeTextMergeLocal"
          /\ d.content = plan.id.local \cup plan.id.remote
  BY <1>12 DEF IntentFits
<1> QED
  BY <1>9, <1>10, <1>13

LEMMA ClaimPreserves == ASSUME ResolutionInv, Claim PROVE ResolutionInv'
<1>1. plan # NoPlan /\ UNCHANGED <<world, applied, plan, batch, cursor>>
  BY DEF Claim, ClaimMutation, UpdateMutationState
<1>2. PICK d \in CursorDependencies(plan) :
        /\ Registered(d.op, IntentOf(plan, d))
        /\ \A p \in Prerequisites(plan, d) : p \in DOMAIN ledger /\ ExactCompletion(p)
        /\ ClaimMutation(d.op, ledger[d.op].version)
        /\ todo' = todo \cup {[op |-> d.op, version |-> ledger[d.op].version + 1, done |-> FALSE]}
  BY DEF Claim
<1>3. PICK op, row, new :
        /\ op = d.op /\ row = ledger[op]
        /\ new = Row(row.intent, "running", row.version + 1, "none", row.evidence)
  OBVIOUS
<1>4. /\ op \in DOMAIN ledger /\ row.intent = IntentOf(plan, d)
      /\ row.intent.kind # "remote_existing_blocked" /\ Claimable(row)
      /\ ledger' = [ledger EXCEPT ![op] = new]
  BY <1>2, <1>3 DEF ClaimMutation, UpdateMutationState, Registered
<1>5. RowFits(op, row) /\ row.phase = "intent_durable"
  <2>1. RowFits(op, row)
    BY <1>3, <1>4, InvFacts DEF LedgerFits
  <2> QED
    BY <1>4, <2>1 DEF RowFits, Claimable
<1>6. DOMAIN ledger' = DOMAIN ledger /\ ledger'[op] = new
      /\ \A o \in DOMAIN ledger \ {op} : ledger'[o] = ledger[o]
  BY <1>4
<1>7. new.intent = row.intent /\ new.phase = "running" /\ new.disposition = "none"
  BY <1>3 DEF Row
<1>8. row.intent.kind = "base_publish" => op[2].remote \in home /\ row.intent.expectedLocal = op[2].remote
  <2>1. row.intent.kind = d.kind /\ row.intent.expectedLocal = d.content
    BY <1>4 DEF IntentOf
  <2>2. d \in Durable(plan)
    BY DEF CursorDependencies, Durable, Publications
  <2>3. op[2] = plan.id
    BY <1>1, <1>3, <2>2, InvFacts DEF PlanFits
  <2> QED
    BY <1>1, <1>2, <2>1, <2>3, BaseIsEarned
<1>9. RowFits(op, new)
  BY <1>4, <1>5, <1>7, <1>8 DEF RowFits
<1>10. \A o \in DOMAIN ledger' :
         (o \in DOMAIN ledger /\ ledger'[o] = ledger[o]) \/ RowFits(o, ledger'[o])
  BY <1>6, <1>9
<1>11. op \notin DOMAIN applied /\ \A t \in todo : t.op # op
  BY <1>3, <1>5, InvFacts DEF AppliedFits, TodoFits
<1>12. AppliedFits' /\ IntentsKept
  BY <1>1, <1>3, <1>6, <1>7, <1>11, InvFacts DEF AppliedFits, IntentsKept
<1>13. TodoFits'
  <2>1. PICK new_t : new_t = [op |-> op, version |-> row.version + 1, done |-> FALSE]
    OBVIOUS
  <2>2. /\ todo' = todo \cup {new_t}
        /\ new_t.op = op /\ new_t.version = row.version + 1 /\ new_t.done = FALSE
    BY <1>2, <1>3, <2>1
  <2>3. ASSUME NEW t \in todo
        PROVE  /\ t = [op |-> t.op, version |-> t.version, done |-> t.done]
               /\ t.op \in DOMAIN ledger' /\ ledger'[t.op].phase = "running"
               /\ ~t.done => t.op \notin DOMAIN applied'
               /\ \A u \in todo' : u.op = t.op => u = t
    BY <1>1, <1>6, <1>11, <2>2, InvFacts DEF TodoFits
  <2>4. /\ new_t = [op |-> new_t.op, version |-> new_t.version, done |-> new_t.done]
        /\ new_t.op \in DOMAIN ledger' /\ ledger'[new_t.op].phase = "running"
        /\ new_t.op \notin DOMAIN applied'
        /\ \A u \in todo' : u.op = new_t.op => u = new_t
    BY <1>1, <1>4, <1>6, <1>7, <1>11, <2>1, <2>2
  <2> QED
    BY <2>2, <2>3, <2>4 DEF TodoFits
<1> QED
  BY <1>1, <1>10, <1>12, <1>13, RowStep
LEMMA ApplyPreserves == ASSUME ResolutionInv, Apply PROVE ResolutionInv'
<1>1. PICK t \in todo :
        /\ ~t.done
        /\ Effect(t.op, ledger[t.op].intent)
        /\ todo' = (todo \ {t}) \cup {[t EXCEPT !.done = TRUE]}
        /\ applied' = Put(applied, t.op, IF t.op \in DOMAIN applied THEN applied[t.op] + 1 ELSE 1)
        /\ UNCHANGED <<ledgerVars, remote, feed, mine, plan, bounds>>
  BY DEF Apply
<1>2. PICK op, row, intent : op = t.op /\ row = ledger[op] /\ intent = row.intent
  OBVIOUS
<1>3. UNCHANGED <<ledger, batch, cursor, remote, feed, mine, plan>>
  BY <1>1 DEF ledgerVars
<1>4. /\ op \in DOMAIN ledger /\ row.phase = "running" /\ op \notin DOMAIN applied
      /\ t = [op |-> t.op, version |-> t.version, done |-> t.done]
      /\ \A u \in todo : u.op = op => u = t
  BY <1>1, <1>2, InvFacts DEF TodoFits
<1>5. RowFits(op, row) /\ IntentFits(op, intent)
  BY <1>2, <1>4, InvFacts DEF LedgerFits, RowFits
<1>6. intent.kind \in Publications \cup {"base_publish"}
  <2>1. PICK name : name = op[1]
    OBVIOUS
  <2>2. name \in DraftNames /\ intent.kind = KindOf(name)
    BY <1>5, <2>1 DEF IntentFits
  <2>3. intent.kind # "remote_existing_blocked"
    BY <1>2, <1>4, <1>5 DEF RowFits
  <2> QED
    BY <2>2, <2>3, Kinds DEF DraftNames, Publications
<1>7. /\ home \subseteq home' /\ local' \in home' /\ base' \in Foreign
      /\ \A n \in DOMAIN copies' : copies'[n].content \in home'
      /\ mine \notin {NoContent, Start} => mine \subseteq local'
  <2>1. Effect(op, intent)
    BY <1>1, <1>2
  <2>2. CASE intent.kind \in {"local_publish", "merge_publish"}
    <3>1. /\ local = intent.lrev /\ local' = intent.expectedLocal
          /\ home' = home \cup {intent.expectedLocal} /\ UNCHANGED <<base, copies>>
      BY <2>1, <2>2 DEF Effect
    <3>2. intent.kind = "local_publish" => local \in Foreign
      BY <1>5, <3>1 DEF IntentFits
    <3>3. intent.kind = "merge_publish" => local \subseteq local'
      BY <1>5, <3>1 DEF IntentFits
    <3>4. mine \notin {NoContent, Start} => mine \notin Foreign /\ mine \subseteq local
      BY InvFacts DEF WorldFits
    <3>5. mine \notin {NoContent, Start} => mine \subseteq local'
      <4>1. CASE intent.kind = "local_publish"
        BY <3>2, <3>4, <4>1 DEF Foreign
      <4>2. CASE intent.kind = "merge_publish"
        BY <3>3, <3>4, <4>2
      <4> QED
        BY <2>2, <4>1, <4>2
    <3> QED
      BY <3>1, <3>5, InvFacts DEF WorldFits
  <2>3. CASE intent.kind = "conflict_copy_publish"
    <3>1. /\ copies' = Put(copies, intent.name, [id |-> op[2], content |-> intent.expectedLocal])
          /\ home' = home \cup {intent.expectedLocal} /\ UNCHANGED <<base, local>>
      BY <2>1, <2>3 DEF Effect
    <3>2. \A n \in DOMAIN copies' : copies'[n].content \in home'
      BY <3>1, InvFacts DEF Put, WorldFits
    <3> QED
      BY <3>1, <3>2, InvFacts DEF WorldFits
  <2>4. CASE intent.kind = "base_publish"
    <3>1. base' = intent.expectedLocal /\ UNCHANGED <<local, copies, home>>
      BY <2>1, <2>4 DEF Effect
    <3>2. intent.expectedLocal = op[2].remote
      BY <1>2, <1>4, <1>5, <2>4 DEF RowFits
    <3>3. op[2].remote \in Foreign
      BY <1>5 DEF IntentFits
    <3> QED
      BY <3>1, <3>2, <3>3, InvFacts DEF WorldFits
  <2> QED
    BY <1>6, <2>2, <2>3, <2>4 DEF Publications
<1>8. WorldFits'
  BY <1>3, <1>7, InvFacts DEF WorldFits, FeedAt
<1>9. Grows /\ IntentsKept
  BY <1>3, <1>7, FeedUnchanged, SameIntents
<1>10. /\ DOMAIN applied' = DOMAIN applied \cup {op} /\ applied'[op] = 1
       /\ \A o \in DOMAIN applied : applied'[o] = applied[o]
  BY <1>1, <1>2, <1>4 DEF Put
<1>11. AppliedFits'
  BY <1>2, <1>3, <1>4, <1>10, InvFacts DEF AppliedFits
<1>12. TodoFits'
  <2>1. PICK new : new = [t EXCEPT !.done = TRUE]
    OBVIOUS
  <2>2. new = [op |-> op, version |-> t.version, done |-> TRUE]
    BY <1>2, <1>4, <2>1
  <2>3. /\ todo' = (todo \ {t}) \cup {new}
        /\ new.op = op /\ new.version = t.version /\ new.done = TRUE
    BY <1>1, <2>1, <2>2
  <2>4. ASSUME NEW u \in todo \ {t}
        PROVE  /\ u = [op |-> u.op, version |-> u.version, done |-> u.done] /\ u.op # op
               /\ u.op \in DOMAIN ledger' /\ ledger'[u.op].phase = "running"
               /\ ~u.done => u.op \notin DOMAIN applied'
               /\ \A w \in todo : w.op = u.op => w = u
    BY <1>3, <1>4, <1>10, InvFacts DEF TodoFits
  <2>5. \A u \in todo' : u = new \/ u \in todo \ {t}
    BY <2>3
  <2>6. ASSUME NEW u \in todo'
        PROVE  /\ u = [op |-> u.op, version |-> u.version, done |-> u.done]
               /\ u.op \in DOMAIN ledger' /\ ledger'[u.op].phase = "running"
               /\ ~u.done => u.op \notin DOMAIN applied'
               /\ \A w \in todo' : w.op = u.op => w = u
    <3>1. CASE u = new
      BY <1>2, <1>3, <1>4, <2>2, <2>3, <2>4, <2>5, <3>1
    <3>2. CASE u \in todo \ {t}
      BY <2>3, <2>4, <2>5, <3>2
    <3> QED
      BY <2>5, <3>1, <3>2
  <2> QED
    BY <2>6 DEF TodoFits
<1>13. LedgerFits'
  BY <1>3, <1>7, LedgerKept
<1>14. PlanFits' /\ BatchFits' /\ CursorFits'
  BY <1>3, <1>9, PlanKept, BatchKept, CursorKept
<1> QED
  BY <1>8, <1>11, <1>12, <1>13, <1>14, InvFromPartsNext

\* What was seen at the destination of a publication is here.
LEMMA SeenIsHome ==
  ASSUME ResolutionInv, NEW op \in DOMAIN ledger, ledger[op].intent.kind \in Publications,
         Seen(op).content # NoContent
  PROVE  Seen(op).content \in home
<1>1. PICK intent : intent = ledger[op].intent
  OBVIOUS
<1>2. CASE intent.kind \in {"local_publish", "merge_publish"}
  BY <1>1, <1>2, InvFacts DEF Seen, WorldFits
<1>3. CASE intent.kind = "conflict_copy_publish"
  BY <1>1, <1>3, InvFacts DEF Seen, WorldFits
<1> QED
  BY <1>1, <1>2, <1>3 DEF Publications

\* An outcome that the store accepts fits its operation.
LEMMA OutcomeFits ==
  ASSUME ResolutionInv, NEW op, NEW version, NEW transition,
         RecordMutationOutcome(op, version, transition, Seen(op)),
         ledger[op].intent.kind # "remote_existing_blocked"
  PROVE  \E row : /\ op \in DOMAIN ledger /\ ledger' = [ledger EXCEPT ![op] = row]
                  /\ RowFits(op, row) /\ row.intent = ledger[op].intent
                  /\ row.phase # "intent_durable"
                  /\ ledger[op].phase \in {"running", "needs_reconcile"}
                  /\ UNCHANGED <<envelopes, batch, cursor>>
<1>1. PICK old : old = ledger[op]
  OBVIOUS
<1>2. PICK row \in TransitionTarget(old, transition) :
        ledger' = [ledger EXCEPT ![op] = row] /\ UNCHANGED <<envelopes, batch, cursor>>
  BY <1>1 DEF RecordMutationOutcome, UpdateMutationState
<1>3. op \in DOMAIN ledger /\ RowFits(op, old) /\ IntentFits(op, old.intent)
  BY <1>1, InvFacts DEF RecordMutationOutcome, LedgerFits, RowFits
<1>4. CASE transition = "VerifiedApplied"
  <2>1. /\ old.phase \in {"running", "needs_reconcile"}
        /\ row.intent = old.intent /\ row.phase = "completed" /\ row.disposition = "verified_applied"
    BY <1>2, <1>4 DEF TransitionTarget, Row
  <2>2. PICK intent, content : intent = old.intent /\ content = Seen(op).content
    OBVIOUS
  <2>3. Expected(intent.expectedLocal, NoContent, content) /\ Expected(intent.expectedRemote, NoContent, content)
    BY <1>1, <1>4, <2>2 DEF RecordMutationOutcome, VerifiedApplied
  <2>4. PICK id : id = op[2]
    OBVIOUS
  <2>5. intent.expectedRemote = id.remote /\ id.remote # NoContent /\ intent.expectedLocal # NoContent
    BY <1>1, <1>3, <2>2, <2>4 DEF IntentFits
  <2>6. content = intent.expectedLocal /\ content = id.remote
    BY <2>3, <2>5 DEF Expected
  <2>7. intent.kind \in Publications => id.remote \in home
    BY <1>1, <1>3, <2>2, <2>5, <2>6, SeenIsHome
  <2>8. RowFits(op, row)
    BY <1>1, <1>3, <2>1, <2>2, <2>4, <2>6, <2>7 DEF RowFits
  <2> QED
    BY <1>1, <1>2, <1>3, <2>1, <2>8
<1>5. CASE transition # "VerifiedApplied"
  <2>1. /\ old.phase = "running"
        /\ row.intent = old.intent /\ row.phase = "needs_reconcile" /\ row.disposition = "needs_reconcile"
    BY <1>2, <1>5 DEF TransitionTarget, Row
  <2>2. RowFits(op, row)
    BY <1>3, <2>1 DEF RowFits
  <2> QED
    BY <1>1, <1>2, <1>3, <2>1, <2>2
<1> QED
  BY <1>4, <1>5

LEMMA RecordOutcomePreserves == ASSUME ResolutionInv, RecordOutcome PROVE ResolutionInv'
<1>1. PICK t \in todo :
        /\ \/ RecordMutationOutcome(t.op, t.version, "VerifiedApplied", Seen(t.op))
           \/ RecordMutationOutcome(t.op, t.version, "NeedsReconcile", Seen(t.op))
        /\ todo' = todo \ {t}
        /\ UNCHANGED <<world, applied, plan, bounds>>
  BY DEF RecordOutcome
<1>2. PICK op : op = t.op
  OBVIOUS
<1>3. op \in DOMAIN ledger /\ ledger[op].phase = "running" /\ \A u \in todo : u.op = op => u = t
  BY <1>2, InvFacts DEF TodoFits
<1>4. ledger[op].intent.kind # "remote_existing_blocked"
  BY <1>3, InvFacts DEF LedgerFits, RowFits
<1>5. PICK row : /\ ledger' = [ledger EXCEPT ![op] = row]
                 /\ RowFits(op, row) /\ row.intent = ledger[op].intent
                 /\ row.phase # "intent_durable"
                 /\ UNCHANGED <<envelopes, batch, cursor>>
  BY <1>1, <1>2, <1>4, OutcomeFits
<1>6. /\ DOMAIN ledger' = DOMAIN ledger /\ ledger'[op] = row
      /\ \A o \in DOMAIN ledger \ {op} : ledger'[o] = ledger[o]
  BY <1>3, <1>5
<1>7. \A o \in DOMAIN ledger' :
        (o \in DOMAIN ledger /\ ledger'[o] = ledger[o]) \/ RowFits(o, ledger'[o])
  BY <1>5, <1>6
<1>8. IntentsKept /\ AppliedFits'
  BY <1>1, <1>5, <1>6, InvFacts DEF IntentsKept, AppliedFits
<1>9. TodoFits'
  BY <1>1, <1>3, <1>6, InvFacts DEF TodoFits
<1> QED
  BY <1>1, <1>5, <1>7, <1>8, <1>9, RowStep

LEMMA ReconcilePreserves == ASSUME ResolutionInv, Reconcile PROVE ResolutionInv'
<1>1. PICK op \in DOMAIN ledger :
        /\ ledger[op].intent.kind # "remote_existing_blocked"
        /\ ledger[op].phase = "needs_reconcile"
        /\ RecordMutationOutcome(op, ledger[op].version, "VerifiedApplied", Seen(op))
  BY DEF Reconcile
<1>2. UNCHANGED <<world, applied, plan, todo>>
  BY DEF Reconcile, driver
<1>3. PICK row : /\ ledger' = [ledger EXCEPT ![op] = row]
                 /\ RowFits(op, row) /\ row.intent = ledger[op].intent
                 /\ row.phase # "intent_durable"
                 /\ UNCHANGED <<envelopes, batch, cursor>>
  BY <1>1, OutcomeFits
<1>4. /\ DOMAIN ledger' = DOMAIN ledger /\ ledger'[op] = row
      /\ \A o \in DOMAIN ledger \ {op} : ledger'[o] = ledger[o]
  BY <1>1, <1>3
<1>5. \A o \in DOMAIN ledger' :
        (o \in DOMAIN ledger /\ ledger'[o] = ledger[o]) \/ RowFits(o, ledger'[o])
  BY <1>3, <1>4
<1>6. IntentsKept /\ AppliedFits'
  BY <1>2, <1>3, <1>4, InvFacts DEF IntentsKept, AppliedFits
<1>7. \A t \in todo : t.op # op
  BY <1>1, InvFacts DEF TodoFits
<1>8. TodoFits'
  BY <1>2, <1>4, <1>7, InvFacts DEF TodoFits
<1> QED
  BY <1>2, <1>3, <1>5, <1>6, <1>8, RowStep
-----------------------------------------------------------------------------
(* The batch, and crashes. *)

LEMMA SetDependencyPreserves ==
  ASSUME ResolutionInv, batch # NoBatch, NEW kind, NEW op, NEW from, NEW to,
         SetDependency(kind, op, from, to), UNCHANGED <<world, applied, driver>>
  PROVE  ResolutionInv'
<1> USE DEF world, driver
<1>1. UNCHANGED <<ledger, cursor>> /\ batch' = [batch EXCEPT !.deps[op] = to]
  BY DEF SetDependency
<1>2. PICK content : content = FeedAt(batch.next)
  OBVIOUS
<1>3. /\ DOMAIN batch = {"kind", "expected", "next", "deps"}
      /\ batch.kind \in {"r3", "legacy"} /\ batch.next \in 0 .. Len(feed)
      /\ \/ content \in home
         \/ batch.kind = "legacy" /\ DOMAIN batch.deps # {}
         \/ batch.kind = "r3" /\ \E o \in DOMAIN batch.deps : Brings(o, content)
  BY <1>2, InvFacts DEF BatchFits
<1>4. /\ DOMAIN batch' = DOMAIN batch /\ batch'.kind = batch.kind /\ batch'.next = batch.next
      /\ DOMAIN batch'.deps = DOMAIN batch.deps
  BY <1>1, <1>3
<1>5. Grows /\ IntentsKept
  BY <1>1, FeedUnchanged, SameIntents
<1>6. FeedAt(batch.next)' = content
  BY <1>2, <1>4 DEF FeedAt
<1>7. \A o : Brings(o, content) => Brings(o, content)'
  BY <1>5, BringsKept
<1>8. BatchFits'
  BY <1>3, <1>4, <1>6, <1>7 DEF BatchFits
<1> QED
  BY <1>1, <1>5, <1>8, PlanKept, CursorKept, DriverStep

LEMMA BindDependencyPreserves == ASSUME ResolutionInv, BindDependency PROVE ResolutionInv'
BY SetDependencyPreserves DEF BindDependency, CommitR3ChangeDependency

\* The batch is over; the cursor moves to a content that is here.
LEMMA AdvancePreserves ==
  ASSUME ResolutionInv, batch # NoBatch, AdvanceCursor, FeedAt(batch.next) \in home,
         UNCHANGED <<world, applied, driver>>
  PROVE  ResolutionInv'
<1> USE DEF world, driver
<1>1. UNCHANGED ledger /\ cursor' = batch.next /\ batch' = NoBatch
  BY DEF AdvanceCursor
<1>2. batch.next \in 0 .. Len(feed)
  BY InvFacts DEF BatchFits
<1>3. Grows
  BY FeedUnchanged
<1>4. CursorFits'
  BY <1>1, <1>2 DEF CursorFits, CursorIsEarned, FeedAt
<1> QED
  BY <1>1, <1>3, <1>4, PlanKept, DriverStep DEF BatchFits

LEMMA CloseBatchPreserves == ASSUME ResolutionInv, CloseBatch PROVE ResolutionInv'
<1> USE DEF world, driver
<1>1. UNCHANGED <<world, applied, driver>>
  BY DEF CloseBatch
<1>2. PICK content : content = FeedAt(batch.next)
  OBVIOUS
<1>3. CASE CommitR3ChangeBatch
  <2>1. batch # NoBatch /\ batch.kind = "r3" /\ DependenciesComplete /\ AdvanceCursor
    BY <1>3 DEF CommitR3ChangeBatch
  <2>2. CASE content \in home
    BY <1>1, <1>2, <2>1, <2>2, AdvancePreserves
  <2>3. CASE content \notin home
    <3>1. PICK op \in DOMAIN batch.deps : Brings(op, content)
      BY <1>2, <2>1, <2>3, InvFacts DEF BatchFits
    <3>2. PICK row : row = ledger[op]
      OBVIOUS
    <3>3. RowFits(op, row) /\ row.phase = "completed"
      BY <2>1, <3>1, <3>2, InvFacts DEF Brings, LedgerFits, DependenciesComplete, ExactCompletion
    <3>4. row.intent.kind \in Publications /\ op[2].remote = content
      BY <3>1, <3>2 DEF Brings
    <3> QED
      BY <2>3, <3>3, <3>4 DEF RowFits
  <2> QED
    BY <2>2, <2>3
<1>4. CASE CommitChangeBatch
  <2>1. batch # NoBatch /\ DOMAIN batch.deps = {} /\ AdvanceCursor
    BY <1>4 DEF CommitChangeBatch
  <2>2. FeedAt(batch.next) \in home
    BY <2>1, InvFacts DEF BatchFits
  <2> QED
    BY <1>1, <2>1, <2>2, AdvancePreserves
<1>5. CASE AbortChangeBatch
  <2>1. UNCHANGED <<ledger, cursor>> /\ batch' = NoBatch
    BY <1>5 DEF AbortChangeBatch
  <2>2. Grows
    BY <1>1, FeedUnchanged
  <2> QED
    BY <1>1, <2>1, <2>2, PlanKept, CursorKept, DriverStep DEF BatchFits
<1> QED
  BY <1>3, <1>4, <1>5 DEF CloseBatch

LEMMA BeginChangeBatchPreserves ==
  ASSUME ResolutionInv, NEW ids, BeginChangeBatch(cursor, Len(feed), ids),
         ids # {} \/ remote = local, UNCHANGED <<world, applied, driver>>
  PROVE  ResolutionInv'
<1> USE DEF world, driver
<1>1. /\ UNCHANGED <<ledger, cursor>> /\ DOMAIN batch' = {"kind", "expected", "next", "deps"}
      /\ batch'.kind = "legacy" /\ batch'.next = Len(feed) /\ DOMAIN batch'.deps = ids
  BY DEF BeginChangeBatch
<1>2. FeedAt(Len(feed)) = remote /\ local \in home
  BY InvFacts DEF WorldFits
<1>3. FeedAt(batch.next)' = FeedAt(Len(feed))
  BY <1>1 DEF FeedAt
<1>4. BatchFits'
  BY <1>1, <1>2, <1>3, InvFacts DEF BatchFits
<1>5. Grows
  BY FeedUnchanged
<1> QED
  BY <1>1, <1>4, <1>5, PlanKept, CursorKept, DriverStep

LEMMA LegacyBatchPreserves == ASSUME ResolutionInv, LegacyBatch PROVE ResolutionInv'
<1>1. UNCHANGED <<world, applied, driver>>
  BY DEF LegacyBatch
<1>2. CASE BeginChangeBatch(cursor, Len(feed), {"page"})
  BY <1>1, <1>2, BeginChangeBatchPreserves
<1>3. CASE remote = local /\ BeginChangeBatch(cursor, Len(feed), {})
  BY <1>1, <1>3, BeginChangeBatchPreserves
<1>4. CASE \/ BeginLocalMutation("page") \/ MarkLocalMutationCommitted("page")
           \/ ResetLocalMutationAfterVerifiedAbsence("page")
  BY <1>1, <1>4, SetDependencyPreserves
  DEF BeginLocalMutation, MarkLocalMutationCommitted, ResetLocalMutationAfterVerifiedAbsence
<1> QED
  BY <1>2, <1>3, <1>4 DEF LegacyBatch

LEMMA CrashPreserves == ASSUME ResolutionInv, Crash PROVE ResolutionInv'
<1>1. /\ plan' = NoPlan /\ todo' = {} /\ UNCHANGED <<world, applied, batch, cursor>>
      /\ DOMAIN ledger' = DOMAIN ledger
      /\ \A op \in DOMAIN ledger :
           ledger'[op] = IF ledger[op].phase = "running" THEN Recovered(ledger[op]) ELSE ledger[op]
  BY DEF Crash, RecoverInterruptedJobs
<1>2. ASSUME NEW op \in DOMAIN ledger, ledger[op].phase = "running"
      PROVE  /\ RowFits(op, ledger'[op]) /\ ledger'[op].intent = ledger[op].intent
             /\ ledger'[op].phase = "needs_reconcile"
  <2>1. PICK old, new : old = ledger[op] /\ new = ledger'[op]
    OBVIOUS
  <2>2. /\ new.intent = old.intent /\ new.phase = "needs_reconcile"
        /\ new.disposition = "needs_reconcile"
    BY <1>1, <1>2, <2>1 DEF Recovered, Row
  <2>3. RowFits(op, old) /\ old.phase = "running"
    BY <1>2, <2>1, InvFacts DEF LedgerFits
  <2>4. RowFits(op, new)
    BY <2>2, <2>3 DEF RowFits
  <2> QED
    BY <2>1, <2>2, <2>4
<1>3. IntentsKept
  BY <1>1, <1>2 DEF IntentsKept
<1>4. TodoFits' /\ AppliedFits'
  BY <1>1, <1>2, InvFacts DEF TodoFits, AppliedFits
<1>5. \A op \in DOMAIN ledger' :
        (op \in DOMAIN ledger /\ ledger'[op] = ledger[op]) \/ RowFits(op, ledger'[op])
  BY <1>1, <1>2
<1> QED
  BY <1>1, <1>3, <1>4, <1>5, RowStep

-----------------------------------------------------------------------------
(* Theorems. *)

LEMMA StepPreserves == ResolutionInv /\ [Next]_vars => ResolutionInv'
<1> SUFFICES ASSUME ResolutionInv, [Next]_vars PROVE ResolutionInv'
  OBVIOUS
<1>1. CASE EditLocal \/ DeleteLocal
  BY <1>1, LocalPreserves
<1>2. CASE EditRemote \/ RevertRemote \/ DeleteRemote
  BY <1>2, RemotePreserves
<1>3. CASE Observe
  BY <1>3, ObservePreserves
<1>4. CASE Drop
  BY <1>4, DropPreserves
<1>5. CASE Register
  BY <1>5, RegisterPreserves
<1>6. CASE Explain
  BY <1>6, ExplainPreserves
<1>7. CASE OpenBatch
  BY <1>7, OpenBatchPreserves
<1>8. CASE Claim
  BY <1>8, ClaimPreserves
<1>9. CASE Apply
  BY <1>9, ApplyPreserves
<1>10. CASE RecordOutcome
  BY <1>10, RecordOutcomePreserves
<1>11. CASE Reconcile
  BY <1>11, ReconcilePreserves
<1>12. CASE BindDependency
  BY <1>12, BindDependencyPreserves
<1>13. CASE CloseBatch
  BY <1>13, CloseBatchPreserves
<1>14. CASE LegacyBatch
  BY <1>14, LegacyBatchPreserves
<1>15. CASE Crash
  BY <1>15, CrashPreserves
<1>16. CASE UNCHANGED vars
  <2>1. UNCHANGED <<ledger, world, applied, todo, plan, batch, cursor, feed, home>>
    BY <1>16 DEF vars, ledgerVars, world, driver
  <2>2. Grows /\ IntentsKept
    BY <2>1, FeedUnchanged, SameIntents
  <2> QED
    BY <2>1, <2>2, PlanKept, BatchKept, CursorKept, DriverStep
<1> QED
  BY <1>1, <1>2, <1>3, <1>4, <1>5, <1>6, <1>7, <1>8, <1>9, <1>10, <1>11, <1>12, <1>13, <1>14,
     <1>15, <1>16 DEF Next

\* The inductive invariant of the ledger, the plan, the batch and the note, through every
\* interleaving of the driver with the user, the other devices, a reconciler and crashes.
THEOREM ResolutionInvHolds == Spec => []ResolutionInv
BY InitHasInv, StepPreserves, PTL DEF Spec

\* No operation has its effect twice (store.rs claim_mutation never hands out an operation
\* whose outcome is unknown, and recover_interrupted_jobs makes it unknown).
THEOREM AppliedOnceHolds == Spec => []AppliedOnce
<1>1. ResolutionInv => AppliedOnce
  BY InvFacts DEF AppliedFits, AppliedOnce
<1> QED
  BY <1>1, ResolutionInvHolds, PTL

\* The durable cursor never passes a remote content that did not arrive in the vault
\* (store.rs commit_r3_change_batch, commit_change_batch).
THEOREM CursorIsEarnedHolds == Spec => []CursorIsEarned
<1>1. ResolutionInv => CursorIsEarned
  BY InvFacts DEF CursorFits
<1> QED
  BY <1>1, ResolutionInvHolds, PTL

\* What the user wrote last is in the note, or in what it was merged to (classifier.rs
\* validate_content_predicates and the revision guard of a publication).
THEOREM EditsSurviveHolds == Spec => []EditsSurvive
<1>1. ResolutionInv => EditsSurvive
  BY InvFacts DEF WorldFits, EditsSurvive
<1> QED
  BY <1>1, ResolutionInvHolds, PTL

----------------------------------------------------------------------------
(* The three-way merge: what the two edit scripts make of the base, for every base, every
   two sides, every limit and every alignment the diff library may choose. *)

LEMMA LeastNatural ==
  ASSUME NEW S \in SUBSET Nat, S # {}
  PROVE  \E m \in S : \A n \in S : m <= n
<1>1. PICK m \in S : \A n \in S : ~ (<<n, m>> \in OpToRel(<, Nat))
  BY WFMin, NatLessThanWellFounded
<1>2. \A n \in S : ~ (n < m)
  BY <1>1 DEF OpToRel
<1> QED
  BY <1>2

\* An edit script of a text of n lines: its edits are apart, with a kept line between them.
Edits(n, T) == [start : 0..n, end : 0..n, replacement : Seq(T)]
IsScript(es, n, T) ==
  /\ es \subseteq Edits(n, T) /\ IsFiniteSet(es)
  /\ \A e \in es : e.start <= e.end
  /\ \A e, f \in es : e # f => e.end < f.start \/ f.end < e.start

\* The anchors go up in both texts.
LEMMA AnchorsGoUp ==
  ASSUME NEW T, NEW b \in Seq(T), NEW c \in Seq(T),
         NEW m \in SUBSET ((1..Len(b)) \X (1..Len(c))), Increasing(m)
  PROVE  /\ Anchors(b, c, m) \subseteq (0..Len(b) + 1) \X (0..Len(c) + 1)
         /\ \A p, q \in Anchors(b, c, m) : p # q => \/ p[1] < q[1] /\ p[2] < q[2]
                                                    \/ q[1] < p[1] /\ q[2] < p[2]
<1>1. Len(b) \in Nat /\ Len(c) \in Nat
  BY LenProperties
<1> DEFINE first == <<0, 0>>
           last == <<Len(b) + 1, Len(c) + 1>>
<1>2. Anchors(b, c, m) \subseteq (0..Len(b) + 1) \X (0..Len(c) + 1)
  BY <1>1 DEF Anchors
<1>3. ASSUME NEW p \in Anchors(b, c, m), NEW q \in Anchors(b, c, m), p # q
      PROVE  \/ p[1] < q[1] /\ p[2] < q[2]
             \/ q[1] < p[1] /\ q[2] < p[2]
  <2>1. CASE p \in m /\ q \in m
    BY <1>3, <2>1 DEF Increasing
  <2>2. CASE p \in m /\ q \notin m
    BY <1>1, <2>2 DEF Anchors
  <2>3. CASE p \notin m /\ q \in m
    BY <1>1, <2>3 DEF Anchors
  <2>4. CASE p \notin m /\ q \notin m
    BY <1>1, <1>3, <2>4 DEF Anchors
  <2> QED
    BY <2>1, <2>2, <2>3, <2>4
<1> QED
  BY <1>2, <1>3

\* Every anchor but the last one has a next one, which is the nearest.
LEMMA NextIsNearest ==
  ASSUME NEW T, NEW b \in Seq(T), NEW c \in Seq(T),
         NEW m \in SUBSET ((1..Len(b)) \X (1..Len(c))), Increasing(m),
         NEW p \in Anchors(b, c, m), p[1] <= Len(b)
  PROVE  LET q == NextAnchor(Anchors(b, c, m), p)
         IN  /\ q \in Anchors(b, c, m) /\ p[1] < q[1]
             /\ \A x \in Anchors(b, c, m) : p[1] < x[1] => q[1] <= x[1]
<1>1. Len(b) \in Nat /\ Len(c) \in Nat
  BY LenProperties
<1>2. PICK B : B = Anchors(b, c, m)
  OBVIOUS
<1>3. B \subseteq (0..Len(b) + 1) \X (0..Len(c) + 1)
  BY <1>2, AnchorsGoUp
<1>4. <<Len(b) + 1, Len(c) + 1>> \in B
  BY <1>2 DEF Anchors
<1> DEFINE later == {x[1] : x \in {y \in B : p[1] < y[1]}}
<1>5. later \in SUBSET Nat /\ later # {}
  <2>1. p[1] < Len(b) + 1
    BY <1>1, <1>2, <1>3
  <2> QED
    BY <1>1, <1>3, <1>4, <2>1
<1> HIDE DEF later
<1>6. PICK n \in later : \A k \in later : n <= k
  BY <1>5, LeastNatural
<1>7. \E q \in B : p[1] < q[1] /\ \A x \in B : p[1] < x[1] => q[1] <= x[1]
  BY <1>6 DEF later
<1> QED
  BY <1>2, <1>7 DEF NextAnchor

\* What a diff answers is a script.
LEMMA DiffIsScript ==
  ASSUME NEW T, NEW b \in Seq(T), NEW c \in Seq(T),
         NEW m \in SUBSET ((1..Len(b)) \X (1..Len(c))), Increasing(m)
  PROVE  IsScript(EditsFromMyers(b, c, m), Len(b), T)
<1>1. Len(b) \in Nat /\ Len(c) \in Nat
  BY LenProperties
<1>2. PICK B : B = Anchors(b, c, m)
  OBVIOUS
<1> DEFINE next(p) == NextAnchor(B, p)
           edit(p) == [start |-> p[1], end |-> next(p)[1] - 1,
                       replacement |-> SubSeq(c, p[2] + 1, next(p)[2] - 1)]
           runs == {p \in B : p[1] <= Len(b) /\ next(p) # <<p[1] + 1, p[2] + 1>>}
           E == {edit(p) : p \in runs}
<1>3. EditsFromMyers(b, c, m) = E
  BY <1>2 DEF EditsFromMyers
<1>4. /\ B \subseteq (0..Len(b) + 1) \X (0..Len(c) + 1)
      /\ \A p, q \in B : p # q => \/ p[1] < q[1] /\ p[2] < q[2]
                                  \/ q[1] < p[1] /\ q[2] < p[2]
  BY <1>2, AnchorsGoUp
<1>5. \A p \in runs : /\ next(p) \in B /\ p[1] < next(p)[1]
                      /\ \A x \in B : p[1] < x[1] => next(p)[1] <= x[1]
  BY <1>2, NextIsNearest
<1> HIDE DEF next
<1>6. \A p \in runs : edit(p) \in Edits(Len(b), T) /\ edit(p).start <= edit(p).end
  <2> SUFFICES ASSUME NEW p \in runs
               PROVE  edit(p) \in Edits(Len(b), T) /\ edit(p).start <= edit(p).end
    OBVIOUS
  <2>1. /\ p[1] \in 0..Len(b) /\ p[2] \in 0..Len(c) + 1
        /\ next(p)[1] \in 0..Len(b) + 1 /\ next(p)[2] \in 0..Len(c) + 1 /\ p[1] < next(p)[1]
    BY <1>1, <1>4, <1>5
  <2>2. \A i \in p[2] + 1 .. next(p)[2] - 1 : c[i] \in T
    BY <1>1, <2>1, ElementOfSeq
  <2>3. SubSeq(c, p[2] + 1, next(p)[2] - 1) \in Seq(T)
    BY <1>1, <2>1, <2>2, SubSeqProperties
  <2> QED
    BY <1>1, <2>1, <2>3 DEF Edits
<1>7. \A p, q \in runs : p[1] < q[1] => edit(p).end < edit(q).start
  <2> SUFFICES ASSUME NEW p \in runs, NEW q \in runs, p[1] < q[1]
               PROVE  edit(p).end < edit(q).start
    OBVIOUS
  <2>1. next(p)[1] <= q[1]
    BY <1>5
  <2>2. next(p)[1] \in Nat /\ q[1] \in Nat
    BY <1>1, <1>4, <1>5
  <2> QED
    BY <2>1, <2>2
<1>8. \A e, f \in E : e # f => e.end < f.start \/ f.end < e.start
  <2> SUFFICES ASSUME NEW p \in runs, NEW q \in runs, edit(p) # edit(q)
               PROVE  edit(p).end < edit(q).start \/ edit(q).end < edit(p).start
    OBVIOUS
  <2>1. p # q
    OBVIOUS
  <2>2. p[1] < q[1] \/ q[1] < p[1]
    BY <1>4, <2>1
  <2> QED
    BY <1>7, <2>2
<1>9. E \subseteq Edits(Len(b), T) /\ \A e \in E : e.start <= e.end
  BY <1>6
<1> HIDE DEF E
<1>10. IsFiniteSet(E)
  <2> DEFINE starts == [e \in E |-> e.start]
  <2>1. starts \in Injection(E, 0..Len(b))
    <3>1. starts \in [E -> 0..Len(b)]
      BY <1>9 DEF Edits
    <3>2. \A e, f \in E : e.start = f.start => e = f
      <4> SUFFICES ASSUME NEW e \in E, NEW f \in E, e.start = f.start, e # f PROVE FALSE
        OBVIOUS
      <4>1. e.start \in Nat /\ e.end \in Nat /\ f.start \in Nat /\ f.end \in Nat
        BY <1>1, <1>9 DEF Edits
      <4> QED
        BY <1>8, <1>9, <4>1
    <3> QED
      BY <3>1, <3>2 DEF Injection, IsInjective
  <2>2. IsFiniteSet(0..Len(b))
    BY <1>1, FS_Interval
  <2> HIDE DEF starts
  <2> QED
    BY <2>1, <2>2, FS_Injection
<1> QED
  BY <1>3, <1>8, <1>9, <1>10 DEF IsScript
-----------------------------------------------------------------------------
(* Both scripts at once. *)

\* Edits that can be carried out together: one is over before the next starts.
IsCombined(es, n, T) ==
  /\ es \subseteq Edits(n, T) /\ IsFiniteSet(es)
  /\ \A e \in es : e.start <= e.end
  /\ \A e, f \in es : e # f => e.start < f.start \/ f.start < e.start
  /\ \A e, f \in es : e.start < f.start => e.end <= f.start

\* An edit both sides made counts once.
LEMMA NewEditsAreTheOthers ==
  ASSUME NEW n, NEW T, NEW le \in SUBSET Edits(n, T), NEW re \in SUBSET Edits(n, T)
  PROVE  NewEdits(le, re) = re \ le
<1>1. \A e, f \in Edits(n, T) : SameEdit(e, f) <=> e = f
  BY DEF SameEdit, Edits
<1> QED
  BY <1>1 DEF NewEdits

\* Two edits that do not overlap are in an order.
LEMMA ApartInOrder ==
  ASSUME NEW n \in Nat, NEW T, NEW e \in Edits(n, T), NEW f \in Edits(n, T),
         e.start <= e.end, f.start <= f.end, ~EditsOverlap(e, f)
  PROVE  \/ e.start < f.start /\ e.end <= f.start
         \/ f.start < e.start /\ f.end <= e.start
<1>1. e.start \in Nat /\ e.end \in Nat /\ f.start \in Nat /\ f.end \in Nat
  BY DEF Edits
<1>2. CASE Empty(e) /\ Empty(f)
  BY <1>1, <1>2 DEF Empty, EditsOverlap
<1>3. CASE Empty(e) /\ ~Empty(f)
  BY <1>1, <1>3 DEF Empty, EditsOverlap
<1>4. CASE ~Empty(e) /\ Empty(f)
  BY <1>1, <1>4 DEF Empty, EditsOverlap
<1>5. CASE ~Empty(e) /\ ~Empty(f)
  BY <1>1, <1>5 DEF Empty, EditsOverlap
<1> QED
  BY <1>2, <1>3, <1>4, <1>5

\* It does not matter which of the two is asked first.
LEMMA OverlapIsSymmetric ==
  ASSUME NEW n \in Nat, NEW T, NEW e \in Edits(n, T), NEW f \in Edits(n, T)
  PROVE  EditsOverlap(e, f) <=> EditsOverlap(f, e)
<1>1. e.start \in Nat /\ e.end \in Nat /\ f.start \in Nat /\ f.end \in Nat
  BY DEF Edits
<1>2. CASE Empty(e) /\ Empty(f)
  BY <1>1, <1>2 DEF Empty, EditsOverlap
<1>3. CASE Empty(e) /\ ~Empty(f)
  BY <1>1, <1>3 DEF Empty, EditsOverlap
<1>4. CASE ~Empty(e) /\ Empty(f)
  BY <1>1, <1>4 DEF Empty, EditsOverlap
<1>5. CASE ~Empty(e) /\ ~Empty(f)
  BY <1>1, <1>5 DEF Empty, EditsOverlap
<1> QED
  BY <1>2, <1>3, <1>4, <1>5

\* Two edits of one script do not overlap.
LEMMA ScriptIsApart ==
  ASSUME NEW n \in Nat, NEW T, NEW es, IsScript(es, n, T), NEW e \in es, NEW f \in es, e # f
  PROVE  ~EditsOverlap(e, f)
<1>1. /\ e.start \in Nat /\ e.end \in Nat /\ f.start \in Nat /\ f.end \in Nat
      /\ e.start <= e.end /\ f.start <= f.end
  BY DEF IsScript, Edits
<1>2. e.end < f.start \/ f.end < e.start
  BY DEF IsScript
<1>3. CASE Empty(e) /\ Empty(f)
  BY <1>1, <1>2, <1>3 DEF Empty, EditsOverlap
<1>4. CASE Empty(e) /\ ~Empty(f)
  BY <1>1, <1>2, <1>4 DEF Empty, EditsOverlap
<1>5. CASE ~Empty(e) /\ Empty(f)
  BY <1>1, <1>2, <1>5 DEF Empty, EditsOverlap
<1>6. CASE ~Empty(e) /\ ~Empty(f)
  BY <1>1, <1>2, <1>6 DEF Empty, EditsOverlap
<1> QED
  BY <1>3, <1>4, <1>5, <1>6

\* Nor does it matter whose script comes first: the test passes over the edits both made,
\* and those are apart from the others as parts of a script.
LEMMA OverlappingIsSymmetric ==
  ASSUME NEW n \in Nat, NEW T, NEW le, NEW re, IsScript(le, n, T), IsScript(re, n, T),
         Overlapping(le, re)
  PROVE  Overlapping(re, le)
<1>1. le \in SUBSET Edits(n, T) /\ re \in SUBSET Edits(n, T)
  BY DEF IsScript
<1>2. PICK e \in le, f \in re \ le : EditsOverlap(e, f)
  BY <1>1, NewEditsAreTheOthers DEF Overlapping
<1>3. e \notin re
  BY <1>2, ScriptIsApart
<1>4. EditsOverlap(f, e)
  BY <1>1, <1>2, OverlapIsSymmetric
<1> QED
  BY <1>1, <1>2, <1>3, <1>4, NewEditsAreTheOthers DEF Overlapping

LEMMA ScriptsCombine ==
  ASSUME NEW n \in Nat, NEW T, NEW le, NEW re, IsScript(le, n, T), IsScript(re, n, T),
         ~Overlapping(le, re)
  PROVE  /\ le \cup NewEdits(le, re) = le \cup re
         /\ IsCombined(le \cup re, n, T)
<1>1. le \in SUBSET Edits(n, T) /\ re \in SUBSET Edits(n, T)
  BY DEF IsScript
<1>2. NewEdits(le, re) = re \ le
  BY <1>1, NewEditsAreTheOthers
<1>3. le \cup NewEdits(le, re) = le \cup re
  BY <1>2
<1>4. \A e, f \in le \cup re : e # f => ~EditsOverlap(e, f)
  <2> SUFFICES ASSUME NEW e \in le \cup re, NEW f \in le \cup re, e # f
               PROVE  ~EditsOverlap(e, f)
    OBVIOUS
  <2>1. CASE e \in le /\ f \in le
    BY <2>1, ScriptIsApart
  <2>2. CASE e \in re /\ f \in re
    BY <2>2, ScriptIsApart
  <2>3. CASE e \in le /\ f \in re \ le
    BY <1>2, <2>3 DEF Overlapping
  <2>4. CASE f \in le /\ e \in re \ le
    <3>1. ~EditsOverlap(f, e)
      BY <1>2, <2>4 DEF Overlapping
    <3> QED
      BY <1>1, <3>1, OverlapIsSymmetric
  <2> QED
    BY <2>1, <2>2, <2>3, <2>4
<1>5. \A e \in le \cup re : e \in Edits(n, T) /\ e.start <= e.end
  BY <1>1 DEF IsScript
<1>6. ASSUME NEW e \in le \cup re, NEW f \in le \cup re, e # f
      PROVE  \/ e.start < f.start /\ e.end <= f.start
             \/ f.start < e.start /\ f.end <= e.start
  BY <1>4, <1>5, <1>6, ApartInOrder
<1>7. \A e, f \in le \cup re : e.start < f.start => e.end <= f.start
  <2> SUFFICES ASSUME NEW e \in le \cup re, NEW f \in le \cup re, e.start < f.start
               PROVE  e.end <= f.start
    OBVIOUS
  <2>1. e.start \in Nat /\ f.start \in Nat
    BY <1>5 DEF Edits
  <2>2. e # f /\ ~(f.start < e.start)
    BY <2>1
  <2> QED
    BY <1>6, <2>2
<1>8. IsFiniteSet(le \cup re)
  BY FS_Union DEF IsScript
<1> QED
  BY <1>3, <1>5, <1>6, <1>7, <1>8 DEF IsCombined

-----------------------------------------------------------------------------
(* The sort. *)

\* A list of the edits in the order of their places.
Ascending(s, es) ==
  /\ s \in [1..Cardinality(es) -> es]
  /\ \A e \in es : \E i \in 1..Cardinality(es) : s[i] = e
  /\ \A i, j \in 1..Cardinality(es) : i < j => s[i].start < s[j].start

LEMMA CountUpTo == \A N \in Nat : IsFiniteSet(1..N) /\ Cardinality(1..N) = N
<1> SUFFICES ASSUME NEW N \in Nat PROVE IsFiniteSet(1..N) /\ Cardinality(1..N) = N
  OBVIOUS
<1>1. IsFiniteSet(1..N) /\ Cardinality(1..N) = IF 1 > N THEN 0 ELSE N - 1 + 1
  BY FS_Interval
<1> QED
  BY <1>1

\* A list in the order of the places holds no edit twice.
LEMMA AscendingIsInjective ==
  ASSUME NEW N \in Nat, NEW es, \A e \in es : e.start \in Nat, NEW s \in [1..N -> es],
         \A i, j \in 1..N : i < j => s[i].start < s[j].start
  PROVE  \A i, j \in 1..N : i # j => s[i] # s[j]
<1> SUFFICES ASSUME NEW i \in 1..N, NEW j \in 1..N, i # j PROVE s[i] # s[j]
  OBVIOUS
<1>1. s[i].start < s[j].start \/ s[j].start < s[i].start
  OBVIOUS
<1>2. s[i].start \in Nat /\ s[j].start \in Nat
  OBVIOUS
<1> QED
  BY <1>1, <1>2

\* There is one: every edit at the place that counts the edits up to it.
LEMMA CanBeSorted ==
  ASSUME NEW n \in Nat, NEW T, NEW es, IsCombined(es, n, T)
  PROVE  \E s : Ascending(s, es)
<1> DEFINE upTo(e) == {f \in es : f.start <= e.start}
           rank == [e \in es |-> Cardinality(upTo(e))]
           N == Cardinality(es)
<1>1. IsFiniteSet(es) /\ N \in Nat
  BY FS_CardinalityType DEF IsCombined
<1>2. \A e \in es : e.start \in Nat
  BY DEF IsCombined, Edits
<1>3. \A e \in es : rank[e] \in 1..N
  <2> SUFFICES ASSUME NEW e \in es PROVE rank[e] \in 1..N
    OBVIOUS
  <2>1. e \in upTo(e) /\ upTo(e) \in SUBSET es
    BY <1>2
  <2>2. IsFiniteSet(upTo(e)) /\ Cardinality(upTo(e)) <= N
    BY <1>1, <2>1, FS_Subset
  <2>3. Cardinality(upTo(e)) \in Nat /\ Cardinality(upTo(e)) # 0
    BY <2>1, <2>2, FS_CardinalityType, FS_EmptySet
  <2> QED
    BY <1>1, <2>2, <2>3
<1>4. \A e, f \in es : e.start < f.start => rank[e] < rank[f]
  <2> SUFFICES ASSUME NEW e \in es, NEW f \in es, e.start < f.start PROVE rank[e] < rank[f]
    OBVIOUS
  <2>1. upTo(e) \in SUBSET upTo(f) /\ f \in upTo(f) /\ f \notin upTo(e)
    BY <1>2
  <2>2. IsFiniteSet(upTo(f))
    BY <1>1, FS_Subset
  <2>3. Cardinality(upTo(e)) <= Cardinality(upTo(f)) /\ Cardinality(upTo(e)) # Cardinality(upTo(f))
    BY <2>1, <2>2, FS_Subset
  <2>4. rank[e] \in Nat /\ rank[f] \in Nat
    BY <1>3, <1>1
  <2> QED
    BY <2>3, <2>4
<1>5. \A e, f \in es : e # f => e.start < f.start \/ f.start < e.start
  BY DEF IsCombined
<1>6. rank \in [es -> 1..N]
  BY <1>3
<1> HIDE DEF rank
<1>7. \A e, f \in es : rank[e] = rank[f] => e = f
  <2> SUFFICES ASSUME NEW e \in es, NEW f \in es, rank[e] = rank[f], e # f PROVE FALSE
    OBVIOUS
  <2>1. rank[e] < rank[f] \/ rank[f] < rank[e]
    BY <1>4, <1>5
  <2>2. rank[e] \in Nat /\ rank[f] \in Nat
    BY <1>1, <1>6
  <2> QED
    BY <2>1, <2>2
<1>8. rank \in Injection(es, 1..N)
  BY <1>6, <1>7 DEF Injection, IsInjective
<1>9. IsFiniteSet(1..N) /\ Cardinality(1..N) = N
  BY <1>1, CountUpTo
<1>10. rank \in Surjection(es, 1..N)
  BY <1>8, <1>9, FS_Injection
<1>11. \A i \in 1..N : \E e \in es : rank[e] = i
  BY <1>10 DEF Surjection
<1> DEFINE s == [i \in 1..N |-> CHOOSE e \in es : rank[e] = i]
<1>12. \A i \in 1..N : s[i] \in es /\ rank[s[i]] = i
  BY <1>11
<1>13. s \in [1..N -> es]
  BY <1>12
<1> HIDE DEF s
<1>14. \A e \in es : s[rank[e]] = e
  BY <1>6, <1>7, <1>12
<1>15. \A i, j \in 1..N : i < j => s[i].start < s[j].start
  <2> SUFFICES ASSUME NEW i \in 1..N, NEW j \in 1..N, i < j PROVE s[i].start < s[j].start
    OBVIOUS
  <2>1. s[i] # s[j]
    BY <1>1, <1>12
  <2>2. ~(s[j].start < s[i].start)
    <3>1. SUFFICES ASSUME s[j].start < s[i].start PROVE FALSE
      OBVIOUS
    <3>2. rank[s[j]] < rank[s[i]]
      BY <1>4, <1>12, <3>1
    <3> QED
      BY <1>1, <1>12, <3>2
  <2> QED
    BY <1>5, <1>12, <2>1, <2>2
<1> QED
  BY <1>6, <1>13, <1>14, <1>15 DEF Ascending

\* The merge's list is one.
LEMMA CombineEditsSorts ==
  ASSUME NEW n \in Nat, NEW T, NEW le, NEW re, IsScript(le, n, T), IsScript(re, n, T),
         ~Overlapping(le, re)
  PROVE  Ascending(CombineEdits(le, re), le \cup re)
<1> DEFINE before(e, f) == \/ e.start < f.start
                           \/ e.start = f.start /\ e.end < f.end
                           \/ SameRange(e, f) /\ e \in le /\ f \notin le
           N == Cardinality(le \cup re)
           sorted(s) == \A i, j \in 1..Len(s) : i < j => before(s[i], s[j])
<1>1. le \cup NewEdits(le, re) = le \cup re /\ IsCombined(le \cup re, n, T)
  BY ScriptsCombine
<1>2. CombineEdits(le, re) = CHOOSE s \in SetToSeqs(le \cup re) : sorted(s)
  BY <1>1 DEF CombineEdits, IsSorted
<1>3. N \in Nat /\ \A e \in le \cup re : e.start \in Nat
  BY <1>1, FS_CardinalityType DEF IsCombined, Edits
<1>4. \A s \in [1..N -> le \cup re] : Len(s) = N
  BY <1>3
<1>5. PICK t : Ascending(t, le \cup re)
  BY <1>1, CanBeSorted
<1>6. t \in SetToSeqs(le \cup re) /\ sorted(t)
  <2>1. t \in [1..N -> le \cup re] /\ \A i, j \in 1..N : i < j => t[i].start < t[j].start
    BY <1>5 DEF Ascending
  <2>2. \A i, j \in 1..N : i # j => t[i] # t[j]
    BY <1>3, <2>1, AscendingIsInjective
  <2> QED
    BY <1>4, <2>1, <2>2 DEF SetToSeqs
<1>7. PICK s : s = CombineEdits(le, re)
  OBVIOUS
<1>8. s \in SetToSeqs(le \cup re) /\ sorted(s)
  BY <1>2, <1>6, <1>7
<1> HIDE DEF N
<1>9. s \in [1..N -> le \cup re] /\ \A i, j \in 1..N : i # j => s[i] # s[j]
  BY <1>8 DEF SetToSeqs, N
<1>10. \A i, j \in 1..N : i < j => s[i].start < s[j].start
  <2> SUFFICES ASSUME NEW i \in 1..N, NEW j \in 1..N, i < j PROVE s[i].start < s[j].start
    OBVIOUS
  <2>1. s[i] \in le \cup re /\ s[j] \in le \cup re /\ s[i] # s[j]
    BY <1>3, <1>9
  <2>2. before(s[i], s[j])
    BY <1>4, <1>8, <1>9
  <2>3. s[i].start # s[j].start
    BY <1>1, <1>3, <2>1 DEF IsCombined
  <2> QED
    BY <2>2, <2>3 DEF SameRange
<1>11. \A e \in le \cup re : \E i \in 1..N : s[i] = e
  <2>1. s \in Injection(1..N, le \cup re)
    BY <1>9 DEF Injection, IsInjective
  <2>2. IsFiniteSet(1..N) /\ Cardinality(1..N) = N
    BY <1>3, CountUpTo
  <2>3. IsFiniteSet(le \cup re) /\ Cardinality(le \cup re) = N
    BY <1>1 DEF IsCombined, N
  <2>4. s \in Surjection(1..N, le \cup re)
    BY <2>1, <2>2, <2>3, FS_Injection
  <2> QED
    BY <2>4 DEF Surjection
<1> QED
  BY <1>7, <1>9, <1>10, <1>11 DEF Ascending, N

\* And there is only one.
LEMMA SortedIsUnique ==
  ASSUME NEW n \in Nat, NEW T, NEW es, IsCombined(es, n, T),
         NEW s, NEW t, Ascending(s, es), Ascending(t, es)
  PROVE  s = t
<1>0. PICK N : N = Cardinality(es)
  OBVIOUS
<1> DEFINE P == {i \in 1..N : s[i] # t[i]}
<1>1. N \in Nat /\ \A e \in es : e.start \in Nat
  BY <1>0, FS_CardinalityType DEF IsCombined, Edits
<1>2. /\ s \in [1..N -> es] /\ t \in [1..N -> es]
      /\ \A i, j \in 1..N : i < j => s[i].start < s[j].start
      /\ \A i, j \in 1..N : i < j => t[i].start < t[j].start
      /\ \A e \in es : (\E i \in 1..N : s[i] = e) /\ (\E i \in 1..N : t[i] = e)
  BY <1>0 DEF Ascending
<1>3. \A a, c \in 1..N : a # c => s[a] # s[c]
  <2>1. s \in [1..N -> es] /\ \A i, j \in 1..N : i < j => s[i].start < s[j].start
    BY <1>2
  <2> QED
    BY <1>1, <2>1, AscendingIsInjective
<1>4. \A a, c \in 1..N : a # c => t[a] # t[c]
  <2>1. t \in [1..N -> es] /\ \A i, j \in 1..N : i < j => t[i].start < t[j].start
    BY <1>2
  <2> QED
    BY <1>1, <2>1, AscendingIsInjective
<1>5. P = {}
  <2> SUFFICES ASSUME P # {} PROVE FALSE
    OBVIOUS
  <2>1. P \in SUBSET Nat
    BY <1>1
  <2> HIDE DEF P
  <2>2. PICK i \in P : \A j \in P : i <= j
    BY <2>1, LeastNatural
  <2>3. i \in 1..N /\ s[i] # t[i] /\ \A j \in 1..N : j < i => s[j] = t[j]
    BY <1>1, <2>2 DEF P
  <2>4. PICK k \in 1..N, l \in 1..N : t[k] = s[i] /\ s[l] = t[i]
    BY <1>2, <2>3
  <2>5. k # i /\ l # i
    BY <2>3, <2>4
  <2>6. ~(k < i) /\ ~(l < i)
    BY <1>3, <1>4, <2>3, <2>4
  <2>7. k > i /\ l > i
    BY <1>1, <2>3, <2>5, <2>6
  <2>8. t[i].start < t[k].start /\ s[i].start < s[l].start
    BY <1>2, <2>3, <2>4, <2>7
  <2>9. s[i].start \in Nat /\ t[i].start \in Nat
    BY <1>1, <1>2, <2>3
  <2> QED
    BY <2>4, <2>8, <2>9
<1>6. \A i \in 1..N : s[i] = t[i]
  BY <1>5
<1>7. s = [i \in 1..N |-> s[i]] /\ t = [i \in 1..N |-> t[i]]
  BY <1>2
<1> QED
  BY <1>6, <1>7
-----------------------------------------------------------------------------
(* The answer to the exchanged call. *)

LEMMA CombineIsSymmetric ==
  ASSUME NEW n \in Nat, NEW T, NEW le, NEW re, IsScript(le, n, T), IsScript(re, n, T),
         ~Overlapping(le, re)
  PROVE  CombineEdits(le, re) = CombineEdits(re, le)
<1>1. ~Overlapping(re, le)
  BY OverlappingIsSymmetric
<1>2. PICK s, t : s = CombineEdits(le, re) /\ t = CombineEdits(re, le)
  OBVIOUS
<1>3. re \cup le = le \cup re
  OBVIOUS
<1>4. Ascending(s, le \cup re)
  BY <1>2, CombineEditsSorts
<1>5. Ascending(t, le \cup re)
  BY <1>1, <1>2, <1>3, CombineEditsSorts
<1>6. IsCombined(le \cup re, n, T)
  BY ScriptsCombine
<1>7. s = t
  BY <1>4, <1>5, <1>6, SortedIsUnique
<1> QED
  BY <1>2, <1>7

LEMMA SelectIsSymmetric == \A b, l, r : SelectThreeWay(b, l, r) = SelectThreeWay(b, r, l)
BY DEF SelectThreeWay

LEMMA ResultIsSymmetric ==
  ASSUME NEW n \in Nat, NEW T, NEW le, NEW re, IsScript(le, n, T), IsScript(re, n, T),
         NEW b, NEW l, NEW r
  PROVE  Result(b, l, r, le, re) = Result(b, r, l, re, le)
<1>1. DivergentFrontmatter(b, l, r) <=> DivergentFrontmatter(b, r, l)
  BY DEF DivergentFrontmatter
<1>2. /\ SelectThreeWay(NewlineStyle(b), NewlineStyle(l), NewlineStyle(r))
           = SelectThreeWay(NewlineStyle(b), NewlineStyle(r), NewlineStyle(l))
      /\ SelectThreeWay(FinalNewline(b), FinalNewline(l), FinalNewline(r))
           = SelectThreeWay(FinalNewline(b), FinalNewline(r), FinalNewline(l))
  BY SelectIsSymmetric
<1>3. Overlapping(le, re) <=> Overlapping(re, le)
  BY OverlappingIsSymmetric
<1>4. CASE Overlapping(le, re)
  BY <1>1, <1>2, <1>3, <1>4 DEF Result
<1>5. CASE ~Overlapping(le, re)
  <2>1. CombineEdits(le, re) = CombineEdits(re, le)
    BY <1>5, CombineIsSymmetric
  <2> QED
    BY <1>1, <1>2, <1>3, <1>5, <2>1 DEF Result
<1> QED
  BY <1>4, <1>5

-----------------------------------------------------------------------------
(* The states of a merge. *)

Alignment(t, m) == m \in Alignments(baseText.lines, t.lines)
MergeInv ==
  /\ {baseText, localText, remoteText} \subseteq BaseTexts \cup SideTexts
  /\ outcome # Pending =>
       /\ Alignment(localText, aligned.local) /\ Alignment(remoteText, aligned.remote)
       /\ outcome = MergeMarkdownThreeWay(baseText, localText, remoteText,
                                          aligned.local, aligned.remote)

LEMMA MergeInvInit == MergeInit => MergeInv
BY DEF MergeInit, MergeInv

LEMMA MergeInvStep == MergeInv /\ [MergeNext]_mergeVars => MergeInv'
<1> SUFFICES ASSUME MergeInv, [MergeNext]_mergeVars PROVE MergeInv'
  OBVIOUS
<1>1. CASE \E t \in SideTexts : EditLocalText(t) \/ EditRemoteText(t)
  BY <1>1 DEF MergeInv, EditLocalText, EditRemoteText
<1>2. CASE Merge
  <2>1. PICK ml \in Alignments(baseText.lines, localText.lines),
             mr \in Alignments(baseText.lines, remoteText.lines) :
               /\ aligned' = [local |-> ml, remote |-> mr]
               /\ outcome' = MergeMarkdownThreeWay(baseText, localText, remoteText, ml, mr)
               /\ UNCHANGED <<baseText, localText, remoteText>>
    BY <1>2 DEF Merge
  <2> QED
    BY <2>1 DEF MergeInv, Alignment
<1>3. CASE UNCHANGED mergeVars
  BY <1>3 DEF MergeInv, Alignment, mergeVars
<1> QED
  BY <1>1, <1>2, <1>3 DEF MergeNext

\* The lines of the three versions as lists over one set, and the two scripts.
LEMMA LinesOfTexts ==
  ASSUME MergeInv, outcome # Pending
  PROVE  \E T : /\ {baseText.lines, localText.lines, remoteText.lines} \subseteq Seq(T)
                /\ IsScript(LocalEdits, Len(baseText.lines), T)
                /\ IsScript(RemoteEdits, Len(baseText.lines), T)
<1> DEFINE T == Range(baseText.lines) \cup Range(localText.lines) \cup Range(remoteText.lines)
<1>1. \A t \in {baseText, localText, remoteText} : t.lines \in Seq(Range(t.lines))
  BY TextsAssumption DEF MergeInv
<1>2. \A t \in {baseText, localText, remoteText} : Range(t.lines) \subseteq T
  OBVIOUS
<1> HIDE DEF T
<1>3. \A t \in {baseText, localText, remoteText} : t.lines \in Seq(T)
  BY <1>1, <1>2, SeqMonotonic
<1>4. ASSUME NEW t \in {baseText, localText, remoteText}, NEW m, Alignment(t, m)
      PROVE  IsScript(EditsFromMyers(baseText.lines, t.lines, m), Len(baseText.lines), T)
  <2>1. m \in SUBSET ((1..Len(baseText.lines)) \X (1..Len(t.lines))) /\ Increasing(m)
    BY <1>4 DEF Alignment, Alignments
  <2>2. baseText.lines \in Seq(T) /\ t.lines \in Seq(T)
    BY <1>3
  <2> QED
    BY <2>1, <2>2, DiffIsScript
<1>5. IsScript(LocalEdits, Len(baseText.lines), T)
  BY <1>4 DEF MergeInv, LocalEdits
<1>6. IsScript(RemoteEdits, Len(baseText.lines), T)
  BY <1>4 DEF MergeInv, RemoteEdits
<1> QED
  BY <1>3, <1>5, <1>6

LEMMA SymmetryFollows == MergeInv => MergeIsSymmetric
<1> SUFFICES ASSUME MergeInv, outcome # Pending
             PROVE  LET other == MergeMarkdownThreeWay(baseText, remoteText, localText,
                                                       aligned.remote, aligned.local)
                    IN /\ other.tag = outcome.tag
                       /\ {ParseIssue(localText), ParseIssue(remoteText)} = {"none"} =>
                            other = outcome
  BY DEF MergeIsSymmetric
<1>1. outcome = MergeMarkdownThreeWay(baseText, localText, remoteText,
                                      aligned.local, aligned.remote)
  BY DEF MergeInv
<1>2. Result(baseText, localText, remoteText, LocalEdits, RemoteEdits)
        = Result(baseText, remoteText, localText, RemoteEdits, LocalEdits)
  <2>1. PICK T : /\ baseText.lines \in Seq(T)
                 /\ IsScript(LocalEdits, Len(baseText.lines), T)
                 /\ IsScript(RemoteEdits, Len(baseText.lines), T)
    BY LinesOfTexts
  <2>2. Len(baseText.lines) \in Nat
    BY <2>1, LenProperties
  <2> QED
    BY <2>1, <2>2, ResultIsSymmetric
<1>3. DiffWork(baseText, localText, remoteText) = DiffWork(baseText, remoteText, localText)
  <2>1. {Len(localText.lines), Len(remoteText.lines)}
          = {Len(remoteText.lines), Len(localText.lines)}
    OBVIOUS
  <2> QED
    BY <2>1 DEF DiffWork
<1>4. CASE FirstIssue(baseText, localText, remoteText) # "none"
  <2>1. FirstIssue(baseText, remoteText, localText) # "none"
    BY <1>4 DEF FirstIssue
  <2>2. {ParseIssue(localText), ParseIssue(remoteText)} = {"none"} =>
          FirstIssue(baseText, remoteText, localText) = FirstIssue(baseText, localText, remoteText)
    BY DEF FirstIssue
  <2> QED
    BY <1>1, <1>4, <2>1, <2>2 DEF MergeMarkdownThreeWay, Preserve
<1>5. CASE FirstIssue(baseText, localText, remoteText) = "none"
  <2>1. FirstIssue(baseText, remoteText, localText) = "none"
    BY <1>5 DEF FirstIssue
  <2>2. MergeMarkdownThreeWay(baseText, remoteText, localText, aligned.remote, aligned.local)
          = outcome
    BY <1>1, <1>2, <1>3, <1>5, <2>1 DEF MergeMarkdownThreeWay, LocalEdits, RemoteEdits
  <2> QED
    BY <2>2
<1> QED
  BY <1>4, <1>5
-----------------------------------------------------------------------------
(* The fold of apply_edits, and the lists it builds. *)

LEMMA MaxIsGreatest ==
  ASSUME NEW n \in Nat, NEW S \in SUBSET (1..n), S # {}
  PROVE  Max(S) \in S /\ \A x \in S : x <= Max(S)
<1> DEFINE down == {n - x : x \in S}
<1>1. \A x \in S : x \in Nat /\ n - x \in Nat
  OBVIOUS
<1>2. down \in SUBSET Nat /\ down # {}
  BY <1>1
<1>3. PICK m \in down : \A x \in down : m <= x
  BY <1>2, LeastNatural
<1>4. PICK y \in S : m = n - y
  BY <1>3
<1>5. \A x \in S : y >= x
  <2> SUFFICES ASSUME NEW x \in S PROVE y >= x
    OBVIOUS
  <2>1. n - y <= n - x
    BY <1>3, <1>4
  <2> QED
    BY <1>1, <2>1
<1> QED
  BY <1>5 DEF Max

Begin == [ok |-> TRUE, cursor |-> 0, lines |-> <<>>]

\* What the fold computes for every set of places, the last place last.
IsFold(h, b, es, S) ==
  h = [s \in SUBSET S |-> IF s = {} THEN Begin
                          ELSE ApplyEdit(b, h[s \ {Max(s)}], es[Max(s)])]

LEMMA ApplyEditsIsFold ==
  ASSUME NEW b, NEW es
  PROVE  LET end == (CHOOSE h : IsFold(h, b, es, DOMAIN es))[DOMAIN es]
         IN  ApplyEdits(b, es) = [end EXCEPT !.lines = end.lines \o SubSeq(b, end.cursor + 1, Len(b))]
BY DEF ApplyEdits, FoldLeft, MapThenFoldSet, IsFold, Begin

LEMMA FoldExists ==
  ASSUME NEW b, NEW es
  PROVE  \A n \in Nat : \E h : IsFold(h, b, es, 1..n)
<1> DEFINE P == {n \in Nat : ~ \E h : IsFold(h, b, es, 1..n)}
<1> SUFFICES ASSUME P # {} PROVE FALSE
  OBVIOUS
<1> HIDE DEF P
<1>1. PICK n \in P : \A k \in P : n <= k
  BY LeastNatural DEF P
<1>2. n \in Nat /\ ~ \E h : IsFold(h, b, es, 1..n)
  BY <1>1 DEF P
<1>3. CASE n = 0
  <2> DEFINE h == [s \in SUBSET (1..n) |-> Begin]
  <2>1. \A s \in SUBSET (1..n) : s = {}
    BY <1>3
  <2>2. IsFold(h, b, es, 1..n)
    BY <2>1 DEF IsFold
  <2> QED
    BY <1>2, <2>2
<1>4. CASE n # 0
  <2>1. n - 1 \in Nat /\ n - 1 \notin P
    BY <1>1, <1>2, <1>4
  <2>2. PICK g : IsFold(g, b, es, 1..n - 1)
    BY <2>1 DEF P
  <2> DEFINE h == [s \in SUBSET (1..n) |-> IF n \in s THEN ApplyEdit(b, g[s \ {n}], es[n])
                                           ELSE g[s]]
  <2>3. ASSUME NEW s \in SUBSET (1..n)
        PROVE  h[s] = IF s = {} THEN Begin ELSE ApplyEdit(b, h[s \ {Max(s)}], es[Max(s)])
    <3>1. CASE n \in s
      <4>1. Max(s) = n
        <5>1. Max(s) \in s /\ n <= Max(s)
          BY <1>2, <3>1, MaxIsGreatest
        <5>2. Max(s) \in 1..n
          BY <5>1
        <5> QED
          BY <1>2, <5>1, <5>2
      <4>2. s \ {n} \in SUBSET (1..n) /\ n \notin s \ {n}
        OBVIOUS
      <4>3. h[s \ {n}] = g[s \ {n}]
        BY <4>2
      <4> QED
        BY <3>1, <4>1, <4>3
    <3>2. CASE n \notin s /\ s # {}
      <4>1. s \in SUBSET (1..n - 1)
        BY <1>2, <3>2
      <4>2. g[s] = ApplyEdit(b, g[s \ {Max(s)}], es[Max(s)])
        BY <2>2, <3>2, <4>1 DEF IsFold
      <4>3. s \ {Max(s)} \in SUBSET (1..n) /\ n \notin s \ {Max(s)}
        BY <3>2
      <4>4. h[s] = g[s] /\ h[s \ {Max(s)}] = g[s \ {Max(s)}]
        BY <3>2, <4>3
      <4> QED
        BY <3>2, <4>2, <4>4
    <3>3. CASE s = {}
      <4>1. {} \in SUBSET (1..n - 1)
        OBVIOUS
      <4>2. g[{}] = Begin
        BY <2>2, <4>1 DEF IsFold
      <4> QED
        BY <3>3, <4>2
    <3> QED
      BY <3>1, <3>2, <3>3
  <2>4. h = [s \in SUBSET (1..n) |-> h[s]]
    OBVIOUS
  <2> HIDE DEF h
  <2>5. IsFold(h, b, es, 1..n)
    BY <2>3, <2>4 DEF IsFold
  <2> QED
    BY <1>2, <2>5
<1> QED
  BY <1>3, <1>4

\* One edit after the other.
LEMMA ApplyEditsUnrolls ==
  ASSUME NEW b, NEW n \in Nat, NEW es, DOMAIN es = 1..n
  PROVE  \E a : /\ a[0] = Begin
                /\ \A k \in 1..n : a[k] = ApplyEdit(b, a[k - 1], es[k])
                /\ ApplyEdits(b, es)
                     = [a[n] EXCEPT !.lines = a[n].lines \o SubSeq(b, a[n].cursor + 1, Len(b))]
<1>1. PICK h : h = CHOOSE g : IsFold(g, b, es, 1..n)
  OBVIOUS
<1>2. IsFold(h, b, es, 1..n)
  BY <1>1, FoldExists
<1> DEFINE a == [k \in 0..n |-> h[1..k]]
<1>3. a[0] = Begin
  <2>1. 1..0 = {} /\ {} \in SUBSET (1..n)
    OBVIOUS
  <2>2. h[{}] = Begin
    BY <1>2, <2>1 DEF IsFold
  <2> QED
    BY <2>1, <2>2
<1>4. ASSUME NEW k \in 1..n PROVE a[k] = ApplyEdit(b, a[k - 1], es[k])
  <2>1. 1..k \in SUBSET (1..n) /\ 1..k # {} /\ k \in 1..k
    <3>1. k \in Nat /\ 1 <= k /\ k <= n
      OBVIOUS
    <3> QED
      BY <3>1
  <2>2. Max(1..k) = k
    <3>1. Max(1..k) \in 1..k /\ k <= Max(1..k)
      BY <2>1, MaxIsGreatest
    <3> QED
      BY <3>1
  <2>3. (1..k) \ {k} = 1..k - 1
    OBVIOUS
  <2>4. h[1..k] = ApplyEdit(b, h[1..k - 1], es[k])
    <3>1. h[1..k] = ApplyEdit(b, h[(1..k) \ {Max(1..k)}], es[Max(1..k)])
      BY <1>2, <2>1 DEF IsFold
    <3> QED
      BY <2>2, <2>3, <3>1
  <2>5. a[k] = h[1..k] /\ a[k - 1] = h[1..k - 1]
    OBVIOUS
  <2> QED
    BY <2>4, <2>5
<1>5. a[n] = h[1..n]
  OBVIOUS
<1>6. ApplyEdits(b, es) = [a[n] EXCEPT !.lines = a[n].lines \o SubSeq(b, a[n].cursor + 1, Len(b))]
  BY <1>1, <1>5, ApplyEditsIsFold
<1> HIDE DEF a
<1> QED
  BY <1>3, <1>4, <1>6

\* The lists up to each place of a list of lists.
Unrolls(f, q, n) == f[0] = <<>> /\ \A j \in 1..n : f[j] = f[j - 1] \o q[j]

LEMMA UnrollExists ==
  ASSUME NEW T, NEW n \in Nat, NEW q \in [1..n -> Seq(T)]
  PROVE  \E f \in [0..n -> Seq(T)] : Unrolls(f, q, n)
<1> DEFINE P == {k \in 0..n : ~ \E f \in [0..k -> Seq(T)] : Unrolls(f, q, k)}
<1>1. P = {}
  <2> SUFFICES ASSUME P # {} PROVE FALSE
    OBVIOUS
  <2>1. P \in SUBSET Nat
    OBVIOUS
  <2> HIDE DEF P
  <2>2. PICK k \in P : \A j \in P : k <= j
    BY <2>1, LeastNatural
  <2>3. k \in 0..n /\ ~ \E f \in [0..k -> Seq(T)] : Unrolls(f, q, k)
    BY <2>2 DEF P
  <2>4. CASE k = 0
    <3> DEFINE f == [j \in 0..k |-> <<>>]
    <3>1. f \in [0..k -> Seq(T)] /\ f[0] = <<>> /\ 1..k = {}
      BY <2>4
    <3>2. Unrolls(f, q, k)
      BY <3>1 DEF Unrolls
    <3> QED
      BY <2>3, <3>1, <3>2
  <2>5. CASE k # 0
    <3>1. k \in Nat /\ k - 1 \in 0..n /\ k - 1 \notin P
      BY <2>2, <2>3, <2>5
    <3>2. PICK g \in [0..k - 1 -> Seq(T)] : Unrolls(g, q, k - 1)
      BY <3>1 DEF P
    <3> DEFINE f == [j \in 0..k |-> IF j = k THEN g[k - 1] \o q[k] ELSE g[j]]
    <3>3. g[k - 1] \o q[k] \in Seq(T)
      <4>1. g[k - 1] \in Seq(T) /\ q[k] \in Seq(T)
        BY <2>3, <2>5, <3>1
      <4> QED
        BY <4>1, ConcatProperties
    <3>4. f \in [0..k -> Seq(T)]
      <4>1. \A j \in 0..k : j # k => j \in 0..k - 1
        BY <3>1
      <4> QED
        BY <3>3, <4>1
    <3>5. f[0] = <<>>
      BY <2>5, <3>1, <3>2 DEF Unrolls
    <3>6. ASSUME NEW j \in 1..k PROVE f[j] = f[j - 1] \o q[j]
      <4>1. CASE j = k
        <5>1. k - 1 \in 0..k /\ k - 1 # k /\ k \in 0..k
          BY <3>1
        <5>2. f[k - 1] = g[k - 1]
          BY <5>1
        <5>3. f[k] = g[k - 1] \o q[k]
          BY <5>1
        <5> QED
          BY <4>1, <5>2, <5>3
      <4>2. CASE j # k
        <5>1. j \in 1..k - 1 /\ j - 1 \in 0..k /\ j - 1 # k
          BY <3>1, <4>2
        <5>2. f[j] = g[j] /\ f[j - 1] = g[j - 1]
          BY <4>2, <5>1
        <5> QED
          BY <3>2, <5>1, <5>2 DEF Unrolls
      <4> QED
        BY <4>1, <4>2
    <3> HIDE DEF f
    <3> QED
      BY <2>3, <3>4, <3>5, <3>6 DEF Unrolls
  <2> QED
    BY <2>4, <2>5
<1>2. n \in 0..n
  OBVIOUS
<1>3. n \notin P
  BY <1>1
<1> QED
  BY <1>2, <1>3

LEMMA FlattenUnrolls ==
  ASSUME NEW T, NEW n \in Nat \ {0}, NEW q \in [1..n -> Seq(T)],
         NEW f \in [0..n -> Seq(T)], Unrolls(f, q, n)
  PROVE  FlattenSeq(q) = f[n]
<1> DEFINE Is(g) == g = [i \in 1..n |-> IF i = 1 THEN q[i] ELSE g[i - 1] \o q[i]]
<1>1. Len(q) = n
  OBVIOUS
<1>2. FlattenSeq(q) = (CHOOSE g : Is(g))[n]
  BY <1>1 DEF FlattenSeq
<1>3. f[1] = q[1]
  <2>1. 1 \in 1..n
    OBVIOUS
  <2>2. f[1] = f[1 - 1] \o q[1] /\ f[0] = <<>> /\ q[1] \in Seq(T)
    BY <2>1 DEF Unrolls
  <2>3. <<>> \o q[1] = q[1]
    BY <2>2, ConcatEmptySeq
  <2>4. 1 - 1 = 0
    OBVIOUS
  <2> QED
    BY <2>2, <2>3, <2>4
<1>4. Is([i \in 1..n |-> f[i]])
  <2> DEFINE h == [i \in 1..n |-> f[i]]
  <2>1. ASSUME NEW i \in 1..n PROVE h[i] = IF i = 1 THEN q[i] ELSE h[i - 1] \o q[i]
    <3>1. CASE i = 1
      BY <1>3, <3>1
    <3>2. CASE i # 1
      <4>1. i - 1 \in 1..n
        BY <3>2
      <4> QED
        BY <3>2, <4>1 DEF Unrolls
    <3> QED
      BY <3>1, <3>2
  <2>2. h = [i \in 1..n |-> h[i]]
    OBVIOUS
  <2> HIDE DEF h
  <2>3. Is(h)
    BY <2>1, <2>2
  <2> QED
    BY <2>3 DEF h
<1>5. PICK g : g = CHOOSE h : Is(h)
  OBVIOUS
<1>6. Is(g)
  BY <1>4, <1>5
<1> DEFINE P == {i \in 1..n : g[i] # f[i]}
<1>7. P = {}
  <2> SUFFICES ASSUME P # {} PROVE FALSE
    OBVIOUS
  <2>1. P \in SUBSET Nat
    OBVIOUS
  <2> HIDE DEF P
  <2>2. PICK k \in P : \A j \in P : k <= j
    BY <2>1, LeastNatural
  <2>3. k \in 1..n /\ g[k] # f[k]
    BY <2>2 DEF P
  <2>4. k # 1
    BY <1>3, <1>6, <2>3
  <2>5. k - 1 \in 1..n /\ k - 1 \notin P
    BY <2>2, <2>3, <2>4
  <2>6. g[k - 1] = f[k - 1]
    BY <2>5 DEF P
  <2>7. g[k] = g[k - 1] \o q[k]
    BY <1>6, <2>3, <2>4
  <2> QED
    BY <2>3, <2>6, <2>7 DEF Unrolls
<1>8. n \in 1..n
  OBVIOUS
<1>9. n \notin P
  BY <1>7
<1>10. g[n] = f[n]
  BY <1>8, <1>9
<1> QED
  BY <1>2, <1>5, <1>10
-----------------------------------------------------------------------------
(* The merged text, section by section: what was written before a base line, and the line
   unless an edit took it. *)

Touched(es, i) == \E e \in es : e.start < i /\ i <= e.end
Written(es, i) == FlattenSeq(SetToSeq({e.replacement : e \in {f \in es : f.start = i - 1}}))
Kept(b, es, i) == IF i > Len(b) \/ Touched(es, i) THEN <<>> ELSE <<b[i]>>
Sections(b, es) == [i \in 1..Len(b) + 1 |-> Written(es, i) \o Kept(b, es, i)]

\* The lists f of what the merged text is up to each base line.
Builds(f, b, es, T) ==
  /\ b \in Seq(T) /\ IsCombined(es, Len(b), T)
  /\ f \in [0..Len(b) + 1 -> Seq(T)] /\ Unrolls(f, Sections(b, es), Len(b) + 1)

\* Nothing is written between lines i and z, and of these those up to t are gone.
Copied(b, es, i, z, t) ==
  /\ i \in 0..Len(b) /\ z \in i..Len(b) /\ t \in 0..Len(b)
  /\ \A j \in i + 1..z : /\ Written(es, j) = <<>>
                         /\ Kept(b, es, j) = IF j <= t THEN <<>> ELSE <<b[j]>>

\* x, then r, then the base lines after t up to z.
Spliced(x, r, b, t, z) == (x \o r) \o SubSeq(b, t + 1, z)
\* Three lists joined, from the left and from the right.
JoinedLeft(x, r, l) == (x \o r) \o l
JoinedRight(x, r, l) == x \o (r \o l)

LEMMA ListOfOne == \A x : SetToSeq({x}) = <<x>>
<1> SUFFICES ASSUME NEW x PROVE SetToSeq({x}) = <<x>>
  OBVIOUS
<1>1. Cardinality({x}) = 1
  BY FS_Singleton
<1>2. [1..1 -> {x}] # {} /\ \A f \in [1..1 -> {x}] : IsInjective(f) /\ f = <<x>>
  <2>1. [i \in 1..1 |-> x] \in [1..1 -> {x}]
    OBVIOUS
  <2>2. \A f \in [1..1 -> {x}] : IsInjective(f)
    BY DEF IsInjective
  <2>3. ASSUME NEW f \in [1..1 -> {x}] PROVE f = <<x>>
    <3>1. f = [i \in 1..1 |-> x]
      OBVIOUS
    <3> QED
      BY <3>1
  <2> QED
    BY <2>1, <2>2, <2>3
<1> QED
  BY <1>1, <1>2 DEF SetToSeq

LEMMA ListOfNone == SetToSeq({}) = <<>>
<1>1. Cardinality({}) = 0
  BY FS_EmptySet
<1>2. 1..0 = {}
  OBVIOUS
<1>3. <<>> \in [{} -> {}] /\ \A f \in [{} -> {}] : IsInjective(f) /\ f = <<>>
  BY DEF IsInjective
<1> QED
  BY <1>1, <1>2, <1>3 DEF SetToSeq

LEMMA WrittenByOne ==
  ASSUME NEW n \in Nat, NEW T, NEW es, IsCombined(es, n, T), NEW e \in es
  PROVE  Written(es, e.start + 1) = e.replacement
<1>1. e.start \in Nat /\ e.replacement \in Seq(T)
  BY DEF IsCombined, Edits
<1>2. \A f \in es : f.start = e.start => f = e
  BY <1>1 DEF IsCombined, Edits
<1>3. PICK i : i = e.start + 1
  OBVIOUS
<1>4. Written(es, i) = FlattenSeq(<<e.replacement>>)
  <2>1. {f \in es : f.start = i - 1} = {e}
    <3>1. i - 1 = e.start
      BY <1>1, <1>3
    <3> QED
      BY <1>2, <3>1
  <2>2. {f.replacement : f \in {g \in es : g.start = i - 1}} = {e.replacement}
    BY <2>1
  <2>3. PICK r : r = {f.replacement : f \in {g \in es : g.start = i - 1}}
    OBVIOUS
  <2>4. Written(es, i) = FlattenSeq(SetToSeq(r))
    BY <2>3 DEF Written
  <2> QED
    BY <2>2, <2>3, <2>4, ListOfOne
<1> DEFINE q == <<e.replacement>>
           f == [j \in 0..1 |-> IF j = 0 THEN <<>> ELSE e.replacement]
<1>5. q \in [1..1 -> Seq(T)] /\ f \in [0..1 -> Seq(T)]
  BY <1>1
<1>6. Unrolls(f, q, 1)
  <2>1. f[0] = <<>> /\ f[1] = e.replacement /\ q[1] = e.replacement
    OBVIOUS
  <2>2. <<>> \o e.replacement = e.replacement
    BY <1>1, ConcatEmptySeq
  <2>3. \A j \in 1..1 : j = 1 /\ j - 1 = 0
    OBVIOUS
  <2> HIDE DEF f, q
  <2> QED
    BY <2>1, <2>2, <2>3 DEF Unrolls
<1>7. FlattenSeq(q) = f[1]
  <2>1. 1 \in Nat \ {0}
    OBVIOUS
  <2> HIDE DEF f, q
  <2> QED
    BY <1>5, <1>6, <2>1, FlattenUnrolls
<1> QED
  BY <1>3, <1>4, <1>7

LEMMA WrittenByNone ==
  ASSUME NEW es, NEW i, ~ \E e \in es : e.start = i - 1
  PROVE  Written(es, i) = <<>>
<1>1. {e.replacement : e \in {f \in es : f.start = i - 1}} = {}
  OBVIOUS
<1>2. FlattenSeq(<<>>) = <<>>
  BY DEF FlattenSeq
<1> QED
  BY <1>1, <1>2, ListOfNone DEF Written

LEMMA SectionsAreLines ==
  ASSUME NEW T, NEW b \in Seq(T), NEW es, IsCombined(es, Len(b), T)
  PROVE  Sections(b, es) \in [1..Len(b) + 1 -> Seq(T)]
<1>1. Len(b) \in Nat /\ <<>> \in Seq(T)
  BY LenProperties, EmptySeq
<1> SUFFICES ASSUME NEW i \in 1..Len(b) + 1
             PROVE  Written(es, i) \o Kept(b, es, i) \in Seq(T)
  BY DEF Sections
<1>2. Written(es, i) \in Seq(T)
  <2>1. CASE \E e \in es : e.start = i - 1
    <3>1. PICK e \in es : e.start = i - 1
      BY <2>1
    <3>2. e.start + 1 = i
      BY <1>1, <3>1
    <3>3. e.replacement \in Seq(T)
      BY DEF IsCombined, Edits
    <3> QED
      BY <1>1, <3>2, <3>3, WrittenByOne
  <2>2. CASE ~ \E e \in es : e.start = i - 1
    BY <1>1, <2>2, WrittenByNone
  <2> QED
    BY <2>1, <2>2
<1>3. Kept(b, es, i) \in Seq(T)
  <2>1. CASE i > Len(b) \/ Touched(es, i)
    BY <1>1, <2>1 DEF Kept
  <2>2. CASE ~(i > Len(b) \/ Touched(es, i))
    <3>1. i \in 1..Len(b)
      BY <1>1, <2>2
    <3>2. <<b[i]>> \in Seq(T)
      BY <3>1, ElementOfSeq
    <3> QED
      BY <2>2, <3>2 DEF Kept
  <2> QED
    BY <2>1, <2>2
<1> QED
  BY <1>2, <1>3, ConcatProperties

LEMMA CopyOneMore ==
  ASSUME NEW T, NEW b \in Seq(T), NEW x \in Seq(T), NEW t \in 0..Len(b), NEW j \in t + 1..Len(b)
  PROVE  (x \o SubSeq(b, t + 1, j - 1)) \o <<b[j]>> = x \o SubSeq(b, t + 1, j)
<1>1. Len(b) \in Nat
  BY LenProperties
<1>2. t + 1 \in 1..Len(b) /\ j \in 1..Len(b)
  BY <1>1
<1>3. SubSeq(b, t + 1, j) = SubSeq(b, t + 1, j - 1) \o <<b[j]>>
  BY <1>2, SubSeqRecursiveSecond
<1>4. <<b[j]>> \in Seq(T)
  BY <1>2, ElementOfSeq
<1>5. SubSeq(b, t + 1, j - 1) \in Seq(T)
  <2>1. \A k \in t + 1..j - 1 : b[k] \in T
    BY <1>1, <1>2, ElementOfSeq
  <2>2. t + 1 \in Int /\ j - 1 \in Int
    BY <1>1, <1>2
  <2> QED
    BY <2>1, <2>2, SubSeqProperties
<1>6. PICK y, l : y = SubSeq(b, t + 1, j - 1) /\ l = <<b[j]>>
  OBVIOUS
<1>7. y \in Seq(T) /\ l \in Seq(T)
  BY <1>4, <1>5, <1>6
<1>8. (x \o y) \o l = x \o (y \o l)
  BY <1>7, ConcatAssociative
<1> QED
  BY <1>3, <1>6, <1>8

LEMMA ConcatThree ==
  ASSUME NEW T, NEW x \in Seq(T), NEW y \in Seq(T), NEW z \in Seq(T)
  PROVE  JoinedLeft(x, y, z) = JoinedRight(x, y, z)
BY ConcatAssociative, SMTT(60) DEF JoinedLeft, JoinedRight

LEMMA CopyOneLine ==
  ASSUME NEW T, NEW b \in Seq(T), NEW x \in Seq(T), NEW r \in Seq(T), NEW i \in 1..Len(b),
         NEW t, t + 1 = i
  PROVE  Spliced(x, r, b, t, i) = JoinedRight(x, r, <<b[i]>>)
<1>1. Len(b) \in Nat
  BY LenProperties
<1>2. i \in i..Len(b)
  BY <1>1
<1>3. SubSeq(b, i, i) = SubSeq(b, i, i - 1) \o <<b[i]>>
  BY <1>2, SubSeqRecursiveSecond
<1>4. SubSeq(b, i, i - 1) = <<>>
  BY SubSeqEmpty
<1>5. PICK l : l = <<b[i]>>
  OBVIOUS
<1>6. l \in Seq(T)
  BY <1>5, ElementOfSeq
<1>7. SubSeq(b, i, i) = l
  <2>1. <<>> \o l = l
    BY <1>6, ConcatEmptySeq
  <2> QED
    BY <1>3, <1>4, <1>5, <2>1
<1>8. Spliced(x, r, b, t, i) = JoinedLeft(x, r, l)
  BY <1>7 DEF Spliced, JoinedLeft
<1>9. JoinedLeft(x, r, l) = JoinedRight(x, r, l)
  BY <1>6, ConcatThree
<1> QED
  BY <1>5, <1>8, <1>9

\* Base lines that nothing was written between are copied, but for those up to line t.
LEMMA LinesAreCopied ==
  ASSUME NEW T, NEW b, NEW es, NEW f, Builds(f, b, es, T),
         NEW i, NEW z, NEW t, Copied(b, es, i, z, t),
         NEW w \in Seq(T), NEW r \in Seq(T), f[i] = Spliced(w, r, b, t, i)
  PROVE  f[z] = Spliced(w, r, b, t, z)
<1>0. b \in Seq(T) /\ i \in 0..Len(b) /\ z \in i..Len(b) /\ t \in 0..Len(b)
  BY DEF Builds, Copied
<1>1. Len(b) \in Nat /\ <<>> \in Seq(T)
  BY <1>0, LenProperties, EmptySeq
<1> PICK x : x = w \o r
  OBVIOUS
<1>a. x \in Seq(T) /\ \A j : Spliced(w, r, b, t, j) = x \o SubSeq(b, t + 1, j)
  BY ConcatProperties DEF Spliced
<1> DEFINE P == {j \in i..z : f[j] # x \o SubSeq(b, t + 1, j)}
<1>2. P = {}
  <2> SUFFICES ASSUME P # {} PROVE FALSE
    OBVIOUS
  <2>1. P \in SUBSET Nat
    BY <1>0, <1>1
  <2> HIDE DEF P
  <2>2. PICK j \in P : \A k \in P : j <= k
    BY <2>1, LeastNatural
  <2>3. j \in i..z /\ f[j] # x \o SubSeq(b, t + 1, j)
    BY <2>2 DEF P
  <2>4. j \in i + 1..z /\ j \in 1..Len(b) /\ j - 1 \in i..z
    <3>1. j # i
      BY <1>a, <2>3
    <3> QED
      BY <1>0, <1>1, <2>3, <3>1
  <2>5. f[j - 1] = x \o SubSeq(b, t + 1, j - 1)
    <3>1. j - 1 \notin P
      BY <1>0, <1>1, <2>2, <2>4
    <3> QED
      BY <2>4, <3>1 DEF P
  <2>6. f[j] = f[j - 1] \o (Written(es, j) \o Kept(b, es, j))
    <3>1. j \in 1..Len(b) + 1
      BY <1>1, <2>4
    <3> QED
      BY <3>1 DEF Builds, Unrolls, Sections
  <2>7. CASE j <= t
    <3>1. SubSeq(b, t + 1, j) = <<>> /\ SubSeq(b, t + 1, j - 1) = <<>>
      <4>1. t + 1 \in Int /\ j \in Int /\ j - 1 \in Int /\ j < t + 1 /\ j - 1 < t + 1
        BY <1>0, <1>1, <2>4, <2>7
      <4> QED
        BY <4>1, SubSeqEmpty
    <3>2. <<>> \o <<>> = <<>> /\ x \o <<>> = x
      BY <1>1, <1>a, ConcatEmptySeq
    <3> QED
      BY <2>3, <2>4, <2>5, <2>6, <2>7, <3>1, <3>2 DEF Copied
  <2>8. CASE j > t
    <3>1. Written(es, j) = <<>> /\ Kept(b, es, j) = <<b[j]>>
      BY <1>0, <1>1, <2>4, <2>8 DEF Copied
    <3>2. <<>> \o <<b[j]>> = <<b[j]>>
      BY <1>0, <2>4, ConcatEmptySeq, ElementOfSeq
    <3>3. f[j] = (x \o SubSeq(b, t + 1, j - 1)) \o <<b[j]>>
      BY <2>5, <2>6, <3>1, <3>2
    <3>4. j \in t + 1..Len(b)
      BY <1>0, <1>1, <2>4, <2>8
    <3> QED
      BY <1>0, <1>a, <2>3, <3>3, <3>4, CopyOneMore
  <2> QED
    BY <1>0, <1>1, <2>4, <2>7, <2>8
<1>3. z \in i..z
  BY <1>0, <1>1
<1>4. z \notin P
  BY <1>2
<1> QED
  BY <1>a, <1>3, <1>4

\* Up to the first edit the merged text is the base.
LEMMA BeforeTheFirst ==
  ASSUME NEW T, NEW b, NEW es, NEW f, Builds(f, b, es, T),
         NEW z \in 0..Len(b), \A e \in es : e.start >= z
  PROVE  f[z] = SubSeq(b, 1, z)
<1>0. b \in Seq(T) /\ IsCombined(es, Len(b), T) /\ f[0] = <<>>
  BY DEF Builds, Unrolls
<1>1. Len(b) \in Nat /\ <<>> \in Seq(T)
  BY <1>0, LenProperties, EmptySeq
<1>2. \A e \in es : e.start \in Nat
  BY <1>0 DEF IsCombined, Edits
<1>3. SubSeq(b, 1, z) \in Seq(T)
  <2>1. \A k \in 1..z : b[k] \in T
    BY <1>0, <1>1, ElementOfSeq
  <2> QED
    BY <1>1, <2>1, SubSeqProperties
<1>4. PICK i, x : i = 0 /\ x = <<>>
  OBVIOUS
<1>5. f[i] = Spliced(x, x, b, i, i)
  <2>1. SubSeq(b, 0 + 1, 0) = <<>>
    BY SubSeqEmpty
  <2>2. <<>> \o <<>> = <<>>
    BY <1>1, ConcatEmptySeq
  <2> QED
    BY <1>0, <1>4, <2>1, <2>2 DEF Spliced
<1>6. Copied(b, es, i, z, i)
  <2>1. ASSUME NEW j \in 1..z
        PROVE  Written(es, j) = <<>> /\ Kept(b, es, j) = <<b[j]>>
    <3>1. ~ \E e \in es : e.start < j
      BY <1>1, <1>2
    <3>2. Written(es, j) = <<>>
      <4>1. ~ \E e \in es : e.start = j - 1
        BY <1>1, <1>2, <3>1
      <4> QED
        BY <4>1, WrittenByNone
    <3>3. ~Touched(es, j) /\ ~(j > Len(b))
      BY <1>1, <3>1 DEF Touched
    <3> QED
      BY <3>2, <3>3 DEF Kept
  <2>2. i \in 0..Len(b) /\ z \in i..Len(b)
    BY <1>1, <1>4
  <2>3. \A j \in i + 1..z : j \in 1..z /\ ~(j <= i)
    BY <1>1, <1>4
  <2> QED
    BY <2>1, <2>2, <2>3 DEF Copied
<1>7. f[z] = Spliced(x, x, b, i, z)
  <2>1. x \in Seq(T)
    BY <1>1, <1>4
  <2> QED
    BY <1>5, <1>6, <2>1, LinesAreCopied
<1>8. (<<>> \o <<>>) \o SubSeq(b, 1, z) = SubSeq(b, 1, z)
  BY <1>1, <1>3, ConcatEmptySeq
<1> QED
  BY <1>4, <1>7, <1>8 DEF Spliced

LEMMA RightAfterTheEdit ==
  ASSUME NEW T, NEW b, NEW es, NEW f, Builds(f, b, es, T), NEW s \in Nat, NEW t, NEW i,
         i = s + 1, i \in 1..Len(b), t \in s..Len(b), NEW r \in Seq(T), Written(es, i) = r,
         Kept(b, es, i) = IF i <= t THEN <<>> ELSE <<b[i]>>
  PROVE  f[s] \in Seq(T) /\ f[i] = Spliced(f[s], r, b, t, i)
<1>0. b \in Seq(T)
  BY DEF Builds
<1>1. Len(b) \in Nat /\ <<>> \in Seq(T)
  BY <1>0, LenProperties, EmptySeq
<1>2. i \in 1..Len(b) + 1 /\ i - 1 = s /\ s \in 0..Len(b) + 1 /\ t \in Nat /\ s <= t
  BY <1>1
<1>3. PICK x : x = f[s]
  OBVIOUS
<1>4. x \in Seq(T)
  BY <1>2, <1>3 DEF Builds
<1>5. f[i] = x \o (r \o Kept(b, es, i))
  <2>1. f[i] = f[i - 1] \o Sections(b, es)[i]
    BY <1>2 DEF Builds, Unrolls
  <2>2. Sections(b, es)[i] = Written(es, i) \o Kept(b, es, i)
    BY <1>2 DEF Sections
  <2> QED
    BY <1>2, <1>3, <2>1, <2>2
<1>6. CASE i <= t
  <2>1. SubSeq(b, t + 1, i) = <<>>
    <3>1. t + 1 \in Int /\ i \in Int /\ i < t + 1
      BY <1>2, <1>6
    <3> QED
      BY <3>1, SubSeqEmpty
  <2>2. x \o r \in Seq(T)
    BY <1>4, ConcatProperties
  <2>3. r \o <<>> = r
    BY ConcatEmptySeq
  <2>4. (x \o r) \o <<>> = x \o r
    BY <2>2, ConcatEmptySeq
  <2>5. Kept(b, es, i) = <<>>
    BY <1>6
  <2>6. f[i] = x \o r
    BY <1>5, <2>3, <2>5
  <2> QED
    BY <1>3, <1>4, <2>1, <2>4, <2>6 DEF Spliced
<1>7. CASE ~(i <= t)
  <2>1. t + 1 = i
    BY <1>2, <1>7
  <2>2. Spliced(x, r, b, t, i) = JoinedRight(x, r, <<b[i]>>)
    BY <1>0, <1>4, <2>1, CopyOneLine
  <2>3. f[i] = JoinedRight(x, r, <<b[i]>>)
    BY <1>5, <1>7 DEF JoinedRight
  <2> QED
    BY <1>3, <1>4, <2>2, <2>3
<1> QED
  BY <1>6, <1>7

\* From one edit to the next it is the replacement and the base lines after the edit.
LEMMA FromOneToTheNext ==
  ASSUME NEW T, NEW b, NEW es, NEW f, Builds(f, b, es, T), NEW e \in es,
         NEW z \in e.start + 1..Len(b), \A g \in es : g.start <= e.start \/ z <= g.start
  PROVE  f[z] = Spliced(f[e.start], e.replacement, b, e.end, z)
<1>0. b \in Seq(T) /\ IsCombined(es, Len(b), T)
  BY DEF Builds
<1>1. Len(b) \in Nat
  BY <1>0, LenProperties
<1>2. PICK s, t, r, i : s = e.start /\ t = e.end /\ r = e.replacement /\ i = s + 1
  OBVIOUS
<1>3. /\ s \in Nat /\ t \in s..Len(b) /\ t \in 0..Len(b) /\ r \in Seq(T)
      /\ i \in 1..Len(b) /\ i \in 0..Len(b) /\ z \in i..Len(b)
  <2>1. s \in 0..Len(b) /\ t \in 0..Len(b) /\ s <= t /\ r \in Seq(T) /\ z \in s + 1..Len(b)
    BY <1>0, <1>2 DEF IsCombined, Edits
  <2> QED
    BY <1>1, <1>2, <2>1
<1>4. \A g \in es : g.start \in Nat /\ g.end \in Nat
  BY <1>0, <1>1 DEF IsCombined, Edits
<1>5. \A j \in i..z : Kept(b, es, j) = IF j <= t THEN <<>> ELSE <<b[j]>>
  <2> SUFFICES ASSUME NEW j \in i..z
               PROVE  Kept(b, es, j) = IF j <= t THEN <<>> ELSE <<b[j]>>
    OBVIOUS
  <2>1. j \in Nat /\ s < j /\ j <= z /\ ~(j > Len(b))
    BY <1>1, <1>2, <1>3
  <2>2. CASE j <= t
    BY <1>2, <2>1, <2>2 DEF Kept, Touched
  <2>3. CASE ~(j <= t)
    <3>1. SUFFICES ASSUME NEW g \in es, g.start < j, j <= g.end PROVE FALSE
      BY <2>1, <2>3 DEF Kept, Touched
    <3>2. g.start <= s
      BY <1>2, <1>3, <1>4, <2>1, <3>1
    <3>3. g # e
      BY <1>2, <2>3, <3>1
    <3>4. g.start < s
      BY <1>0, <1>2, <1>3, <1>4, <3>2, <3>3 DEF IsCombined
    <3>5. g.end <= s
      BY <1>0, <1>2, <3>4 DEF IsCombined
    <3> QED
      BY <1>3, <1>4, <2>1, <3>1, <3>5
  <2> QED
    BY <2>2, <2>3
<1>6. Written(es, i) = r
  BY <1>0, <1>1, <1>2, WrittenByOne
<1>7. \A j \in i + 1..z : Written(es, j) = <<>>
  <2> SUFFICES ASSUME NEW j \in i + 1..z PROVE Written(es, j) = <<>>
    OBVIOUS
  <2>1. SUFFICES ASSUME NEW g \in es, g.start = j - 1 PROVE FALSE
    BY WrittenByNone
  <2>2. g.start <= s \/ z <= g.start
    BY <1>2
  <2>3. g.start \in Nat /\ s < g.start /\ g.start < z
    BY <1>2, <1>3, <1>4, <2>1
  <2> QED
    BY <1>3, <2>2, <2>3
<1>8. Copied(b, es, i, z, t)
  <2>1. \A j \in i + 1..z : j \in i..z
    BY <1>3
  <2> QED
    BY <1>3, <1>5, <1>7, <2>1 DEF Copied
<1>9. f[s] \in Seq(T) /\ f[i] = Spliced(f[s], r, b, t, i)
  <2>1. Kept(b, es, i) = IF i <= t THEN <<>> ELSE <<b[i]>>
    <3>1. i \in i..z
      BY <1>3
    <3> QED
      BY <1>5, <3>1
  <2> QED
    BY <1>2, <1>3, <1>6, <2>1, RightAfterTheEdit
<1>10. f[z] = Spliced(f[s], r, b, t, z)
  BY <1>3, <1>8, <1>9, LinesAreCopied
<1> QED
  BY <1>2, <1>10
-----------------------------------------------------------------------------
(* The fold of apply_edits goes through the merged text from edit to edit. *)

\* Where apply_edits is after the edit e.
Reached(f, e) == [ok |-> TRUE, cursor |-> e.end, lines |-> f[e.start] \o e.replacement]

LEMMA FirstIsReached ==
  ASSUME NEW T, NEW b \in Seq(T), NEW f, NEW e, e.start \in 0..Len(b),
         e.end \in e.start..Len(b), f[e.start] = SubSeq(b, 1, e.start)
  PROVE  ApplyEdit(b, Begin, e) = Reached(f, e)
<1>1. Len(b) \in Nat
  BY LenProperties
<1>2. PICK z, y : z = e.start /\ y = SubSeq(b, 1, z)
  OBVIOUS
<1>3. y \in Seq(T)
  <2>1. \A k \in 1..z : b[k] \in T
    BY <1>1, <1>2, ElementOfSeq
  <2> QED
    BY <1>1, <1>2, <2>1, SubSeqProperties
<1>4. <<>> \o y = y
  BY <1>3, ConcatEmptySeq
<1>5. ~(e.start < 0) /\ ~(e.end < e.start) /\ ~(e.end > Len(b))
  BY <1>1
<1>6. ApplyEdit(b, Begin, e)
        = [ok |-> TRUE, cursor |-> e.end, lines |-> (<<>> \o SubSeq(b, 0 + 1, e.start)) \o e.replacement]
  BY <1>5 DEF ApplyEdit, Begin
<1>7. <<>> \o SubSeq(b, 0 + 1, e.start) = f[e.start]
  BY <1>2, <1>4
<1> QED
  BY <1>6, <1>7 DEF Reached

LEMMA NextIsReached ==
  ASSUME NEW b, Len(b) \in Nat, NEW f, NEW d, NEW e, d.end \in Nat, e.start \in Nat,
         d.end <= e.start, e.end \in e.start..Len(b),
         f[e.start] = Spliced(f[d.start], d.replacement, b, d.end, e.start)
  PROVE  ApplyEdit(b, Reached(f, d), e) = Reached(f, e)
<1>1. ~(e.start < d.end) /\ ~(e.end < e.start) /\ ~(e.end > Len(b))
  OBVIOUS
<1>2. PICK x : x = f[d.start] \o d.replacement
  OBVIOUS
<1>3. Reached(f, d) = [ok |-> TRUE, cursor |-> d.end, lines |-> x]
  BY <1>2 DEF Reached
<1>4. ApplyEdit(b, [ok |-> TRUE, cursor |-> d.end, lines |-> x], e)
        = [ok |-> TRUE, cursor |-> e.end, lines |-> (x \o SubSeq(b, d.end + 1, e.start)) \o e.replacement]
  BY <1>1 DEF ApplyEdit
<1>5. x \o SubSeq(b, d.end + 1, e.start) = f[e.start]
  BY <1>2 DEF Spliced
<1> QED
  BY <1>3, <1>4, <1>5 DEF Reached

\* The edits taken so far are in the text, and nothing else is missing from it.
LEMMA EveryEditIsReached ==
  ASSUME NEW T, NEW b, NEW es, NEW f, Builds(f, b, es, T),
         NEW s, Ascending(s, es), NEW N \in Nat, N = Cardinality(es), NEW a, a[0] = Begin,
         \A k \in 1..N : a[k] = ApplyEdit(b, a[k - 1], s[k])
  PROVE  \A k \in 1..N : a[k] = Reached(f, s[k])
<1>1. b \in Seq(T) /\ IsCombined(es, Len(b), T)
  BY DEF Builds
<1>2. Len(b) \in Nat
  BY <1>1, LenProperties
<1>3. /\ s \in [1..N -> es] /\ \A e \in es : \E k \in 1..N : s[k] = e
      /\ \A i, j \in 1..N : i < j => s[i].start < s[j].start
  BY DEF Ascending
<1>4. \A e \in es : /\ e.start \in 0..Len(b) /\ e.start \in Nat /\ e.end \in Nat
                    /\ e.end \in e.start..Len(b)
  BY <1>1, <1>2 DEF IsCombined, Edits
<1> DEFINE P == {k \in 1..N : a[k] # Reached(f, s[k])}
<1>5. P = {}
  <2> SUFFICES ASSUME P # {} PROVE FALSE
    OBVIOUS
  <2>1. P \in SUBSET Nat
    OBVIOUS
  <2> HIDE DEF P
  <2>2. PICK k \in P : \A j \in P : k <= j
    BY <2>1, LeastNatural
  <2>3. k \in 1..N /\ a[k] # Reached(f, s[k])
    BY <2>2 DEF P
  <2>4. PICK e \in es : e = s[k]
    BY <1>3, <2>3
  <2>5. a[k] = ApplyEdit(b, a[k - 1], e)
    BY <2>3, <2>4
  <2>6. CASE k = 1
    <3>1. \A g \in es : g.start >= e.start
      <4> SUFFICES ASSUME NEW g \in es PROVE g.start >= e.start
        OBVIOUS
      <4>1. PICK j \in 1..N : s[j] = g
        BY <1>3
      <4>2. CASE j = 1
        BY <1>4, <2>4, <2>6, <4>1, <4>2
      <4>3. CASE j # 1
        <5>1. k < j
          BY <2>6, <4>3
        <5> QED
          BY <1>3, <1>4, <2>3, <2>4, <4>1, <5>1
      <4> QED
        BY <4>2, <4>3
    <3>2. e.start \in 0..Len(b) /\ e.end \in e.start..Len(b)
      BY <1>4
    <3>3. f[e.start] = SubSeq(b, 1, e.start)
      BY <3>1, <3>2, BeforeTheFirst
    <3>4. ApplyEdit(b, Begin, e) = Reached(f, e)
      BY <1>1, <3>2, <3>3, FirstIsReached
    <3>5. k - 1 = 0
      BY <2>6
    <3> QED
      BY <2>3, <2>4, <2>5, <3>4, <3>5
  <2>7. CASE k # 1
    <3>1. k - 1 \in 1..N /\ k - 1 < k
      BY <2>3, <2>7
    <3>2. PICK d \in es : d = s[k - 1]
      BY <1>3, <3>1
    <3>3. a[k - 1] = Reached(f, d)
      <4>1. k - 1 \notin P
        BY <2>2, <2>3, <3>1
      <4> QED
        BY <3>1, <3>2, <4>1 DEF P
    <3>4. d.start < e.start
      BY <1>3, <2>3, <2>4, <3>1, <3>2
    <3>5. d.end <= e.start
      BY <1>1, <3>4 DEF IsCombined
    <3>6. \A g \in es : g.start <= d.start \/ e.start <= g.start
      <4> SUFFICES ASSUME NEW g \in es PROVE g.start <= d.start \/ e.start <= g.start
        OBVIOUS
      <4>1. PICK j \in 1..N : s[j] = g
        BY <1>3
      <4>2. j < k - 1 \/ j = k - 1 \/ j = k \/ k < j
        BY <2>3, <3>1
      <4>3. CASE j < k - 1
        BY <1>3, <1>4, <3>1, <3>2, <4>1, <4>3
      <4>4. CASE j = k - 1
        BY <1>4, <3>2, <4>1, <4>4
      <4>5. CASE j = k
        BY <1>4, <2>4, <4>1, <4>5
      <4>6. CASE k < j
        BY <1>3, <1>4, <2>3, <2>4, <4>1, <4>6
      <4> QED
        BY <4>2, <4>3, <4>4, <4>5, <4>6
    <3>7. e.start \in d.start + 1..Len(b)
      BY <1>2, <1>4, <3>4
    <3>8. f[e.start] = Spliced(f[d.start], d.replacement, b, d.end, e.start)
      BY <3>6, <3>7, FromOneToTheNext
    <3>9. ApplyEdit(b, Reached(f, d), e) = Reached(f, e)
      BY <1>2, <1>4, <3>5, <3>8, NextIsReached
    <3> QED
      BY <2>3, <2>4, <2>5, <3>3, <3>9
  <2> QED
    BY <2>6, <2>7
<1>6. ASSUME NEW k \in 1..N PROVE a[k] = Reached(f, s[k])
  <2>1. k \notin P
    BY <1>5
  <2> QED
    BY <2>1
<1> QED
  BY <1>6
\* After the last edit only base lines are left.
LEMMA RestIsCopied ==
  ASSUME NEW T, NEW b, NEW es, NEW f, Builds(f, b, es, T), NEW e \in es,
         \A g \in es : g.start <= e.start
  PROVE  f[Len(b) + 1] = Spliced(f[e.start], e.replacement, b, e.end, Len(b))
<1>1. b \in Seq(T) /\ IsCombined(es, Len(b), T)
  BY DEF Builds
<1>2. PICK n : n = Len(b)
  OBVIOUS
<1>3. n \in Nat /\ <<>> \in Seq(T) /\ n + 1 \in 1..n + 1 /\ (n + 1) - 1 = n
  BY <1>1, <1>2, LenProperties, EmptySeq
<1>4. e.start \in 0..n /\ e.end \in e.start..n /\ e.replacement \in Seq(T)
  BY <1>1, <1>2 DEF IsCombined, Edits
<1>5. \A g \in es : g.start \in Nat
  BY <1>1 DEF IsCombined, Edits
<1>6. f[n] \in Seq(T)
  BY <1>2, <1>3 DEF Builds
<1>7. f[n + 1] = f[n] \o (Written(es, n + 1) \o Kept(b, es, n + 1))
  BY <1>2, <1>3 DEF Builds, Unrolls, Sections
<1>8. Kept(b, es, n + 1) = <<>>
  BY <1>2, <1>3 DEF Kept
<1>9. CASE e.start < n
  <2>1. ~ \E g \in es : g.start = (n + 1) - 1
    BY <1>3, <1>4, <1>5, <1>9
  <2>2. Written(es, n + 1) = <<>>
    BY <2>1, WrittenByNone
  <2>3. <<>> \o <<>> = <<>> /\ f[n] \o <<>> = f[n]
    BY <1>3, <1>6, ConcatEmptySeq
  <2>4. n \in e.start + 1..Len(b)
    BY <1>2, <1>3, <1>4, <1>9
  <2>5. \A g \in es : g.start <= e.start \/ n <= g.start
    OBVIOUS
  <2>6. f[n] = Spliced(f[e.start], e.replacement, b, e.end, n)
    BY <2>4, <2>5, FromOneToTheNext
  <2> QED
    BY <1>2, <1>7, <1>8, <2>2, <2>3, <2>6
<1>10. CASE e.start = n
  <2>1. Written(es, n + 1) = e.replacement
    BY <1>1, <1>2, <1>3, <1>10, WrittenByOne
  <2>2. e.end = n
    BY <1>3, <1>4, <1>10
  <2>3. SubSeq(b, n + 1, n) = <<>>
    <3>1. n + 1 \in Int /\ n \in Int /\ n < n + 1
      BY <1>3
    <3> QED
      BY <3>1, SubSeqEmpty
  <2>4. PICK r, x : r = e.replacement /\ x = f[n] \o r
    OBVIOUS
  <2>5. r \in Seq(T) /\ x \in Seq(T)
    BY <1>4, <1>6, <2>4, ConcatProperties
  <2>6. r \o <<>> = r
    BY <2>5, ConcatEmptySeq
  <2>7. x \o <<>> = x
    BY <2>5, ConcatEmptySeq
  <2>8. f[n + 1] = x
    BY <1>7, <1>8, <2>1, <2>4, <2>6
  <2>9. Spliced(f[e.start], e.replacement, b, e.end, n) = x \o <<>>
    BY <1>10, <2>2, <2>3, <2>4 DEF Spliced
  <2> QED
    BY <1>2, <2>7, <2>8, <2>9
<1> QED
  BY <1>3, <1>4, <1>9, <1>10

\* No edit leaves the base.
LEMMA NoEditIsTheBase ==
  ASSUME NEW T, NEW b, NEW es, NEW f, Builds(f, b, es, T), es = {}
  PROVE  f[Len(b) + 1] = <<>> \o SubSeq(b, 1, Len(b))
<1>1. b \in Seq(T)
  BY DEF Builds
<1>2. PICK n : n = Len(b)
  OBVIOUS
<1>3. n \in Nat /\ <<>> \in Seq(T) /\ n + 1 \in 1..n + 1 /\ (n + 1) - 1 = n
  BY <1>1, <1>2, LenProperties, EmptySeq
<1>4. f[n] = SubSeq(b, 1, n)
  <2>1. n \in 0..Len(b) /\ \A e \in es : e.start >= n
    BY <1>2, <1>3
  <2> QED
    BY <2>1, <1>2, BeforeTheFirst
<1>5. f[n] \in Seq(T)
  BY <1>2, <1>3 DEF Builds
<1>6. f[n + 1] = f[n] \o (Written(es, n + 1) \o Kept(b, es, n + 1))
  BY <1>2, <1>3 DEF Builds, Unrolls, Sections
<1>7. Written(es, n + 1) = <<>>
  BY WrittenByNone
<1>8. Kept(b, es, n + 1) = <<>>
  BY <1>2, <1>3 DEF Kept
<1>9. <<>> \o <<>> = <<>> /\ f[n] \o <<>> = f[n] /\ <<>> \o f[n] = f[n]
  BY <1>3, <1>5, ConcatEmptySeq
<1> QED
  BY <1>2, <1>4, <1>6, <1>7, <1>8, <1>9

\* The states apply_edits goes through, and one the base lines that follow complete.
Applies(a, b, s, n) ==
  a[0] = Begin /\ \A k \in 1..n : a[k] = ApplyEdit(b, a[k - 1], s[k])
AllButTheRest(acc, f, b) ==
  /\ acc.ok /\ DOMAIN acc = {"ok", "cursor", "lines"}
  /\ f[Len(b) + 1] = acc.lines \o SubSeq(b, acc.cursor + 1, Len(b))

LEMMA TheLastEditIsFollowed ==
  ASSUME NEW T, NEW b, NEW es, NEW f, Builds(f, b, es, T),
         NEW s, Ascending(s, es), NEW N \in Nat, N = Cardinality(es), NEW a, Applies(a, b, s, N)
  PROVE  AllButTheRest(a[N], f, b)
<1>1. CASE N = 0
  <2>1. es = {}
    BY <1>1, FS_EmptySet DEF IsCombined, Builds
  <2>2. f[Len(b) + 1] = <<>> \o SubSeq(b, 1, Len(b))
    BY <2>1, NoEditIsTheBase
  <2>3. a[N].ok /\ a[N].lines = <<>> /\ a[N].cursor = 0 /\ DOMAIN a[N] = {"ok", "cursor", "lines"}
    BY <1>1 DEF Begin, Applies
  <2>4. a[N].cursor + 1 = 1
    BY <2>3
  <2> QED
    BY <2>2, <2>3, <2>4 DEF AllButTheRest
<1>2. CASE N # 0
  <2>1. N \in 1..N
    BY <1>2
  <2>2. \A k \in 1..N : a[k] = Reached(f, s[k])
    BY EveryEditIsReached DEF Applies
  <2>3. PICK e \in es : e = s[N]
    BY <2>1 DEF Ascending
  <2>4. a[N] = Reached(f, e)
    BY <2>1, <2>2, <2>3
  <2>5. \A g \in es : g.start <= e.start
    <3> SUFFICES ASSUME NEW g \in es PROVE g.start <= e.start
      OBVIOUS
    <3>1. b \in Seq(T) /\ IsCombined(es, Len(b), T)
      BY DEF Builds
    <3>2. Len(b) \in Nat
      BY <3>1, LenProperties
    <3>3. g.start \in Nat /\ e.start \in Nat
      BY <3>1, <3>2 DEF IsCombined, Edits
    <3>4. PICK j \in 1..N : s[j] = g
      BY DEF Ascending
    <3>5. CASE j = N
      BY <2>3, <3>3, <3>4, <3>5
    <3>6. CASE j # N
      <4>1. j < N
        BY <3>4, <3>6
      <4>2. s[j].start < s[N].start
        BY <2>1, <3>4, <4>1 DEF Ascending
      <4> QED
        BY <2>3, <3>3, <3>4, <4>2
    <3> QED
      BY <3>5, <3>6
  <2>6. f[Len(b) + 1] = Spliced(f[e.start], e.replacement, b, e.end, Len(b))
    BY <2>5, RestIsCopied
  <2>7. PICK x : x = f[e.start] \o e.replacement
    OBVIOUS
  <2>8. a[N] = [ok |-> TRUE, cursor |-> e.end, lines |-> x]
    BY <2>4, <2>7 DEF Reached
  <2>9. a[N].ok /\ a[N].lines = x /\ a[N].cursor = e.end /\ DOMAIN a[N] = {"ok", "cursor", "lines"}
    BY <2>8
  <2>10. f[Len(b) + 1] = x \o SubSeq(b, e.end + 1, Len(b))
    BY <2>6, <2>7 DEF Spliced
  <2> QED
    BY <2>9, <2>10 DEF AllButTheRest
<1> QED
  BY <1>1, <1>2

\* Edits that fit together give the text of the sections, none of them lost.
LEMMA EditsGiveTheSections ==
  ASSUME NEW T, NEW b \in Seq(T), NEW es, IsCombined(es, Len(b), T), NEW s, Ascending(s, es)
  PROVE  ApplyEdits(b, s).ok /\ ApplyEdits(b, s).lines = FlattenSeq(Sections(b, es))
<1>1. PICK n, N : n = Len(b) /\ N = Cardinality(es)
  OBVIOUS
<1>2. n \in Nat /\ N \in Nat
  BY <1>1, LenProperties, FS_CardinalityType DEF IsCombined
<1>3. n + 1 \in Nat \ {0}
  BY <1>2
<1>4. PICK q : q = Sections(b, es)
  OBVIOUS
<1>5. q \in [1..n + 1 -> Seq(T)]
  BY <1>1, <1>4, SectionsAreLines
<1>6. PICK f : f \in [0..n + 1 -> Seq(T)] /\ Unrolls(f, q, n + 1)
  BY <1>3, <1>5, UnrollExists
<1>7. FlattenSeq(q) = f[n + 1]
  BY <1>3, <1>5, <1>6, FlattenUnrolls
<1>8. Builds(f, b, es, T)
  BY <1>1, <1>4, <1>6 DEF Builds
<1>9. s \in [1..N -> es] /\ DOMAIN s = 1..N
  BY <1>1 DEF Ascending
<1>10. PICK a : /\ a[0] = Begin
                /\ \A k \in 1..N : a[k] = ApplyEdit(b, a[k - 1], s[k])
                /\ ApplyEdits(b, s)
                     = [a[N] EXCEPT !.lines = a[N].lines \o SubSeq(b, a[N].cursor + 1, Len(b))]
  BY <1>2, <1>9, ApplyEditsUnrolls
<1>10a. Applies(a, b, s, N)
  BY <1>10 DEF Applies
<1>10b. AllButTheRest(a[N], f, b)
  BY <1>1, <1>2, <1>8, <1>10a, TheLastEditIsFollowed
<1>11. PICK rest : rest = a[N].lines \o SubSeq(b, a[N].cursor + 1, Len(b))
  OBVIOUS
<1>12. a[N].ok /\ DOMAIN a[N] = {"ok", "cursor", "lines"} /\ f[Len(b) + 1] = rest
  BY <1>10b, <1>11 DEF AllButTheRest
<1>13. ApplyEdits(b, s) = [a[N] EXCEPT !.lines = rest]
  BY <1>10, <1>11
<1>14. ApplyEdits(b, s).ok /\ ApplyEdits(b, s).lines = rest
  BY <1>12, <1>13
<1> QED
  BY <1>1, <1>4, <1>7, <1>12, <1>14

\* A merge that was not refused has the two scripts' sections.
LEMMA MergedFollows == MergeInv => EveryEditIsMerged
<1> SUFFICES ASSUME MergeInv, Merged PROVE EveryEditIsMerged
  BY DEF EveryEditIsMerged
<1>1. outcome # Pending
  BY DEF Merged, Pending
<1>2. PICK T : /\ {baseText.lines, localText.lines, remoteText.lines} \subseteq Seq(T)
               /\ IsScript(LocalEdits, Len(baseText.lines), T)
               /\ IsScript(RemoteEdits, Len(baseText.lines), T)
  BY <1>1, LinesOfTexts
<1>3. PICK b, le, re : b = baseText.lines /\ le = LocalEdits /\ re = RemoteEdits
  OBVIOUS
<1>4. b \in Seq(T) /\ IsScript(le, Len(b), T) /\ IsScript(re, Len(b), T)
  BY <1>2, <1>3
<1>5. Len(b) \in Nat
  BY <1>4, LenProperties
<1>6. outcome = Result(baseText, localText, remoteText, le, re)
  <2>1. outcome = MergeMarkdownThreeWay(baseText, localText, remoteText,
                                        aligned.local, aligned.remote)
    BY <1>1 DEF MergeInv
  <2> QED
    BY <1>3, <2>1 DEF MergeMarkdownThreeWay, Merged, Preserve, LocalEdits, RemoteEdits
<1>7. ~Overlapping(le, re) /\ outcome.lines = ApplyEdits(b, CombineEdits(le, re)).lines
  BY <1>3, <1>6 DEF Result, Merged, Preserve
<1>8. Ascending(CombineEdits(le, re), le \cup re)
  BY <1>4, <1>5, <1>7, CombineEditsSorts
<1>9. IsCombined(le \cup re, Len(b), T)
  BY <1>4, <1>5, <1>7, ScriptsCombine
<1>10. outcome.lines = FlattenSeq(Sections(b, le \cup re))
  BY <1>4, <1>7, <1>8, <1>9, EditsGiveTheSections
<1> QED
  BY <1>3, <1>10 DEF EveryEditIsMerged, Sections, Written, Kept, Touched

\* The guards of apply_edits: each edit is within the base, and none starts before the
\* place the output has reached unless the two scripts were refused before.
ScriptsFit ==
  outcome # Pending =>
    /\ \A e \in LocalEdits \cup RemoteEdits : e.start <= e.end /\ e.end <= Len(baseText.lines)
    /\ \/ Overlapping(LocalEdits, RemoteEdits)
       \/ ApplyEdits(baseText.lines, CombineEdits(LocalEdits, RemoteEdits)).ok

LEMMA FitFollows == MergeInv => ScriptsFit
<1> SUFFICES ASSUME MergeInv, outcome # Pending PROVE ScriptsFit
  BY DEF ScriptsFit
<1>1. PICK T : /\ {baseText.lines, localText.lines, remoteText.lines} \subseteq Seq(T)
               /\ IsScript(LocalEdits, Len(baseText.lines), T)
               /\ IsScript(RemoteEdits, Len(baseText.lines), T)
  BY LinesOfTexts
<1>2. PICK b, le, re : b = baseText.lines /\ le = LocalEdits /\ re = RemoteEdits
  OBVIOUS
<1>3. b \in Seq(T) /\ IsScript(le, Len(b), T) /\ IsScript(re, Len(b), T)
  BY <1>1, <1>2
<1>4. Len(b) \in Nat
  BY <1>3, LenProperties
<1>5. \A e \in le \cup re : e.start <= e.end /\ e.end <= Len(b)
  BY <1>3, <1>4 DEF IsScript, Edits
<1>6. ASSUME ~Overlapping(le, re) PROVE ApplyEdits(b, CombineEdits(le, re)).ok
  <2>1. Ascending(CombineEdits(le, re), le \cup re)
    BY <1>3, <1>4, <1>6, CombineEditsSorts
  <2>2. IsCombined(le \cup re, Len(b), T)
    BY <1>3, <1>4, <1>6, ScriptsCombine
  <2> QED
    BY <1>3, <2>1, <2>2, EditsGiveTheSections
<1> QED
  BY <1>2, <1>5, <1>6 DEF ScriptsFit

-----------------------------------------------------------------------------
\* The inductive invariant of a merge: the versions are given ones, and what it answered
\* is merge_markdown_three_way of them and of the lines the diffs paired.
THEOREM MergeInvHolds == MergeSpec => []MergeInv
BY MergeInvInit, MergeInvStep, PTL DEF MergeSpec

\* The answer does not depend on which device merges, for every version of a note, every
\* limit and every alignment the diff library may choose (merge_markdown_three_way).
THEOREM MergeIsSymmetricHolds == MergeSpec => []MergeIsSymmetric
BY MergeInvHolds, SymmetryFollows, PTL

\* Every line either device wrote, and every base line neither touched, is in a merged
\* note in its place: combine_edits and apply_edits lose none.
THEOREM EveryEditIsMergedHolds == MergeSpec => []EveryEditIsMerged
BY MergeInvHolds, MergedFollows, PTL

\* apply_edits never has to refuse: scripts that edits_from_myers made and combine_edits
\* accepted are in range and in order, so its error branch is not taken.  What is left of
\* InvalidEditScript is the refusal of the renderer.
THEOREM ScriptsFitHolds == MergeSpec => []ScriptsFit
BY MergeInvHolds, FitFollows, PTL
=============================================================================
