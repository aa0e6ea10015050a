---------------------------- MODULE SnapshotsProofs ----------------------------
(***************************************************************************)
(* Proofs about Snapshots, for every finite set of snapshots and runs,     *)
(* every policy and any number of operations cut short.                    *)
(*                                                                         *)
(* First the sum of the sizes: what the fold computes, by taking a         *)
(* smallest set for which it is wrong, and that it grows with the set.     *)
(* Then the order and the reasons of the policy, which once they hold hold *)
(* for good.  SnapshotsInv is inductive: a snapshot that is gone had a     *)
(* reason.  Last, what is left by a plan meets the policy.                 *)
(***************************************************************************)
EXTENDS Snapshots, FiniteSetTheorems, WellFoundedInduction, TLAPS

-----------------------------------------------------------------------------
(* The sum of the sizes. *)

\* What a fold over the subsets of S computes.
Pick(s) == CHOOSE x \in s : TRUE
Adds(g, S) == g = [s \in SUBSET S |-> IF s = {} THEN 0 ELSE Size[Pick(s)] + g[s \ {Pick(s)}]]

LEMMA BytesIsFold == \A S : Bytes(S) = (CHOOSE g : Adds(g, S))[S]
BY DEF Bytes, MapThenSumSet, MapThenFoldSet, Adds, Pick

\* A set of finite subsets has one of which no other is a part.
LEMMA SmallestSubset ==
  ASSUME NEW P \in SUBSET SUBSET Snaps, P # {}
  PROVE  \E S \in P : \A T \in P : T \subseteq S => T = S
<1>1. P \subseteq FiniteSubsetsOf(Snaps)
  BY FiniteAssumption, FS_Subset DEF FiniteSubsetsOf
<1>2. PICK S \in P : \A T \in P : ~ (<<T, S>> \in StrictSubsetOrdering(Snaps))
  BY <1>1, WFMin, FS_StrictSubsetOrderingWellFounded
<1> QED
  BY <1>2 DEF StrictSubsetOrdering

\* Two folds agree on a set that both have.
LEMMA FoldsAgree ==
  ASSUME NEW S \in SUBSET Snaps, NEW T \in SUBSET Snaps, NEW g, NEW h, Adds(g, S), Adds(h, T)
  PROVE  \A s \in SUBSET (S \cap T) : g[s] = h[s]
<1> DEFINE P == {s \in SUBSET (S \cap T) : g[s] # h[s]}
<1>1. SUFFICES ASSUME P # {} PROVE FALSE
  OBVIOUS
<1>2. P \in SUBSET SUBSET Snaps
  OBVIOUS
<1> HIDE DEF P
<1>3. PICK s \in P : \A t \in P : t \subseteq s => t = s
  BY <1>1, <1>2, SmallestSubset
<1>4. s \in SUBSET S /\ s \in SUBSET T /\ g[s] # h[s]
  BY <1>3 DEF P
<1>5. CASE s = {}
  BY <1>4, <1>5 DEF Adds
<1>6. CASE s # {}
  <2>1. PICK r : r = s \ {Pick(s)}
    OBVIOUS
  <2>2. Pick(s) \in s /\ r \subseteq s /\ r # s
    BY <1>6, <2>1 DEF Pick
  <2>3. r \notin P
    BY <1>3, <2>2
  <2>4. g[r] = h[r]
    BY <1>4, <2>2, <2>3 DEF P
  <2>5. g[s] = Size[Pick(s)] + g[r]
    BY <1>4, <1>6, <2>1 DEF Adds
  <2>6. h[s] = Size[Pick(s)] + h[r]
    BY <1>4, <1>6, <2>1 DEF Adds
  <2> QED
    BY <1>4, <2>4, <2>5, <2>6
<1> QED
  BY <1>5, <1>6

\* A fold of a set that exists is the sum of each part of it.
LEMMA FoldIsBytes ==
  ASSUME NEW S \in SUBSET Snaps, NEW g, Adds(g, S), NEW s \in SUBSET S,
         \E h : Adds(h, s)
  PROVE  g[s] = Bytes(s)
<1>1. PICK h : h = CHOOSE k : Adds(k, s)
  OBVIOUS
<1>2. Adds(h, s)
  BY <1>1
<1>3. Bytes(s) = h[s]
  BY <1>1, BytesIsFold
<1> QED
  BY <1>2, <1>3, FoldsAgree

\* Every finite set has its fold.
LEMMA FoldExists == \A S \in SUBSET Snaps : \E g : Adds(g, S)
<1> DEFINE P == {S \in SUBSET Snaps : ~ \E g : Adds(g, S)}
<1>1. SUFFICES ASSUME P # {} PROVE FALSE
  OBVIOUS
<1>2. P \in SUBSET SUBSET Snaps
  OBVIOUS
<1> HIDE DEF P
<1>3. PICK S \in P : \A T \in P : T \subseteq S => T = S
  BY <1>1, <1>2, SmallestSubset
<1>4. S \in SUBSET Snaps /\ \A g : ~Adds(g, S)
  BY <1>3 DEF P
<1>5. \A s \in SUBSET S : s # S => \E g : Adds(g, s)
  BY <1>3, <1>4 DEF P
<1>6. \A s \in SUBSET S : s # S =>
        Bytes(s) = IF s = {} THEN 0 ELSE Size[Pick(s)] + Bytes(s \ {Pick(s)})
  <2> SUFFICES ASSUME NEW s \in SUBSET S, s # S
               PROVE  Bytes(s) = IF s = {} THEN 0 ELSE Size[Pick(s)] + Bytes(s \ {Pick(s)})
    OBVIOUS
  <2>1. PICK g : Adds(g, s)
    BY <1>5
  <2>2. g[s] = IF s = {} THEN 0 ELSE Size[Pick(s)] + g[s \ {Pick(s)}]
    BY <2>1 DEF Adds
  <2>3. g[s] = Bytes(s)
    BY <1>4, <2>1, FoldIsBytes
  <2>4. s # {} => g[s \ {Pick(s)}] = Bytes(s \ {Pick(s)})
    <3>1. PICK r : r = s \ {Pick(s)}
      OBVIOUS
    <3>2. s # {} => r \in SUBSET S /\ r \in SUBSET s /\ r # S
      BY <3>1 DEF Pick
    <3>3. s # {} => g[r] = Bytes(r)
      BY <1>4, <1>5, <2>1, <3>2, FoldIsBytes
    <3> QED
      BY <3>1, <3>3
  <2> QED
    BY <2>2, <2>3, <2>4
<1>7. PICK b : b = [s \in SUBSET S |-> Bytes(s)]
  OBVIOUS
<1>8. PICK g : g = [s \in SUBSET S |->
                     IF s = {} THEN 0 ELSE Size[Pick(s)] + b[s \ {Pick(s)}]]
  OBVIOUS
<1>9. \A s \in SUBSET S : s # S => g[s] = b[s]
  BY <1>6, <1>7, <1>8
<1>10. \A s \in SUBSET S : s # {} => g[s \ {Pick(s)}] = b[s \ {Pick(s)}]
  <2> SUFFICES ASSUME NEW s \in SUBSET S, s # {}
               PROVE  g[s \ {Pick(s)}] = b[s \ {Pick(s)}]
    OBVIOUS
  <2>1. Pick(s) \in s
    BY DEF Pick
  <2> QED
    BY <1>9, <2>1
<1>11. Adds(g, S)
  BY <1>8, <1>10 DEF Adds
<1> QED
  BY <1>4, <1>11

\* The sum as its recursion has it.
LEMMA BytesStep ==
  /\ Bytes({}) = 0
  /\ \A S \in SUBSET Snaps : S # {} => Bytes(S) = Size[Pick(S)] + Bytes(S \ {Pick(S)})
<1>1. ASSUME NEW S \in SUBSET Snaps
      PROVE  Bytes(S) = IF S = {} THEN 0 ELSE Size[Pick(S)] + Bytes(S \ {Pick(S)})
  <2>1. PICK g : Adds(g, S)
    BY FoldExists
  <2>2. g[S] = IF S = {} THEN 0 ELSE Size[Pick(S)] + g[S \ {Pick(S)}]
    BY <2>1 DEF Adds
  <2>3. \A s \in SUBSET S : g[s] = Bytes(s)
    BY <2>1, FoldExists, FoldIsBytes
  <2> QED
    BY <2>2, <2>3
<1> QED
  BY <1>1

\* The sum is a number.
LEMMA BytesIsNat == \A S \in SUBSET Snaps : Bytes(S) \in Nat
<1> DEFINE P == {S \in SUBSET Snaps : Bytes(S) \notin Nat}
<1>1. SUFFICES ASSUME P # {} PROVE FALSE
  OBVIOUS
<1>2. P \in SUBSET SUBSET Snaps
  OBVIOUS
<1> HIDE DEF P
<1>3. PICK S \in P : \A T \in P : T \subseteq S => T = S
  BY <1>1, <1>2, SmallestSubset
<1>4. S \in SUBSET Snaps /\ Bytes(S) \notin Nat
  BY <1>3 DEF P
<1>5. S # {}
  BY <1>4, BytesStep
<1>6. Pick(S) \in S
  BY <1>5 DEF Pick
<1>7. Bytes(S \ {Pick(S)}) \in Nat
  BY <1>3, <1>4, <1>6 DEF P
<1>8. Bytes(S) = Size[Pick(S)] + Bytes(S \ {Pick(S)})
  BY <1>4, <1>5, BytesStep
<1>9. Size[Pick(S)] \in Nat
  BY <1>4, <1>6, MetadataAssumption
<1> QED
  BY <1>4, <1>7, <1>8, <1>9

\* Whichever element is taken out.
LEMMA BytesSplit ==
  \A S \in SUBSET Snaps : \A x \in S : Bytes(S) = Size[x] + Bytes(S \ {x})
<1> DEFINE P == {S \in SUBSET Snaps : \E x \in S : Bytes(S) # Size[x] + Bytes(S \ {x})}
<1>1. SUFFICES ASSUME P # {} PROVE FALSE
  OBVIOUS
<1>2. P \in SUBSET SUBSET Snaps
  OBVIOUS
<1> HIDE DEF P
<1>3. PICK S \in P : \A T \in P : T \subseteq S => T = S
  BY <1>1, <1>2, SmallestSubset
<1>4. S \in SUBSET Snaps
  BY <1>2, <1>3
<1>5. PICK x \in S : Bytes(S) # Size[x] + Bytes(S \ {x})
  BY <1>3 DEF P
<1>6. PICK p : p = Pick(S)
  OBVIOUS
<1>7. p \in S /\ Bytes(S) = Size[p] + Bytes(S \ {p})
  BY <1>4, <1>6, BytesStep DEF Pick
<1>8. x # p
  BY <1>5, <1>7
<1>9. Bytes(S \ {p}) = Size[x] + Bytes((S \ {p}) \ {x})
  BY <1>3, <1>4, <1>7, <1>8 DEF P
<1>10. Bytes(S \ {x}) = Size[p] + Bytes((S \ {x}) \ {p})
  BY <1>3, <1>4, <1>5, <1>7, <1>8 DEF P
<1>11. PICK r : r = (S \ {p}) \ {x} /\ r = (S \ {x}) \ {p}
  OBVIOUS
<1>12. Size[x] \in Nat /\ Size[p] \in Nat /\ Bytes(r) \in Nat
  BY <1>4, <1>5, <1>7, <1>11, BytesIsNat, MetadataAssumption
<1>13. Bytes(S) = Size[p] + (Size[x] + Bytes(r))
  BY <1>7, <1>9, <1>11
<1>14. Bytes(S) # Size[x] + (Size[p] + Bytes(r))
  BY <1>5, <1>10, <1>11
<1> QED
  BY <1>12, <1>13, <1>14

\* More snapshots have no fewer bytes.
LEMMA BytesGrow ==
  ASSUME NEW T \in SUBSET Snaps, NEW U \in SUBSET T
  PROVE  Bytes(U) <= Bytes(T)
<1> DEFINE P == {S \in SUBSET Snaps : U \subseteq S /\ ~(Bytes(U) <= Bytes(S))}
<1>1. SUFFICES ASSUME P # {} PROVE FALSE
  OBVIOUS
<1>2. P \in SUBSET SUBSET Snaps
  OBVIOUS
<1> HIDE DEF P
<1>3. PICK S \in P : \A V \in P : V \subseteq S => V = S
  BY <1>1, <1>2, SmallestSubset
<1>4. S \in SUBSET Snaps /\ U \subseteq S /\ ~(Bytes(U) <= Bytes(S))
  BY <1>3 DEF P
<1>5. PICK x \in S : x \notin U
  BY <1>4, BytesIsNat
<1>6. Bytes(U) <= Bytes(S \ {x})
  BY <1>3, <1>4, <1>5 DEF P
<1>7. Bytes(S) = Size[x] + Bytes(S \ {x})
  BY <1>4, <1>5, BytesSplit
<1>8. Size[x] \in Nat /\ Bytes(S \ {x}) \in Nat /\ Bytes(U) \in Nat
  BY <1>4, <1>5, BytesIsNat, MetadataAssumption
<1> QED
  BY <1>4, <1>6, <1>7, <1>8
-----------------------------------------------------------------------------
(* The order, and what the policy selects. *)

\* Some natural numbers have a least one.
LEMMA LeastNatural ==
  ASSUME NEW S \in SUBSET Nat, S # {}
  PROVE  \E m \in S : \A n \in S : m <= n
<1>1. PICK m \in S : \A n \in S : ~ (<<n, m>> \in OpToRel(<, Nat))
  BY WFMin, NatLessThanWellFounded
<1>2. \A n \in S : ~ (n < m)
  BY <1>1 DEF OpToRel
<1> QED
  BY <1>2

\* The next run to recover is one of those to recover.
LEMMA FirstIsIn ==
  ASSUME NEW S \in SUBSET Runs, S # {}
  PROVE  First(S) \in S
BY SnapsAssumption, LeastNatural DEF First

\* The oldest of some snapshots is one of them.
LEMMA OldestIsFirst ==
  ASSUME NEW S \in SUBSET Snaps, S # {}
  PROVE  Oldest(S) \in S /\ \A n \in S \ {Oldest(S)} : Before(Oldest(S), n)
<1> DEFINE times == {Created[s] : s \in S}
<1>1. times \in SUBSET Nat /\ times # {}
  BY MetadataAssumption
<1>2. PICK c \in times : \A d \in times : c <= d
  BY <1>1, LeastNatural
<1> DEFINE first == {s \in S : Created[s] = c}
<1>3. first \in SUBSET Nat /\ first # {}
  BY <1>2, SnapsAssumption
<1>4. PICK m \in first : \A n \in first : m <= n
  BY <1>3, LeastNatural
<1>5. \A n \in S \ {m} : Before(m, n)
  <2> SUFFICES ASSUME NEW n \in S \ {m} PROVE Before(m, n)
    OBVIOUS
  <2>1. c <= Created[n] /\ Created[m] = c /\ (Created[n] = c => m <= n)
    BY <1>2, <1>4
  <2>2. c \in Nat /\ Created[n] \in Nat /\ m \in Nat /\ n \in Nat /\ m # n
    BY <1>1, <1>4, SnapsAssumption, MetadataAssumption
  <2> QED
    BY <2>1, <2>2 DEF Before
<1>6. \E s \in S : \A n \in S \ {s} : Before(s, n)
  BY <1>4, <1>5
<1> QED
  BY <1>6 DEF Oldest

\* Why the policy lets a snapshot go, at a time and among the published ones.
Reason(s, now, S) ==
  \/ now >= MaxAge /\ Created[s] <= now - MaxAge
  \/ Cardinality({n \in Newer(s, S) : Lineage[n] = Lineage[s]}) >= MaxPerLineage
  \/ Bytes({s} \cup Newer(s, S)) > MaxBytes

\* A reason holds for good: later, and with more published.
LEMMA ReasonGrows ==
  ASSUME NEW s \in Snaps, NEW T \in SUBSET Snaps, NEW S \in SUBSET T,
         NEW now \in Nat, NEW later \in Nat, now <= later, Reason(s, now, S)
  PROVE  Reason(s, later, T)
<1>1. CASE now >= MaxAge /\ Created[s] <= now - MaxAge
  BY <1>1, MetadataAssumption, LimitsAssumption DEF Reason
<1>2. CASE Cardinality({n \in Newer(s, S) : Lineage[n] = Lineage[s]}) >= MaxPerLineage
  <2>1. PICK A : A = {n \in Newer(s, S) : Lineage[n] = Lineage[s]}
    OBVIOUS
  <2>2. PICK B : B = {n \in Newer(s, T) : Lineage[n] = Lineage[s]}
    OBVIOUS
  <2>3. A \in SUBSET B /\ B \in SUBSET Snaps
    BY <2>1, <2>2 DEF Newer
  <2>4. IsFiniteSet(B) /\ IsFiniteSet(A) /\ Cardinality(A) <= Cardinality(B)
        /\ Cardinality(A) \in Nat /\ Cardinality(B) \in Nat
    BY <2>3, FiniteAssumption, FS_Subset, FS_CardinalityType
  <2>5. Cardinality(B) >= MaxPerLineage
    BY <1>2, <2>1, <2>4, LimitsAssumption
  <2> QED
    BY <2>2, <2>5 DEF Reason
<1>3. CASE Bytes({s} \cup Newer(s, S)) > MaxBytes
  <2>1. PICK A : A = {s} \cup Newer(s, S)
    OBVIOUS
  <2>2. PICK B : B = {s} \cup Newer(s, T)
    OBVIOUS
  <2>3. A \in SUBSET B /\ B \in SUBSET Snaps
    BY <2>1, <2>2 DEF Newer
  <2>4. Bytes(A) <= Bytes(B) /\ Bytes(A) \in Nat /\ Bytes(B) \in Nat
    BY <2>3, BytesGrow, BytesIsNat
  <2>5. Bytes(B) > MaxBytes
    BY <1>3, <2>1, <2>4, LimitsAssumption
  <2> QED
    BY <2>2, <2>5 DEF Reason
<1> QED
  BY <1>1, <1>2, <1>3 DEF Reason

\* What is selected has a reason.
LEMMA CandidatesHaveReasons ==
  ASSUME NEW S, NEW now, NEW s \in Candidates(S, now)
  PROVE  s \in S /\ Reason(s, now, S)
<1>1. s \in Selected(S, now)
  BY DEF Candidates
<1> QED
  BY <1>1 DEF Selected, Aged, Excess, Oversize, Reason
-----------------------------------------------------------------------------
(* The invariant. *)

Publishing == [pc : {"stage", "promote"}, snap : Snaps]
Quarantining == [pc : {"plan", "create", "detach", "mark", "marked"}, id : Runs, at : Nows,
                 todo : SUBSET Runs, cur : Runs, left : SUBSET Snaps]
Removing == [pc : {"delete", "complete"}, id : Runs, left : SUBSET Snaps]
Finishing == [pc : {"clean", "terminal", "publish_terminal", "remove_complete", "remove_run",
                    "finalize"}, id : Runs]
OpOf == {Idle} \cup Publishing \cup Quarantining \cup Removing \cup Finishing

\* The operation under way: it marks what it detached, its work directory is there
\* until it is renamed, and the runs it has still to recover have their plans.
OpFits ==
  /\ op \in OpOf
  /\ op.pc \in {"mark", "marked"} => op.left # {}
  /\ op.pc = "create" => stale > 0
  /\ op.pc \in {"plan", "create"} => op.todo = {}
  /\ op \in Quarantining => \A q \in op.todo : run[q].plan # None

PublishedOnce == Objects \subseteq once

\* The plan of every run, the plan that is being written, and what a deletion has
\* still to delete have their reasons.
PlansHaveReasons ==
  \A r \in Runs : run[r].plan # None => \A s \in run[r].plan : Reason(s, latest, once)
ChosenHaveReasons ==
  /\ op.pc = "create" => \A s \in op.left : Reason(s, op.at, once)
  /\ op.pc = "delete" => \A s \in op.left : Reason(s, latest, once)

SnapshotsInv ==
  /\ TypeOK /\ OpFits /\ PublishedOnce /\ PlansHaveReasons /\ ChosenHaveReasons
  /\ GoneForAReason

\* What is gone, in terms of reasons.
LEMMA GoneParts ==
  GoneForAReason <=> \A s \in once : Kept(s) \/ Reason(s, latest, once)
BY DEF GoneForAReason, Reason

\* What the step of an operation says of its record.
LEMMA OpFacts ==
  ASSUME op \in OpOf
  PROVE  /\ op.pc \in {"stage", "promote"} => op \in Publishing
         /\ op.pc \in {"plan", "create", "detach", "mark", "marked"} => op \in Quarantining
         /\ op.pc \in {"delete", "complete"} => op \in Removing
         /\ op.pc \in {"clean", "terminal", "publish_terminal", "remove_complete",
                         "remove_run", "finalize"} => op \in Finishing
BY DEF OpOf, Idle, Publishing, Quarantining, Removing, Finishing

LEMMA InitHasInv == Init => SnapshotsInv
<1> SUFFICES ASSUME Init PROVE SnapshotsInv
  OBVIOUS
<1>1. NoRun \in Run
  BY LimitsAssumption DEF NoRun, Run, File
<1>2. TypeOK
  <2>1. scraps \in BOOLEAN
    BY Zenon DEF Init
  <2>2. MaxRuns \in Nat /\ MaxFaults \in Nat
    BY LimitsAssumption
  <2>3. stale \in 0 .. MaxRuns /\ faults \in 0 .. MaxFaults /\ latest \in Nat
    BY <2>2 DEF Init
  <2>4. /\ published \in [Snaps -> {"none", "staging", "objects"}]
        /\ item \in [Runs -> [Snaps -> Contents]] /\ run \in [Runs -> Run]
        /\ once \subseteq Snaps
    BY <1>1 DEF Init, Contents
  <2> QED
    BY <2>1, <2>3, <2>4 DEF TypeOK
<1>3. OpFits
  BY DEF Init, OpFits, OpOf, Idle, Quarantining
<1>4. PublishedOnce
  BY DEF Init, PublishedOnce, Objects
<1>5. PlansHaveReasons
  BY DEF Init, PlansHaveReasons, NoRun
<1>6. ChosenHaveReasons /\ GoneForAReason
  BY DEF Init, ChosenHaveReasons, GoneForAReason, Idle
<1> QED
  BY <1>2, <1>3, <1>4, <1>5, <1>6 DEF SnapshotsInv

\* The snapshots stay where they are, and plans are at most removed.
LEMMA QuietPreserves ==
  ASSUME SnapshotsInv, UNCHANGED <<published, item, once, latest>>, TypeOK', OpFits',
         \A r \in Runs : run'[r].plan \in {run[r].plan, None},
         op'.pc # "create",
         op'.pc = "delete" => \A s \in op'.left : Reason(s, latest, once)
  PROVE  SnapshotsInv'
<1>1. PublishedOnce'
  BY DEF SnapshotsInv, PublishedOnce, Objects
<1>2. PlansHaveReasons'
  BY DEF SnapshotsInv, PlansHaveReasons
<1>3. ChosenHaveReasons'
  BY DEF ChosenHaveReasons
<1>4. GoneForAReason'
  BY DEF SnapshotsInv, GoneForAReason, Kept
<1> QED
  BY <1>1, <1>2, <1>3, <1>4 DEF SnapshotsInv

\* The operation ends.
LEMMA IdleFits ==
  ASSUME op' = Idle
  PROVE  OpFits' /\ op'.pc = "idle"
BY DEF OpFits, OpOf, Idle, Quarantining

LEMMA StartPublishPreserves ==
  ASSUME SnapshotsInv, NEW s \in Snaps, StartPublish(s)
  PROVE  SnapshotsInv'
<1>1. op' \in Publishing
  BY DEF StartPublish, Publishing
<1>2. OpFits' /\ op'.pc \in {"stage", "promote"}
  BY <1>1 DEF OpFits, OpOf, Publishing, Quarantining
<1>3. TypeOK' /\ UNCHANGED <<published, item, run, once, latest>>
  BY DEF StartPublish, SnapshotsInv, TypeOK
<1> QED
  BY <1>2, <1>3, QuietPreserves

\* A publication puts one snapshot in its place.
LEMMA StagePreserves ==
  ASSUME SnapshotsInv, StageSnapshot \/ PromoteStaging
  PROVE  SnapshotsInv'
<1>0. TypeOK /\ op \in Publishing /\ op.snap \in Snaps
  BY OpFacts DEF SnapshotsInv, OpFits, StageSnapshot, PromoteStaging, Publishing
<1>1. PICK w \in {"staging", "objects"} :
        /\ published' = [published EXCEPT ![op.snap] = w]
        /\ once' = IF w = "objects" THEN once \cup {op.snap} ELSE once
  BY DEF StageSnapshot, PromoteStaging
<1>2. /\ UNCHANGED <<scraps, item, run, stale, faults, latest>>
      /\ op' \in Publishing \cup {Idle}
  BY <1>0 DEF StageSnapshot, PromoteStaging, Publishing
<1>3. /\ published'[op.snap] = w
      /\ \A s \in Snaps \ {op.snap} : published'[s] = published[s]
      /\ once \subseteq once' /\ once' \subseteq once \cup {op.snap} /\ once' \subseteq Snaps
      /\ once \subseteq Snaps /\ latest \in Nat
      /\ w = "objects" => op.snap \in once'
  BY <1>0, <1>1 DEF TypeOK
<1>4. TypeOK'
  BY <1>0, <1>1, <1>2, <1>3 DEF TypeOK
<1>5. OpFits' /\ op'.pc \in {"stage", "promote", "idle"}
  BY <1>2 DEF OpFits, OpOf, Publishing, Quarantining, Idle
<1>6. PublishedOnce'
  BY <1>3 DEF SnapshotsInv, PublishedOnce, Objects
<1>7. \A s \in Snaps : Reason(s, latest, once) => Reason(s, latest, once')
  BY <1>3, ReasonGrows
<1>8. PlansHaveReasons'
  BY <1>0, <1>2, <1>7 DEF SnapshotsInv, PlansHaveReasons, TypeOK, Run
<1>9. ChosenHaveReasons'
  BY <1>5 DEF ChosenHaveReasons
<1>10. (\A s \in once : Kept(s) \/ Reason(s, latest, once))'
  BY <1>1, <1>2, <1>3, <1>7, GoneParts DEF SnapshotsInv, Kept
<1>11. GoneForAReason'
  BY <1>10 DEF GoneForAReason, Reason
<1> QED
  BY <1>4, <1>5, <1>6, <1>8, <1>9, <1>11 DEF SnapshotsInv

-----------------------------------------------------------------------------
(* Quarantine. *)

\* Where the operation goes when some runs are left to recover.
LEMMA NextRunFacts ==
  ASSUME TypeOK, NEW o \in [pc : {"", "detach"}, id : Runs, at : Nows, todo : SUBSET Runs,
                            cur : Runs, left : SUBSET Snaps],
         NEW todo \in SUBSET Runs, \A q \in todo : run[q].plan # None
  PROVE  \/ NextRun(o, todo) = Idle
         \/ /\ NextRun(o, todo) \in Quarantining
            /\ NextRun(o, todo).pc \in {"detach", "plan"}
            /\ NextRun(o, todo).todo \subseteq todo
            /\ NextRun(o, todo).pc = "plan" => NextRun(o, todo).todo = {}
<1>1. CASE todo # {}
  <2>1. PICK q : q = First(todo)
    OBVIOUS
  <2>2. q \in todo /\ run[q].plan \in SUBSET Snaps
    BY <1>1, <2>1, FirstIsIn DEF TypeOK, Run
  <2>3. NextRun(o, todo) = [o EXCEPT !.pc = "detach", !.todo = todo \ {q}, !.cur = q,
                                     !.left = run[q].plan]
    BY <1>1, <2>1 DEF NextRun
  <2> QED
    BY <2>2, <2>3 DEF Quarantining
<1>2. CASE todo = {} /\ run[o.id].there
  BY <1>2 DEF NextRun
<1>3. CASE todo = {} /\ ~run[o.id].there
  <2>1. NextRun(o, todo) = [o EXCEPT !.pc = "plan", !.todo = {}]
    BY <1>3 DEF NextRun
  <2> QED
    BY <2>1 DEF Quarantining
<1> QED
  BY <1>1, <1>2, <1>3

\* The next run, or the plan, when the snapshots and the runs stay as they are.
LEMMA NextRunPreserves ==
  ASSUME SnapshotsInv, NEW o \in [pc : {"", "detach"}, id : Runs, at : Nows, todo : SUBSET Runs,
                                  cur : Runs, left : SUBSET Snaps],
         NEW todo \in SUBSET Runs, \A q \in todo : run[q].plan # None,
         op' = NextRun(o, todo),
         UNCHANGED <<published, scraps, item, run, stale, faults, once, latest>>
  PROVE  SnapshotsInv'
<1>1. TypeOK /\ TypeOK'
  BY DEF SnapshotsInv, TypeOK
<1>2. CASE op' = Idle
  BY <1>1, <1>2, IdleFits, QuietPreserves
<1>3. CASE /\ op' \in Quarantining /\ op'.pc \in {"detach", "plan"} /\ op'.todo \subseteq todo
           /\ op'.pc = "plan" => op'.todo = {}
  <2>1. OpFits'
    BY <1>3 DEF OpFits, OpOf
  <2> QED
    BY <1>1, <1>3, <2>1, QuietPreserves
<1> QED
  BY <1>1, <1>2, <1>3, NextRunFacts

LEMMA StartQuarantinePreserves ==
  ASSUME SnapshotsInv, NEW r \in Runs, NEW now \in Nows, StartQuarantine(r, now)
  PROVE  SnapshotsInv'
<1>1. PICK o : o = [pc |-> "", id |-> r, at |-> now, todo |-> {}, cur |-> r, left |-> {}]
  OBVIOUS
<1>2. o \in [pc : {"", "detach"}, id : Runs, at : Nows, todo : SUBSET Runs,
             cur : Runs, left : SUBSET Snaps]
  BY <1>1
<1>3. There \in SUBSET Runs /\ \A q \in There : run[q].plan # None
  BY DEF There, StartQuarantine, Recoverable, IsWhole
<1> QED
  BY <1>1, <1>2, <1>3, NextRunPreserves DEF StartQuarantine

LEMMA EndRunPreserves ==
  ASSUME SnapshotsInv, EndRun
  PROVE  SnapshotsInv'
<1>1. op \in Quarantining /\ op.pc = "detach" /\ \A q \in op.todo : run[q].plan # None
  BY OpFacts DEF SnapshotsInv, OpFits, EndRun
<1>2. op \in [pc : {"", "detach"}, id : Runs, at : Nows, todo : SUBSET Runs,
              cur : Runs, left : SUBSET Snaps] /\ op.todo \in SUBSET Runs
  BY <1>1 DEF Quarantining
<1> QED
  BY <1>1, <1>2, NextRunPreserves DEF EndRun

\* What is planned is selected among the published, so it has a reason.
LEMMA PlanRunPreserves ==
  ASSUME SnapshotsInv, PlanRun
  PROVE  SnapshotsInv'
<1>0. /\ TypeOK /\ op \in Quarantining /\ op.pc = "plan" /\ op.at \in Nat
      /\ op.todo = {}
      /\ Objects \subseteq once /\ once \subseteq Snaps /\ stale \in Nat /\ MaxRuns \in Nat
      /\ UNCHANGED <<published, scraps, item, run, faults, once, latest>>
  BY OpFacts, SnapsAssumption, LimitsAssumption
  DEF SnapshotsInv, OpFits, PlanRun, Quarantining, PublishedOnce, TypeOK
<1>1. PICK S : S = Inspected(Objects \cup Staged) \cap Objects
  OBVIOUS
<1>2. PICK found : found = Candidates(S, op.at)
  OBVIOUS
<1>3. IF found = {} \/ Cardinality(There) + stale >= MaxRuns
      THEN op' = Idle /\ UNCHANGED stale
      ELSE op' = [op EXCEPT !.pc = "create", !.left = found] /\ stale' = stale + 1
  BY <1>1, <1>2 DEF PlanRun
<1>4. \A s \in found : s \in Snaps /\ Reason(s, op.at, once)
  <2> SUFFICES ASSUME NEW s \in found PROVE s \in Snaps /\ Reason(s, op.at, once)
    OBVIOUS
  <2>1. s \in S /\ Reason(s, op.at, S)
    BY <1>2, CandidatesHaveReasons
  <2>2. S \in SUBSET once /\ s \in Snaps
    BY <1>0, <1>1, <2>1
  <2> QED
    BY <1>0, <2>1, <2>2, ReasonGrows
<1>5. CASE op' = Idle /\ UNCHANGED stale
  <2>1. TypeOK'
    BY <1>0, <1>5 DEF TypeOK
  <2> QED
    BY <1>0, <1>5, <2>1, IdleFits, QuietPreserves
<1>6. CASE /\ ~(Cardinality(There) + stale >= MaxRuns)
           /\ op' = [op EXCEPT !.pc = "create", !.left = found] /\ stale' = stale + 1
  <2>1. IsFiniteSet(There) /\ Cardinality(There) \in Nat
    BY FiniteAssumption, FS_Subset, FS_CardinalityType DEF There
  <2>2. stale' \in 0 .. MaxRuns /\ stale' > 0
    BY <1>0, <1>6, <2>1
  <2>3. TypeOK'
    BY <1>0, <2>2 DEF TypeOK
  <2>4. /\ op' \in Quarantining /\ op'.pc = "create" /\ op'.left = found
        /\ op'.at = op.at /\ op'.todo = op.todo
    BY <1>0, <1>4, <1>6 DEF Quarantining
  <2>5. OpFits'
    BY <1>0, <2>2, <2>4 DEF OpFits, OpOf
  <2>6. ChosenHaveReasons'
    BY <1>0, <1>4, <2>4 DEF ChosenHaveReasons
  <2>7. PublishedOnce' /\ PlansHaveReasons' /\ GoneForAReason'
    BY <1>0 DEF SnapshotsInv, PublishedOnce, Objects, PlansHaveReasons, GoneForAReason, Kept
  <2> QED
    BY <2>3, <2>5, <2>6, <2>7 DEF SnapshotsInv
<1> QED
  BY <1>3, <1>5, <1>6

\* The run has the plan that was written, and its time becomes a time of a plan.
LEMMA CreateRunPreserves ==
  ASSUME SnapshotsInv, CreateRun
  PROVE  SnapshotsInv'
<1>0. /\ TypeOK /\ op \in Quarantining /\ op.pc = "create" /\ stale > 0
      /\ op.todo = {}
      /\ \A s \in op.left : Reason(s, op.at, once)
      /\ UNCHANGED <<published, scraps, item, faults, once>>
  BY OpFacts DEF SnapshotsInv, OpFits, CreateRun, ChosenHaveReasons
<1>1. /\ op.id \in Runs /\ op.at \in Nat /\ op.at \in Nows /\ op.left \in SUBSET Snaps
      /\ once \in SUBSET Snaps /\ latest \in Nat /\ stale \in Nat /\ MaxRuns \in Nat
  <2>1. op.id \in Runs /\ op.at \in Nows /\ op.left \in SUBSET Snaps
    BY <1>0 DEF Quarantining
  <2>2. MaxRuns \in Nat
    BY LimitsAssumption
  <2>3. once \in SUBSET Snaps /\ latest \in Nat /\ stale \in Nat
    BY <1>0, <2>2 DEF TypeOK
  <2> QED
    BY <2>1, <2>2, <2>3, SnapsAssumption
<1>2. PICK n : n = [NoRun EXCEPT !.there = TRUE, !.plan = op.left, !.at = op.at,
                                 !.dirs = Controls]
  OBVIOUS
<1>3. n \in Run /\ n.plan = op.left
  <2>1. n = [there |-> TRUE, plan |-> op.left, at |-> op.at, dirs |-> Controls, marks |-> {},
             torn |-> [s \in Snaps |-> 0], tried |-> {},
             complete |-> FALSE, completing |-> "none", terminal |-> FALSE, ending |-> "none"]
    BY <1>2 DEF NoRun
  <2>2. 0 \in 0 .. MaxTries
    BY LimitsAssumption
  <2> QED
    BY <1>1, <2>1, <2>2 DEF Run, File
<1>4. run' = [run EXCEPT ![op.id] = n] /\ stale' = stale - 1
      /\ latest' = IF op.at > latest THEN op.at ELSE latest
  BY <1>2 DEF CreateRun
<1>5. latest' \in Nat /\ latest <= latest' /\ op.at <= latest'
  BY <1>1, <1>4
<1>6. TypeOK'
  BY <1>0, <1>1, <1>3, <1>4, <1>5 DEF TypeOK
<1>7. /\ op' \in Quarantining /\ op'.pc = "detach" /\ op'.todo = op.todo
  BY <1>0, <1>1 DEF CreateRun, Quarantining
<1>8. \A r \in Runs : run'[r] = IF r = op.id THEN n ELSE run[r]
  BY <1>0, <1>4 DEF TypeOK
<1>9. OpFits'
  BY <1>0, <1>7 DEF OpFits, OpOf
<1>10. \A s \in Snaps : /\ Reason(s, latest, once) => Reason(s, latest', once)
                        /\ Reason(s, op.at, once) => Reason(s, latest', once)
  BY <1>1, <1>5, ReasonGrows
<1>11. PlansHaveReasons'
  BY <1>0, <1>1, <1>3, <1>8, <1>10 DEF SnapshotsInv, PlansHaveReasons, TypeOK, Run
<1>12. PublishedOnce' /\ ChosenHaveReasons'
  BY <1>0, <1>7 DEF SnapshotsInv, PublishedOnce, Objects, ChosenHaveReasons
<1>13. (\A s \in once : Kept(s) \/ Reason(s, latest, once))'
  BY <1>0, <1>1, <1>10, GoneParts DEF SnapshotsInv, Kept
<1>14. GoneForAReason'
  BY <1>13 DEF GoneForAReason, Reason
<1> QED
  BY <1>6, <1>9, <1>11, <1>12, <1>14 DEF SnapshotsInv

\* A step that changes the files of one run, and moves no snapshot.
LEMMA RunStepPreserves ==
  ASSUME SnapshotsInv, NEW r \in Runs, NEW q \in Run, run' = [run EXCEPT ![r] = q],
         q.plan \in {run[r].plan, None},
         UNCHANGED <<published, item, stale, once, latest>>,
         scraps' \in BOOLEAN, faults' \in 0 .. MaxFaults,
         op' \in OpOf, op'.pc \notin {"plan", "create"},
         op'.pc \in {"mark", "marked"} => op'.left # {},
         op' \in Quarantining =>
           op \in Quarantining /\ op'.todo = op.todo /\ q.plan = run[r].plan,
         op'.pc = "delete" => \A s \in op'.left : Reason(s, latest, once)
  PROVE  SnapshotsInv'
<1>1. TypeOK /\ TypeOK'
  BY DEF SnapshotsInv, TypeOK
<1>2. \A p \in Runs : run'[p] = IF p = r THEN q ELSE run[p]
  BY <1>1 DEF TypeOK
<1>3. op' \in Quarantining => \A p \in op'.todo : run'[p].plan # None
  BY <1>2 DEF SnapshotsInv, OpFits, Quarantining
<1>4. OpFits'
  BY <1>3 DEF OpFits
<1> QED
  BY <1>1, <1>2, <1>4, QuietPreserves

\* A marker is written and published.
LEMMA MarkerPreserves ==
  ASSUME SnapshotsInv, WriteMarker \/ PublishMarker
  PROVE  SnapshotsInv'
<1>0. /\ TypeOK /\ op \in Quarantining /\ op.left # {} /\ op.left \in SUBSET Snaps
      /\ op.cur \in Runs /\ run[op.cur] \in Run
      /\ scraps \in BOOLEAN /\ faults \in 0 .. MaxFaults
      /\ UNCHANGED <<published, scraps, item, stale, faults, once, latest>>
  BY OpFacts DEF SnapshotsInv, OpFits, WriteMarker, PublishMarker, Quarantining, TypeOK
<1>1. PICK s : s = Oldest(op.left)
  OBVIOUS
<1>2. s \in op.left /\ s \in Snaps
  BY <1>0, <1>1, OldestIsFirst
<1>3. CASE op' = Idle /\ UNCHANGED run
  <2>1. TypeOK'
    BY <1>0, <1>3 DEF TypeOK
  <2> QED
    BY <1>0, <1>3, <2>1, IdleFits, QuietPreserves
<1>4. CASE /\ run' = [run EXCEPT ![op.cur].tried = @ \cup {s}]
           /\ op' = [op EXCEPT !.pc = "marked"]
  <2>1. PICK q : q = [run[op.cur] EXCEPT !.tried = @ \cup {s}]
    OBVIOUS
  <2>2. q \in Run /\ q.plan = run[op.cur].plan
    BY <1>0, <1>2, <2>1 DEF Run
  <2>3. run' = [run EXCEPT ![op.cur] = q]
    BY <1>0, <1>4, <2>1 DEF TypeOK
  <2>4. op' \in Quarantining /\ op'.pc = "marked" /\ op'.left = op.left /\ op'.todo = op.todo
    BY <1>0, <1>4 DEF Quarantining
  <2> QED
    BY <1>0, <2>2, <2>3, <2>4, RunStepPreserves DEF OpOf
<1>5. CASE /\ run' = [run EXCEPT ![op.cur].tried = @ \ {s}, ![op.cur].marks = @ \cup {s}]
           /\ op' = [op EXCEPT !.pc = "detach", !.left = @ \ {s}]
  <2>1. PICK q : q = [run[op.cur] EXCEPT !.tried = @ \ {s}, !.marks = @ \cup {s}]
    OBVIOUS
  <2>2. q \in Run /\ q.plan = run[op.cur].plan
    BY <1>0, <1>2, <2>1 DEF Run
  <2>3. run' = [run EXCEPT ![op.cur] = q]
    BY <1>0, <1>5, <2>1 DEF TypeOK
  <2>4. op' \in Quarantining /\ op'.pc = "detach" /\ op'.todo = op.todo
    BY <1>0, <1>5 DEF Quarantining
  <2> QED
    BY <1>0, <2>2, <2>3, <2>4, RunStepPreserves DEF OpOf
<1> QED
  BY <1>1, <1>3, <1>4, <1>5 DEF WriteMarker, PublishMarker

\* A rename to items/ keeps the snapshot.
LEMMA DetachPreserves ==
  ASSUME SnapshotsInv, Detach
  PROVE  SnapshotsInv'
<1>0. /\ TypeOK /\ op \in Quarantining /\ op.pc = "detach" /\ op.left # {}
      /\ op.left \in SUBSET Snaps /\ op.cur \in Runs
      /\ \A q \in op.todo : run[q].plan # None
      /\ UNCHANGED <<scraps, run, stale, faults, once, latest>>
  BY OpFacts DEF SnapshotsInv, OpFits, Detach, Quarantining
<1>1. PICK s : s = Oldest(op.left)
  OBVIOUS
<1>2. s \in op.left /\ s \in Snaps
  BY <1>0, <1>1, OldestIsFirst
<1>3. op' \in {Idle, [op EXCEPT !.pc = "mark"], [op EXCEPT !.left = @ \ {s}]}
  BY <1>1 DEF Detach
<1>4. OpFits' /\ op'.pc \in {"idle", "mark", "detach"}
  <2>1. CASE op' = Idle
    BY <2>1, IdleFits
  <2>2. CASE op' = [op EXCEPT !.pc = "mark"]
    <3>1. op' \in Quarantining /\ op'.pc = "mark" /\ op'.left = op.left /\ op'.todo = op.todo
      BY <1>0, <2>2 DEF Quarantining
    <3> QED
      BY <1>0, <3>1 DEF OpFits, OpOf
  <2>3. CASE op' = [op EXCEPT !.left = @ \ {s}]
    <3>1. op' \in Quarantining /\ op'.pc = "detach" /\ op'.todo = op.todo
      BY <1>0, <2>3 DEF Quarantining
    <3> QED
      BY <1>0, <3>1 DEF OpFits, OpOf
  <2> QED
    BY <1>3, <2>1, <2>2, <2>3
<1>5. CASE UNCHANGED <<published, item>>
  <2>1. TypeOK'
    BY <1>0, <1>5 DEF TypeOK
  <2> QED
    BY <1>0, <1>4, <1>5, <2>1, QuietPreserves
<1>6. CASE /\ published' = [published EXCEPT ![s] = "none"]
           /\ item' = [item EXCEPT ![op.cur][s] = "whole"]
  <2>1. /\ \A n \in Snaps : published'[n] = IF n = s THEN "none" ELSE published[n]
        /\ \A r \in Runs, n \in Snaps :
             item'[r][n] = IF r = op.cur /\ n = s THEN "whole" ELSE item[r][n]
    BY <1>0, <1>2, <1>6 DEF TypeOK
  <2>2. TypeOK'
    BY <1>0, <1>2, <1>6 DEF TypeOK, Contents
  <2>3. PublishedOnce'
    BY <1>0, <2>1 DEF SnapshotsInv, PublishedOnce, Objects
  <2>4. PlansHaveReasons' /\ ChosenHaveReasons'
    BY <1>0, <1>4 DEF SnapshotsInv, PlansHaveReasons, ChosenHaveReasons
  <2>5. \A n \in once : Kept(n) => Kept(n)'
    BY <1>0, <1>2, <2>1 DEF Kept, TypeOK
  <2>6. (\A n \in once : Kept(n) \/ Reason(n, latest, once))'
    BY <1>0, <2>5, GoneParts DEF SnapshotsInv
  <2>7. GoneForAReason'
    BY <2>6 DEF GoneForAReason, Reason
  <2> QED
    BY <1>4, <2>2, <2>3, <2>4, <2>7 DEF SnapshotsInv
<1> QED
  <2>1. UNCHANGED <<published, item>>
        \/ /\ published' = [published EXCEPT ![s] = "none"]
           /\ item' = [item EXCEPT ![op.cur][s] = "whole"]
    BY <1>1 DEF Detach
  <2> QED
    BY <1>5, <1>6, <2>1
-----------------------------------------------------------------------------
(* Deletion. *)

\* A deletion begins with the plan of the run.
LEMMA StartDeletePreserves ==
  ASSUME SnapshotsInv, NEW r \in Runs, StartDelete(r)
  PROVE  SnapshotsInv'
<1>0. TypeOK /\ TypeOK' /\ UNCHANGED <<published, item, run, once, latest>>
  BY DEF SnapshotsInv, TypeOK, StartDelete
<1>1. CASE op' \in {[pc |-> "finalize", id |-> r], [pc |-> "remove_run", id |-> r],
                     [pc |-> "clean", id |-> r]}
  <2>1. op' \in Finishing
    BY <1>1 DEF Finishing
  <2>2. OpFits' /\ op'.pc \notin {"create", "delete"}
    BY <2>1 DEF OpFits, OpOf, Finishing, Quarantining
  <2> QED
    BY <1>0, <2>2, QuietPreserves
<1>2. CASE Deletable(r) /\ op' = [pc |-> "delete", id |-> r, left |-> run[r].plan]
  <2>1. run[r].plan \in SUBSET Snaps /\ run[r].plan # None
    BY <1>0, <1>2 DEF Deletable, TypeOK, Run
  <2>2. op' \in Removing /\ op'.pc = "delete" /\ op'.left = run[r].plan
    BY <1>2, <2>1 DEF Removing
  <2>3. OpFits'
    BY <2>2 DEF OpFits, OpOf, Removing, Quarantining
  <2>4. \A s \in op'.left : Reason(s, latest, once)
    BY <2>1, <2>2 DEF SnapshotsInv, PlansHaveReasons
  <2> QED
    BY <1>0, <2>2, <2>3, <2>4, QuietPreserves
<1> QED
  BY <1>1, <1>2 DEF StartDelete

\* Only what has a reason is deleted.
LEMMA DeleteItemPreserves ==
  ASSUME SnapshotsInv, DeleteItem
  PROVE  SnapshotsInv'
<1>0. /\ TypeOK /\ op \in Removing /\ op.pc = "delete" /\ op.left # {} /\ op.id \in Runs
      /\ op.left \in SUBSET Snaps /\ run[op.id] \in Run
      /\ \A s \in op.left : Reason(s, latest, once)
      /\ UNCHANGED <<published, scraps, stale, faults, once, latest>>
      /\ scraps \in BOOLEAN /\ faults \in 0 .. MaxFaults
  BY OpFacts DEF SnapshotsInv, OpFits, DeleteItem, Removing, ChosenHaveReasons, TypeOK
<1>1. PICK s : s = Oldest(op.left)
  OBVIOUS
<1>2. s \in op.left /\ s \in Snaps
  BY <1>0, <1>1, OldestIsFirst
<1>3. op \notin Quarantining /\ op \in OpOf
  BY <1>0 DEF Removing, Quarantining, OpOf
<1>4. CASE run' = [run EXCEPT ![op.id].tried = @ \ {s}] /\ UNCHANGED <<item, op>>
  <2>1. PICK q : q = [run[op.id] EXCEPT !.tried = @ \ {s}]
    OBVIOUS
  <2>2. q \in Run /\ q.plan = run[op.id].plan
    BY <1>0, <2>1 DEF Run
  <2>3. run' = [run EXCEPT ![op.id] = q]
    BY <1>0, <1>4, <2>1 DEF TypeOK
  <2> QED
    BY <1>0, <1>3, <1>4, <2>2, <2>3, RunStepPreserves
<1>5. CASE /\ item' = [item EXCEPT ![op.id][s] = Emptied(@)] /\ UNCHANGED run
           /\ op' \in {op, [op EXCEPT !.left = @ \ {s}]}
  <2>1. /\ Emptied(item[op.id][s]) \in Contents
        /\ \A r \in Runs, n \in Snaps : n # s => item'[r][n] = item[r][n]
    BY <1>0, <1>2, <1>5 DEF TypeOK, Emptied, Contents
  <2>2. TypeOK'
    BY <1>0, <1>2, <1>5, <2>1 DEF TypeOK
  <2>3. op' \in Removing /\ op'.pc = "delete" /\ op'.left \subseteq op.left
    BY <1>0, <1>5 DEF Removing
  <2>4. OpFits'
    BY <2>3 DEF OpFits, OpOf, Removing, Quarantining
  <2>5. PublishedOnce' /\ PlansHaveReasons' /\ ChosenHaveReasons'
    BY <1>0, <1>5, <2>3
    DEF SnapshotsInv, PublishedOnce, Objects, PlansHaveReasons, ChosenHaveReasons
  <2>6. \A n \in once : n # s /\ Kept(n) => Kept(n)'
    BY <1>0, <2>1 DEF Kept, TypeOK
  <2>7. (\A n \in once : Kept(n) \/ Reason(n, latest, once))'
    BY <1>0, <1>2, <2>6, GoneParts DEF SnapshotsInv
  <2>8. GoneForAReason'
    BY <2>7 DEF GoneForAReason, Reason
  <2> QED
    BY <2>2, <2>4, <2>5, <2>8 DEF SnapshotsInv
<1> QED
  BY <1>1, <1>4, <1>5 DEF DeleteItem

\* Clean-up removes one file or directory of a run.
LEMMA CleanedIsRun ==
  ASSUME NEW q \in Run
  PROVE  Cleaned(q) \in Run /\ Cleaned(q).plan \in {q.plan, None}
<1>1. ASSUME NEW S \in SUBSET Snaps
      PROVE  [q EXCEPT !.marks = S] \in Run /\ [q EXCEPT !.marks = S].plan = q.plan
  BY DEF Run
<1>2. ASSUME NEW S \in SUBSET Controls
      PROVE  [q EXCEPT !.dirs = S] \in Run /\ [q EXCEPT !.dirs = S].plan = q.plan
  BY DEF Run
<1>3. [q EXCEPT !.plan = None] \in Run /\ [q EXCEPT !.plan = None].plan = None
  BY DEF Run
<1>4. q.marks \in SUBSET Snaps /\ q.dirs \in SUBSET Controls
  BY DEF Run
<1>5. \/ Cleaned(q) = q
      \/ Cleaned(q) = [q EXCEPT !.plan = None]
      \/ \E S \in SUBSET Snaps : Cleaned(q) = [q EXCEPT !.marks = S]
      \/ \E S \in SUBSET Controls : Cleaned(q) = [q EXCEPT !.dirs = S]
  <2>1. q.marks \ {Oldest(q.marks)} \in SUBSET Snaps
        /\ \A d : q.dirs \ {d} \in SUBSET Controls
    BY <1>4
  <2> QED
    BY <2>1 DEF Cleaned
<1> QED
  BY <1>1, <1>2, <1>3, <1>5

\* The steps of a deletion after its last item.
Cleanup ==
  \/ WriteCompletion \/ PublishCompletion \/ CleanRun \/ WriteTerminal \/ PublishTerminal
  \/ RemoveCompletion \/ RemoveRun \/ FinalizeTerminal

LEMMA CleanupPreserves ==
  ASSUME SnapshotsInv, Cleanup
  PROVE  SnapshotsInv'
<1>0. /\ TypeOK /\ op \in Removing \cup Finishing /\ op.id \in Runs /\ run[op.id] \in Run
      /\ UNCHANGED <<published, scraps, item, stale, faults, once, latest>>
      /\ scraps \in BOOLEAN /\ faults \in 0 .. MaxFaults
  <2>1. op \in Removing \cup Finishing
    BY OpFacts DEF SnapshotsInv, OpFits, Cleanup, WriteCompletion, PublishCompletion, CleanRun,
      WriteTerminal, PublishTerminal, RemoveCompletion, RemoveRun, FinalizeTerminal
  <2>2. op.id \in Runs
    BY <2>1 DEF Removing, Finishing
  <2>3. UNCHANGED <<published, scraps, item, stale, faults, once, latest>>
    BY DEF Cleanup, WriteCompletion, PublishCompletion, CleanRun,
      WriteTerminal, PublishTerminal, RemoveCompletion, RemoveRun, FinalizeTerminal
  <2> QED
    BY <2>1, <2>2, <2>3 DEF SnapshotsInv, TypeOK
<1>1. PICK r : r = op.id
  OBVIOUS
<1>2. /\ op' \in OpOf /\ op' \notin Quarantining
      /\ op'.pc \notin {"plan", "create", "mark", "marked", "delete"}
  <2>1. op' \in [pc : {"complete"}, id : Runs, left : SUBSET Snaps] \cup Finishing \cup {Idle}
    <3>1. CASE WriteCompletion
      <4>1. op \in Removing
        BY <3>1, OpFacts DEF SnapshotsInv, OpFits, WriteCompletion
      <4> QED
        BY <3>1, <4>1 DEF WriteCompletion, Removing
    <3>2. CASE PublishCompletion
      BY <1>0, <3>2 DEF PublishCompletion, Finishing
    <3>3. CASE CleanRun \/ WriteTerminal \/ PublishTerminal \/ RemoveCompletion \/ RemoveRun
      <4>1. op \in Finishing
        BY <3>3, OpFacts DEF SnapshotsInv, OpFits, CleanRun, WriteTerminal, PublishTerminal,
          RemoveCompletion, RemoveRun
      <4>2. op' = op \/ \E pc \in {"terminal", "remove_complete", "publish_terminal",
                                    "remove_run", "finalize"} : op' = [op EXCEPT !.pc = pc]
        BY <3>3 DEF CleanRun, WriteTerminal, PublishTerminal, RemoveCompletion, RemoveRun
      <4> QED
        BY <4>1, <4>2 DEF Finishing
    <3>4. CASE FinalizeTerminal
      BY <3>4 DEF FinalizeTerminal
    <3> QED
      BY <3>1, <3>2, <3>3, <3>4 DEF Cleanup
  <2> QED
    BY <2>1 DEF OpOf, Finishing, Idle, Removing, Quarantining
<1>3. PICK q \in Run : q.plan \in {run[r].plan, None} /\ run' = [run EXCEPT ![r] = q]
  <2>0. run \in [Runs -> Run] /\ r \in Runs
    BY <1>0, <1>1 DEF TypeOK
  <2>1. CASE WriteCompletion
    <3>1. run' = [run EXCEPT ![r] = [run[r] EXCEPT !.completing = "whole"]]
      BY <1>1, <2>0, <2>1 DEF WriteCompletion
    <3>2. [run[r] EXCEPT !.completing = "whole"] \in Run
          /\ [run[r] EXCEPT !.completing = "whole"].plan = run[r].plan
      BY <2>0 DEF Run, File
    <3> QED
      BY <3>1, <3>2
  <2>2. CASE PublishCompletion
    <3>1. PICK n : n = [run[r] EXCEPT !.completing = "none", !.complete = TRUE]
      OBVIOUS
    <3>2. n \in Run /\ n.plan = run[r].plan
      BY <2>0, <3>1 DEF Run, File
    <3>3. run' = [run EXCEPT ![r] = n]
      BY <1>1, <2>0, <2>2, <3>1 DEF PublishCompletion
    <3> QED
      BY <3>2, <3>3
  <2>3. CASE CleanRun
    BY <1>1, <2>0, <2>3, CleanedIsRun DEF CleanRun
  <2>4. CASE WriteTerminal
    <3>1. PICK n : n = IF run[r].terminal THEN run[r] ELSE [run[r] EXCEPT !.ending = "whole"]
      OBVIOUS
    <3>2. n \in Run /\ n.plan = run[r].plan
      BY <2>0, <3>1 DEF Run, File
    <3>3. run' = [run EXCEPT ![r] = n]
      BY <1>1, <2>0, <2>4, <3>1 DEF WriteTerminal
    <3> QED
      BY <3>2, <3>3
  <2>5. CASE PublishTerminal
    <3>1. PICK n : n = [run[r] EXCEPT !.ending = "none", !.terminal = TRUE]
      OBVIOUS
    <3>2. n \in Run /\ n.plan = run[r].plan
      BY <2>0, <3>1 DEF Run, File
    <3>3. run' = [run EXCEPT ![r] = n]
      BY <1>1, <2>0, <2>5, <3>1 DEF PublishTerminal
    <3> QED
      BY <3>2, <3>3
  <2>6. CASE RemoveCompletion
    <3>1. PICK n : n = [run[r] EXCEPT !.complete = FALSE]
      OBVIOUS
    <3>2. n \in Run /\ n.plan = run[r].plan
      BY <2>0, <3>1 DEF Run
    <3>3. run' = [run EXCEPT ![r] = n]
      BY <1>1, <2>0, <2>6, <3>1 DEF RemoveCompletion
    <3> QED
      BY <3>2, <3>3
  <2>7. CASE RemoveRun
    <3>1. PICK n : n = [run[r] EXCEPT !.there = FALSE]
      OBVIOUS
    <3>2. n \in Run /\ n.plan = run[r].plan
      BY <2>0, <3>1 DEF Run
    <3>3. run' = [run EXCEPT ![r] = n]
      BY <1>1, <2>0, <2>7, <3>1 DEF RemoveRun
    <3> QED
      BY <3>2, <3>3
  <2>8. CASE FinalizeTerminal
    <3>1. PICK n : n = [run[r] EXCEPT !.ending = "none"]
      OBVIOUS
    <3>2. n \in Run /\ n.plan = run[r].plan
      BY <2>0, <3>1 DEF Run, File
    <3>3. run' = [run EXCEPT ![r] = n]
      BY <1>1, <2>0, <2>8, <3>1 DEF FinalizeTerminal
    <3> QED
      BY <3>2, <3>3
  <2> QED
    BY <2>1, <2>2, <2>3, <2>4, <2>5, <2>6, <2>7, <2>8 DEF Cleanup
<1> QED
  BY <1>0, <1>1, <1>2, <1>3, RunStepPreserves

\* An operation that is cut short leaves at most a torn file.
LEMMA AbortPreserves ==
  ASSUME SnapshotsInv, Abort
  PROVE  SnapshotsInv'
<1>0. /\ TypeOK /\ op \in OpOf /\ op' = Idle /\ UNCHANGED <<published, item, stale, once, latest>>
      /\ run \in [Runs -> Run]
  BY DEF SnapshotsInv, OpFits, Abort, TypeOK
<1>1. faults' \in 0 .. MaxFaults
  BY <1>0, LimitsAssumption DEF Abort, TypeOK
<1>2. scraps' \in BOOLEAN
  BY <1>0, Zenon DEF Abort, TypeOK
<1>3. OpFits' /\ op'.pc = "idle" /\ op' \in OpOf /\ op' \notin Quarantining
  BY <1>0, IdleFits DEF OpOf, Idle, Quarantining
<1>4. CASE UNCHANGED run
  <2>1. TypeOK'
    BY <1>0, <1>1, <1>2, <1>4 DEF TypeOK
  <2> QED
    BY <1>0, <1>3, <1>4, <2>1, QuietPreserves
<1>5. CASE \E r \in Runs, q \in Run :
             q.plan = run[r].plan /\ run' = [run EXCEPT ![r] = q]
  BY <1>0, <1>1, <1>2, <1>3, <1>5, RunStepPreserves
<1>6. CASE /\ op.pc = "mark"
           /\ run[op.cur].torn[Oldest(op.left)] < MaxTries
           /\ run' = [run EXCEPT ![op.cur].torn[Oldest(op.left)] = @ + 1]
  <2>1. op.cur \in Runs /\ op.left \in SUBSET Snaps /\ op.left # {}
    BY <1>0, <1>6, OpFacts DEF SnapshotsInv, OpFits, Quarantining
  <2>2. PICK s \in Snaps : s = Oldest(op.left)
    BY <2>1, OldestIsFirst
  <2>3. PICK t : t = [run[op.cur].torn EXCEPT ![s] = @ + 1]
    OBVIOUS
  <2>4. run[op.cur].torn \in [Snaps -> 0 .. MaxTries] /\ run[op.cur] \in Run
    BY <1>0, <2>1 DEF Run
  <2>5. run[op.cur].torn[s] + 1 \in 0 .. MaxTries
    BY <1>6, <2>2, <2>4, LimitsAssumption
  <2>6. t \in [Snaps -> 0 .. MaxTries]
    BY <2>3, <2>4, <2>5
  <2>7. PICK q : q = [run[op.cur] EXCEPT !.torn = t]
    OBVIOUS
  <2>8. q \in Run /\ q.plan = run[op.cur].plan
    BY <2>4, <2>6, <2>7 DEF Run
  <2>9. run' = [run EXCEPT ![op.cur] = q]
    BY <1>0, <1>6, <2>1, <2>2, <2>3, <2>7
  <2> QED
    BY <1>5, <2>1, <2>8, <2>9
<1>7. CASE /\ op.pc = "delete"
           /\ run' = [run EXCEPT ![op.id].completing = "torn"]
  <2>1. op.id \in Runs /\ run[op.id] \in Run
    BY <1>0, <1>7, OpFacts DEF Removing
  <2>2. PICK q : q = [run[op.id] EXCEPT !.completing = "torn"]
    OBVIOUS
  <2>3. q \in Run /\ q.plan = run[op.id].plan
    BY <2>1, <2>2 DEF Run, File
  <2>4. run' = [run EXCEPT ![op.id] = q]
    BY <1>0, <1>7, <2>1, <2>2
  <2> QED
    BY <1>5, <2>1, <2>3, <2>4
<1>8. CASE /\ op.pc = "terminal"
           /\ run' = [run EXCEPT ![op.id].ending = "torn"]
  <2>1. op.id \in Runs /\ run[op.id] \in Run
    BY <1>0, <1>8, OpFacts DEF Finishing
  <2>2. PICK q : q = [run[op.id] EXCEPT !.ending = "torn"]
    OBVIOUS
  <2>3. q \in Run /\ q.plan = run[op.id].plan
    BY <2>1, <2>2 DEF Run, File
  <2>4. run' = [run EXCEPT ![op.id] = q]
    BY <1>0, <1>8, <2>1, <2>2
  <2> QED
    BY <1>5, <2>1, <2>3, <2>4
<1> QED
  BY <1>4, <1>6, <1>7, <1>8 DEF Abort

LEMMA NextPreserves == SnapshotsInv /\ [Next]_vars => SnapshotsInv'
<1> SUFFICES ASSUME SnapshotsInv, [Next]_vars PROVE SnapshotsInv'
  OBVIOUS
<1>1. CASE Step
  BY <1>1, StagePreserves, PlanRunPreserves, CreateRunPreserves, DetachPreserves,
    MarkerPreserves, EndRunPreserves, DeleteItemPreserves, CleanupPreserves
  DEF Step, Cleanup
<1>2. CASE UNCHANGED vars
  BY <1>2 DEF vars, SnapshotsInv, TypeOK, OpFits, PublishedOnce, Objects, PlansHaveReasons,
    ChosenHaveReasons, GoneForAReason, Kept
<1> QED
  BY <1>1, <1>2, StartPublishPreserves, StartQuarantinePreserves, StartDeletePreserves,
    AbortPreserves
  DEF Next

\* In every state of the store the variables keep their types, the operation that
\* holds the lock fits what it found, and every plan of a quarantine run, written or
\* being written, names only snapshots that the policy lets go.
THEOREM SnapshotsInvHolds == Spec => []SnapshotsInv
BY InitHasInv, NextPreserves, PTL DEF Spec

\* A published snapshot is gone only for a reason of the retention policy, whatever
\* quarantines and deletions were cut short, resumed or mixed with publications.
THEOREM GoneForAReasonHolds == Spec => []GoneForAReason
<1>1. SnapshotsInv => GoneForAReason
  BY DEF SnapshotsInv
<1> QED
  BY <1>1, SnapshotsInvHolds, PTL
-----------------------------------------------------------------------------
(* What a plan leaves. *)

\* The oldest that is left bounds the size of all that is left, and the oldest of
\* a lineage their number.
LEMMA RestMeetsPolicy ==
  ASSUME NEW S \in SUBSET Snaps, NEW now \in Nat
  PROVE  MeetsPolicy(S \ Selected(S, now), now)
<1>1. PICK K : K = S \ Selected(S, now)
  OBVIOUS
<1>2. /\ K \in SUBSET S /\ K \in SUBSET Snaps
      /\ \A s \in K : s \notin Aged(S, now) /\ s \notin Excess(S) /\ s \notin Oversize(S)
  BY <1>1 DEF Selected
<1>3. {MaxAge, MaxPerLineage, MaxBytes} \subseteq Nat
  BY LimitsAssumption
<1>4. \A s \in K : now < MaxAge \/ Created[s] > now - MaxAge
  BY <1>2, <1>3, MetadataAssumption DEF Aged
<1>5. ASSUME NEW s \in K
      PROVE  Cardinality({n \in K : Lineage[n] = Lineage[s]}) <= MaxPerLineage
  <2>1. PICK L : L = {n \in K : Lineage[n] = Lineage[s]}
    OBVIOUS
  <2>2. L \in SUBSET Snaps /\ L # {}
    BY <1>2, <2>1
  <2>3. PICK m \in L : \A n \in L \ {m} : Before(m, n)
    BY <2>2, OldestIsFirst
  <2>4. PICK N : N = {n \in Newer(m, S) : Lineage[n] = Lineage[m]}
    OBVIOUS
  <2>5. m \in K /\ m \in S /\ L \ {m} \subseteq N /\ N \subseteq Snaps
    BY <1>2, <2>1, <2>3, <2>4 DEF Newer
  <2>6. ~(Cardinality(N) >= MaxPerLineage)
    BY <1>2, <2>4, <2>5 DEF Excess
  <2>7. IsFiniteSet(N) /\ IsFiniteSet(L)
    BY <2>2, <2>5, FiniteAssumption, FS_Subset
  <2>8. /\ Cardinality(N) \in Nat /\ Cardinality(L) \in Nat
        /\ Cardinality(L \ {m}) = Cardinality(L) - 1
        /\ Cardinality(L \ {m}) <= Cardinality(N)
    BY <2>5, <2>7, FS_CardinalityType, FS_RemoveElement, FS_Subset
  <2>9. Cardinality(L) <= MaxPerLineage
    BY <1>3, <2>6, <2>8
  <2> QED
    BY <2>1, <2>9
<1>6. Bytes(K) <= MaxBytes
  <2>1. CASE K = {}
    BY <1>3, <2>1, BytesStep
  <2>2. CASE K # {}
    <3>1. PICK m \in K : \A n \in K \ {m} : Before(m, n)
      BY <1>2, <2>2, OldestIsFirst
    <3>2. PICK N : N = {m} \cup Newer(m, S)
      OBVIOUS
    <3>3. K \in SUBSET N /\ N \in SUBSET Snaps
      BY <1>2, <3>1, <3>2 DEF Newer
    <3>4. ~(Bytes(N) > MaxBytes)
      BY <1>2, <3>1, <3>2 DEF Oversize
    <3>5. Bytes(K) <= Bytes(N) /\ Bytes(K) \in Nat /\ Bytes(N) \in Nat
      BY <1>2, <3>3, BytesGrow, BytesIsNat
    <3> QED
      BY <1>3, <3>4, <3>5
  <2> QED
    BY <2>1, <2>2
<1> QED
  BY <1>1, <1>4, <1>5, <1>6 DEF MeetsPolicy

\* A selection within the bound is taken whole.
LEMMA AllAreCandidates ==
  ASSUME NEW S \in SUBSET Snaps, NEW now, Cardinality(Selected(S, now)) <= MaxCandidates
  PROVE  Candidates(S, now) = Selected(S, now)
<1>1. PICK A : A = Selected(S, now)
  OBVIOUS
<1>2. A \in SUBSET Snaps
  BY <1>1 DEF Selected, Aged, Excess, Oversize
<1>3. ASSUME NEW s \in A
      PROVE  Cardinality({n \in A : Before(n, s)}) < MaxCandidates
  <2>1. PICK B : B = {n \in A : Before(n, s)}
    OBVIOUS
  <2>2. ~Before(s, s)
    BY <1>2, SnapsAssumption, MetadataAssumption DEF Before
  <2>3. B \in SUBSET A /\ B # A
    BY <2>1, <2>2
  <2>4. IsFiniteSet(A) /\ IsFiniteSet(B)
    BY <1>2, <2>3, FiniteAssumption, FS_Subset
  <2>5. /\ Cardinality(A) \in Nat /\ Cardinality(B) \in Nat
        /\ Cardinality(B) <= Cardinality(A) /\ Cardinality(B) # Cardinality(A)
    BY <2>3, <2>4, FS_Subset, FS_CardinalityType
  <2>6. MaxCandidates \in Nat
    BY LimitsAssumption
  <2> QED
    BY <1>1, <2>1, <2>5, <2>6
<1> QED
  BY <1>1, <1>3 DEF Candidates

\* The step that plans a run achieves what capacity_proven says.
LEMMA PlanAchieves ==
  ASSUME SnapshotsInv, PlanRun, CapacityProven(op.at), Cardinality(There) + stale < MaxRuns
  PROVE  MeetsPolicy(Objects \ (IF op' = Idle THEN {} ELSE op'.left), op.at)
<1>0. op \in Quarantining /\ op.pc = "plan" /\ op.at \in Nat /\ stale \in Nat /\ MaxRuns \in Nat
  <2>1. op \in Quarantining /\ op.pc = "plan"
    BY OpFacts DEF SnapshotsInv, OpFits, PlanRun
  <2>2. MaxRuns \in Nat
    BY LimitsAssumption
  <2>3. op.at \in Nat
    BY <2>1, SnapsAssumption DEF Quarantining
  <2>4. stale \in Nat
    BY <2>2 DEF SnapshotsInv, TypeOK
  <2> QED
    BY <2>1, <2>2, <2>3, <2>4
<1>1. PICK S : S = Objects
  OBVIOUS
<1>2. S \in SUBSET Snaps
  BY <1>1 DEF Objects
<1>3. /\ Inspected(Objects \cup Staged) = S
      /\ Cardinality(Selected(S, op.at)) <= MaxCandidates
  BY <1>1 DEF CapacityProven
<1>4. PICK A : A = Selected(S, op.at)
  OBVIOUS
<1>5. Candidates(Inspected(Objects \cup Staged) \cap Objects, op.at) = A
  <2>1. Inspected(Objects \cup Staged) \cap Objects = S
    BY <1>1, <1>3
  <2> QED
    BY <1>2, <1>3, <1>4, <2>1, AllAreCandidates
<1>6. Cardinality(There) \in Nat
  BY FiniteAssumption, FS_Subset, FS_CardinalityType DEF There
<1>7. IF A = {} THEN op' = Idle ELSE op' = [op EXCEPT !.pc = "create", !.left = A]
  <2>1. IF A = {} \/ Cardinality(There) + stale >= MaxRuns
        THEN op' = Idle ELSE op' = [op EXCEPT !.pc = "create", !.left = A]
    BY <1>5 DEF PlanRun
  <2>2. ~(Cardinality(There) + stale >= MaxRuns)
    BY <1>0, <1>6
  <2> QED
    BY <2>1, <2>2
<1>8. (IF op' = Idle THEN {} ELSE op'.left) = A
  <2>1. CASE A = {}
    BY <1>7, <2>1
  <2>2. CASE A # {}
    <3>1. op'.pc = "create" /\ op'.left = A
      BY <1>0, <1>7, <2>2 DEF Quarantining
    <3> QED
      BY <3>1 DEF Idle
  <2> QED
    BY <2>1, <2>2
<1>9. MeetsPolicy(S \ A, op.at)
  BY <1>0, <1>2, <1>4, RestMeetsPolicy
<1> QED
  BY <1>1, <1>8, <1>9

\* Only the plan's own step leaves "plan", unless it is cut short.
LEMMA OnlyPlanRunPlans ==
  ASSUME SnapshotsInv, [Next]_vars, op.pc = "plan", op' # op, faults' = faults
  PROVE  PlanRun
<1>1. op # Idle
  BY DEF Idle
<1>2. ~Abort
  BY LimitsAssumption DEF SnapshotsInv, TypeOK, Abort
<1>3. ~UNCHANGED vars
  BY DEF vars
<1> QED
  BY <1>1, <1>2, <1>3
  DEF Next, Step, StartPublish, StartQuarantine, StartDelete, StageSnapshot, PromoteStaging,
    CreateRun, Detach, WriteMarker, PublishMarker, EndRun, DeleteItem, WriteCompletion,
    PublishCompletion, CleanRun, WriteTerminal, PublishTerminal, RemoveCompletion, RemoveRun,
    FinalizeTerminal

\* When nothing opaque, no stage and no bound prevents it (capacity_proven), what a new
\* run leaves in objects/ meets the policy: age, number per lineage and bytes.
THEOREM CapacityIsAchievedHolds == Spec => CapacityIsAchieved
<1>1. SnapshotsInv /\ [Next]_vars =>
        [(/\ op.pc = "plan" /\ op' # op /\ faults' = faults
          /\ CapacityProven(op.at) /\ Cardinality(There) + stale < MaxRuns)
           => MeetsPolicy(Objects \ (IF op' = Idle THEN {} ELSE op'.left), op.at)]_vars
  BY OnlyPlanRunPlans, PlanAchieves
<1> QED
  BY <1>1, SnapshotsInvHolds, PTL DEF Spec, CapacityIsAchieved
=============================================================================
