------------------------------- MODULE Snapshots -------------------------------
(***************************************************************************)
(* Recovery snapshots (myvault-snapshots): the publication of immutable    *)
(* objects (lib.rs), the retention policy (retention.rs), and quarantine   *)
(* runs that detach the chosen objects and later delete them               *)
(* (quarantine.rs).                                                        *)
(*                                                                         *)
(* Every operation holds the store's file lock from its first step to its  *)
(* last, so at most one is under way; it may end at any step, because the  *)
(* process died or a call failed, and leaves what it had done.  A file     *)
(* that was being written may be left torn.  The directories are private:  *)
(* nobody else touches them, renames and removals reach the disk in order, *)
(* and an id is always published with the same manifest and payload.       *)
(***************************************************************************)
EXTENDS Naturals, FiniteSets, FiniteSetsExt, SequencesExt

CONSTANTS Snaps,           \* snapshot ids, in their order
          Runs,            \* quarantine run ids, in their order
          Created,         \* created_at_unix_ms of each snapshot
          Lineage,         \* the collision key of its path
          Size,            \* its logical bytes
          Nows,            \* the times a quarantine is asked for
          MaxAge, MaxPerLineage, MaxBytes,   \* the RetentionPolicy
          MaxCandidates,   \* MAX_RETENTION_CANDIDATES
          Budget,          \* MAX_VERIFICATION_BYTES
          MaxRuns,         \* MAX_RUNS: stable runs and stale work
          MaxTries,        \* attempts at one marker
          MaxFaults,       \* bound: operations cut short
          None

ASSUME SnapsAssumption == Snaps \subseteq Nat /\ Runs \subseteq Nat /\ Nows \subseteq Nat
ASSUME FiniteAssumption == IsFiniteSet(Snaps) /\ IsFiniteSet(Runs)
ASSUME MetadataAssumption ==
  /\ Created \in [Snaps -> Nat] /\ Size \in [Snaps -> Nat] /\ DOMAIN Lineage = Snaps
ASSUME LimitsAssumption ==
  /\ {MaxAge, MaxPerLineage, MaxBytes, MaxCandidates, Budget, MaxRuns, MaxTries, MaxFaults}
       \subseteq Nat
  /\ MaxTries > 0

VARIABLES
  published,  \* where each snapshot's directory is: nowhere, staging or objects
  scraps,     \* is there a .work- directory of a publication that was cut short?
  item,       \* what each run holds of each snapshot
  run,        \* each run's directory and its terminal record
  stale,      \* work directories of runs that were never published
  op,         \* the operation that holds the lock
  faults,
  once,       \* history: the snapshots that were ever published
  latest      \* history: the latest time a quarantine was planned for

vars == <<published, scraps, item, run, stale, op, faults, once, latest>>

Controls == {"items", "state", "marker_staging"}
Contents == {"none", "whole", "manifest", "empty"}
File == {"none", "torn", "whole"}
Run == [there : BOOLEAN, plan : {None} \cup SUBSET Snaps, at : Nows \cup {None},
        dirs : SUBSET Controls, marks : SUBSET Snaps,
        torn : [Snaps -> 0 .. MaxTries], tried : SUBSET Snaps,
        complete : BOOLEAN, completing : File, terminal : BOOLEAN, ending : File]
NoRun == [there |-> FALSE, plan |-> None, at |-> None, dirs |-> {}, marks |-> {},
          torn |-> [s \in Snaps |-> 0], tried |-> {},
          complete |-> FALSE, completing |-> "none", terminal |-> FALSE, ending |-> "none"]

Idle == [pc |-> "idle"]

Init ==
  /\ published = [s \in Snaps |-> "none"] /\ scraps = FALSE
  /\ item = [r \in Runs |-> [s \in Snaps |-> "none"]]
  /\ run = [r \in Runs |-> NoRun]
  /\ stale = 0 /\ op = Idle /\ faults = 0 /\ once = {} /\ latest = 0
-----------------------------------------------------------------------------
(* Publication: a work directory, staging/<id>, objects/<id>. *)

\* publish, with resume_stable: an object is left alone, a stage promoted.
StartPublish(s) ==
  /\ op = Idle /\ published[s] # "objects"
  /\ op' = [pc |-> IF published[s] = "staging" THEN "promote" ELSE "stage", snap |-> s]
  /\ UNCHANGED <<published, scraps, item, run, stale, faults, once, latest>>

StageSnapshot ==
  /\ op.pc = "stage"
  /\ published' = [published EXCEPT ![op.snap] = "staging"]
  /\ op' = [op EXCEPT !.pc = "promote"]
  /\ UNCHANGED <<scraps, item, run, stale, faults, once, latest>>

PromoteStaging ==
  /\ op.pc = "promote"
  /\ published' = [published EXCEPT ![op.snap] = "objects"]
  /\ once' = once \cup {op.snap}
  /\ op' = Idle
  /\ UNCHANGED <<scraps, item, run, stale, faults, latest>>
-----------------------------------------------------------------------------
(* Retention: RetentionPolicy::plan_manifests and the scan before it. *)

Objects == {s \in Snaps : published[s] = "objects"}
Staged == {s \in Snaps : published[s] = "staging"}
Bytes(S) == MapThenSumSet(LAMBDA s : Size[s], S)

\* Sorted by time, then by id.
Before(s, n) == Created[s] < Created[n] \/ (Created[s] = Created[n] /\ s < n)
Newer(s, S) == {n \in S : Before(s, n)}
Oldest(S) == CHOOSE s \in S : \A n \in S \ {s} : Before(s, n)

\* The scan inspects stages and objects by id; what does not fit the rest of the
\* budget counts as opaque.
Inspected(S) ==
  LET step(s, acc) == IF Size[s] + acc.used > Budget
                      THEN acc
                      ELSE [used |-> acc.used + Size[s], seen |-> acc.seen \cup {s}]
  IN FoldLeft(LAMBDA acc, s : step(s, acc), [used |-> 0, seen |-> {}],
              SetToSortSeq(S, LAMBDA s, n : s < n)).seen

Aged(S, now) == {s \in S : now >= MaxAge /\ Created[s] <= now - MaxAge}

ExcessNewest(S) ==
  {s \in S : Cardinality({n \in S \ Newer(s, S) : n # s /\ Lineage[n] = Lineage[s]}) >= MaxPerLineage}

\* The oldest of a lineage that has too many.
Excess(S) == {s \in S : Cardinality({n \in Newer(s, S) : Lineage[n] = Lineage[s]}) >= MaxPerLineage}

OversizeWithoutLast(S) == {s \in S : Bytes(Newer(s, S)) > MaxBytes}

\* Oldest first, until the rest fits.
Oversize(S) == {s \in S : Bytes({s} \cup Newer(s, S)) > MaxBytes}

Selected(S, now) == Aged(S, now) \cup Excess(S) \cup Oversize(S)

\* The oldest MaxCandidates of them.
Candidates(S, now) ==
  LET all == Selected(S, now)
  IN {s \in all : Cardinality({n \in all : Before(n, s)}) < MaxCandidates}

CapacityProven(now) ==
  LET seen == Inspected(Objects \cup Staged)
  IN /\ ~scraps /\ Staged = {} /\ seen = Objects
     /\ Cardinality(Selected(seen, now)) <= MaxCandidates
-----------------------------------------------------------------------------
(* Quarantine: every run in runs/ is carried to its end before a new one.   *)

\* validate_run_entries: exactly plan.json and the three directories.
IsWhole(q) == q.plan # None /\ q.dirs = Controls /\ ~q.complete /\ q.completing = "none"

There == {q \in Runs : run[q].there}

\* recover_runs up to its first change: an attempt at a terminal record, a run with
\* both a directory and a terminal record, or a run that is being deleted stops it.
Recoverable(r) ==
  /\ ~run[r].terminal
  /\ \A q \in Runs : run[q].ending = "none" /\ ~(run[q].there /\ run[q].terminal)
  /\ \A q \in There : IsWhole(run[q])
  /\ Cardinality(There) <= MaxRuns

First(S) == CHOOSE q \in S : \A p \in S : q <= p

\* Where the operation goes when the runs in todo are left.
NextRun(o, todo) ==
  CASE todo # {} -> [o EXCEPT !.pc = "detach", !.todo = todo \ {First(todo)},
                              !.cur = First(todo), !.left = run[First(todo)].plan]
    [] todo = {} /\ run[o.id].there -> Idle
    [] OTHER -> [o EXCEPT !.pc = "plan", !.todo = {}]

\* quarantine_retention(run id, now, policy); a run that is there is asked for again
\* with its own time.
StartQuarantine(r, now) ==
  /\ op = Idle /\ Recoverable(r)
  /\ run[r].there => run[r].at = now
  /\ op' = NextRun([pc |-> "", id |-> r, at |-> now, todo |-> {}, cur |-> r, left |-> {}], There)
  /\ UNCHANGED <<published, scraps, item, run, stale, faults, once, latest>>

\* Nothing to do, or the cap is reached, or plan.json and its directories are
\* written to a work directory.
PlanRun ==
  LET found == Candidates(Inspected(Objects \cup Staged) \cap Objects, op.at) IN
  /\ op.pc = "plan"
  /\ IF found = {} \/ Cardinality(There) + stale >= MaxRuns
     THEN op' = Idle /\ UNCHANGED stale
     ELSE op' = [op EXCEPT !.pc = "create", !.left = found] /\ stale' = stale + 1
  /\ UNCHANGED <<published, scraps, item, run, faults, once, latest>>

\* The work directory is renamed to runs/<id>.
CreateRun ==
  /\ op.pc = "create"
  /\ stale' = stale - 1
  /\ run' = [run EXCEPT ![op.id] = [NoRun EXCEPT !.there = TRUE, !.plan = op.left, !.at = op.at,
                                                 !.dirs = Controls]]
  /\ latest' = IF op.at > latest THEN op.at ELSE latest
  /\ op' = [op EXCEPT !.pc = "detach", !.cur = op.id]
  /\ UNCHANGED <<published, scraps, item, faults, once>>

\* process_plan: the next candidate was marked before, was moved before, or is
\* renamed from objects/ to the run's items/.
Detach ==
  LET s == Oldest(op.left)
      q == op.cur
      source == published[s] = "objects"
      target == item[q][s] # "none"
  IN
  /\ op.pc = "detach" /\ op.left # {}
  /\ CASE s \in run[q].marks \/ (~source /\ target) ->
            /\ UNCHANGED <<published, item>>
            /\ op' = IF item[q][s] # "whole" THEN Idle
                     ELSE IF s \in run[q].marks THEN [op EXCEPT !.left = @ \ {s}]
                     ELSE [op EXCEPT !.pc = "mark"]
       [] s \notin run[q].marks /\ source /\ ~target ->
            /\ published' = [published EXCEPT ![s] = "none"]
            /\ item' = [item EXCEPT ![q][s] = "whole"]
            /\ op' = [op EXCEPT !.pc = "mark"]
       [] OTHER -> op' = Idle /\ UNCHANGED <<published, item>>
  /\ UNCHANGED <<scraps, run, stale, faults, once, latest>>

\* publish_marker: an attempt with the exact bytes is used, another one is written
\* while there are fewer than four.
WriteMarker ==
  LET s == Oldest(op.left)
      q == op.cur
  IN
  /\ op.pc = "mark"
  /\ IF s \in run[q].tried \/ run[q].torn[s] < MaxTries
     THEN /\ run' = [run EXCEPT ![q].tried = @ \cup {s}]
          /\ op' = [op EXCEPT !.pc = "marked"]
     ELSE op' = Idle /\ UNCHANGED run
  /\ UNCHANGED <<published, scraps, item, stale, faults, once, latest>>

PublishMarker ==
  LET s == Oldest(op.left)
      q == op.cur
  IN
  /\ op.pc = "marked"
  /\ run' = [run EXCEPT ![q].tried = @ \ {s}, ![q].marks = @ \cup {s}]
  /\ op' = [op EXCEPT !.pc = "detach", !.left = @ \ {s}]
  /\ UNCHANGED <<published, scraps, item, stale, faults, once, latest>>

EndRun ==
  /\ op.pc = "detach" /\ op.left = {}
  /\ op' = NextRun(op, op.todo)
  /\ UNCHANGED <<published, scraps, item, run, stale, faults, once, latest>>
-----------------------------------------------------------------------------
(* Deletion of a run. *)

\* preflight_run_root, preflight_terminal_family and preflight_initial_nested: all
\* of it is as planned and marked before the first byte goes.
Deletable(r) ==
  LET q == run[r] IN
  /\ q.plan # None /\ q.dirs = Controls /\ q.completing # "torn"
  /\ ~q.terminal /\ q.ending = "none"
  /\ q.marks = q.plan
  /\ \A s \in Snaps : q.torn[s] = 0
  /\ \A s \in Snaps : item[r][s] # "none" => s \in q.plan

IsEmptyDir(q) == q.plan = None /\ q.dirs = {} /\ ~q.complete /\ q.completing = "none"

\* preflight_completed_nested
Cleanable(r) ==
  LET q == run[r] IN
  /\ q.completing # "torn" /\ q.ending # "torn"
  /\ \A s \in Snaps : item[r][s] = "none"
  /\ "state" \in q.dirs => q.plan # None /\ q.marks \subseteq q.plan
  /\ q.tried = {}

\* delete_quarantined_run: how far an earlier call got decides.
StartDelete(r) ==
  LET q == run[r] IN
  /\ op = Idle
  /\ \/ /\ ~q.there /\ q.terminal /\ q.ending # "torn"
        /\ op' = [pc |-> "finalize", id |-> r]
     \/ /\ q.there /\ IsEmptyDir(q) /\ q.terminal /\ q.ending # "torn"
        /\ op' = [pc |-> "remove_run", id |-> r]
     \/ /\ q.there /\ q.complete /\ Cleanable(r)
        /\ op' = [pc |-> "clean", id |-> r]
     \/ /\ q.there /\ ~q.complete /\ Deletable(r)
        /\ op' = [pc |-> "delete", id |-> r, left |-> q.plan]
  /\ UNCHANGED <<published, scraps, item, run, stale, faults, once, latest>>

\* The spare attempts at a marker first, then payload, manifest, directory.
Emptied(x) == CASE x = "whole" -> "manifest" [] x = "manifest" -> "empty" [] OTHER -> "none"

DeleteItem ==
  /\ op.pc = "delete" /\ op.left # {}
  /\ LET s == Oldest(op.left)
         r == op.id
     IN IF s \in run[r].tried
        THEN run' = [run EXCEPT ![r].tried = @ \ {s}] /\ UNCHANGED <<item, op>>
        ELSE /\ item' = [item EXCEPT ![r][s] = Emptied(@)]
             /\ op' = IF item'[r][s] = "none" THEN [op EXCEPT !.left = @ \ {s}] ELSE op
             /\ UNCHANGED run
  /\ UNCHANGED <<published, scraps, stale, faults, once, latest>>

\* publish_completion: an attempt with the exact bytes is used again.
WriteCompletion ==
  /\ op.pc = "delete" /\ op.left = {}
  /\ run' = [run EXCEPT ![op.id].completing = "whole"]
  /\ op' = [op EXCEPT !.pc = "complete"]
  /\ UNCHANGED <<published, scraps, item, stale, faults, once, latest>>

PublishCompletion ==
  /\ op.pc = "complete"
  /\ run' = [run EXCEPT ![op.id].completing = "none", ![op.id].complete = TRUE]
  /\ op' = [pc |-> "clean", id |-> op.id]
  /\ UNCHANGED <<published, scraps, item, stale, faults, once, latest>>

CleanedPlanFirst(q) ==
  IF q.plan # None THEN [q EXCEPT !.plan = None]
  ELSE IF q.marks # {} THEN [q EXCEPT !.marks = @ \ {Oldest(q.marks)}]
  ELSE IF "state" \in q.dirs THEN [q EXCEPT !.dirs = @ \ {"state"}]
  ELSE IF "marker_staging" \in q.dirs THEN [q EXCEPT !.dirs = @ \ {"marker_staging"}]
  ELSE IF "items" \in q.dirs THEN [q EXCEPT !.dirs = @ \ {"items"}]
  ELSE q

\* cleanup_completed_run: the next thing to remove, the plan after what needs it.
Cleaned(q) ==
  IF q.marks # {} THEN [q EXCEPT !.marks = @ \ {Oldest(q.marks)}]
  ELSE IF "state" \in q.dirs THEN [q EXCEPT !.dirs = @ \ {"state"}]
  ELSE IF "marker_staging" \in q.dirs THEN [q EXCEPT !.dirs = @ \ {"marker_staging"}]
  ELSE IF "items" \in q.dirs THEN [q EXCEPT !.dirs = @ \ {"items"}]
  ELSE IF q.plan # None THEN [q EXCEPT !.plan = None]
  ELSE q

CleanRun ==
  /\ op.pc = "clean"
  /\ run' = [run EXCEPT ![op.id] = Cleaned(@)]
  /\ op' = IF run' = run THEN [op EXCEPT !.pc = "terminal"] ELSE op
  /\ UNCHANGED <<published, scraps, item, stale, faults, once, latest>>

\* publish_terminal: a record that is there stays, an exact attempt is used again.
WriteTerminal ==
  /\ op.pc = "terminal"
  /\ run' = IF run[op.id].terminal THEN run ELSE [run EXCEPT ![op.id].ending = "whole"]
  /\ op' = [op EXCEPT !.pc = IF run[op.id].terminal THEN "remove_complete" ELSE "publish_terminal"]
  /\ UNCHANGED <<published, scraps, item, stale, faults, once, latest>>

PublishTerminal ==
  /\ op.pc = "publish_terminal"
  /\ run' = [run EXCEPT ![op.id].ending = "none", ![op.id].terminal = TRUE]
  /\ op' = [op EXCEPT !.pc = "remove_complete"]
  /\ UNCHANGED <<published, scraps, item, stale, faults, once, latest>>

RemoveCompletion ==
  /\ op.pc = "remove_complete"
  /\ run' = [run EXCEPT ![op.id].complete = FALSE]
  /\ op' = [op EXCEPT !.pc = "remove_run"]
  /\ UNCHANGED <<published, scraps, item, stale, faults, once, latest>>

RemoveRun ==
  /\ op.pc = "remove_run"
  /\ run' = [run EXCEPT ![op.id].there = FALSE]
  /\ op' = [op EXCEPT !.pc = "finalize"]
  /\ UNCHANGED <<published, scraps, item, stale, faults, once, latest>>

\* finalize_terminal: attempts that are left over go.
FinalizeTerminal ==
  /\ op.pc = "finalize"
  /\ run' = [run EXCEPT ![op.id].ending = "none"]
  /\ op' = Idle
  /\ UNCHANGED <<published, scraps, item, stale, faults, once, latest>>
-----------------------------------------------------------------------------
(* An operation ends early; a file it was writing may be torn.  A marker's  *)
(* attempt that was written before is not written again.                    *)
Abort ==
  /\ op # Idle /\ faults < MaxFaults
  /\ faults' = faults + 1 /\ op' = Idle
  /\ scraps' = (scraps \/ op.pc = "stage")
  /\ \/ UNCHANGED run
     \/ /\ op.pc = "mark"
        /\ LET s == Oldest(op.left)
           IN /\ s \notin run[op.cur].tried /\ run[op.cur].torn[s] < MaxTries
              /\ run' = [run EXCEPT ![op.cur].torn[s] = @ + 1]
     \/ /\ op.pc = "delete" /\ op.left = {} /\ run[op.id].completing = "none"
        /\ run' = [run EXCEPT ![op.id].completing = "torn"]
     \/ /\ op.pc = "terminal" /\ ~run[op.id].terminal /\ run[op.id].ending = "none"
        /\ run' = [run EXCEPT ![op.id].ending = "torn"]
  /\ UNCHANGED <<published, item, stale, once, latest>>

Step ==
  \/ StageSnapshot \/ PromoteStaging
  \/ PlanRun \/ CreateRun \/ Detach \/ WriteMarker \/ PublishMarker \/ EndRun
  \/ DeleteItem \/ WriteCompletion \/ PublishCompletion \/ CleanRun
  \/ WriteTerminal \/ PublishTerminal \/ RemoveCompletion \/ RemoveRun \/ FinalizeTerminal

Next ==
  \/ \E s \in Snaps : StartPublish(s)
  \/ \E r \in Runs, now \in Nows : StartQuarantine(r, now)
  \/ \E r \in Runs : StartDelete(r)
  \/ Step
  \/ Abort

\* An operation goes on until it ends, and a deletion that was cut short is asked
\* for again.
Fairness ==
  /\ WF_vars(Step)
  /\ \A r \in Runs : SF_vars(StartDelete(r))

Spec == Init /\ [][Next]_vars /\ Fairness
-----------------------------------------------------------------------------
(* Properties *)

\* Every variable keeps its type.
TypeOK ==
  /\ published \in [Snaps -> {"none", "staging", "objects"}] /\ scraps \in BOOLEAN
  /\ item \in [Runs -> [Snaps -> Contents]]
  /\ run \in [Runs -> Run]
  /\ stale \in 0 .. MaxRuns
  /\ faults \in 0 .. MaxFaults /\ once \subseteq Snaps /\ latest \in Nat

Kept(s) == published[s] # "none" \/ \E r \in Runs : item[r][s] = "whole"

\* A published snapshot is gone only for a reason of the policy: its age at a time a
\* quarantine was planned for, enough newer ones of its lineage, or the size of it and
\* what is newer.  Runs that were cut short, resumed under another run's name or mixed
\* with new publications delete nothing else.
GoneForAReason ==
  \A s \in once :
    \/ Kept(s)
    \/ latest >= MaxAge /\ Created[s] <= latest - MaxAge
    \/ Cardinality({n \in Newer(s, once) : Lineage[n] = Lineage[s]}) >= MaxPerLineage
    \/ Bytes({s} \cup Newer(s, once)) > MaxBytes

MeetsPolicy(S, now) ==
  /\ \A s \in S : now < MaxAge \/ Created[s] > now - MaxAge
  /\ \A s \in S : Cardinality({n \in S : Lineage[n] = Lineage[s]}) <= MaxPerLineage
  /\ Bytes(S) <= MaxBytes

\* The comment on RetentionPlan::capacity_proven: unless something opaque, a stage or
\* a bound prevents it, what a new run leaves in objects/ meets the policy.
CapacityIsAchieved ==
  [][(/\ op.pc = "plan" /\ op' # op /\ faults' = faults
      /\ CapacityProven(op.at) /\ Cardinality(There) + stale < MaxRuns)
       => MeetsPolicy(Objects \ (IF op' = Idle THEN {} ELSE op'.left), op.at)]_vars

Torn(r) == run[r].completing = "torn" \/ run[r].ending = "torn"
Deleted(r) == ~run[r].there /\ run[r].terminal /\ run[r].ending = "none"
Deleting(r) ==
  /\ ~Deleted(r) /\ ~Torn(r)
  /\ \/ run[r].complete \/ run[r].terminal \/ run[r].completing = "whole"
     \/ run[r].there /\ \E s \in run[r].marks : item[r][s] # "whole"

\* A deletion that removed anything is carried to its end by calling it again, at
\* whichever step it was cut short, unless it was cut short in the middle of writing
\* a completion record.
DeletionConverges == \A r \in Runs : Deleting(r) ~> (Deleted(r) \/ Torn(r))
=============================================================================
