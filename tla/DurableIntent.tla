----------------------------- MODULE DurableIntent -----------------------------
(***************************************************************************)
(* What the recovery journal promises of every move, case rename, trash    *)
(* and restore, seen in what a power failure leaves: the intent is durable *)
(* before the file moves, the move before the tombstone, the tombstone     *)
(* before the caller is told.  A trash item and a restored item carry      *)
(* their own evidence, the manifest; only the others need the intent       *)
(* first.  Nothing durable is ever taken back.                             *)
(***************************************************************************)
CONSTANT Ops

VARIABLES intents,    \* the operations with a durable journal entry
          moved,      \* the operations whose last rename is durable
          placed,     \* the operations whose file is durably where it belongs
          done,       \* the operations with a durable tombstone
          told,       \* the operations a caller was told have succeeded
          described   \* the operations that a manifest describes

vars == <<intents, moved, placed, done, told, described>>

Init ==
  /\ intents = {} /\ moved = {} /\ placed = {} /\ done = {} /\ told = {}
  /\ described \subseteq Ops

Plan(o) ==
  /\ described' = described \cup {o}
  /\ UNCHANGED <<intents, moved, placed, done, told>>
Record(S) ==
  /\ intents' = intents \cup S
  /\ UNCHANGED <<moved, placed, done, told, described>>
\* Some of the files were put in place by others, as far as anyone can tell.
Place(M, S) ==
  /\ M \subseteq intents \cup described
  /\ M \subseteq S
  /\ moved' = moved \cup M
  /\ placed' = placed \cup S
  /\ UNCHANGED <<intents, done, told, described>>
Finish(S, o) ==
  /\ S \subseteq placed /\ o \in S
  /\ done' = done \cup S
  /\ told' = told \cup {o}
  /\ UNCHANGED <<intents, moved, placed, described>>

\* A power failure may leave on the disk what was written and never synced.
Settle(R, M, S, F) ==
  /\ M \subseteq intents \cup described
  /\ M \subseteq S
  /\ F \subseteq placed
  /\ intents' = intents \cup R
  /\ moved' = moved \cup M
  /\ placed' = placed \cup S
  /\ done' = done \cup F
  /\ UNCHANGED <<told, described>>

Next ==
  \/ \E o \in Ops : Plan(o)
  \/ \E S \in SUBSET Ops : Record(S) \/ \E M \in SUBSET Ops : Place(M, S)
  \/ \E S \in SUBSET Ops, o \in Ops : Finish(S, o)
  \/ \E R, M, S, F \in SUBSET Ops : Settle(R, M, S, F)

Spec == Init /\ [][Next]_vars
-----------------------------------------------------------------------------
(* Properties *)

\* What a caller was told has succeeded has a tombstone, and what has a
\* tombstone is in place, whatever a power failure takes back.
ToldIsDurable == told \subseteq done /\ done \subseteq placed

\* A file that was moved is in place, and the journal or a manifest says why.
MovedIsExplained == moved \subseteq placed /\ moved \subseteq intents \cup described

\* Nothing durable is lost, and no answer is withdrawn.
NothingIsTakenBack ==
  [][/\ intents \subseteq intents' /\ moved \subseteq moved' /\ placed \subseteq placed'
     /\ done \subseteq done' /\ told \subseteq told']_vars
=============================================================================
