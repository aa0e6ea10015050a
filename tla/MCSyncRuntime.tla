---------------------------- MODULE MCSyncRuntime ----------------------------
(* SyncRuntime for TLC: a switch to another Vault and back.                  *)
EXTENDS SyncRuntime, TLC

CONSTANTS v1, v2, a1, a2, t1, t2, t3

MCVaults == {v1, v2}
MCAccounts == {a1, a2}
MCThreads == {t1, t2, t3}
ThereAndBack == <<v1, v2, v1>>

ThreadsAndAccounts == Permutations(MCThreads) \cup Permutations(MCAccounts)

=============================================================================
