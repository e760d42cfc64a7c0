----------------------------- MODULE NcclRecovery -----------------------------
(***************************************************************************)
(* NcclRecoveryState of zluda/src/impl/nccl_recovery.rs: the phases a      *)
(* communicator goes through when a rank fails and is replaced.            *)
(***************************************************************************)
EXTENDS NcclPlan

CONSTANT Ranks   \* the rank numbers callers pass, spare GPUs among them

VARIABLES
    phase, failed, replacement, active,   \* the fields; -1 is None
    isolated   \* history: the ranks that failed and were not put back since

recoveryVars == <<phase, failed, replacement, active, isolated>>

Members(ring) == {ring[i] : i \in DOMAIN ring}

RecoveryInit ==
    /\ phase = "Healthy"
    /\ failed = -1 /\ replacement = -1
    /\ active = [i \in 1 .. NRanks |-> i - 1]
    /\ isolated = {}

\* on_failure, Transient: the ring is kept for a retry.
OnTransient(rank) ==
    /\ ValidRank(NRanks, rank)
    /\ UNCHANGED recoveryVars

\* on_failure, Degraded or Permanent: the original ring without the rank.
OnFailure(rank) ==
    /\ ValidRank(NRanks, rank)
    /\ phase' = "Isolated"
    /\ failed' = rank /\ replacement' = -1
    /\ active' = [i \in 1 .. NRanks - 1 |-> IF i - 1 < rank THEN i - 1 ELSE i]
    /\ isolated' = isolated \cup {rank}

\* with_replacement; the caller has put a working GPU under that rank.
WithReplacement(rank) ==
    /\ failed # -1
    /\ PlanReplacementRing(NRanks, failed, rank) # NoPlan
    /\ active' = PlanReplacementRing(NRanks, failed, rank)
    /\ phase' = "Restoring"
    /\ replacement' = rank
    /\ isolated' = isolated \ {rank}
    /\ UNCHANGED failed

RestoreComplete ==
    /\ phase = "Restoring"
    /\ phase' = "Reintegrated"
    /\ UNCHANGED <<failed, replacement, active, isolated>>

RecoveryNext ==
    \/ \E rank \in Ranks :
          OnTransient(rank) \/ OnFailure(rank) \/ WithReplacement(rank)
    \/ RestoreComplete

RecoverySpec == RecoveryInit /\ [][RecoveryNext]_recoveryVars
-----------------------------------------------------------------------------
\* A ring never names a rank twice, nor a rank that was taken out of it by the
\* latest failure, and from Restoring on it is the planned one.
RingWellFormed ==
    /\ \A i, j \in DOMAIN active : active[i] = active[j] => i = j
    /\ phase = "Isolated" => failed \notin Members(active) /\ Len(active) = NRanks - 1
    /\ phase \in {"Restoring", "Reintegrated"} =>
          active = PlanReplacementRing(NRanks, failed, replacement)

\* A failed rank stays out of the ring until a caller names it as a replacement.
IsolatedStayOut == Members(active) \cap isolated = {}
=============================================================================
