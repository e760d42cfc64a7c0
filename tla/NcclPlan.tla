------------------------------- MODULE NcclPlan -------------------------------
(***************************************************************************)
(* How a failed rank is replaced in the ring of a communicator: the        *)
(* planner of zluda/src/impl/nccl_recovery.rs, the planner nccl_shim.c     *)
(* falls back on when the library is not linked, and the ring that         *)
(* concordia_configure_recovery_plan gives a new communicator.             *)
(***************************************************************************)
EXTENDS Integers, Sequences

CONSTANTS MaxRanks,   \* HETGPU_NCCL_MAX_RANKS, the length of active_ranks
          NRanks      \* the ranks of the communicator (nranks)

ASSUME MaxRanksAssumption == MaxRanks \in Nat \ {0}

\* What the planners return instead of a ring (Err, a negative code).
NoPlan == << >>

\* validate_rank succeeds.
ValidRank(nranks, rank) == nranks > 0 /\ rank \in 0 .. nranks - 1

\* plan_replacement_ring.  Position i of the ring (from 1) belongs to rank i - 1.
PlanReplacementRing(nranks, failed, replacement) ==
    IF \/ ~ValidRank(nranks, failed)
       \/ replacement \in 0 .. nranks - 1 /\ replacement # failed
    THEN NoPlan
    ELSE [i \in 1 .. nranks |-> IF i - 1 = failed THEN replacement ELSE i - 1]

\* hetgpu_concordia_nccl_plan_replacement: the ring has to fit the caller's array.
PlanForShim(nranks, failed, replacement) ==
    LET plan == PlanReplacementRing(nranks, failed, replacement)
    IN  IF MaxRanks < Len(plan) THEN NoPlan ELSE plan

\* fallback_plan_replacement, written in C with its own tests of the arguments.
FallbackPlan(nranks, failed, replacement) ==
    IF \/ nranks <= 0 \/ MaxRanks < nranks
       \/ failed < 0 \/ failed >= nranks
       \/ replacement >= 0 /\ replacement < nranks /\ replacement # failed
    THEN NoPlan
    ELSE [i \in 1 .. nranks |-> IF i - 1 = failed THEN replacement ELSE i - 1]

\* The ring without a plan: ranks beyond MaxRanks are not active.
InitialRing(nranks) ==
    [i \in 1 .. (IF nranks < MaxRanks THEN nranks ELSE MaxRanks) |-> i - 1]

\* concordia_configure_recovery_plan; -1 stands for an unset variable.
ConfiguredRing(nranks, enabled, failed, replacement) ==
    LET plan == PlanForShim(nranks, failed, replacement)
    IN  IF enabled /\ failed >= 0 /\ replacement >= 0 /\ plan # NoPlan
        THEN plan ELSE InitialRing(nranks)

\* make_comm: the ranks that may create a communicator.
AllowedRanks(nranks, enabled, replacement) ==
    0 .. nranks - 1 \cup (IF enabled /\ replacement >= 0 THEN {replacement} ELSE {})
=============================================================================
