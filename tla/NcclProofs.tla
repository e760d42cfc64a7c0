----------------------------- MODULE NcclProofs -----------------------------
(***************************************************************************)
(* Proofs about the replacement planners and the recovery state, for every *)
(* number of ranks, and about the rendezvous of ncclAllReduce, for every   *)
(* number of ranks, every plan of recovery and any number of calls, with   *)
(* all kinds of fault.                                                     *)
(***************************************************************************)
EXTENDS NcclRendezvous, NcclRecovery, TLAPS

(***************************************************************************)
(* Planning a replacement                                                  *)
(***************************************************************************)

\* The planner of the library and the one compiled into the shim give the same
\* ring, or both refuse, whatever the arguments: it makes no difference whether
\* hetgpu_concordia_nccl_plan_replacement is linked.
THEOREM PlannersAgree ==
    ASSUME NEW n \in Int, NEW f \in Int, NEW r \in Int
    PROVE  PlanForShim(n, f, r) = FallbackPlan(n, f, r)
<1>0. MaxRanks \in Nat \ {0}
  BY MaxRanksAssumption
<1>1. CASE \/ n <= 0 \/ f < 0 \/ f >= n
           \/ r >= 0 /\ r < n /\ r # f
  <2>1. PlanReplacementRing(n, f, r) = << >>
    BY <1>1 DEF PlanReplacementRing, ValidRank, NoPlan
  <2>2. PlanForShim(n, f, r) = << >>
    BY <1>0, <2>1 DEF PlanForShim, NoPlan
  <2>3. FallbackPlan(n, f, r) = << >>
    BY <1>1 DEF FallbackPlan, NoPlan
  <2> QED
    BY <2>2, <2>3
<1>2. CASE /\ n > 0 /\ f >= 0 /\ f < n
           /\ ~(r >= 0 /\ r < n /\ r # f)
  <2> DEFINE ring == [i \in 1 .. n |-> IF i - 1 = f THEN r ELSE i - 1]
  <2>1. PlanReplacementRing(n, f, r) = ring
    BY <1>2 DEF PlanReplacementRing, ValidRank
  <2>2. Len(ring) = n
    BY <1>2
  <2>3. PlanForShim(n, f, r) = IF MaxRanks < n THEN << >> ELSE ring
    BY <2>1, <2>2 DEF PlanForShim, NoPlan
  <2>4. FallbackPlan(n, f, r) = IF MaxRanks < n THEN << >> ELSE ring
    BY <1>0, <1>2 DEF FallbackPlan, NoPlan
  <2> QED
    BY <2>3, <2>4
<1> QED
  BY <1>1, <1>2

\* A planned ring has one position per rank, with the replacement exactly where
\* the failed rank was, and names no rank twice.
LEMMA PlanIsARing ==
    ASSUME NEW n \in Nat \ {0}, NEW f, NEW r \in Int,
           PlanReplacementRing(n, f, r) # NoPlan
    PROVE  LET plan == PlanReplacementRing(n, f, r)
           IN  /\ plan = [i \in 1 .. n |-> IF i - 1 = f THEN r ELSE i - 1]
               /\ \A i, j \in DOMAIN plan : plan[i] = plan[j] => i = j
<1> DEFINE plan == PlanReplacementRing(n, f, r)
<1>1. /\ plan = [i \in 1 .. n |-> IF i - 1 = f THEN r ELSE i - 1]
      /\ f \in 0 .. n - 1
      /\ ~(r \in 0 .. n - 1 /\ r # f)
  BY DEF PlanReplacementRing, ValidRank
<1>2. ASSUME NEW i \in 1 .. n, NEW j \in 1 .. n, plan[i] = plan[j]
      PROVE  i = j
  BY <1>1, <1>2
<1> QED
  BY <1>1, <1>2

\* The recovery state's ring, for every number of ranks and of spare GPUs, over
\* any sequence of failures, replacements and completed restores.
THEOREM RingWellFormedAlways ==
    ASSUME NRanks \in Nat \ {0}, Ranks \subseteq Nat
    PROVE  RecoverySpec => []RingWellFormed
<1>1. RecoveryInit => RingWellFormed
  BY DEF RecoveryInit, RingWellFormed
<1>2. RingWellFormed /\ [RecoveryNext]_recoveryVars => RingWellFormed'
  <2> SUFFICES ASSUME RingWellFormed, [RecoveryNext]_recoveryVars
               PROVE  RingWellFormed'
    OBVIOUS
  <2>1. ASSUME NEW rank \in Ranks, OnFailure(rank)
        PROVE  RingWellFormed'
    <3>1. /\ rank \in 0 .. NRanks - 1
          /\ phase' = "Isolated" /\ failed' = rank
          /\ active' = [i \in 1 .. NRanks - 1 |-> IF i - 1 < rank THEN i - 1 ELSE i]
      BY <2>1 DEF OnFailure, ValidRank
    <3>2. \A i, j \in DOMAIN active' : active'[i] = active'[j] => i = j
      BY <3>1
    <3>3. failed' \notin Members(active') /\ Len(active') = NRanks - 1
      BY <3>1 DEF Members
    <3> QED
      BY <3>1, <3>2, <3>3 DEF RingWellFormed, Members
  <2>2. ASSUME NEW rank \in Ranks, WithReplacement(rank)
        PROVE  RingWellFormed'
    <3>1. /\ PlanReplacementRing(NRanks, failed, rank) # NoPlan
          /\ active' = PlanReplacementRing(NRanks, failed, rank)
          /\ phase' = "Restoring" /\ failed' = failed /\ replacement' = rank
      BY <2>2 DEF WithReplacement
    <3>2. PICK f : f = failed
      OBVIOUS
    <3>3. \A i, j \in DOMAIN active' : active'[i] = active'[j] => i = j
      BY <3>1, <3>2, PlanIsARing
    <3> QED
      BY <3>1, <3>3 DEF RingWellFormed
  <2>3. CASE RestoreComplete
    BY <2>3 DEF RestoreComplete, RingWellFormed, Members
  <2>4. CASE UNCHANGED recoveryVars
    BY <2>4 DEF recoveryVars, RingWellFormed, Members
  <2> QED
    BY <2>1, <2>2, <2>3, <2>4 DEF RecoveryNext, OnTransient
<1> QED
  BY <1>1, <1>2, PTL DEF RecoverySpec
-----------------------------------------------------------------------------
\* Most leaves are first-order reasoning; those with arithmetic cite SMT.
USE Zenon

(***************************************************************************)
(* The ring of a communicator                                              *)
(***************************************************************************)

\* Whatever plan is configured, the ring is not empty and its ranks are processes.
LEMMA RingFacts ==
    /\ Len(Ring) \in Nat \ {0}
    /\ Ring \in [1 .. Len(Ring) -> Procs]
    /\ Active = {Ring[i] : i \in 1 .. Len(Ring)}
    /\ Coordinator \in Active
    /\ Active \subseteq Procs
<1> USE RendezvousAssumption, MaxRanksAssumption
<1>1. ASSUME NEW n \in Nat \ {0}, NEW f \in [1 .. n -> Procs], Ring = f
      PROVE  /\ Len(Ring) \in Nat \ {0}
             /\ Ring \in [1 .. Len(Ring) -> Procs]
             /\ Active = {Ring[i] : i \in 1 .. Len(Ring)}
             /\ Coordinator \in Active
             /\ Active \subseteq Procs
  <2>1. Len(Ring) = n /\ DOMAIN Ring = 1 .. n
    BY <1>1, SMT
  <2>2. 1 \in 1 .. n
    BY SMT
  <2> QED
    BY <1>1, <2>1, <2>2, Zenon DEF Active, Coordinator
<1>2. CASE Ring = InitialRing(NRanks)
  <2>1. PICK n \in Nat \ {0} : n <= NRanks /\ InitialRing(NRanks) = [i \in 1 .. n |-> i - 1]
    BY SMT DEF InitialRing
  <2>2. [i \in 1 .. n |-> i - 1] \in [1 .. n -> Procs]
    BY <2>1, SMT DEF Procs, AllowedRanks
  <2> QED
    BY <1>1, <1>2, <2>1, <2>2
<1>3. CASE Ring # InitialRing(NRanks)
  <2>1. /\ Enabled /\ Replacement >= 0
        /\ Ring = PlanForShim(NRanks, Failed, Replacement)
        /\ Ring # NoPlan
    BY <1>3 DEF Ring, ConfiguredRing
  <2>2. Ring = [i \in 1 .. NRanks |-> IF i - 1 = Failed THEN Replacement ELSE i - 1]
    BY <2>1 DEF PlanForShim, PlanReplacementRing
  <2>3. [i \in 1 .. NRanks |-> IF i - 1 = Failed THEN Replacement ELSE i - 1]
            \in [1 .. NRanks -> Procs]
    BY <2>1, SMT DEF Procs, AllowedRanks
  <2> QED
    BY <1>1, <2>2, <2>3
<1> QED
  BY <1>2, <1>3
-----------------------------------------------------------------------------
(***************************************************************************)
(* The inductive invariant                                                 *)
(***************************************************************************)
Pcs == {"idle", "mkdir", "input", "gather", "reduce", "result", "await", "failed",
        "crashed"}
Collecting == {"gather", "reduce", "result"}     \* only the coordinator does
InCall == {"mkdir", "input", "await"} \cup Collecting

Input == [rank : Procs, step : Nat]
AnyFile == [state : {"absent", "short", "complete"}, data : SUBSET Input]

CommState == [sequence : Nat, errors : Nat, async : BOOLEAN]
ProcState == [pc : Pcs, call : Nat, idx : Nat, accum : SUBSET Input]

Types ==
    /\ comm \in [Procs -> CommState]
    /\ proc \in [Procs -> ProcState]
    /\ step \in [Procs -> Nat]
    /\ inputs \in [Calls -> [Procs -> AnyFile]]
    /\ result \in [Calls -> AnyFile]

\* The sequence number of a rank is one past the call it is in, and its inputs of
\* later calls do not exist: every call has an input file of its own.
Own(p) ==
    /\ proc[p].pc \in InCall \cup {"failed"} =>
          /\ p \in Active
          /\ proc[p].call \in Calls
          /\ comm[p].sequence = proc[p].call + 1
    /\ proc[p].pc \in Collecting => p = Coordinator
    /\ proc[p].pc = "mkdir" => inputs[proc[p].call][p] = Absent
    /\ proc[p].pc = "input" => inputs[proc[p].call][p] = Short
    /\ \A c \in Calls : c >= comm[p].sequence => inputs[c][p] = Absent

\* As long as nobody has retried, calls and steps have the same numbers.
InStep(p) ==
    "retry" \notin faults =>
        /\ proc[p].pc = "idle" => step[p] = comm[p].sequence
        /\ proc[p].pc \in InCall \cup {"failed"} => step[p] = proc[p].call
        /\ \A c \in Calls : inputs[c][p].state = "complete" =>
                                inputs[c][p].data = {[rank |-> p, step |-> c]}

\* The files at the positions of the ring up to i are complete and sum is their sum.
SumUpTo(files, i, sum) ==
    /\ \A j \in 1 .. i : files[Ring[j]].state = "complete"
    /\ sum = UNION {files[Ring[j]].data : j \in 1 .. i}

\* What the coordinator k has added up, and that it has not decided the call it is
\* in, nor one it has not begun.
Coordinating(k) ==
    /\ proc[k].pc \in {"mkdir", "input"} => proc[k].idx = 1 /\ proc[k].accum = {}
    /\ proc[k].pc = "gather" => proc[k].idx \in 1 .. Len(Ring)
    /\ proc[k].pc \in {"reduce", "result"} => proc[k].idx = Len(Ring) + 1
    /\ proc[k].pc \in Collecting =>
          SumUpTo(inputs[proc[k].call], proc[k].idx - 1, proc[k].accum)
    /\ proc[k].pc \in {"mkdir", "input", "gather", "reduce"} =>
          result[proc[k].call] = Absent
    /\ proc[k].pc = "result" => result[proc[k].call] = Short
    /\ proc[k].pc \in InCall \ {"await"} => proc[k].call \notin aborts
    /\ \A c \in Calls : c >= comm[k].sequence => result[c] = Absent /\ c \notin aborts

\* A complete result is the sum of all inputs, of a call that was not aborted.
Decided ==
    \A c \in Calls : result[c].state = "complete" =>
        SumUpTo(inputs[c], Len(Ring), result[c].data) /\ c \notin aborts

\* What was returned is what the result file says.
Returned ==
    \A d \in done :
        /\ d.call \in Calls
        /\ result[d.call].state = "complete"
        /\ d.sum = result[d.call].data
        /\ "retry" \notin faults => d.step = d.call

Inv ==
    /\ Types
    /\ \A p \in Procs : Own(p) /\ InStep(p)
    /\ \A k \in Procs : k = Coordinator => Coordinating(k)
    /\ Decided
    /\ Returned
-----------------------------------------------------------------------------
(***************************************************************************)
(* What a step of a rank p can be.  The actions that fail a call, and the  *)
(* ones that leave everything of interest alone, are taken together.       *)
(***************************************************************************)
Others(p) ==
    \A q \in Procs \ {p} : proc'[q] = proc[q] /\ comm'[q] = comm[q] /\ step'[q] = step[q]

\* The new pc, sequence number and step of p.
Self(p, pc, sequence, st) ==
    proc'[p].pc = pc /\ comm'[p].sequence = sequence /\ step'[p] = st

SameCall(p) == proc'[p].call = proc[p].call
SameSum(p) == proc'[p].idx = proc[p].idx /\ proc'[p].accum = proc[p].accum

FilesKept == inputs' = inputs /\ result' = result /\ aborts' = aborts

\* Only p's input of the call it is in becomes `file'.
InputBecomes(p, file) ==
    /\ inputs'[proc[p].call][p] = file
    /\ \A c \in Calls, q \in Procs :
          c # proc[p].call \/ q # p => inputs'[c][q] = inputs[c][q]

\* Only the result of the call that p is in does.
ResultBecomes(p, file) ==
    /\ result'[proc[p].call] = file
    /\ \A c \in Calls : c # proc[p].call => result'[c] = result[c]

\* Skip, LocalCopy
Idles(p) ==
    /\ Self(p, proc[p].pc, comm[p].sequence, step[p]) /\ SameCall(p) /\ SameSum(p)
    /\ FilesKept /\ done' = done /\ faults' = faults

Begins(p) ==
    /\ proc[p].pc = "idle" /\ p \in Active /\ comm[p].sequence \in Calls
    /\ Self(p, "mkdir", comm[p].sequence + 1, step[p])
    /\ proc'[p].call = comm[p].sequence /\ proc'[p].idx = 1 /\ proc'[p].accum = {}
    /\ FilesKept /\ done' = done /\ faults' = faults

OpensInput(p) ==
    /\ proc[p].pc = "mkdir"
    /\ Self(p, "input", comm[p].sequence, step[p]) /\ SameCall(p) /\ SameSum(p)
    /\ InputBecomes(p, Short)
    /\ result' = result /\ aborts' = aborts /\ done' = done /\ faults' = faults

WritesInput(p) ==
    /\ proc[p].pc = "input"
    /\ Self(p, IF p = Coordinator THEN "gather" ELSE "await", comm[p].sequence, step[p])
    /\ SameCall(p) /\ SameSum(p)
    /\ InputBecomes(p, Complete({[rank |-> p, step |-> step[p]]}))
    /\ result' = result /\ aborts' = aborts /\ done' = done /\ faults' = faults

Gathers(p) ==
    /\ proc[p].pc = "gather" /\ Awaited(p).state = "complete"
    /\ Self(p, IF proc[p].idx < Len(Ring) THEN "gather" ELSE "reduce",
            comm[p].sequence, step[p])
    /\ SameCall(p)
    /\ proc'[p].idx = proc[p].idx + 1
    /\ proc'[p].accum = proc[p].accum \cup Awaited(p).data
    /\ FilesKept /\ done' = done /\ faults' = faults

OpensResult(p) ==
    /\ proc[p].pc = "reduce"
    /\ Self(p, "result", comm[p].sequence, step[p]) /\ SameCall(p) /\ SameSum(p)
    /\ ResultBecomes(p, Short)
    /\ inputs' = inputs /\ aborts' = aborts /\ done' = done /\ faults' = faults

WritesResult(p) ==
    /\ proc[p].pc = "result"
    /\ Self(p, "await", comm[p].sequence, step[p]) /\ SameCall(p) /\ SameSum(p)
    /\ ResultBecomes(p, Complete(proc[p].accum))
    /\ inputs' = inputs /\ aborts' = aborts /\ done' = done /\ faults' = faults

Succeeds(p) ==
    /\ proc[p].pc = "await" /\ result[proc[p].call].state = "complete"
    /\ Self(p, "idle", comm[p].sequence, step[p] + 1) /\ SameCall(p) /\ SameSum(p)
    /\ done' = done \cup {[rank |-> p, call |-> proc[p].call, step |-> step[p],
                           sum |-> result[proc[p].call].data]}
    /\ FilesKept /\ faults' = faults

\* Every error return, with or without publish_abort.
Fails(p) ==
    /\ proc[p].pc \in InCall
    /\ Self(p, "failed", comm[p].sequence, step[p]) /\ SameCall(p) /\ SameSum(p)
    /\ inputs' = inputs /\ result' = result
    /\ \/ aborts' = aborts
       \/ proc[p].pc \in Collecting /\ aborts' = aborts \cup {proc[p].call}
    /\ done' = done /\ faults \subseteq faults'

\* GoOn, Retry
Resumes(p) ==
    /\ proc[p].pc = "failed"
    /\ \E st \in {step[p], step[p] + 1} :
          Self(p, "idle", comm[p].sequence, st) /\ (st = step[p] => "retry" \in faults')
    /\ SameCall(p) /\ SameSum(p)
    /\ FilesKept /\ done' = done /\ faults \subseteq faults'

Crashes(p) ==
    /\ Self(p, "crashed", comm[p].sequence, step[p]) /\ SameCall(p) /\ SameSum(p)
    /\ FilesKept /\ done' = done /\ faults \subseteq faults'

Event(p) ==
    \/ Idles(p) \/ Begins(p) \/ OpensInput(p) \/ WritesInput(p) \/ Gathers(p)
    \/ OpensResult(p) \/ WritesResult(p) \/ Succeeds(p) \/ Fails(p) \/ Resumes(p)
    \/ Crashes(p)

\* Counting an error or resetting the count leaves the sequence number.
LEMMA ErrorsAssigned ==
    ASSUME NEW p \in Procs, Types,
           \/ comm' = [comm EXCEPT ![p].errors = @ + 1, ![p].async = TRUE]
           \/ comm' = [comm EXCEPT ![p].errors = 0, ![p].async = FALSE]
    PROVE  /\ comm' \in [Procs -> CommState]
           /\ comm'[p].sequence = comm[p].sequence
           /\ \A q \in Procs \ {p} : comm'[q] = comm[q]
<1>1. comm \in [Procs -> CommState] /\ comm[p] \in CommState
  BY DEF Types
<1>2. PICK e \in Nat, a \in BOOLEAN :
          comm' = [comm EXCEPT ![p].errors = e, ![p].async = a]
  <2>1. comm[p].errors + 1 \in Nat /\ 0 \in Nat
    BY <1>1, SMT DEF CommState
  <2> QED
    BY <2>1, Zenon
<1>3. PICK r : r = [[comm[p] EXCEPT !.errors = e] EXCEPT !.async = a]
  OBVIOUS
<1>4. r \in CommState /\ r.sequence = comm[p].sequence
  BY <1>1, <1>3, Zenon DEF CommState
<1>5. comm' = [comm EXCEPT ![p] = r]
  BY <1>2, <1>3, Zenon
<1> QED
  BY <1>1, <1>4, <1>5

\* What To does.
LEMMA PcAssigned ==
    ASSUME NEW p \in Procs, NEW pc \in Pcs, Types, To(p, pc)
    PROVE  /\ proc' \in [Procs -> ProcState]
           /\ proc'[p].pc = pc /\ SameCall(p) /\ SameSum(p)
           /\ \A q \in Procs \ {p} : proc'[q] = proc[q]
<1>1. proc \in [Procs -> ProcState] /\ proc' = [proc EXCEPT ![p].pc = pc]
  BY DEF Types, To
<1>2. proc'[p] = [proc[p] EXCEPT !.pc = pc] /\ proc[p] \in ProcState
  BY <1>1
<1>3. proc'[p] \in ProcState /\ proc'[p].pc = pc /\ SameCall(p) /\ SameSum(p)
  BY <1>2 DEF ProcState, SameCall, SameSum
<1>4. \A q \in Procs \ {p} : proc'[q] = proc[q]
  BY <1>1
<1>5. proc' \in [Procs -> ProcState]
  BY <1>1, <1>3, <1>4
<1> QED
  BY <1>3, <1>4, <1>5

\* A call that returns an error.
LEMMA ErrorReturn ==
    ASSUME NEW p \in Procs, Types, ReturnError(p)
    PROVE  /\ comm' \in [Procs -> CommState] /\ proc' \in [Procs -> ProcState]
           /\ step' = step /\ done' = done
           /\ Self(p, "failed", comm[p].sequence, step[p]) /\ SameCall(p) /\ SameSum(p)
           /\ Others(p)
<1>1. To(p, "failed") /\ step' = step /\ done' = done
  BY DEF ReturnError
<1>2. /\ comm' \in [Procs -> CommState] /\ comm'[p].sequence = comm[p].sequence
      /\ \A q \in Procs \ {p} : comm'[q] = comm[q]
  BY ErrorsAssigned, Zenon DEF ReturnError
<1>3. /\ proc' \in [Procs -> ProcState]
      /\ proc'[p].pc = "failed" /\ SameCall(p) /\ SameSum(p)
      /\ \A q \in Procs \ {p} : proc'[q] = proc[q]
  BY <1>1, PcAssigned DEF Pcs
<1> QED
  BY <1>1, <1>2, <1>3 DEF Self, Others

\* The actions outside of a call.
LEMMA OutsideCall ==
    ASSUME NEW p \in Procs, Types,
           \/ Begin(p) \/ Skip(p) \/ LocalCopy(p) \/ GoOn(p) \/ Retry(p) \/ Crash(p)
    PROVE  Types' /\ Others(p) /\ Event(p)
<1>1. /\ comm \in [Procs -> CommState] /\ proc \in [Procs -> ProcState]
      /\ step \in [Procs -> Nat] /\ comm[p] \in CommState
  BY DEF Types
<1>2. CASE Skip(p) \/ LocalCopy(p)
  <2>1. FilesKept /\ proc' = proc /\ step' = step /\ done' = done /\ faults' = faults
    BY <1>2 DEF Skip, LocalCopy, FilesKept
  <2>2. /\ comm' \in [Procs -> CommState] /\ comm'[p].sequence = comm[p].sequence
        /\ \A q \in Procs \ {p} : comm'[q] = comm[q]
    BY <1>2, ErrorsAssigned DEF Skip, LocalCopy
  <2>3. Types' /\ Others(p)
    BY <2>1, <2>2 DEF Types, Others, FilesKept
  <2>4. Idles(p)
    BY <2>1, <2>2 DEF Idles, Self, SameCall, SameSum
  <2> QED
    BY <2>3, <2>4 DEF Event
<1>3. CASE Begin(p)
  <2>1. /\ proc[p].pc = "idle" /\ p \in Active /\ comm[p].sequence < MaxCalls
        /\ FilesKept /\ step' = step /\ done' = done /\ faults' = faults
    BY <1>3 DEF Begin, FilesKept, At
  <2>2. comm[p].sequence \in Calls /\ comm[p].sequence \in Nat
    BY <1>1, <2>1, RendezvousAssumption, SMT DEF CommState, Calls
  <2>3. PICK r : r = [comm[p] EXCEPT !.sequence = comm[p].sequence + 1]
    BY Zenon
  <2>4. r \in CommState /\ r.sequence = comm[p].sequence + 1
    BY <1>1, <2>2, <2>3, SMT DEF CommState
  <2>5. comm' = [comm EXCEPT ![p] = r]
    BY <1>3, <2>3 DEF Begin
  <2>6. PICK t : t = [pc |-> "mkdir", call |-> comm[p].sequence, idx |-> 1, accum |-> {}]
    BY Zenon
  <2>7. t \in ProcState
    BY <2>2, <2>6 DEF ProcState, Pcs
  <2>8. proc' = [proc EXCEPT ![p] = t]
    BY <1>3, <2>6 DEF Begin
  <2>9. Types' /\ Others(p)
    <3>1. comm' \in [Procs -> CommState] /\ proc' \in [Procs -> ProcState]
      BY <1>1, <2>4, <2>5, <2>7, <2>8
    <3>2. Types'
      BY <2>1, <3>1 DEF Types, FilesKept
    <3> QED
      BY <1>1, <2>1, <2>5, <2>8, <3>2 DEF Others
  <2>10. comm'[p] = r /\ proc'[p] = t
    BY <1>1, <2>5, <2>8
  <2>11. Begins(p)
    BY <2>1, <2>2, <2>4, <2>6, <2>10, SMT DEF Begins, Self
  <2> QED
    BY <2>9, <2>11 DEF Event
<1>4. CASE GoOn(p) \/ Retry(p)
  <2>1. /\ proc[p].pc = "failed" /\ To(p, "idle") /\ FilesKept /\ comm' = comm
        /\ done' = done /\ faults \subseteq faults'
    BY <1>4 DEF GoOn, Retry, FilesKept, At, Fault
  <2>2. PICK st \in {step[p], step[p] + 1} :
            step' = [step EXCEPT ![p] = st] /\ (st = step[p] => "retry" \in faults')
    <3>1. CASE GoOn(p)
      <4>1. step' = [step EXCEPT ![p] = step[p] + 1] /\ step[p] + 1 # step[p]
        BY <1>1, <3>1, SMT DEF GoOn
      <4> QED
        BY <4>1
    <3>2. CASE Retry(p)
      <4>1. step' = [step EXCEPT ![p] = step[p]] /\ "retry" \in faults'
        BY <1>1, <3>2 DEF Retry, Fault
      <4> QED
        BY <4>1
    <3> QED
      BY <1>4, <3>1, <3>2
  <2>3. /\ proc' \in [Procs -> ProcState]
        /\ proc'[p].pc = "idle" /\ SameCall(p) /\ SameSum(p)
        /\ \A q \in Procs \ {p} : proc'[q] = proc[q]
    BY <2>1, PcAssigned DEF Pcs
  <2>4. step' \in [Procs -> Nat] /\ step'[p] = st
    BY <1>1, <2>2, SMT
  <2>5. Types' /\ Others(p)
    BY <1>1, <2>1, <2>2, <2>3, <2>4 DEF Types, Others, FilesKept
  <2>6. Resumes(p)
    BY <2>1, <2>2, <2>3, <2>4 DEF Resumes, Self
  <2> QED
    BY <2>5, <2>6 DEF Event
<1>5. CASE Crash(p)
  <2>1. /\ To(p, "crashed") /\ FilesKept /\ comm' = comm /\ step' = step
        /\ done' = done /\ faults \subseteq faults'
    BY <1>5 DEF Crash, FilesKept, Fault
  <2>2. /\ proc' \in [Procs -> ProcState]
        /\ proc'[p].pc = "crashed" /\ SameCall(p) /\ SameSum(p)
        /\ \A q \in Procs \ {p} : proc'[q] = proc[q]
    BY <2>1, PcAssigned DEF Pcs
  <2>3. Types' /\ Others(p)
    BY <2>1, <2>2 DEF Types, Others, FilesKept
  <2>4. Crashes(p)
    BY <2>1, <2>2 DEF Crashes, Self
  <2> QED
    BY <2>3, <2>4 DEF Event
<1> QED
  BY <1>2, <1>3, <1>4, <1>5

\* The actions that end a call with an error.
LEMMA CallFails ==
    ASSUME NEW p \in Procs, Types,
           \/ MakeDirFails(p) \/ WriteInputFails(p)
           \/ GatherShort(p) \/ GatherFails(p) \/ GatherTimeout(p)
           \/ ReduceFails(p) \/ WriteResultFails(p)
           \/ ReceiveShort(p) \/ ReceiveFails(p) \/ SeeAbort(p) \/ AwaitTimeout(p)
    PROVE  Types' /\ Others(p) /\ Event(p)
<1>1. /\ ReturnError(p) /\ inputs' = inputs /\ result' = result
      /\ faults \subseteq faults' /\ proc[p].pc \in InCall
      /\ \/ aborts' = aborts
         \/ proc[p].pc \in Collecting /\ aborts' = aborts \cup {proc[p].call}
  <2>1. CASE MakeDirFails(p) \/ WriteInputFails(p)
    BY <2>1 DEF MakeDirFails, WriteInputFails, Fault, At, InCall
  <2>2. CASE GatherShort(p) \/ GatherFails(p) \/ GatherTimeout(p)
    BY <2>2 DEF GatherShort, GatherFails, GatherTimeout, Fault, At, Abort, InCall, Collecting
  <2>3. CASE ReduceFails(p) \/ WriteResultFails(p)
    BY <2>3 DEF ReduceFails, WriteResultFails, Fault, At, Abort, InCall, Collecting
  <2>4. CASE ReceiveShort(p) \/ ReceiveFails(p) \/ SeeAbort(p) \/ AwaitTimeout(p)
    BY <2>4 DEF ReceiveShort, ReceiveFails, SeeAbort, AwaitTimeout, Fault, At, InCall
  <2> QED
    BY <2>1, <2>2, <2>3, <2>4
<1>2. /\ comm' \in [Procs -> CommState] /\ proc' \in [Procs -> ProcState]
      /\ step' = step /\ done' = done
      /\ Self(p, "failed", comm[p].sequence, step[p]) /\ SameCall(p) /\ SameSum(p)
      /\ Others(p)
  BY <1>1, ErrorReturn
<1>3. Types'
  BY <1>1, <1>2 DEF Types
<1>4. Fails(p)
  BY <1>1, <1>2 DEF Fails
<1> QED
  BY <1>2, <1>3, <1>4 DEF Event

\* Assigning one input or the result of a call.
LEMMA InputAssigned ==
    ASSUME NEW p \in Procs, Types, proc[p].call \in Calls, NEW file \in AnyFile,
           inputs' = [inputs EXCEPT ![proc[p].call][p] = file]
    PROVE  inputs' \in [Calls -> [Procs -> AnyFile]] /\ InputBecomes(p, file)
<1>1. inputs \in [Calls -> [Procs -> AnyFile]]
  BY DEF Types
<1>2. PICK c \in Calls : c = proc[p].call
  OBVIOUS
<1>3. inputs[c] \in [Procs -> AnyFile]
  BY <1>1
<1>4. PICK g : g = [inputs[c] EXCEPT ![p] = file]
  BY Zenon
<1>5. g \in [Procs -> AnyFile] /\ g[p] = file /\ \A q \in Procs : q # p => g[q] = inputs[c][q]
  BY <1>3, <1>4
<1>6. inputs' = [inputs EXCEPT ![c] = g]
  BY <1>2, <1>4
<1>7. inputs'[c] = g /\ \A d \in Calls : d # c => inputs'[d] = inputs[d]
  BY <1>1, <1>6
<1>8. inputs' \in [Calls -> [Procs -> AnyFile]]
  BY <1>1, <1>5, <1>6
<1> QED
  BY <1>2, <1>5, <1>7, <1>8 DEF InputBecomes

\* What an assignment to the result of call c does.
LEMMA ResultAssigned ==
    ASSUME NEW p \in Procs, Types, proc[p].call \in Calls, NEW file \in AnyFile,
           result' = [result EXCEPT ![proc[p].call] = file]
    PROVE  result' \in [Calls -> AnyFile] /\ ResultBecomes(p, file)
BY DEF Types, ResultBecomes

\* The actions that write an input file.
LEMMA InputWritten ==
    ASSUME NEW p \in Procs, Types, Own(p), OpenInput(p) \/ WriteInput(p)
    PROVE  Types' /\ Others(p) /\ Event(p)
<1>1. /\ proc[p].pc \in {"mkdir", "input"} /\ comm' = comm /\ step' = step
      /\ result' = result /\ aborts' = aborts /\ done' = done /\ faults' = faults
  BY DEF OpenInput, WriteInput, At
<1>2. proc[p].call \in Calls
  BY <1>1 DEF Own, InCall
<1>3. CASE OpenInput(p)
  <2>1. To(p, "input")
    BY <1>3 DEF OpenInput
  <2>2. /\ proc' \in [Procs -> ProcState]
        /\ proc'[p].pc = "input" /\ SameCall(p) /\ SameSum(p)
        /\ \A q \in Procs \ {p} : proc'[q] = proc[q]
    BY <2>1, PcAssigned DEF Pcs
  <2>3. Short \in AnyFile
    BY DEF Short, AnyFile
  <2>4. inputs' \in [Calls -> [Procs -> AnyFile]] /\ InputBecomes(p, Short)
    BY <1>2, <1>3, <2>3, InputAssigned, Zenon DEF OpenInput
  <2>5. Types' /\ Others(p)
    BY <1>1, <2>2, <2>4 DEF Types, Others
  <2>6. OpensInput(p)
    BY <1>1, <1>3, <2>2, <2>4 DEF OpensInput, OpenInput, At, Self
  <2> QED
    BY <2>5, <2>6 DEF Event
<1>4. CASE WriteInput(p)
  <2>1. PICK pc \in Pcs : pc = IF p = Coordinator THEN "gather" ELSE "await"
    BY DEF Pcs
  <2>2. To(p, pc)
    BY <1>4, <2>1 DEF WriteInput
  <2>3. /\ proc' \in [Procs -> ProcState]
        /\ proc'[p].pc = pc /\ SameCall(p) /\ SameSum(p)
        /\ \A q \in Procs \ {p} : proc'[q] = proc[q]
    BY <2>2, PcAssigned
  <2>4. PICK file \in AnyFile : file = Complete({[rank |-> p, step |-> step[p]]})
    <3>1. [rank |-> p, step |-> step[p]] \in Input
      BY DEF Types, Input
    <3> QED
      BY <3>1 DEF Complete, AnyFile
  <2>5. inputs' \in [Calls -> [Procs -> AnyFile]] /\ InputBecomes(p, file)
    <3>1. inputs' = [inputs EXCEPT ![proc[p].call][p] = file]
      BY <1>4, <2>4 DEF WriteInput
    <3> QED
      BY <1>2, <3>1, InputAssigned, Zenon
  <2>6. Types' /\ Others(p)
    BY <1>1, <2>3, <2>5 DEF Types, Others
  <2>7. WritesInput(p)
    BY <1>1, <1>4, <2>1, <2>3, <2>4, <2>5 DEF WritesInput, WriteInput, At, Self
  <2> QED
    BY <2>6, <2>7 DEF Event
<1> QED
  BY <1>3, <1>4

\* The coordinator adds an input.
LEMMA InputGathered ==
    ASSUME NEW p \in Procs, Inv, Gather(p)
    PROVE  Types' /\ Others(p) /\ Event(p)
<1>1. /\ proc \in [Procs -> ProcState] /\ proc[p] \in ProcState
      /\ inputs \in [Calls -> [Procs -> AnyFile]]
  BY DEF Inv, Types
<1>2. /\ proc[p].pc = "gather" /\ Awaited(p).state = "complete"
      /\ comm' = comm /\ step' = step /\ FilesKept /\ done' = done /\ faults' = faults
  BY DEF Gather, At, FilesKept
<1>3. /\ p = Coordinator /\ proc[p].call \in Calls /\ proc[p].idx \in 1 .. Len(Ring)
  BY <1>2 DEF Inv, Own, Coordinating, InCall, Collecting
<1>4. Awaited(p).data \subseteq Input
  <2>1. Ring[proc[p].idx] \in Procs
    BY <1>3, RingFacts
  <2>2. Awaited(p) \in AnyFile
    <3>1. inputs[proc[p].call] \in [Procs -> AnyFile]
      BY <1>1, <1>3
    <3> QED
      BY <2>1, <3>1 DEF Awaited
  <2> QED
    BY <2>2 DEF AnyFile
<1>5. PICK pc \in Pcs : pc = IF proc[p].idx < Len(Ring) THEN "gather" ELSE "reduce"
  BY DEF Pcs
<1>6. PICK a : a = proc[p].accum \cup Awaited(p).data
  BY Zenon
<1>7. a \in SUBSET Input /\ proc[p].idx + 1 \in Nat
  BY <1>1, <1>4, <1>6, SMT DEF ProcState
<1>8. PICK t : t = [[[proc[p] EXCEPT !.accum = a] EXCEPT !.idx = proc[p].idx + 1]
                        EXCEPT !.pc = pc]
  OBVIOUS
<1>9. /\ t \in ProcState /\ t.pc = pc /\ t.call = proc[p].call
      /\ t.idx = proc[p].idx + 1 /\ t.accum = a
  <2>1. PICK u : u = [proc[p] EXCEPT !.accum = a]
    BY Zenon
  <2>2. u \in ProcState /\ u.accum = a /\ u.call = proc[p].call
    BY <1>1, <1>7, <2>1 DEF ProcState
  <2>3. PICK v : v = [u EXCEPT !.idx = proc[p].idx + 1]
    BY Zenon
  <2>4. /\ v \in ProcState /\ v.accum = a /\ v.call = proc[p].call
        /\ v.idx = proc[p].idx + 1
    BY <1>7, <2>2, <2>3 DEF ProcState
  <2>5. t = [v EXCEPT !.pc = pc]
    BY <1>8, <2>1, <2>3
  <2> QED
    BY <2>4, <2>5 DEF ProcState
<1>10. proc' = [proc EXCEPT ![p] = t]
  <2>1. proc' = [proc EXCEPT ![p].accum = a, ![p].idx = proc[p].idx + 1, ![p].pc = pc]
    BY <1>5, <1>6 DEF Gather
  <2> QED
    BY <1>8, <2>1, Zenon
<1>11. proc' \in [Procs -> ProcState] /\ proc'[p] = t
       /\ \A q \in Procs \ {p} : proc'[q] = proc[q]
  BY <1>1, <1>9, <1>10
<1>12. Types' /\ Others(p)
  BY <1>2, <1>11 DEF Inv, Types, Others, FilesKept
<1>13. Gathers(p)
  BY <1>2, <1>5, <1>6, <1>9, <1>11 DEF Gathers, Self, SameCall
<1> QED
  BY <1>12, <1>13 DEF Event

\* The coordinator writes the result.
LEMMA ResultWritten ==
    ASSUME NEW p \in Procs, Types, Own(p), OpenResult(p) \/ WriteResult(p)
    PROVE  Types' /\ Others(p) /\ Event(p)
<1>1. /\ proc[p].pc \in {"reduce", "result"} /\ comm' = comm /\ step' = step
      /\ inputs' = inputs /\ aborts' = aborts /\ done' = done /\ faults' = faults
  BY DEF OpenResult, WriteResult, At
<1>2. proc[p].call \in Calls
  BY <1>1 DEF Own, InCall, Collecting
<1>3. CASE OpenResult(p)
  <2>1. To(p, "result")
    BY <1>3 DEF OpenResult
  <2>2. /\ proc' \in [Procs -> ProcState]
        /\ proc'[p].pc = "result" /\ SameCall(p) /\ SameSum(p)
        /\ \A q \in Procs \ {p} : proc'[q] = proc[q]
    BY <2>1, PcAssigned DEF Pcs
  <2>3. Short \in AnyFile
    BY DEF Short, AnyFile
  <2>4. result' \in [Calls -> AnyFile] /\ ResultBecomes(p, Short)
    BY <1>2, <1>3, <2>3, ResultAssigned, Zenon DEF OpenResult
  <2>5. Types' /\ Others(p)
    BY <1>1, <2>2, <2>4 DEF Types, Others
  <2>6. OpensResult(p)
    BY <1>1, <1>3, <2>2, <2>4 DEF OpensResult, OpenResult, At, Self
  <2> QED
    BY <2>5, <2>6 DEF Event
<1>4. CASE WriteResult(p)
  <2>1. To(p, "await")
    BY <1>4 DEF WriteResult
  <2>2. /\ proc' \in [Procs -> ProcState]
        /\ proc'[p].pc = "await" /\ SameCall(p) /\ SameSum(p)
        /\ \A q \in Procs \ {p} : proc'[q] = proc[q]
    BY <2>1, PcAssigned DEF Pcs
  <2>3. PICK file \in AnyFile : file = Complete(proc[p].accum)
    <3>1. proc[p].accum \in SUBSET Input
      BY DEF Types, ProcState
    <3> QED
      BY <3>1 DEF Complete, AnyFile
  <2>4. result' \in [Calls -> AnyFile] /\ ResultBecomes(p, file)
    <3>1. result' = [result EXCEPT ![proc[p].call] = file]
      BY <1>4, <2>3 DEF WriteResult
    <3> QED
      BY <1>2, <3>1, ResultAssigned, Zenon
  <2>5. Types' /\ Others(p)
    BY <1>1, <2>2, <2>4 DEF Types, Others
  <2>6. WritesResult(p)
    BY <1>1, <1>4, <2>2, <2>3, <2>4 DEF WritesResult, WriteResult, At, Self
  <2> QED
    BY <2>5, <2>6 DEF Event
<1> QED
  BY <1>3, <1>4

\* A rank reads the result.
LEMMA ResultReceived ==
    ASSUME NEW p \in Procs, Types, Receive(p)
    PROVE  Types' /\ Others(p) /\ Event(p)
<1>1. /\ proc[p].pc = "await" /\ result[proc[p].call].state = "complete"
      /\ FilesKept /\ faults' = faults /\ To(p, "idle")
      /\ step' = [step EXCEPT ![p] = step[p] + 1]
      /\ done' = done \cup {[rank |-> p, call |-> proc[p].call, step |-> step[p],
                             sum |-> result[proc[p].call].data]}
  BY DEF Receive, ReturnOk, At, FilesKept
<1>2. /\ comm' \in [Procs -> CommState] /\ comm'[p].sequence = comm[p].sequence
      /\ \A q \in Procs \ {p} : comm'[q] = comm[q]
  BY ErrorsAssigned, Zenon DEF Receive, ReturnOk
<1>3. /\ proc' \in [Procs -> ProcState]
      /\ proc'[p].pc = "idle" /\ SameCall(p) /\ SameSum(p)
      /\ \A q \in Procs \ {p} : proc'[q] = proc[q]
  BY <1>1, PcAssigned DEF Pcs
<1>4. /\ step' \in [Procs -> Nat] /\ step'[p] = step[p] + 1
      /\ \A q \in Procs \ {p} : step'[q] = step[q]
  BY <1>1, SMT DEF Types
<1>5. Types' /\ Others(p)
  BY <1>1, <1>2, <1>3, <1>4 DEF Types, Others, FilesKept
<1>6. Succeeds(p)
  BY <1>1, <1>2, <1>3, <1>4 DEF Succeeds, Self
<1> QED
  BY <1>5, <1>6 DEF Event

\* Every step is an event of some rank.
LEMMA StepIsEvent ==
    ASSUME Inv, Next
    PROVE  Types' /\ \E p \in Procs : Others(p) /\ Event(p)
<1>1. PICK p \in Procs :
          \/ Begin(p) \/ Skip(p) \/ LocalCopy(p)
          \/ CallStep(p)
          \/ GoOn(p) \/ Retry(p)
          \/ Crash(p)
  BY DEF Next
<1>2. Types /\ Own(p)
  BY DEF Inv
<1>3. Types' /\ Others(p) /\ Event(p)
  BY <1>1, <1>2, OutsideCall, CallFails, InputWritten, InputGathered, ResultWritten,
     ResultReceived DEF CallStep
<1> QED
  BY <1>3
-----------------------------------------------------------------------------
(***************************************************************************)
(* The invariant is kept                                                   *)
(***************************************************************************)

\* What an event may change apart from the state of its rank.
LEMMA EventFrame ==
    ASSUME NEW p \in Procs, Event(p)
    PROVE  /\ faults \subseteq faults'
           /\ OpensInput(p) \/ WritesInput(p) \/ inputs' = inputs
           /\ OpensResult(p) \/ WritesResult(p) \/ result' = result
           /\ \/ aborts' = aborts
              \/ proc[p].pc \in Collecting /\ aborts' = aborts \cup {proc[p].call}
           /\ Succeeds(p) \/ done' = done
<1>1. CASE Idles(p)
  BY <1>1 DEF Idles, FilesKept
<1>2. CASE Begins(p)
  BY <1>2 DEF Begins, FilesKept
<1>3. CASE OpensInput(p)
  BY <1>3 DEF OpensInput
<1>4. CASE WritesInput(p)
  BY <1>4 DEF WritesInput
<1>5. CASE Gathers(p)
  BY <1>5 DEF Gathers, FilesKept
<1>6. CASE OpensResult(p)
  BY <1>6 DEF OpensResult
<1>7. CASE WritesResult(p)
  BY <1>7 DEF WritesResult
<1>8. CASE Succeeds(p)
  BY <1>8 DEF Succeeds, FilesKept
<1>9. CASE Fails(p)
  BY <1>9 DEF Fails
<1>10. CASE Resumes(p)
  BY <1>10 DEF Resumes, FilesKept
<1>11. CASE Crashes(p)
  BY <1>11 DEF Crashes, FilesKept
<1> QED
  BY <1>1, <1>2, <1>3, <1>4, <1>5, <1>6, <1>7, <1>8, <1>9, <1>10, <1>11 DEF Event

\* A rank writes its own inputs only, and none that is complete.
LEMMA InputsKept ==
    ASSUME NEW p \in Procs, Own(p), Event(p)
    PROVE  /\ \A c \in Calls, q \in Procs \ {p} : inputs'[c][q] = inputs[c][q]
           /\ \A c \in Calls, q \in Procs : inputs[c][q].state = "complete" =>
                                                inputs'[c][q] = inputs[c][q]
<1>1. CASE OpensInput(p) \/ WritesInput(p)
  <2>1. inputs[proc[p].call][p].state # "complete"
    BY <1>1, SMT DEF Own, OpensInput, WritesInput, Absent, Short
  <2>2. \A c \in Calls, q \in Procs :
            c # proc[p].call \/ q # p => inputs'[c][q] = inputs[c][q]
    BY <1>1 DEF OpensInput, WritesInput, InputBecomes
  <2> QED
    BY <2>1, <2>2
<1>2. CASE ~(OpensInput(p) \/ WritesInput(p))
  <2>1. inputs' = inputs
    BY <1>2, EventFrame
  <2> QED
    BY <2>1
<1> QED
  BY <1>1, <1>2

\* Own is kept.
LEMMA OwnKept ==
    ASSUME NEW p \in Procs, NEW q \in Procs, Types, Own(p), Own(q), Others(p), Event(p)
    PROVE  Own(q)'
<1> USE DEF InCall, Collecting, Self, SameCall
<1>1. CASE q # p
  <2>1. proc'[q] = proc[q] /\ comm'[q] = comm[q]
    BY <1>1 DEF Others
  <2>2. \A c \in Calls : inputs'[c][q] = inputs[c][q]
    BY <1>1, InputsKept
  <2> QED
    BY <2>1, <2>2 DEF Own
<1>2. CASE q = p
  <2>1. comm[p].sequence \in Nat /\ proc[p].call \in Nat
    BY DEF Types, CommState, ProcState
  <2>2. CASE Begins(p)
    <3>1. /\ proc'[p].pc = "mkdir" /\ p \in Active /\ comm[p].sequence \in Calls
          /\ comm'[p].sequence = comm[p].sequence + 1
          /\ proc'[p].call = comm[p].sequence /\ inputs' = inputs
      BY <2>2 DEF Begins, FilesKept
    <3>2. \A c \in Calls : c \in Int
      BY RendezvousAssumption, SMT DEF Calls
    <3>3. inputs[comm[p].sequence][p] = Absent
      BY <2>1, <3>1, SMT DEF Own
    <3>4. \A c \in Calls : c >= comm[p].sequence + 1 => inputs[c][p] = Absent
      BY <2>1, <3>2, SMT DEF Own
    <3> QED
      BY <1>2, <3>1, <3>3, <3>4 DEF Own
  <2>3. CASE OpensInput(p) \/ WritesInput(p)
    <3>1. /\ proc[p].pc \in {"mkdir", "input"} /\ comm'[p].sequence = comm[p].sequence
          /\ proc'[p].call = proc[p].call
          /\ \/ proc'[p].pc = "input" /\ inputs'[proc[p].call][p] = Short
             \/ proc'[p].pc = "gather" /\ p = Coordinator
             \/ proc'[p].pc = "await"
          /\ \A c \in Calls : c # proc[p].call => inputs'[c][p] = inputs[c][p]
      BY <2>3 DEF OpensInput, WritesInput, InputBecomes
    <3>2. p \in Active /\ proc[p].call \in Calls /\ comm[p].sequence = proc[p].call + 1
      BY <3>1 DEF Own
    <3>3. \A c \in Calls : c >= comm[p].sequence => c # proc[p].call
      BY <2>1, <3>2, SMT
    <3>4. \A c \in Calls : c >= comm[p].sequence => inputs'[c][p] = Absent
      BY <3>1, <3>3 DEF Own
    <3> QED
      BY <1>2, <3>1, <3>2, <3>4 DEF Own
  <2>4. CASE Gathers(p) \/ OpensResult(p) \/ WritesResult(p) \/ Fails(p)
    <3>1. /\ proc[p].pc \in InCall /\ comm'[p].sequence = comm[p].sequence
          /\ proc'[p].call = proc[p].call /\ inputs' = inputs
          /\ \/ proc'[p].pc \in Collecting /\ proc[p].pc \in Collecting
             \/ proc'[p].pc \in {"await", "failed"}
      BY <2>4 DEF Gathers, OpensResult, WritesResult, Fails, FilesKept
    <3> QED
      BY <1>2, <3>1 DEF Own
  <2>5. CASE Succeeds(p) \/ Resumes(p) \/ Crashes(p)
    <3>1. /\ comm'[p].sequence = comm[p].sequence /\ inputs' = inputs
          /\ proc'[p].pc \in {"idle", "crashed"}
      BY <2>5 DEF Succeeds, Resumes, Crashes, FilesKept
    <3> QED
      BY <1>2, <3>1 DEF Own
  <2>6. CASE Idles(p)
    <3>1. /\ comm'[p].sequence = comm[p].sequence /\ inputs' = inputs
          /\ proc'[p].pc = proc[p].pc /\ proc'[p].call = proc[p].call
      BY <2>6 DEF Idles, FilesKept
    <3> QED
      BY <1>2, <3>1 DEF Own
  <2> QED
    BY <2>2, <2>3, <2>4, <2>5, <2>6 DEF Event
<1> QED
  BY <1>1, <1>2

\* InStep is kept.
LEMMA InStepKept ==
    ASSUME NEW p \in Procs, NEW q \in Procs, Types, Own(p), InStep(q), Others(p), Event(p)
    PROVE  InStep(q)'
<1> USE DEF InCall, Collecting, Self, SameCall
<1>0. SUFFICES ASSUME "retry" \notin faults'
               PROVE  InStep(q)'
  BY DEF InStep
<1>1. "retry" \notin faults
  BY <1>0, EventFrame
<1>2. CASE q # p
  <2>1. proc'[q] = proc[q] /\ comm'[q] = comm[q] /\ step'[q] = step[q]
    BY <1>2 DEF Others
  <2>2. \A c \in Calls : inputs'[c][q] = inputs[c][q]
    BY <1>2, InputsKept
  <2> QED
    BY <1>1, <2>1, <2>2 DEF InStep
<1>3. CASE q = p
  <2>1. comm[p].sequence \in Nat /\ proc[p].call \in Nat /\ step[p] \in Nat
    BY DEF Types, CommState, ProcState
  <2>2. /\ proc[p].pc = "idle" => step[p] = comm[p].sequence
        /\ proc[p].pc \in InCall \cup {"failed"} =>
              step[p] = proc[p].call /\ comm[p].sequence = proc[p].call + 1
        /\ \A c \in Calls : inputs[c][p].state = "complete" =>
                                inputs[c][p].data = {[rank |-> p, step |-> c]}
    BY <1>1, <1>3 DEF InStep, Own
  <2>3. CASE OpensInput(p) \/ WritesInput(p)
    <3>1. /\ proc[p].pc \in {"mkdir", "input"} /\ comm'[p].sequence = comm[p].sequence
          /\ proc'[p].call = proc[p].call /\ step'[p] = step[p]
          /\ proc'[p].pc \in InCall
          /\ \A c \in Calls : c # proc[p].call => inputs'[c][p] = inputs[c][p]
      BY <2>3 DEF OpensInput, WritesInput, InputBecomes
    <3>2. \/ inputs'[proc[p].call][p] = Short
          \/ inputs'[proc[p].call][p] = Complete({[rank |-> p, step |-> step[p]]})
      BY <2>3 DEF OpensInput, WritesInput, InputBecomes
    <3>3. inputs'[proc[p].call][p].state = "complete" =>
              inputs'[proc[p].call][p].data = {[rank |-> p, step |-> proc[p].call]}
      BY <2>2, <3>1, <3>2, SMT DEF Short, Complete
    <3>4. \A c \in Calls : inputs'[c][p].state = "complete" =>
                               inputs'[c][p].data = {[rank |-> p, step |-> c]}
      BY <2>2, <3>1, <3>3
    <3> QED
      BY <1>3, <2>2, <3>1, <3>4 DEF InStep
  <2>4. CASE ~(OpensInput(p) \/ WritesInput(p))
    <3>1. inputs' = inputs
      BY <2>4, EventFrame
    <3>2. /\ proc'[p].pc = "idle" => step'[p] = comm'[p].sequence
          /\ proc'[p].pc \in InCall \cup {"failed"} => step'[p] = proc'[p].call
      <4>1. CASE Begins(p) \/ Idles(p)
        BY <2>2, <4>1 DEF Begins, Idles
      <4>2. CASE Gathers(p) \/ OpensResult(p) \/ WritesResult(p) \/ Fails(p)
        BY <2>2, <4>2 DEF Gathers, OpensResult, WritesResult, Fails
      <4>3. CASE Succeeds(p) \/ Crashes(p)
        BY <2>2, <4>3 DEF Succeeds, Crashes
      <4>4. CASE Resumes(p)
        BY <1>0, <2>1, <2>2, <4>4 DEF Resumes
      <4> QED
        BY <2>4, <4>1, <4>2, <4>3, <4>4 DEF Event
    <3> QED
      BY <1>3, <2>2, <3>1, <3>2 DEF InStep
  <2> QED
    BY <2>3, <2>4
<1> QED
  BY <1>2, <1>3

\* A sum over complete inputs stays the sum.
LEMMA SumKept ==
    ASSUME NEW p \in Procs, Own(p), Event(p), NEW c \in Calls, NEW sum,
           NEW i \in Nat, i <= Len(Ring), SumUpTo(inputs[c], i, sum)
    PROVE  SumUpTo(inputs'[c], i, sum)
<1>1. PICK old : old = inputs[c]
  BY Zenon
<1>2. PICK new : new = inputs'[c]
  BY Zenon
<1>3. ASSUME NEW j \in 1 .. i
      PROVE  old[Ring[j]].state = "complete" /\ new[Ring[j]] = old[Ring[j]]
  <2>1. Ring[j] \in Procs
    BY RingFacts, SMT
  <2>2. inputs[c][Ring[j]].state = "complete"
    BY DEF SumUpTo
  <2> QED
    BY <1>1, <1>2, <2>1, <2>2, InputsKept
<1>4. SumUpTo(old, i, sum)
  BY <1>1
<1>5. {new[Ring[j]].data : j \in 1 .. i} = {old[Ring[j]].data : j \in 1 .. i}
  BY <1>3
<1>6. SumUpTo(new, i, sum)
  BY <1>3, <1>4, <1>5 DEF SumUpTo
<1> QED
  BY <1>2, <1>6

\* Only the coordinator writes results and aborts.
LEMMA DecisionsKept ==
    ASSUME NEW p \in Procs, Own(p), Event(p), p # Coordinator
    PROVE  result' = result /\ aborts' = aborts
<1>1. ~(proc[p].pc \in Collecting)
  BY DEF Own
<1>2. ~OpensResult(p) /\ ~WritesResult(p)
  BY <1>1 DEF OpensResult, WritesResult, Collecting
<1> QED
  BY <1>1, <1>2, EventFrame

\* Adding the input at position i.
LEMMA SumExtended ==
    ASSUME NEW files, NEW i \in Nat \ {0}, NEW sum, SumUpTo(files, i - 1, sum),
           files[Ring[i]].state = "complete"
    PROVE  SumUpTo(files, i, sum \cup files[Ring[i]].data)
<1>1. /\ \A j \in 1 .. i : j \in 1 .. i - 1 \/ j = i
      /\ \A j \in 1 .. i - 1 : j \in 1 .. i
      /\ i \in 1 .. i
  BY SMT
<1>2. \A j \in 1 .. i : files[Ring[j]].state = "complete"
  BY <1>1 DEF SumUpTo
<1>3. UNION {files[Ring[j]].data : j \in 1 .. i}
          = (UNION {files[Ring[j]].data : j \in 1 .. i - 1}) \cup files[Ring[i]].data
  BY <1>1, Zenon
<1> QED
  BY <1>2, <1>3, Zenon DEF SumUpTo

\* No file has been added up before the first one.
LEMMA SumOfNone ==
    ASSUME NEW files
    PROVE  SumUpTo(files, 0, {})
BY SMT DEF SumUpTo

\* Coordinating is kept by the steps of other ranks.
LEMMA CoordinatingKeptByOthers ==
    ASSUME NEW p \in Procs, NEW k \in Procs, k = Coordinator, p # k, Types, Own(p), Own(k),
           Coordinating(k), Others(p), Event(p)
    PROVE  Coordinating(k)'
<1>1. proc'[k] = proc[k] /\ comm'[k] = comm[k]
  BY DEF Others
<1>2. result' = result /\ aborts' = aborts
  BY DecisionsKept
<1>3. proc[k].pc \in Collecting =>
          SumUpTo(inputs[proc[k].call], proc[k].idx - 1, proc[k].accum)'
  <2> SUFFICES ASSUME proc[k].pc \in Collecting
               PROVE  SumUpTo(inputs[proc[k].call], proc[k].idx - 1, proc[k].accum)'
    OBVIOUS
  <2>1. Len(Ring) \in Nat \ {0}
    BY RingFacts
  <2>2. /\ SumUpTo(inputs[proc[k].call], proc[k].idx - 1, proc[k].accum)
        /\ proc[k].idx - 1 \in Nat /\ proc[k].idx - 1 <= Len(Ring)
    BY <2>1, SMT DEF Coordinating, Collecting
  <2>3. proc[k].call \in Calls /\ proc[k].accum \in SUBSET Input
    BY DEF Own, InCall, Types, ProcState
  <2>4. PICK c \in Calls, i \in Nat, sum \in SUBSET Input :
            c = proc[k].call /\ i = proc[k].idx - 1 /\ sum = proc[k].accum
    BY <2>2, <2>3
  <2>5. SumUpTo(inputs'[c], i, sum)
    BY <2>2, <2>4, SumKept
  <2>6. c = proc'[k].call /\ i = proc'[k].idx - 1 /\ sum = proc'[k].accum
    BY <1>1, <2>4
  <2> QED
    BY <2>5, <2>6
<1> QED
  BY <1>1, <1>2, <1>3 DEF Coordinating

\* Coordinating is kept by the coordinator's own steps.
LEMMA CoordinatingKeptByItself ==
    ASSUME NEW k \in Procs, k = Coordinator, Types, Own(k), Coordinating(k), Event(k)
    PROVE  Coordinating(k)'
<1> USE DEF InCall, Collecting, Self, SameCall, SameSum
<1>1. comm[k].sequence \in Nat /\ proc[k].call \in Nat /\ proc[k].idx \in Nat
  BY DEF Types, CommState, ProcState
<1>2. Len(Ring) \in Nat \ {0}
  BY RingFacts
<1>3. \A c \in Calls : c \in Int
  BY RendezvousAssumption, SMT DEF Calls
<1>4. proc[k].pc \in InCall =>
          /\ proc[k].call \in Calls
          /\ \A c \in Calls : c >= comm[k].sequence => c # proc[k].call
  BY <1>1, <1>3, SMT DEF Own
<1>5. \A c \in Calls : c >= comm[k].sequence => result[c] = Absent /\ c \notin aborts
  BY DEF Coordinating
<1>6. CASE Begins(k)
  <2>1. /\ proc'[k].pc = "mkdir" /\ comm[k].sequence \in Calls
        /\ comm'[k].sequence = comm[k].sequence + 1
        /\ proc'[k].call = comm[k].sequence /\ proc'[k].idx = 1 /\ proc'[k].accum = {}
        /\ result' = result /\ aborts' = aborts
    BY <1>6 DEF Begins, FilesKept
  <2>2. result[comm[k].sequence] = Absent /\ comm[k].sequence \notin aborts
    BY <1>1, <1>5, <2>1, SMT
  <2>3. \A c \in Calls : c >= comm[k].sequence + 1 => c >= comm[k].sequence
    BY <1>1, <1>3, SMT
  <2> QED
    BY <1>5, <2>1, <2>2, <2>3 DEF Coordinating
<1>7. CASE OpensInput(k)
  <2>1. /\ proc[k].pc = "mkdir" /\ proc'[k].pc = "input"
        /\ comm'[k].sequence = comm[k].sequence /\ proc'[k].call = proc[k].call
        /\ proc'[k].idx = proc[k].idx /\ proc'[k].accum = proc[k].accum
        /\ result' = result /\ aborts' = aborts
    BY <1>7 DEF OpensInput
  <2> QED
    BY <2>1 DEF Coordinating
<1>8. CASE WritesInput(k)
  <2>1. /\ proc[k].pc = "input" /\ proc'[k].pc = "gather"
        /\ comm'[k].sequence = comm[k].sequence /\ proc'[k].call = proc[k].call
        /\ proc'[k].idx = proc[k].idx /\ proc'[k].accum = proc[k].accum
        /\ result' = result /\ aborts' = aborts
    BY <1>8 DEF WritesInput
  <2>2. proc'[k].idx = 1 /\ proc'[k].accum = {}
    BY <2>1 DEF Coordinating
  <2>3. SumUpTo(inputs[proc[k].call], proc[k].idx - 1, proc[k].accum)'
    <3>1. proc'[k].idx - 1 = 0
      BY <2>2, SMT
    <3> QED
      BY <2>2, <3>1, SumOfNone
  <2>4. proc'[k].idx \in 1 .. Len(Ring)
    BY <1>2, <2>2, SMT
  <2> QED
    BY <2>1, <2>3, <2>4 DEF Coordinating
<1>9. CASE Gathers(k)
  <2>1. /\ proc[k].pc = "gather" /\ Awaited(k).state = "complete"
        /\ proc'[k].pc = IF proc[k].idx < Len(Ring) THEN "gather" ELSE "reduce"
        /\ comm'[k].sequence = comm[k].sequence /\ proc'[k].call = proc[k].call
        /\ proc'[k].idx = proc[k].idx + 1
        /\ proc'[k].accum = proc[k].accum \cup Awaited(k).data
        /\ inputs' = inputs /\ result' = result /\ aborts' = aborts
    BY <1>9 DEF Gathers, FilesKept
  <2>2. /\ proc[k].idx \in 1 .. Len(Ring)
        /\ SumUpTo(inputs[proc[k].call], proc[k].idx - 1, proc[k].accum)
    BY <2>1 DEF Coordinating
  <2>3. PICK files : files = inputs[proc[k].call]
    OBVIOUS
  <2>4. PICK i : i = proc[k].idx
    OBVIOUS
  <2>5. PICK sum : sum = proc[k].accum
    OBVIOUS
  <2>6. i \in Nat \ {0}
    BY <2>2, <2>4, SMT
  <2>7. files[Ring[i]].state = "complete" /\ SumUpTo(files, i - 1, sum)
    BY <2>1, <2>2, <2>3, <2>4, <2>5 DEF Awaited
  <2>8. SumUpTo(files, i, sum \cup files[Ring[i]].data)
    BY <2>6, <2>7, SumExtended
  <2>9. SumUpTo(inputs[proc[k].call], proc[k].idx - 1, proc[k].accum)'
    <3>1. inputs'[proc'[k].call] = files
      BY <2>1, <2>3
    <3>2. proc'[k].idx - 1 = i
      BY <2>1, <2>4, <2>6, SMT
    <3>3. proc'[k].accum = sum \cup files[Ring[i]].data
      BY <2>1, <2>3, <2>4, <2>5 DEF Awaited
    <3> QED
      BY <2>8, <3>1, <3>2, <3>3
  <2>10. /\ proc'[k].pc = "gather" => proc'[k].idx \in 1 .. Len(Ring)
         /\ proc'[k].pc = "reduce" => proc'[k].idx = Len(Ring) + 1
    BY <1>2, <2>1, <2>2, SMT
  <2>11. proc'[k].pc \in {"gather", "reduce"}
    BY <2>1
  <2> QED
    BY <2>1, <2>9, <2>10, <2>11 DEF Coordinating
<1>10. CASE OpensResult(k)
  <2>1. /\ proc[k].pc = "reduce" /\ proc'[k].pc = "result"
        /\ comm'[k].sequence = comm[k].sequence /\ proc'[k].call = proc[k].call
        /\ proc'[k].idx = proc[k].idx /\ proc'[k].accum = proc[k].accum
        /\ inputs' = inputs /\ aborts' = aborts
        /\ result'[proc[k].call] = Short
        /\ \A c \in Calls : c # proc[k].call => result'[c] = result[c]
    BY <1>10 DEF OpensResult, ResultBecomes
  <2>2. SumUpTo(inputs[proc[k].call], proc[k].idx - 1, proc[k].accum)'
    BY <2>1 DEF Coordinating
  <2>3. \A c \in Calls : c >= comm[k].sequence => result'[c] = Absent
    BY <1>4, <1>5, <2>1
  <2> QED
    BY <2>1, <2>2, <2>3 DEF Coordinating
<1>11. CASE WritesResult(k)
  <2>1. /\ proc[k].pc = "result" /\ proc'[k].pc = "await"
        /\ comm'[k].sequence = comm[k].sequence /\ aborts' = aborts
        /\ \A c \in Calls : c # proc[k].call => result'[c] = result[c]
    BY <1>11 DEF WritesResult, ResultBecomes
  <2>2. \A c \in Calls : c >= comm[k].sequence => result'[c] = Absent
    BY <1>4, <1>5, <2>1
  <2> QED
    BY <1>5, <2>1, <2>2 DEF Coordinating
<1>12. CASE Fails(k)
  <2>1. /\ proc[k].pc \in InCall /\ proc'[k].pc = "failed"
        /\ comm'[k].sequence = comm[k].sequence /\ result' = result
        /\ aborts' \subseteq aborts \cup {proc[k].call}
    BY <1>12 DEF Fails
  <2>2. \A c \in Calls : c >= comm[k].sequence => c \notin aborts'
    BY <1>4, <1>5, <2>1
  <2> QED
    BY <1>5, <2>1, <2>2 DEF Coordinating
<1>13. CASE Succeeds(k) \/ Resumes(k) \/ Crashes(k)
  <2>1. /\ proc'[k].pc \in {"idle", "crashed"} /\ comm'[k].sequence = comm[k].sequence
        /\ result' = result /\ aborts' = aborts
    BY <1>13 DEF Succeeds, Resumes, Crashes, FilesKept
  <2> QED
    BY <1>5, <2>1 DEF Coordinating
<1>14. CASE Idles(k)
  <2>1. /\ proc'[k].pc = proc[k].pc /\ comm'[k].sequence = comm[k].sequence
        /\ proc'[k].call = proc[k].call
        /\ proc'[k].idx = proc[k].idx /\ proc'[k].accum = proc[k].accum
        /\ inputs' = inputs /\ result' = result /\ aborts' = aborts
    BY <1>14 DEF Idles, FilesKept
  <2> QED
    BY <2>1 DEF Coordinating
<1> QED
  BY <1>6, <1>7, <1>8, <1>9, <1>10, <1>11, <1>12, <1>13, <1>14 DEF Event

\* A complete result stays, and its call is never aborted.
LEMMA ResultsKept ==
    ASSUME NEW p \in Procs, Inv, Event(p), NEW c \in Calls, result[c].state = "complete"
    PROVE  result'[c] = result[c] /\ c \notin aborts'
<1>1. Own(p) /\ c \notin aborts
  BY DEF Inv, Decided
<1>2. CASE proc[p].pc \in Collecting
  <2>1. p = Coordinator /\ Coordinating(p)
    BY <1>1, <1>2 DEF Own, Inv
  <2>2. result[proc[p].call].state # "complete"
    BY <1>2, <2>1, SMT DEF Coordinating, Collecting, Absent, Short
  <2>3. c # proc[p].call
    BY <2>2
  <2>4. aborts' \subseteq aborts \cup {proc[p].call}
    BY EventFrame
  <2>5. result'[c] = result[c]
    BY <2>3, EventFrame DEF OpensResult, WritesResult, ResultBecomes
  <2> QED
    BY <1>1, <2>3, <2>4, <2>5
<1>3. CASE ~(proc[p].pc \in Collecting)
  <2>1. ~OpensResult(p) /\ ~WritesResult(p)
    BY <1>3 DEF OpensResult, WritesResult, Collecting
  <2>2. result' = result /\ aborts' = aborts
    BY <1>3, <2>1, EventFrame
  <2> QED
    BY <1>1, <2>2
<1> QED
  BY <1>2, <1>3

\* Decided is kept.
LEMMA DecidedKept ==
    ASSUME NEW p \in Procs, Inv, Event(p)
    PROVE  Decided'
<1>1. Own(p) /\ Types /\ Len(Ring) \in Nat
  BY RingFacts DEF Inv
<1> SUFFICES ASSUME NEW c \in Calls, result'[c].state = "complete"
             PROVE  SumUpTo(inputs'[c], Len(Ring), result'[c].data) /\ c \notin aborts'
  BY DEF Decided
<1>2. PICK sum : sum = result'[c].data
  OBVIOUS
<1>3. CASE result[c].state = "complete"
  <2>1. result'[c] = result[c] /\ c \notin aborts'
    BY <1>3, ResultsKept
  <2>2. SumUpTo(inputs[c], Len(Ring), sum)
    BY <1>2, <1>3, <2>1 DEF Inv, Decided
  <2>3. SumUpTo(inputs'[c], Len(Ring), sum)
    BY <1>1, <2>2, SumKept, SMT
  <2> QED
    BY <1>2, <2>1, <2>3
<1>4. CASE result[c].state # "complete"
  <2>1. WritesResult(p) /\ c = proc[p].call
    <3>1. result'[c] # result[c]
      BY <1>4
    <3>2. OpensResult(p) \/ WritesResult(p)
      BY <3>1, EventFrame
    <3>3. c = proc[p].call
      BY <3>1, <3>2 DEF OpensResult, WritesResult, ResultBecomes
    <3> QED
      BY <3>2, <3>3, SMT DEF OpensResult, ResultBecomes, Short
  <2>2. /\ proc[p].pc = "result" /\ inputs' = inputs /\ aborts' = aborts
        /\ result'[c] = Complete(proc[p].accum)
    BY <2>1 DEF WritesResult, ResultBecomes
  <2>3. p = Coordinator /\ Coordinating(p)
    BY <1>1, <2>2 DEF Own, Inv, Collecting
  <2>4. /\ SumUpTo(inputs[c], proc[p].idx - 1, proc[p].accum) /\ proc[p].idx = Len(Ring) + 1
        /\ c \notin aborts
    BY <2>1, <2>2, <2>3 DEF Coordinating, Collecting, InCall
  <2>5. proc[p].idx - 1 = Len(Ring) /\ sum = proc[p].accum
    BY <1>1, <1>2, <2>2, <2>4, SMT DEF Complete
  <2>6. SumUpTo(inputs[c], Len(Ring), sum)
    BY <2>4, <2>5
  <2> QED
    BY <1>2, <2>2, <2>4, <2>6
<1> QED
  BY <1>3, <1>4

\* Returned is kept.
LEMMA ReturnedKept ==
    ASSUME NEW p \in Procs, Inv, Event(p)
    PROVE  Returned'
<1>1. Own(p) /\ InStep(p) /\ faults \subseteq faults'
  BY EventFrame DEF Inv
<1>2. ASSUME NEW d \in done
      PROVE  /\ d.call \in Calls /\ result'[d.call].state = "complete"
             /\ d.sum = result'[d.call].data
             /\ "retry" \notin faults' => d.step = d.call
  <2>1. /\ d.call \in Calls /\ result[d.call].state = "complete"
        /\ d.sum = result[d.call].data /\ ("retry" \notin faults => d.step = d.call)
    BY DEF Inv, Returned
  <2>2. result'[d.call] = result[d.call]
    BY <2>1, ResultsKept
  <2> QED
    BY <1>1, <2>1, <2>2
<1>3. CASE Succeeds(p)
  <2>1. /\ proc[p].pc = "await" /\ result[proc[p].call].state = "complete"
        /\ result' = result /\ faults' = faults
        /\ done' = done \cup {[rank |-> p, call |-> proc[p].call, step |-> step[p],
                               sum |-> result[proc[p].call].data]}
    BY <1>3 DEF Succeeds, FilesKept
  <2>2. proc[p].call \in Calls /\ ("retry" \notin faults => step[p] = proc[p].call)
    BY <1>1, <2>1 DEF Own, InStep, InCall
  <2> QED
    BY <1>2, <2>1, <2>2, SMT DEF Returned
<1>4. CASE ~Succeeds(p)
  <2>1. done' = done
    BY <1>4, EventFrame
  <2> QED
    BY <1>2, <2>1 DEF Returned
<1> QED
  BY <1>3, <1>4

\* Inv holds initially.
LEMMA InvInit ==
    ASSUME Init
    PROVE  Inv
<1>1. Coordinator \in Procs /\ Len(Ring) \in Nat \ {0}
  BY RingFacts
<1>2. Absent \in AnyFile
  BY DEF Absent, AnyFile
<1>3. /\ \A p \in Procs : /\ comm[p] = [sequence |-> 0, errors |-> 0, async |-> FALSE]
                          /\ proc[p] = [pc |-> "idle", call |-> 0, idx |-> 1, accum |-> {}]
                          /\ step[p] = 0
      /\ \A c \in Calls : result[c] = Absent /\ \A p \in Procs : inputs[c][p] = Absent
      /\ aborts = {} /\ done = {}
  BY DEF Init
<1>4. Types
  <2>1. [sequence |-> 0, errors |-> 0, async |-> FALSE] \in CommState
    BY DEF CommState
  <2>2. [pc |-> "idle", call |-> 0, idx |-> 1, accum |-> {}] \in ProcState
    BY DEF ProcState, Pcs
  <2>3. [p \in Procs |-> Absent] \in [Procs -> AnyFile]
    BY <1>2
  <2> QED
    BY <1>2, <2>1, <2>2, <2>3 DEF Init, Types
<1>5. \A p \in Procs : Own(p) /\ InStep(p)
  BY <1>3, SMT DEF Own, InStep, InCall, Collecting, Absent
<1>6. \A k \in Procs : k = Coordinator => Coordinating(k)
  BY <1>1, <1>3, SMT DEF Coordinating, InCall, Collecting
<1>7. Decided /\ Returned
  BY <1>3, SMT DEF Decided, Returned, Absent
<1> QED
  BY <1>4, <1>5, <1>6, <1>7 DEF Inv

\* Every step keeps Inv.
LEMMA NextKeepsInv ==
    ASSUME Inv, [Next]_vars
    PROVE  Inv'
<1>1. CASE Next
  <2>1. Types' /\ \E p \in Procs : Others(p) /\ Event(p)
    BY <1>1, StepIsEvent
  <2>2. PICK p \in Procs : Others(p) /\ Event(p)
    BY <2>1
  <2>3. Types /\ \A q \in Procs : Own(q) /\ InStep(q)
    BY DEF Inv
  <2>4. \A q \in Procs : Own(q)' /\ InStep(q)'
    BY <2>2, <2>3, OwnKept, InStepKept
  <2>5. ASSUME NEW k \in Procs, k = Coordinator
        PROVE  Coordinating(k)'
    <3>1. Coordinating(k)
      BY <2>5 DEF Inv
    <3>2. CASE p = k
      BY <2>2, <2>3, <2>5, <3>1, <3>2, CoordinatingKeptByItself
    <3>3. CASE p # k
      BY <2>2, <2>3, <2>5, <3>1, <3>3, CoordinatingKeptByOthers
    <3> QED
      BY <3>2, <3>3
  <2>6. (\A k \in Procs : k = Coordinator => Coordinating(k))'
    BY <2>5
  <2>7. Decided' /\ Returned'
    BY <2>2, DecidedKept, ReturnedKept
  <2> QED
    BY <2>1, <2>4, <2>6, <2>7 DEF Inv
<1>2. CASE UNCHANGED vars
  <2> USE <1>2 DEF vars
  <2>1. Types'
    BY DEF Inv, Types
  <2>2. \A p \in Procs : Own(p)' /\ InStep(p)'
    BY DEF Inv, Own, InStep
  <2>3. (\A k \in Procs : k = Coordinator => Coordinating(k))'
    BY DEF Inv, Coordinating
  <2>4. Decided'
    BY DEF Inv, Decided
  <2>5. Returned'
    BY DEF Inv, Returned
  <2> QED
    BY <2>1, <2>2, <2>3, <2>4, <2>5 DEF Inv
<1> QED
  BY <1>1, <1>2
-----------------------------------------------------------------------------
\* Inv is an invariant.
LEMMA InvAlways == Spec => []Inv
<1>1. Init => Inv
  BY InvInit
<1>2. Inv /\ [Next]_vars => Inv'
  BY NextKeepsInv
<1> QED
  BY <1>1, <1>2, PTL DEF Spec

\* What a rank returned is the sum of the complete inputs of the active ranks.
LEMMA ReturnedSums ==
    ASSUME Inv, NEW d \in done
    PROVE  /\ d.call \in Calls
           /\ d.sum = UNION {inputs[d.call][r].data : r \in Active}
           /\ \A r \in Active : inputs[d.call][r].state = "complete"
<1>1. d.call \in Calls /\ SumUpTo(inputs[d.call], Len(Ring), d.sum)
  BY DEF Inv, Returned, Decided
<1>2. Active = {Ring[j] : j \in 1 .. Len(Ring)}
  BY RingFacts
<1>3. {inputs[d.call][Ring[j]].data : j \in 1 .. Len(Ring)}
        = {inputs[d.call][r].data : r \in Active}
  BY <1>2
<1> QED
  BY <1>1, <1>2, <1>3 DEF SumUpTo

\* For every number of ranks, plan, number of calls and set of faults, a call that
\* returns ncclSuccess returns the sum of what every active rank put into its
\* directory: the coordinator publishes a result only after the last position of the
\* ring, and nobody rewrites an input or a result that is complete.
THEOREM SuccessSumsAllRanksAlways == Spec => []SuccessSumsAllRanks
<1>1. Inv => SuccessSumsAllRanks
  BY ReturnedSums DEF SuccessSumsAllRanks
<1> QED
  BY <1>1, InvAlways, PTL

\* For every number of ranks, plan, number of calls and set of faults without a
\* repeated call, a successful call sums one step of the application: an error leaves
\* the sequence number of the rank advanced, as success does.
THEOREM SumsStayInStepAlways == Spec => []SumsStayInStep
<1>1. ASSUME Inv, "retry" \notin faults, NEW d \in done
      PROVE  d.sum = {[rank |-> r, step |-> d.step] : r \in Active}
  <2>1. /\ d.call \in Calls
        /\ d.sum = UNION {inputs[d.call][r].data : r \in Active}
        /\ \A r \in Active : inputs[d.call][r].state = "complete"
    BY <1>1, ReturnedSums
  <2>2. d.step = d.call
    BY <1>1 DEF Inv, Returned
  <2>3. \A r \in Active : inputs[d.call][r].data = {[rank |-> r, step |-> d.step]}
    BY <1>1, <2>1, <2>2, RingFacts, SMT DEF Inv, InStep
  <2> QED
    BY <2>1, <2>3, SMT
<1>2. Inv => SumsStayInStep
  BY <1>1 DEF SumsStayInStep
<1> QED
  BY <1>2, InvAlways, PTL

\* For every number of ranks, plan, number of calls and set of faults, no rank
\* succeeds in a call whose abort marker the coordinator published: it gives a call up
\* only before it has written the whole result.
THEOREM AbortedCallsFailAlways == Spec => []AbortedCallsFail
<1>1. Inv => AbortedCallsFail
  BY DEF Inv, Returned, Decided, AbortedCallsFail
<1> QED
  BY <1>1, InvAlways, PTL
-----------------------------------------------------------------------------
(***************************************************************************)
(* The counters stay in their ranges                                       *)
(***************************************************************************)

\* A rank has counted no more errors than it has begun calls, and in a call not
\* yet one for it; the application is no step ahead of the calls.
Counters(p) ==
    /\ comm[p].sequence <= MaxCalls
    /\ step[p] <= comm[p].sequence
    /\ proc[p].pc \in InCall \cup {"failed"} => step[p] < comm[p].sequence
    /\ p \in Active => comm[p].errors <= comm[p].sequence
    /\ p \in Active /\ proc[p].pc \in InCall => comm[p].errors < comm[p].sequence
    /\ p \notin Active => comm[p].errors <= MaxSkips

\* What a rank puts into its inputs, and what may be added up.
InputOf(p) == [rank : {p}, step : Calls]
Sums == SUBSET [rank : Procs, step : Calls]

Summing(p) ==
    proc[p].call \in Calls /\ proc[p].idx \in 1 .. Len(Ring) + 1 /\ proc[p].accum \in Sums

Files ==
    /\ \A c \in Calls, p \in Procs :
          inputs[c][p] \in File /\ inputs[c][p].data \subseteq InputOf(p)
    /\ \A c \in Calls : result[c] \in File

Histories ==
    /\ aborts \subseteq Calls
    /\ done \subseteq [rank : Active, call : Calls, step : Calls,
                       sum : SUBSET [rank : Active, step : Calls]]
    /\ broken \subseteq Active \X Calls
    /\ faults \subseteq Faults

Ranges ==
    /\ \A p \in Procs : Counters(p) /\ Summing(p)
    /\ Files
    /\ Histories

\* How a step of p counts errors, and what it adds to the histories that the events
\* leave out.
Counts(p) ==
    \/ comm'[p].errors \in {0, comm[p].errors}
    \/ /\ comm'[p].errors = comm[p].errors + 1
       /\ \/ p \notin Active /\ comm[p].errors < MaxSkips
          \/ proc[p].pc \in InCall /\ proc'[p].pc = "failed"

Notes(p) ==
    /\ \/ broken' = broken
       \/ proc[p].pc \in InCall /\ broken' = broken \cup {<<p, proc[p].call>>}
    /\ faults' \subseteq faults \cup Faults

\* The error count of a rank that ends a call.
LEMMA ErrorsCounted ==
    ASSUME NEW p \in Procs, Types
    PROVE  /\ comm' = [comm EXCEPT ![p].errors = @ + 1, ![p].async = TRUE]
              => comm'[p].errors = comm[p].errors + 1
           /\ comm' = [comm EXCEPT ![p].errors = 0, ![p].async = FALSE]
              => comm'[p].errors = 0
<1>1. comm \in [Procs -> CommState] /\ comm[p] \in CommState
  BY DEF Types
<1>2. ASSUME NEW e, NEW a, comm' = [comm EXCEPT ![p].errors = e, ![p].async = a]
      PROVE  comm'[p].errors = e
  <2>1. PICK r : r = [comm[p] EXCEPT !.errors = e]
    OBVIOUS
  <2>2. r.errors = e /\ DOMAIN r = {"sequence", "errors", "async"}
    BY <1>1, <2>1 DEF CommState
  <2>3. comm'[p] = [r EXCEPT !.async = a]
    BY <1>1, <1>2, <2>1
  <2> QED
    BY <2>2, <2>3
<1> QED
  BY <1>2

\* The actions that end a call with an error count it.
LEMMA FailuresCount ==
    ASSUME NEW p \in Procs, Types,
           \/ MakeDirFails(p) \/ WriteInputFails(p)
           \/ GatherShort(p) \/ GatherFails(p) \/ GatherTimeout(p)
           \/ ReduceFails(p) \/ WriteResultFails(p)
           \/ ReceiveShort(p) \/ ReceiveFails(p) \/ SeeAbort(p) \/ AwaitTimeout(p)
    PROVE  Counts(p) /\ Notes(p)
<1>1. ReturnError(p) /\ proc[p].pc \in InCall /\ faults' \subseteq faults \cup Faults
  <2>1. CASE MakeDirFails(p) \/ WriteInputFails(p)
    BY <2>1 DEF MakeDirFails, WriteInputFails, Fault, At, InCall
  <2>2. CASE GatherShort(p) \/ GatherFails(p) \/ GatherTimeout(p)
    BY <2>2 DEF GatherShort, GatherFails, GatherTimeout, Fault, At, Abort, InCall, Collecting
  <2>3. CASE ReduceFails(p) \/ WriteResultFails(p)
    BY <2>3 DEF ReduceFails, WriteResultFails, Fault, At, Abort, InCall, Collecting
  <2>4. CASE ReceiveShort(p) \/ ReceiveFails(p) \/ SeeAbort(p) \/ AwaitTimeout(p)
    BY <2>4 DEF ReceiveShort, ReceiveFails, SeeAbort, AwaitTimeout, Fault, At, InCall
  <2> QED
    BY <2>1, <2>2, <2>3, <2>4
<1>2. comm'[p].errors = comm[p].errors + 1
  BY <1>1, ErrorsCounted DEF ReturnError
<1>3. proc'[p].pc = "failed"
  BY <1>1, ErrorReturn DEF Self
<1>4. broken' = broken \cup {<<p, proc[p].call>>}
  BY <1>1 DEF ReturnError
<1> QED
  BY <1>1, <1>2, <1>3, <1>4 DEF Counts, Notes

\* Every step counts the errors of its rank.
LEMMA StepCounts ==
    ASSUME NEW p \in Procs, Types,
           \/ Begin(p) \/ Skip(p) \/ LocalCopy(p)
           \/ CallStep(p)
           \/ GoOn(p) \/ Retry(p)
           \/ Crash(p)
    PROVE  Counts(p) /\ Notes(p)
<1>1. CASE Begin(p)
  <2>1. comm \in [Procs -> CommState]
    BY DEF Types
  <2>2. comm'[p].errors = comm[p].errors
    BY <1>1, <2>1 DEF Begin, CommState
  <2> QED
    BY <1>1, <2>2 DEF Begin, Counts, Notes
<1>2. CASE Skip(p)
  <2>1. comm'[p].errors = comm[p].errors + 1
    BY <1>2, ErrorsCounted DEF Skip
  <2> QED
    BY <1>2, <2>1 DEF Skip, Counts, Notes
<1>3. CASE LocalCopy(p)
  <2>1. comm'[p].errors = 0
    BY <1>3, ErrorsCounted DEF LocalCopy
  <2> QED
    BY <1>3, <2>1 DEF LocalCopy, Counts, Notes
<1>4. CASE Receive(p)
  <2>1. comm'[p].errors = 0
    BY <1>4, ErrorsCounted DEF Receive, ReturnOk
  <2> QED
    BY <1>4, <2>1 DEF Receive, ReturnOk, Counts, Notes
<1>5. CASE GoOn(p) \/ Retry(p) \/ Crash(p)
  BY <1>5 DEF GoOn, Retry, Crash, Fault, Counts, Notes
<1>6. CASE \/ OpenInput(p) \/ WriteInput(p) \/ Gather(p) \/ OpenResult(p) \/ WriteResult(p)
  BY <1>6 DEF OpenInput, WriteInput, Gather, OpenResult, WriteResult, Counts, Notes
<1> QED
  BY <1>1, <1>2, <1>3, <1>4, <1>5, <1>6, FailuresCount DEF CallStep

\* The counters are kept: an error is counted when a call ends, and a step is done
\* when a call has ended.
LEMMA CountersKept ==
    ASSUME NEW p \in Procs, NEW q \in Procs, Types, Types', Own(p), Counters(q), Others(p),
           Event(p), Counts(p)
    PROVE  Counters(q)'
<1>0. CASE q # p
  BY <1>0 DEF Others, Counters
<1> SUFFICES ASSUME q = p PROVE Counters(p)'
  BY <1>0
<1>1. /\ comm[p].sequence \in Nat /\ comm[p].errors \in Nat /\ step[p] \in Nat
      /\ comm'[p].sequence \in Nat /\ comm'[p].errors \in Nat /\ step'[p] \in Nat
      /\ MaxCalls \in Nat /\ MaxSkips \in Nat
  BY RendezvousAssumption DEF Types, CommState
<1>2. proc[p].pc \in InCall \cup {"failed"} => p \in Active
  BY DEF Own
<1>3. Counters(p)
  OBVIOUS
<1>4. CASE Begins(p)
  <2>1. /\ p \in Active /\ proc[p].pc = "idle" /\ proc'[p].pc = "mkdir"
        /\ comm[p].sequence \in Calls
        /\ comm'[p].sequence = comm[p].sequence + 1 /\ step'[p] = step[p]
    BY <1>4 DEF Begins, Self
  <2>2. comm'[p].errors \in {0, comm[p].errors}
    BY <2>1 DEF Counts, InCall, Collecting
  <2>3. comm[p].sequence < MaxCalls
    BY <1>1, <2>1, SMT DEF Calls
  <2> QED
    BY <1>1, <1>3, <2>1, <2>2, <2>3, SMT DEF Counters
<1>5. CASE OpensInput(p) \/ WritesInput(p) \/ Gathers(p) \/ OpensResult(p) \/ WritesResult(p)
  <2>1. /\ proc[p].pc \in InCall /\ proc'[p].pc \in InCall
        /\ comm'[p].sequence = comm[p].sequence /\ step'[p] = step[p]
    BY <1>5 DEF OpensInput, WritesInput, Gathers, OpensResult, WritesResult, Self, InCall,
                Collecting
  <2>2. comm'[p].errors \in {0, comm[p].errors}
    BY <1>2, <2>1 DEF Counts, InCall, Collecting
  <2> QED
    BY <1>1, <1>2, <1>3, <2>1, <2>2, SMT DEF Counters
<1>6. CASE Succeeds(p) \/ Resumes(p)
  <2>1. /\ proc[p].pc \in InCall \cup {"failed"} /\ proc'[p].pc = "idle"
        /\ comm'[p].sequence = comm[p].sequence /\ step'[p] \in {step[p], step[p] + 1}
    BY <1>6 DEF Succeeds, Resumes, Self, InCall
  <2>2. comm'[p].errors \in {0, comm[p].errors}
    BY <1>2, <2>1 DEF Counts
  <2>3. "idle" \notin InCall \cup {"failed"}
    BY DEF InCall, Collecting
  <2> QED
    BY <1>1, <1>2, <1>3, <2>1, <2>2, <2>3, SMT DEF Counters
<1>7. CASE Fails(p)
  <2>1. /\ proc[p].pc \in InCall /\ proc'[p].pc = "failed"
        /\ comm'[p].sequence = comm[p].sequence /\ step'[p] = step[p]
    BY <1>7 DEF Fails, Self
  <2>2. comm'[p].errors \in {0, comm[p].errors, comm[p].errors + 1}
    BY DEF Counts
  <2>3. "failed" \notin InCall
    BY DEF InCall, Collecting
  <2> QED
    BY <1>1, <1>2, <1>3, <2>1, <2>2, <2>3, SMT DEF Counters
<1>8. CASE Crashes(p) \/ Idles(p)
  <2>1. /\ proc'[p].pc = proc[p].pc \/ proc'[p].pc = "crashed"
        /\ comm'[p].sequence = comm[p].sequence /\ step'[p] = step[p]
    BY <1>8 DEF Crashes, Idles, Self
  <2>2. \/ comm'[p].errors \in {0, comm[p].errors}
        \/ p \notin Active /\ comm'[p].errors = comm[p].errors + 1 /\ comm[p].errors < MaxSkips
    BY <2>1 DEF Counts, InCall, Collecting
  <2>3. "crashed" \notin InCall \cup {"failed"}
    BY DEF InCall, Collecting
  <2> QED
    BY <1>1, <1>3, <2>1, <2>2, <2>3, SMT DEF Counters
<1> QED
  BY <1>4, <1>5, <1>6, <1>7, <1>8 DEF Event

\* The call a rank is in, and what it has added up, are kept.
LEMMA SummingKept ==
    ASSUME NEW p \in Procs, NEW q \in Procs, Inv, Ranges, Others(p), Event(p)
    PROVE  Summing(q)'
<1>0. Summing(q) /\ Summing(p)
  BY DEF Ranges
<1>1. CASE q # p
  BY <1>0, <1>1 DEF Others, Summing
<1>2. CASE SameCall(p) /\ SameSum(p)
  BY <1>0, <1>1, <1>2 DEF SameCall, SameSum, Summing
<1>3. CASE q = p /\ Begins(p)
  <2>1. proc'[p].call \in Calls /\ proc'[p].idx = 1 /\ proc'[p].accum = {}
    BY <1>3 DEF Begins
  <2>2. 1 \in 1 .. Len(Ring) + 1
    BY RingFacts, SMT
  <2> QED
    BY <1>3, <2>1, <2>2 DEF Summing, Sums
<1>4. CASE q = p /\ Gathers(p)
  <2>1. /\ proc[p].pc = "gather" /\ SameCall(p) /\ proc'[p].idx = proc[p].idx + 1
        /\ proc'[p].accum = proc[p].accum \cup Awaited(p).data
    BY <1>4 DEF Gathers
  <2>2. proc[p].idx \in 1 .. Len(Ring) /\ proc[p].call \in Calls
    BY <2>1 DEF Inv, Own, Coordinating, InCall, Collecting
  <2>3. Ring[proc[p].idx] \in Procs
    BY <2>2, RingFacts
  <2>4. Awaited(p).data \in Sums
    BY <2>2, <2>3 DEF Ranges, Files, Awaited, InputOf, Sums
  <2>5. proc[p].idx + 1 \in 1 .. Len(Ring) + 1
    BY <2>2, RingFacts, SMT
  <2> QED
    BY <1>0, <1>4, <2>1, <2>4, <2>5 DEF Summing, SameCall, Sums
<1> QED
  BY <1>1, <1>2, <1>3, <1>4
  DEF Event, Idles, OpensInput, WritesInput, OpensResult, WritesResult, Succeeds, Fails,
      Resumes, Crashes

\* What is in the files is kept: an input is of a step that has a call.
LEMMA FilesTyped ==
    ASSUME NEW p \in Procs, Inv, Ranges, Event(p)
    PROVE  Files'
<1>0. /\ Own(p) /\ Counters(p) /\ Summing(p) /\ Files
      /\ step[p] \in Nat /\ comm[p].sequence \in Nat
  BY DEF Inv, Types, CommState, Ranges
<1>1. Absent \in File /\ Short \in File /\ Short.data = {}
  BY DEF File, Short
<1>2. \A c \in Calls, q \in Procs :
          inputs'[c][q] \in File /\ inputs'[c][q].data \subseteq InputOf(q)
  <2>1. CASE inputs' = inputs
    BY <1>0, <2>1 DEF Files
  <2>2. CASE OpensInput(p)
    BY <1>0, <1>1, <2>2 DEF OpensInput, InputBecomes, Files
  <2>3. CASE WritesInput(p)
    <3>1. proc[p].pc = "input" /\ proc[p].call \in Calls
      BY <1>0, <2>3 DEF WritesInput, Own, InCall
    <3>2. step[p] \in Calls
      <4>1. step[p] < comm[p].sequence /\ comm[p].sequence <= MaxCalls
        BY <1>0, <3>1 DEF Counters, InCall
      <4> QED
        BY <1>0, <4>1, RendezvousAssumption, SMT DEF Calls
    <3>3. PICK d : d = {[rank |-> p, step |-> step[p]]}
      OBVIOUS
    <3>4. d \subseteq InputOf(p) /\ d \in Sums
      <4>1. [rank |-> p, step |-> step[p]] \in [rank : {p}, step : Calls]
        BY <3>2
      <4>2. [rank |-> p, step |-> step[p]] \in [rank : Procs, step : Calls]
        BY <3>2
      <4> QED
        BY <3>3, <4>1, <4>2 DEF InputOf, Sums
    <3>5. Complete(d) \in File /\ Complete(d).data = d
      BY <3>4 DEF Complete, File, Sums
    <3>6. inputs'[proc[p].call][p] = Complete(d)
      BY <2>3, <3>3 DEF WritesInput, InputBecomes
    <3>7. \A c \in Calls, q \in Procs :
              c # proc[p].call \/ q # p => inputs'[c][q] = inputs[c][q]
      BY <2>3 DEF WritesInput, InputBecomes
    <3> QED
      BY <1>0, <3>4, <3>5, <3>6, <3>7 DEF Files
  <2> QED
    BY <2>1, <2>2, <2>3, EventFrame
<1>3. \A c \in Calls : result'[c] \in File
  <2>1. CASE result' = result
    BY <1>0, <2>1 DEF Files
  <2>2. CASE OpensResult(p)
    BY <1>0, <1>1, <2>2 DEF OpensResult, ResultBecomes, Files
  <2>3. CASE WritesResult(p)
    <3>1. Complete(proc[p].accum) \in File
      BY <1>0 DEF Summing, Sums, Complete, File
    <3> QED
      BY <1>0, <2>3, <3>1 DEF WritesResult, ResultBecomes, Files
  <2> QED
    BY <2>1, <2>2, <2>3, EventFrame
<1> QED
  BY <1>2, <1>3 DEF Files

\* So are the histories.
LEMMA HistoriesKept ==
    ASSUME NEW p \in Procs, Inv, Ranges, Event(p), Notes(p)
    PROVE  Histories'
<1>0. /\ Own(p) /\ Counters(p) /\ Summing(p) /\ Files /\ Histories
      /\ step[p] \in Nat /\ comm[p].sequence \in Nat
  BY DEF Inv, Types, CommState, Ranges
<1>1. aborts' \subseteq Calls
  BY <1>0, EventFrame DEF Histories, Summing
<1>2. broken' \subseteq Active \X Calls
  <2>1. proc[p].pc \in InCall => p \in Active /\ proc[p].call \in Calls
    BY <1>0 DEF Own
  <2>2. proc[p].pc \in InCall => <<p, proc[p].call>> \in Active \X Calls
    BY <2>1
  <2> QED
    BY <1>0, <2>2 DEF Notes, Histories
<1>3. faults' \subseteq Faults
  BY <1>0 DEF Notes, Histories
<1>4. CASE Succeeds(p)
  <2>1. /\ proc[p].pc = "await" /\ result[proc[p].call].state = "complete"
        /\ done' = done \cup {[rank |-> p, call |-> proc[p].call, step |-> step[p],
                               sum |-> result[proc[p].call].data]}
    BY <1>4 DEF Succeeds
  <2>2. p \in Active /\ proc[p].call \in Calls
    BY <1>0, <2>1 DEF Own, InCall
  <2>3. step[p] \in Calls
    <3>1. step[p] < comm[p].sequence /\ comm[p].sequence <= MaxCalls
      BY <1>0, <2>1 DEF Counters, InCall
    <3> QED
      BY <1>0, <3>1, RendezvousAssumption, SMT DEF Calls
  <2>4. PICK c, sum : c \in Calls /\ c = proc[p].call /\ sum = result[c].data
    BY <2>2
  <2>5. SumUpTo(inputs[c], Len(Ring), sum)
    BY <2>1, <2>4 DEF Inv, Decided
  <2>6. \A j \in 1 .. Len(Ring) :
            inputs[c][Ring[j]].data \subseteq [rank : Active, step : Calls]
    <3>1. \A j \in 1 .. Len(Ring) : Ring[j] \in Active /\ Ring[j] \in Procs
      BY RingFacts
    <3>2. \A r \in Active : InputOf(r) \subseteq [rank : Active, step : Calls]
      BY DEF InputOf
    <3> QED
      BY <1>0, <2>4, <3>1, <3>2 DEF Files
  <2>7. sum \subseteq [rank : Active, step : Calls]
    BY <2>5, <2>6 DEF SumUpTo
  <2>8. [rank |-> p, call |-> c, step |-> step[p], sum |-> sum]
            \in [rank : Active, call : Calls, step : Calls,
                 sum : SUBSET [rank : Active, step : Calls]]
    BY <2>2, <2>3, <2>4, <2>7
  <2> QED
    BY <1>0, <1>1, <1>2, <1>3, <2>1, <2>4, <2>8 DEF Histories
<1>5. CASE ~Succeeds(p)
  <2>1. done' = done
    BY <1>5, EventFrame
  <2> QED
    BY <1>0, <1>1, <1>2, <1>3, <2>1 DEF Histories
<1> QED
  BY <1>4, <1>5

\* Every step stays in the ranges.
LEMMA RangesStep ==
    ASSUME Inv, Inv', Ranges, [Next]_vars
    PROVE  Ranges'
<1>1. CASE Next
  <2>1. PICK p \in Procs :
            \/ Begin(p) \/ Skip(p) \/ LocalCopy(p)
            \/ CallStep(p)
            \/ GoOn(p) \/ Retry(p)
            \/ Crash(p)
    BY <1>1 DEF Next
  <2>2. Types /\ Types' /\ Own(p)
    BY DEF Inv
  <2>3. Others(p) /\ Event(p)
    BY <2>1, <2>2, OutsideCall, CallFails, InputWritten, InputGathered, ResultWritten,
       ResultReceived DEF CallStep
  <2>4. Counts(p) /\ Notes(p)
    BY <2>1, <2>2, StepCounts
  <2>5. ASSUME NEW q \in Procs PROVE Counters(q)' /\ Summing(q)'
    <3>1. Counters(q)
      BY DEF Ranges
    <3> QED
      BY <2>2, <2>3, <2>4, <3>1, CountersKept, SummingKept
  <2>6. Files' /\ Histories'
    BY <2>3, <2>4, FilesTyped, HistoriesKept
  <2> QED
    BY <2>5, <2>6 DEF Ranges
<1>2. CASE UNCHANGED vars
  <2> USE <1>2 DEF vars
  <2>1. \A p \in Procs : Counters(p)' /\ Summing(p)'
    BY DEF Ranges, Counters, Summing
  <2>2. Files' /\ Histories'
    BY DEF Ranges, Files, Histories
  <2> QED
    BY <2>1, <2>2 DEF Ranges
<1> QED
  BY <1>1, <1>2

\* Everything is in its range initially.
LEMMA RangesInit ==
    ASSUME Init
    PROVE  Ranges
<1>1. /\ \A p \in Procs : /\ comm[p] = [sequence |-> 0, errors |-> 0, async |-> FALSE]
                          /\ proc[p] = [pc |-> "idle", call |-> 0, idx |-> 1, accum |-> {}]
                          /\ step[p] = 0
      /\ \A c \in Calls : result[c] = Absent /\ \A p \in Procs : inputs[c][p] = Absent
      /\ aborts = {} /\ done = {} /\ broken = {} /\ faults = {}
  BY DEF Init
<1>2. 0 \in Calls /\ 1 \in 1 .. Len(Ring) + 1 /\ MaxCalls \in Nat /\ MaxSkips \in Nat
  BY RendezvousAssumption, RingFacts, SMT DEF Calls
<1>3. \A p \in Procs : Counters(p)
  <2>1. "idle" \notin InCall \cup {"failed"}
    BY DEF InCall, Collecting
  <2>2. \A p \in Procs : comm[p].sequence = 0 /\ comm[p].errors = 0 /\ proc[p].pc = "idle"
    BY <1>1, SMT
  <2> QED
    BY <1>1, <1>2, <2>1, <2>2, SMT DEF Counters
<1>4. \A p \in Procs : Summing(p)
  <2>1. \A p \in Procs : proc[p].call = 0 /\ proc[p].idx = 1 /\ proc[p].accum = {}
    BY <1>1, SMT
  <2> QED
    BY <1>2, <2>1 DEF Summing, Sums
<1>5. Absent \in File /\ Absent.data = {}
  BY DEF File, Absent
<1>6. Files /\ Histories
  BY <1>1, <1>5 DEF Files, Histories
<1> QED
  BY <1>3, <1>4, <1>6 DEF Ranges

\* The types and the ranges are TypeOK.
LEMMA RangesTyped == Inv /\ Ranges => TypeOK
<1> SUFFICES ASSUME Inv, Ranges PROVE TypeOK
  OBVIOUS
<1>1. Types /\ Files /\ Histories
  BY DEF Inv, Ranges
<1>2. ASSUME NEW p \in Procs
      PROVE  /\ comm[p] \in [sequence : 0 .. MaxCalls, errors : 0 .. MaxCalls + MaxSkips,
                             async : BOOLEAN]
             /\ step[p] \in 0 .. MaxCalls
  <2>1. /\ comm[p] \in CommState /\ comm[p].sequence \in Nat /\ comm[p].errors \in Nat
        /\ step[p] \in Nat /\ MaxCalls \in Nat /\ MaxSkips \in Nat
    BY <1>1, RendezvousAssumption DEF Types, CommState
  <2>2. /\ comm[p].sequence <= MaxCalls /\ step[p] <= comm[p].sequence
        /\ comm[p].errors <= comm[p].sequence \/ comm[p].errors <= MaxSkips
    BY DEF Ranges, Counters
  <2>3. /\ comm[p].sequence \in 0 .. MaxCalls /\ comm[p].errors \in 0 .. MaxCalls + MaxSkips
        /\ step[p] \in 0 .. MaxCalls
    BY <2>1, <2>2, SMT
  <2> QED
    BY <2>1, <2>3 DEF CommState
<1>3. /\ comm \in [Procs -> [sequence : 0 .. MaxCalls, errors : 0 .. MaxCalls + MaxSkips,
                             async : BOOLEAN]]
      /\ step \in [Procs -> 0 .. MaxCalls]
  BY <1>1, <1>2 DEF Types
<1>4. \A p \in Procs : /\ proc[p].pc \in Pcs /\ proc[p].call \in Calls
                       /\ proc[p].idx \in 1 .. Len(Ring) + 1
                       /\ proc[p].accum \subseteq [rank : Procs, step : Calls]
  BY <1>1 DEF Types, ProcState, Ranges, Summing, Sums
<1>5. inputs \in [Calls -> [Procs -> File]] /\ result \in [Calls -> File]
  <2>1. \A c \in Calls : inputs[c] \in [Procs -> File]
    BY <1>1 DEF Types, Files
  <2> QED
    BY <1>1, <2>1 DEF Types, Files
<1> QED
  BY <1>1, <1>3, <1>4, <1>5 DEF TypeOK, Pcs, Histories

\* The variables keep their types and their ranges, for every number of ranks, plan,
\* number of calls and set of faults: only active ranks get into a call or a history,
\* and no rank counts more errors than it has begun calls.
THEOREM RendezvousTyped == Spec => []TypeOK
<1>1. Init => Inv /\ Ranges
  BY InvInit, RangesInit
<1>2. (Inv /\ Ranges) /\ [Next]_vars => (Inv /\ Ranges)'
  BY NextKeepsInv, RangesStep
<1> QED
  BY <1>1, <1>2, RangesTyped, PTL DEF Spec
=============================================================================
