---------------------------- MODULE NcclRendezvous ----------------------------
(***************************************************************************)
(* ncclAllReduce of zluda/src/nccl_shim.c: the ranks of a communicator     *)
(* meet in files below /dev/shm/hetgpu_nccl_<job>, one directory per call. *)
(*                                                                         *)
(* Every rank is a process.  It numbers its calls by comm->sequence, which *)
(* names the directory, leaves its input there and waits for the result,   *)
(* which the first rank of the ring (the coordinator) writes once it has   *)
(* read the input of every active rank.  fopen("wb") makes a file visible  *)
(* before its contents are: writing one takes two steps.  No file is ever  *)
(* removed.  An input is the rank and the step of the application it is    *)
(* for; a sum is the set of the inputs added up.                           *)
(***************************************************************************)
EXTENDS NcclPlan, FiniteSets

CONSTANTS Enabled,       \* HETGPU_CONCORDIA_NCCL_RECOVERY
          Failed,        \* HETGPU_CONCORDIA_NCCL_FAILED_RANK, -1 if unset
          Replacement,   \* HETGPU_CONCORDIA_NCCL_REPLACEMENT_RANK, -1 if unset
          MaxCalls,      \* bound: collectives each rank begins
          MaxSkips,      \* bound: errors counted by a rank outside of the ring
          Faults         \* bound: the kinds of fault that happen, see Fault

ASSUME RendezvousAssumption ==
    /\ NRanks \in Nat \ {0, 1}
    /\ Enabled \in BOOLEAN /\ Failed \in Int /\ Replacement \in Int
    /\ MaxCalls \in Nat \ {0} /\ MaxSkips \in Nat
    /\ Faults \subseteq {"io", "crash", "timeout", "retry"}

VARIABLES
    comm,     \* per rank: sequence, consecutive_errors, async_error # ncclSuccess
    proc,     \* per rank: program counter, call, idx and accum of the call it is in
    step,     \* per rank: the application's step (external)
    inputs,   \* per call and rank: rank_<r>.bin
    result,   \* per call: result.bin
    aborts,   \* the calls whose directory has an abort file
    done,     \* history: the results that calls returned with ncclSuccess
    broken,   \* history: the calls that returned an error, by rank
    faults    \* history: the faults that have happened

vars == <<comm, proc, step, inputs, result, aborts, done, broken, faults>>

Ring == ConfiguredRing(NRanks, Enabled, Failed, Replacement)
Active == {Ring[i] : i \in DOMAIN Ring}         \* comm_rank_is_active
Coordinator == Ring[1]                          \* comm_coordinator_rank
Procs == AllowedRanks(NRanks, Enabled, Replacement)
Calls == 0 .. MaxCalls - 1

\* A file is absent, open for writing and still short, or complete.
Absent == [state |-> "absent", data |-> {}]
Short == [state |-> "short", data |-> {}]
Complete(data) == [state |-> "complete", data |-> data]

Init ==
    /\ comm = [p \in Procs |-> [sequence |-> 0, errors |-> 0, async |-> FALSE]]
    /\ proc = [p \in Procs |-> [pc |-> "idle", call |-> 0, idx |-> 1, accum |-> {}]]
    /\ step = [p \in Procs |-> 0]
    /\ inputs = [c \in Calls |-> [p \in Procs |-> Absent]]
    /\ result = [c \in Calls |-> Absent]
    /\ aborts = {} /\ done = {} /\ broken = {} /\ faults = {}
-----------------------------------------------------------------------------
At(p, pc) == proc[p].pc = pc
To(p, pc) == proc' = [proc EXCEPT ![p].pc = pc]

\* An I/O error (or a failed allocation or reduction hook) and a crash happen at
\* most once; a timeout, and a retry by the application, any number of times.
\* /dev/shm is memory: a write that fails leaves the file short.
Fault(kind) ==
    /\ kind \in Faults
    /\ kind \in {"io", "crash"} => kind \notin faults
    /\ faults' = faults \cup {kind}

\* The call returns; concordia_note_collective_result.
ReturnOk(p, sum) ==
    /\ To(p, "idle")
    /\ comm' = [comm EXCEPT ![p].errors = 0, ![p].async = FALSE]
    /\ done' = done \cup {[rank |-> p, call |-> proc[p].call, step |-> step[p], sum |-> sum]}
    /\ step' = [step EXCEPT ![p] = @ + 1]
    /\ UNCHANGED broken

ReturnError(p) ==
    /\ To(p, "failed")
    /\ comm' = [comm EXCEPT ![p].errors = @ + 1, ![p].async = TRUE]
    /\ broken' = broken \cup {<<p, proc[p].call>>}
    /\ UNCHANGED <<done, step>>

\* After an error the application goes on, or retries the step.
GoOn(p) ==
    /\ At(p, "failed") /\ To(p, "idle")
    /\ step' = [step EXCEPT ![p] = @ + 1]
    /\ UNCHANGED <<comm, inputs, result, aborts, done, broken, faults>>

Retry(p) ==
    /\ At(p, "failed") /\ To(p, "idle")
    /\ Fault("retry")
    /\ UNCHANGED <<comm, step, inputs, result, aborts, done, broken>>
-----------------------------------------------------------------------------
\* rank_not_active: an isolated rank gets an error and writes nothing.  Bound: its
\* error count, which nothing else depends on, stops at MaxSkips.
Skip(p) ==
    /\ At(p, "idle") /\ p \notin Active
    /\ comm[p].errors < MaxSkips
    /\ comm' = [comm EXCEPT ![p].errors = @ + 1, ![p].async = TRUE]
    /\ UNCHANGED <<proc, step, inputs, result, aborts, done, broken, faults>>

\* Other types and operators: a local copy, which still resets the error count.
LocalCopy(p) ==
    /\ At(p, "idle")
    /\ comm' = [comm EXCEPT ![p].errors = 0, ![p].async = FALSE]
    /\ UNCHANGED <<proc, step, inputs, result, aborts, done, broken, faults>>

BeginUnchecked(p) ==
    /\ At(p, "idle")
    /\ comm[p].sequence < MaxCalls
    /\ comm' = [comm EXCEPT ![p].sequence = @ + 1]
    /\ proc' = [proc EXCEPT ![p] = [pc |-> "mkdir", call |-> comm[p].sequence,
                                    idx |-> 1, accum |-> {}]]
    /\ UNCHANGED <<step, inputs, result, aborts, done, broken, faults>>

Begin(p) ==
    /\ At(p, "idle") /\ p \in Active
    /\ comm[p].sequence < MaxCalls
    /\ comm' = [comm EXCEPT ![p].sequence = @ + 1]
    /\ proc' = [proc EXCEPT ![p] = [pc |-> "mkdir", call |-> comm[p].sequence,
                                    idx |-> 1, accum |-> {}]]
    /\ UNCHANGED <<step, inputs, result, aborts, done, broken, faults>>

MakeDirFailsEarly(p) ==
    /\ At(p, "mkdir")
    /\ Fault("io")
    /\ To(p, "failed")
    /\ comm' = [comm EXCEPT ![p].errors = @ + 1, ![p].async = TRUE, ![p].sequence = @ - 1]
    /\ broken' = broken \cup {<<p, proc[p].call>>}
    /\ UNCHANGED <<step, inputs, result, aborts, done>>

\* The sequence has moved on although the directory could not be made.
MakeDirFails(p) ==
    /\ At(p, "mkdir")
    /\ Fault("io")
    /\ ReturnError(p)
    /\ UNCHANGED <<inputs, result, aborts>>

OpenInput(p) ==
    /\ At(p, "mkdir")
    /\ inputs' = [inputs EXCEPT ![proc[p].call][p] = Short]
    /\ To(p, "input")
    /\ UNCHANGED <<comm, step, result, aborts, done, broken, faults>>

WriteInput(p) ==
    /\ At(p, "input")
    /\ inputs' = [inputs EXCEPT ![proc[p].call][p] =
                     Complete({[rank |-> p, step |-> step[p]]})]
    /\ To(p, IF p = Coordinator THEN "gather" ELSE "await")
    /\ UNCHANGED <<comm, step, result, aborts, done, broken, faults>>

WriteInputFails(p) ==
    /\ At(p, "input")
    /\ Fault("io")
    /\ ReturnError(p)
    /\ UNCHANGED <<inputs, result, aborts>>
-----------------------------------------------------------------------------
\* publish_abort, and the coordinator's call fails.  When the abort file itself
\* cannot be written the others time out, which AwaitTimeout lets them do anyway.
Abort(p) ==
    /\ aborts' = aborts \cup {proc[p].call}
    /\ ReturnError(p)

\* The file the coordinator waits for in its loop over the active ranks.
Awaited(p) == inputs[proc[p].call][Ring[proc[p].idx]]

GatherAllButLast(p) ==
    /\ At(p, "gather")
    /\ Awaited(p).state = "complete"
    /\ proc' = [proc EXCEPT ![p].accum = @ \cup Awaited(p).data,
                            ![p].idx = @ + 1,
                            ![p].pc = IF proc[p].idx + 1 < Len(Ring) THEN "gather" ELSE "reduce"]
    /\ UNCHANGED <<comm, step, inputs, result, aborts, done, broken, faults>>

Gather(p) ==
    /\ At(p, "gather")
    /\ Awaited(p).state = "complete"
    /\ proc' = [proc EXCEPT ![p].accum = @ \cup Awaited(p).data,
                            ![p].idx = @ + 1,
                            ![p].pc = IF proc[p].idx < Len(Ring) THEN "gather" ELSE "reduce"]
    /\ UNCHANGED <<comm, step, inputs, result, aborts, done, broken, faults>>

\* The file is there but read_file_exact comes up short.
GatherShort(p) ==
    /\ At(p, "gather")
    /\ Awaited(p).state = "short"
    /\ Abort(p)
    /\ UNCHANGED <<inputs, result, faults>>

\* The file is complete and opening or reading it fails.
GatherFails(p) ==
    /\ At(p, "gather")
    /\ Awaited(p).state = "complete"
    /\ Fault("io")
    /\ Abort(p)
    /\ UNCHANGED <<inputs, result>>

GatherTimeout(p) ==
    /\ At(p, "gather")
    /\ Awaited(p).state = "absent"
    /\ Fault("timeout")
    /\ Abort(p)
    /\ UNCHANGED <<inputs, result>>

\* The allocations before the loop, and the SIFIVE hook without its CPU fallback.
ReduceFails(p) ==
    /\ \/ At(p, "gather") /\ proc[p].idx = 1
       \/ At(p, "reduce")
    /\ Fault("io")
    /\ Abort(p)
    /\ UNCHANGED <<inputs, result>>

\* The sum is complete, by the CPU or the hook: result.bin appears, still empty.
OpenResult(p) ==
    /\ At(p, "reduce")
    /\ result' = [result EXCEPT ![proc[p].call] = Short]
    /\ To(p, "result")
    /\ UNCHANGED <<comm, step, inputs, aborts, done, broken, faults>>

WriteResult(p) ==
    /\ At(p, "result")
    /\ result' = [result EXCEPT ![proc[p].call] = Complete(proc[p].accum)]
    /\ To(p, "await")
    /\ UNCHANGED <<comm, step, inputs, aborts, done, broken, faults>>

WriteResultFailsLate(p) ==
    /\ At(p, "result")
    /\ Fault("io")
    /\ Abort(p)
    /\ result' = [result EXCEPT ![proc[p].call] = Complete(proc[p].accum)]
    /\ UNCHANGED inputs

WriteResultFails(p) ==
    /\ At(p, "result")
    /\ Fault("io")
    /\ Abort(p)
    /\ UNCHANGED <<inputs, result>>
-----------------------------------------------------------------------------
\* wait_for_result_or_abort looks for the result first.
Receive(p) ==
    /\ At(p, "await")
    /\ result[proc[p].call].state = "complete"
    /\ ReturnOk(p, result[proc[p].call].data)
    /\ UNCHANGED <<inputs, result, aborts, faults>>

ReceiveShort(p) ==
    /\ At(p, "await")
    /\ result[proc[p].call].state = "short"
    /\ ReturnError(p)
    /\ UNCHANGED <<inputs, result, aborts, faults>>

\* The result is complete and opening or reading it fails, at this rank only.
ReceiveFails(p) ==
    /\ At(p, "await")
    /\ result[proc[p].call].state = "complete"
    /\ Fault("io")
    /\ ReturnError(p)
    /\ UNCHANGED <<inputs, result, aborts>>

SeeAbort(p) ==
    /\ At(p, "await")
    /\ result[proc[p].call].state = "absent"
    /\ proc[p].call \in aborts
    /\ ReturnError(p)
    /\ UNCHANGED <<inputs, result, aborts, faults>>

AwaitForever(p) ==
    /\ At(p, "await")
    /\ result[proc[p].call].state = "absent"
    /\ proc[p].call \in aborts
    /\ Fault("timeout")
    /\ ReturnError(p)
    /\ UNCHANGED <<inputs, result, aborts>>

AwaitTimeout(p) ==
    /\ At(p, "await")
    /\ result[proc[p].call].state = "absent"
    /\ Fault("timeout")
    /\ ReturnError(p)
    /\ UNCHANGED <<inputs, result, aborts>>

\* The process dies; its communicator and open calls are gone.
Crash(p) ==
    /\ ~At(p, "crashed")
    /\ Fault("crash")
    /\ To(p, "crashed")
    /\ UNCHANGED <<comm, step, inputs, result, aborts, done, broken>>
-----------------------------------------------------------------------------
\* The steps of a rank inside a call, timeouts included.
CallStep(p) ==
    \/ MakeDirFails(p) \/ OpenInput(p) \/ WriteInput(p) \/ WriteInputFails(p)
    \/ Gather(p) \/ GatherShort(p) \/ GatherFails(p) \/ GatherTimeout(p)
    \/ ReduceFails(p) \/ OpenResult(p) \/ WriteResult(p) \/ WriteResultFails(p)
    \/ Receive(p) \/ ReceiveShort(p) \/ ReceiveFails(p) \/ SeeAbort(p) \/ AwaitTimeout(p)

Next ==
    \E p \in Procs :
        \/ Begin(p) \/ Skip(p) \/ LocalCopy(p)
        \/ CallStep(p)
        \/ GoOn(p) \/ Retry(p)
        \/ Crash(p)

Spec == Init /\ [][Next]_vars

\* A thread inside a call runs on, and the waits are bounded by timeout_ms.
FairSpec == Spec /\ \A p \in Procs : WF_vars(CallStep(p))
-----------------------------------------------------------------------------
File == {Absent, Short} \cup
        [state : {"complete"}, data : SUBSET [rank : Procs, step : Calls]]

\* The types of the communicators, the files and the histories.
TypeOK ==
    /\ comm \in [Procs -> [sequence : 0 .. MaxCalls, errors : 0 .. MaxCalls + MaxSkips, async : BOOLEAN]]
    /\ \A p \in Procs :
          /\ proc[p].pc \in {"idle", "mkdir", "input", "gather", "reduce", "result", "await",
                             "failed", "crashed"}
          /\ proc[p].call \in Calls
          /\ proc[p].idx \in 1 .. Len(Ring) + 1
          /\ proc[p].accum \subseteq [rank : Procs, step : Calls]
    /\ step \in [Procs -> 0 .. MaxCalls]
    /\ inputs \in [Calls -> [Procs -> File]]
    /\ result \in [Calls -> File]
    /\ aborts \subseteq Calls
    /\ done \subseteq [rank : Active, call : Calls, step : Calls,
                       sum : SUBSET [rank : Active, step : Calls]]
    /\ broken \subseteq Active \X Calls
    /\ faults \subseteq Faults

\* A call that returns ncclSuccess returns the sum of what every active rank put
\* into the directory of that call: no rank is missing, none counts that is not in
\* the ring, and two ranks that succeed in a call have the same sum.
SuccessSumsAllRanks ==
    \A d \in done : d.sum = UNION {inputs[d.call][r].data : r \in Active}
                    /\ \A r \in Active : inputs[d.call][r].state = "complete"

\* As long as no rank has repeated a call after an error, a sum is over one step
\* of the application: failures keep the sequence numbers of the ranks aligned.
SumsStayInStep ==
    "retry" \notin faults =>
        \A d \in done : d.sum = {[rank |-> r, step |-> d.step] : r \in Active}

\* When the coordinator gives a call up (publish_abort), no rank succeeds in it, not
\* even one that finds the result file of a write that failed.
AbortedCallsFail == \A d \in done : d.call \notin aborts

\* Every call returns, whichever rank crashes or never comes.
CallsReturn ==
    \A p \in Procs : proc[p].pc \notin {"idle", "failed", "crashed"}
                     ~> proc[p].pc \in {"idle", "failed", "crashed"}

\* Without a fault, every collective of the active ranks succeeds.
FaultFreeCallsSucceed == faults = {} => broken = {}
=============================================================================
