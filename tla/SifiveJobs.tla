------------------------------ MODULE SifiveJobs ------------------------------
(***************************************************************************)
(* The job protocol between the host runtime                               *)
(* (ext/sifive_runtime-sys/src/lib.rs) and the job daemon on the SiFive    *)
(* cluster (sifive_linux_jobd/hetgpu_sifive_jobd.c), which share nothing   *)
(* but a window of DDR: one argument slot per kind of job, one doorbell    *)
(* and one completion record.                                              *)
(*                                                                         *)
(* A job is its sequence number, and its arguments are named by the number *)
(* of the job they belong to, 0 for none.  A write of a structure that the *)
(* other side may read half-way takes two steps: a slot is its payload and *)
(* its header, the completion record its kind and status and its sequence  *)
(* number.  Both sides run with their default settings.  To say whose      *)
(* outcome a status is, it carries the run of the daemon it comes from:    *)
(* the job's number and the arguments the run really had.                  *)
(***************************************************************************)
EXTENDS Naturals, FiniteSets

CONSTANTS Threads,      \* host threads that submit jobs to this device
          Calls,          \* per thread: the <<kind, path>> pairs it submits
          NoThread,       \* nobody holds the control lock
          Mirrors,        \* writes of the record in one mirror_host_status
          MaxSubmits,     \* bound: calls of the host
          MaxFailures,    \* bound: calls that give up, waiting or writing
          MaxRestarts     \* bound: restarts of the daemon

Kinds == {"gemm", "softmax", "mmvf"}

\* The ways a job is submitted: submit_preloaded_job_bytes alone, inside
\* hetgpu_sifive_submit_mmvf_on, and submit_gemm_runtime_job_cached.
Paths == {"plain", "mmvf", "cached"}

ASSUME SifiveAssumption ==
    /\ Calls \in [Threads -> SUBSET (Kinds \X Paths)]
    /\ \A t \in Threads, c \in Kinds \X Paths : c \in Calls[t] =>
           /\ c[2] = "mmvf" <=> c[1] = "mmvf"
           /\ c[2] = "cached" => c[1] = "gemm"
    /\ NoThread \notin Threads
    /\ Mirrors \in Nat \ {0} /\ MaxSubmits \in Nat
    /\ MaxFailures \in Nat /\ MaxRestarts \in Nat

VARIABLES
    proc,      \* per thread: where it is in its call, and the call
    lock,      \* the holder of SIFIVE_CONTROL_LOCKS for the device
    booted,    \* runtime_boot_state
    given,     \* the numbers next_runtime_job_seq has returned
    slot,      \* shared: the argument slot of each kind
    doorbell,  \* shared: the doorbell
    comp,      \* shared: the completion record
    jobd,      \* the daemon: where it is and the job it has in hand
    seen,      \* the daemon: g_last_preloaded_seq_by_job
    cleared,   \* history: the jobs whose call emptied their slot when it returned
    late,      \* history: per job, the runs that ended after that
    faults     \* history: the failed calls and restarts so far

vars == <<proc, lock, booted, given, slot, doorbell, comp, jobd, seen,
          cleared, late, faults>>
host == <<proc, lock, booted, given>>
ddr == <<slot, doorbell, comp>>
daemon == <<jobd, seen>>
history == <<cleared, late, faults>>

Seqs == 1 .. MaxSubmits
NoJob == [kind |-> "none", seq |-> 0]
NoRun == [seq |-> 0, args |-> 0]
Runs == [seq : Seqs \cup {0}, args : Seqs \cup {0}]
EmptyComp == [kind |-> "none", status |-> "ok", seq |-> 0, run |-> NoRun]
Idle == [pc |-> "idle", kind |-> "none", path |-> "plain", seq |-> 0, result |-> "ok",
         run |-> NoRun]
Resting == [pc |-> "idle", via |-> "loop", kind |-> "none", seq |-> 0, args |-> 0,
            status |-> "ok", mirror |-> 0]

Init ==
    /\ proc = [t \in Threads |-> Idle]
    /\ lock = NoThread /\ booted = FALSE /\ given = {}
    /\ slot = [k \in Kinds |-> [seq |-> 0, args |-> 0]]
    /\ doorbell = NoJob /\ comp = EmptyComp
    /\ jobd = [Resting EXCEPT !.pc = "boot"]
    /\ seen = [k \in Kinds |-> 0]
    /\ cleared = {} /\ late = [s \in Seqs |-> 0]
    /\ faults = [failures |-> 0, restarts |-> 0]
-----------------------------------------------------------------------------
(* The host.                                                               *)

At(t, pc) == proc[t].pc = pc
Goto(t, pc) == proc' = [proc EXCEPT ![t].pc = pc]

\* sifive_jobd_bootstrap_status_ready: a record the daemon writes for its own
\* purposes while it starts, or a number of a job with nothing else.
Ready == comp.kind = "kernel" \/ (comp.kind = "none" /\ comp.status = "ok" /\ comp.seq # 0)

\* The calls that have no sequence number yet.
Unnumbered == {t \in Threads : proc[t].pc \in {"lock", "check", "erase", "marker"}}

\* lock_sifive_control: the call polls try_lock.
Submit(t) ==
    /\ At(t, "idle")
    /\ Cardinality(Unnumbered) + Cardinality(given) < MaxSubmits
    /\ \E c \in Calls[t] :
           proc' = [proc EXCEPT ![t] = [Idle EXCEPT !.pc = "lock", !.kind = c[1],
                                                   !.path = c[2]]]
    /\ UNCHANGED <<lock, booted, given, ddr, daemon, history>>

\* The lock is not free in time: the call fails before it did anything.
LockTimeout(t) ==
    /\ At(t, "lock") /\ lock # NoThread
    /\ faults.failures < MaxFailures
    /\ proc' = [proc EXCEPT ![t] = Idle]
    /\ faults' = [faults EXCEPT !.failures = @ + 1]
    /\ UNCHANGED <<lock, booted, given, ddr, daemon, cleared, late>>

Acquire(t) ==
    /\ At(t, "lock") /\ lock = NoThread
    /\ lock' = t
    /\ Goto(t, "check")
    /\ UNCHANGED <<booted, given, ddr, daemon, history>>

NumberAhead(t) ==
    \E s \in Seqs \ given :
        /\ proc' = [proc EXCEPT ![t].pc = "forget", ![t].seq = s + 1]
        /\ given' = given \cup {s}

\* next_runtime_job_seq: the microseconds of the wall clock, shifted by 12 bits,
\* XOR a counter.  Another job gets another number, which is assumed, but not
\* always a larger one: the clock may be set back, and from 4096 jobs on the
\* counter changes bits of the clock.
Number(t) ==
    \E s \in Seqs \ given :
        /\ proc' = [proc EXCEPT ![t].pc = "forget", ![t].seq = s]
        /\ given' = given \cup {s}

\* ensure_sifive_jobd_bootstrapped: the first call of the process wants to
\* see the daemon's marker, and asks for a new one if there is none.
CheckBoot(t) ==
    /\ At(t, "check")
    /\ \/ /\ booted \/ Ready
          /\ booted' = TRUE
          /\ Number(t)
       \/ /\ ~booted /\ ~Ready
          /\ Goto(t, "erase")
          /\ UNCHANGED <<booted, given>>
    /\ UNCHANGED <<lock, ddr, daemon, history>>

EraseForBoot(t) ==
    /\ At(t, "erase")
    /\ doorbell' = NoJob /\ comp' = EmptyComp
    /\ Goto(t, "marker")
    /\ UNCHANGED <<lock, booted, given, slot, daemon, history>>

SeeMarker(t) ==
    /\ At(t, "marker") /\ Ready
    /\ booted' = TRUE
    /\ Number(t)
    /\ UNCHANGED <<lock, ddr, daemon, history>>

BootTimeout(t) ==
    /\ At(t, "marker") /\ ~Ready
    /\ proc' = [proc EXCEPT ![t] = Idle]
    /\ lock' = NoThread
    /\ UNCHANGED <<booted, given, ddr, daemon, history>>

\* clear_sifive_kernel_status_cached
ClearStatus(t) ==
    /\ At(t, "forget")
    /\ comp' = EmptyComp
    /\ Goto(t, IF proc[t].path = "cached" THEN "empty" ELSE "payload")
    /\ UNCHANGED <<lock, booted, given, slot, doorbell, daemon, history>>

\* Only submit_gemm_runtime_job_cached empties the slot before it fills it.
EmptySlot(t) ==
    /\ At(t, "empty")
    /\ slot' = [slot EXCEPT ![proc[t].kind].seq = 0]
    /\ Goto(t, "payload")
    /\ UNCHANGED <<lock, booted, given, doorbell, comp, daemon, history>>

\* stage_preloaded_arg_slot: the payload, a fence, the header.
StagePayload(t) ==
    /\ At(t, "payload")
    /\ slot' = [slot EXCEPT ![proc[t].kind].args = proc[t].seq]
    /\ Goto(t, "header")
    /\ UNCHANGED <<lock, booted, given, doorbell, comp, daemon, history>>

StageHeader(t) ==
    /\ At(t, "header")
    /\ slot' = [slot EXCEPT ![proc[t].kind].seq = proc[t].seq]
    /\ Goto(t, "doorbell")
    /\ UNCHANGED <<lock, booted, given, doorbell, comp, daemon, history>>

StageDoorbell(t) ==
    /\ At(t, "doorbell")
    /\ doorbell' = [kind |-> proc[t].kind, seq |-> proc[t].seq]
    /\ Goto(t, "wait")
    /\ UNCHANGED <<lock, booted, given, slot, comp, daemon, history>>

DecodesAnySeq(kind, seq) == comp.kind = kind /\ comp.seq # 0

\* decode_sifive_host_status: the record answers the job (kind, seq).
Decodes(kind, seq) == comp.kind = kind /\ comp.seq # 0 /\ comp.seq >= seq

\* wait_shared_ddr_job_status copies the record, here in one step: its status and
\* its number are 16 bytes, of which no load of the copy is taken to see one half
\* before and one half after a write of the daemon.
SeeAnswer(t) ==
    /\ At(t, "wait")
    /\ Decodes(proc[t].kind, proc[t].seq)
    /\ proc' = [proc EXCEPT ![t].pc = "return", ![t].result = comp.status,
                            ![t].run = comp.run]
    /\ UNCHANGED <<lock, booted, given, ddr, daemon, history>>

\* A write to the shared window fails: what was written before it stays.
WriteFails(t) ==
    /\ proc[t].pc \in {"forget", "empty", "payload", "header", "doorbell"}
    /\ faults.failures < MaxFailures
    /\ proc' = [proc EXCEPT ![t].pc = "return", ![t].result = "none"]
    /\ faults' = [faults EXCEPT !.failures = @ + 1]
    /\ UNCHANGED <<lock, booted, given, ddr, daemon, cleared, late>>

\* Both the timeout and the time of grace after it have passed.
WaitTimeout(t) ==
    /\ At(t, "wait")
    /\ ~Decodes(proc[t].kind, proc[t].seq)
    /\ faults.failures < MaxFailures
    /\ proc' = [proc EXCEPT ![t].pc = "return", ![t].result = "none"]
    /\ faults' = [faults EXCEPT !.failures = @ + 1]
    /\ UNCHANGED <<lock, booted, given, ddr, daemon, cleared, late>>

ReturnKeepsSlot(t) ==
    LET p == proc[t]
        clears == p.result = "ok" /\ p.path # "cached"
    IN /\ At(t, "return")
       /\ proc' = [proc EXCEPT ![t] = IF p.path = "mmvf"
                                      THEN [p EXCEPT !.pc = "clear"] ELSE Idle]
       /\ lock' = NoThread
       /\ cleared' = IF clears THEN cleared \cup {p.seq} ELSE cleared
       /\ UNCHANGED <<booted, given, slot, doorbell, comp, daemon, late, faults>>

\* submit_preloaded_job_mailbox empties the slot of a job that went well and
\* leaves that of one that did not; submit_gemm_runtime_job_cached leaves it
\* in any case.  The lock is released when the function returns, and
\* hetgpu_sifive_submit_mmvf_on goes on without it.
Return(t) ==
    LET p == proc[t]
        clears == p.result = "ok" /\ p.path # "cached"
    IN /\ At(t, "return")
       /\ slot' = IF clears THEN [slot EXCEPT ![p.kind].seq = 0] ELSE slot
       /\ proc' = [proc EXCEPT ![t] = IF p.path = "mmvf"
                                      THEN [p EXCEPT !.pc = "clear"] ELSE Idle]
       /\ lock' = NoThread
       /\ cleared' = IF clears THEN cleared \cup {p.seq} ELSE cleared
       /\ UNCHANGED <<booted, given, doorbell, comp, daemon, late, faults>>

\* The second clear_preloaded_arg_slot of hetgpu_sifive_submit_mmvf_on.
ClearMmvfSlot(t) ==
    /\ At(t, "clear")
    /\ slot' = [slot EXCEPT !["mmvf"].seq = 0]
    /\ proc' = [proc EXCEPT ![t] = Idle]
    /\ UNCHANGED <<lock, booted, given, doorbell, comp, daemon, history>>
-----------------------------------------------------------------------------
(* The daemon.                                                             *)

JobdAt(pc) == jobd.pc = pc
Take(pc, via, kind, seq) ==
    jobd' = [Resting EXCEPT !.pc = pc, !.via = via, !.kind = kind, !.seq = seq]

\* maybe_dispatch_gemm_arg_slot_direct: the header of the GEMM slot, of a job
\* that was not the last one, is followed by the payload without a second look.
DirectGemm == slot["gemm"].seq \notin {0, seen["gemm"]}

PollGemm ==
    /\ JobdAt("idle")
    /\ IF DirectGemm THEN Take("matched", "loop", "gemm", slot["gemm"].seq)
                     ELSE jobd' = [Resting EXCEPT !.pc = "scan"]
    /\ UNCHANGED <<host, ddr, seen, history>>

PendingUnseen(k) == slot[k].seq \notin {0, seen[k]}

\* find_pending_arg_slot_job takes the newest of the jobs in the slots, those
\* that were run before included (jobd_redispatch_seen_arg_slot_enabled).
Pending(k) == slot[k].seq # 0
Newest(k) == Pending(k) /\ \A j \in Kinds : Pending(j) => slot[j].seq <= slot[k].seq

\* maybe_dispatch_arg_slot_job; with no job in the slots the loop sleeps.
ScanSlots ==
    /\ JobdAt("scan")
    /\ \/ \E k \in Kinds : Newest(k) /\ Take("found", "loop", k, slot[k].seq)
       \/ (\A k \in Kinds : ~Pending(k)) /\ jobd' = Resting
    /\ UNCHANGED <<host, ddr, seen, history>>

\* main, before the loop: dispatch_any_job takes the job of the doorbell, or
\* else the newest in the slots; with neither the daemon leaves its marker.
BootDoorbell ==
    /\ JobdAt("boot")
    /\ IF doorbell.seq # 0 THEN Take("found", "doorbell", doorbell.kind, doorbell.seq)
                           ELSE jobd' = [Resting EXCEPT !.pc = "bootscan"]
    /\ UNCHANGED <<host, ddr, seen, history>>

LeaveMarker == jobd' = [Resting EXCEPT !.pc = "publish", !.kind = "kernel",
                                       !.seq = doorbell.seq, !.mirror = 1]

BootScan ==
    /\ JobdAt("bootscan")
    /\ \/ \E k \in Kinds : Newest(k) /\ Take("found", "bootscan", k, slot[k].seq)
       \/ (\A k \in Kinds : ~Pending(k)) /\ LeaveMarker
    /\ UNCHANGED <<host, ddr, seen, history>>

\* arg_payload_copy_inner: the header must be the one that was found.
MatchHeader ==
    /\ JobdAt("found")
    /\ slot[jobd.kind].seq = jobd.seq
    /\ jobd' = [jobd EXCEPT !.pc = "matched"]
    /\ UNCHANGED <<host, ddr, seen, history>>

\* dispatch_job returns EAGAIN: the slot was emptied or filled again since.
\* Starting up, the daemon looks on until its time for that is over.
ArgsGone ==
    /\ JobdAt("found")
    /\ slot[jobd.kind].seq # jobd.seq
    /\ CASE jobd.via = "loop" -> jobd' = Resting
         [] jobd.via = "doorbell" -> jobd' = [Resting EXCEPT !.pc = "bootscan"]
         [] jobd.via = "bootscan" -> jobd' = [Resting EXCEPT !.pc = "boot"] \/ LeaveMarker
    /\ UNCHANGED <<host, ddr, seen, history>>

\* The payload is copied after its header was read.
CopyArgs ==
    /\ JobdAt("matched")
    /\ jobd' = IF slot[jobd.kind].args = 0 THEN Resting
               ELSE [jobd EXCEPT !.pc = "run", !.args = slot[jobd.kind].args]
    /\ UNCHANGED <<host, ddr, seen, history>>

\* run_gemm, run_softmax, run_mmvf: the job is done or fails (external).
Run ==
    /\ JobdAt("run")
    /\ \E st \in {"ok", "error"} :
           jobd' = [jobd EXCEPT !.pc = "publish", !.status = st, !.mirror = 1]
    /\ late' = [late EXCEPT ![jobd.seq] = IF jobd.seq \in cleared /\ @ < 2 THEN @ + 1 ELSE @]
    /\ UNCHANGED <<host, ddr, seen, cleared, faults>>

\* mirror_host_status writes the record several times, its number last.
PublishStatus ==
    /\ JobdAt("publish")
    /\ comp' = [comp EXCEPT !.kind = jobd.kind, !.status = jobd.status,
                            !.run = [seq |-> jobd.seq, args |-> jobd.args]]
    /\ jobd' = [jobd EXCEPT !.pc = "number"]
    /\ UNCHANGED <<host, slot, doorbell, seen, history>>

\* After the last write, mark_preloaded_job_seen.
PublishSeq ==
    /\ JobdAt("number")
    /\ comp' = [comp EXCEPT !.seq = jobd.seq]
    /\ IF jobd.mirror < Mirrors
       THEN /\ jobd' = [jobd EXCEPT !.pc = "publish", !.mirror = @ + 1]
            /\ UNCHANGED seen
       ELSE /\ jobd' = Resting
            /\ seen' = [k \in Kinds |-> IF k = jobd.kind /\ jobd.seq > seen[k]
                                        THEN jobd.seq ELSE seen[k]]
    /\ UNCHANGED <<host, slot, doorbell, history>>

\* The daemon dies and is started again; the shared window stays.
Restart ==
    /\ faults.restarts < MaxRestarts
    /\ jobd' = [Resting EXCEPT !.pc = "boot"]
    /\ seen' = [k \in Kinds |-> 0]
    /\ faults' = [faults EXCEPT !.restarts = @ + 1]
    /\ UNCHANGED <<host, ddr, cleared, late>>
-----------------------------------------------------------------------------
Proceed(t) ==
    \/ Acquire(t) \/ CheckBoot(t) \/ EraseForBoot(t) \/ SeeMarker(t)
    \/ ClearStatus(t) \/ EmptySlot(t) \/ StagePayload(t) \/ StageHeader(t)
    \/ StageDoorbell(t) \/ SeeAnswer(t) \/ Return(t) \/ ClearMmvfSlot(t)

Jobd ==
    \/ PollGemm \/ ScanSlots \/ BootDoorbell \/ BootScan \/ MatchHeader \/ ArgsGone
    \/ CopyArgs \/ Run \/ PublishStatus \/ PublishSeq

Next ==
    \/ \E t \in Threads : \/ Submit(t) \/ LockTimeout(t) \/ BootTimeout(t)
                          \/ WriteFails(t) \/ WaitTimeout(t) \/ Proceed(t)
    \/ Jobd
    \/ Restart

\* The host's threads and the daemon keep running.  Nothing makes a call come,
\* a wait time out or the daemon restart.
Fairness == (\A t \in Threads : WF_vars(Proceed(t))) /\ WF_vars(Jobd)

Spec == Init /\ [][Next]_vars /\ Fairness
-----------------------------------------------------------------------------
TypeOK ==
    /\ proc \in [Threads -> [pc : {"idle", "lock", "check", "erase", "marker", "forget",
                                   "empty", "payload", "header", "doorbell", "wait",
                                   "return", "clear"},
                             kind : Kinds \cup {"none"}, path : Paths, seq : Seqs \cup {0},
                             result : {"ok", "error", "none"}, run : Runs]]
    /\ lock \in Threads \cup {NoThread}
    /\ booted \in BOOLEAN /\ given \subseteq Seqs
    /\ slot \in [Kinds -> [seq : Seqs \cup {0}, args : Seqs \cup {0}]]
    /\ doorbell \in [kind : Kinds \cup {"none"}, seq : Seqs \cup {0}]
    /\ comp \in [kind : Kinds \cup {"none", "kernel"}, status : {"ok", "error"},
                 seq : Seqs \cup {0}, run : Runs]
    /\ jobd \in [pc : {"boot", "bootscan", "idle", "scan", "found", "matched", "run",
                       "publish", "number"},
                 via : {"loop", "doorbell", "bootscan"},
                 kind : Kinds \cup {"none", "kernel"}, seq : Seqs \cup {0},
                 args : Seqs \cup {0}, status : {"ok", "error"}, mirror : 0 .. Mirrors]
    /\ seen \in [Kinds -> Seqs \cup {0}]
    /\ cleared \subseteq Seqs /\ late \in [Seqs -> 0 .. 2]
    /\ faults \in [failures : 0 .. MaxFailures, restarts : 0 .. MaxRestarts]

\* No job got a larger number: the clock of next_runtime_job_seq did not go back.
Latest(s) == \A n \in given : n <= s

\* What a call returns is the outcome of its own job, run with its own
\* arguments and to the end: never the record of an earlier job that timed
\* out, of a job run twice, of one whose slot was filled again under the
\* daemon's eyes, or of a record that is only half written.  It takes a number
\* larger than those before it: a smaller one is answered by their records too.
AnswersAreOwn ==
    \A t \in Threads : At(t, "return") /\ proc[t].result # "none" /\ Latest(proc[t].seq)
        => proc[t].run = [seq |-> proc[t].seq, args |-> proc[t].seq]

\* The daemon runs a job again for as long as it stands in its slot.  When the
\* call has emptied the slot, at most the one run the daemon is in the middle
\* of comes to an end after that.
AtMostOneLateRun == \A s \in Seqs : late[s] <= 1

\* The second clear of another call of hetgpu_sifive_submit_mmvf_on, which comes
\* without the lock, may still empty the slot that t is about to fill.
ClearAhead(t) == proc[t].kind = "mmvf" /\ \E u \in Threads \ {t} : At(u, "clear")

\* A call that has a number comes to its end and gives the lock back without a
\* timeout, although the daemon may lose what it was doing, and the record of a job
\* it runs again or of an older one may replace the answer before the host reads it.
\* Two things may cost it its answer: a job with a larger number that stands in
\* another slot, which the daemon takes again and again, and the second clear of
\* an earlier MMVF call.
AnswersArrive ==
    (\E t \in Threads : At(t, "forget") /\ Latest(proc[t].seq) /\ ~ClearAhead(t))
        ~> lock = NoThread
=============================================================================
