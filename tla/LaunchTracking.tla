---------------------------- MODULE LaunchTracking ----------------------------
(***************************************************************************)
(* What launch_kernel of the Level Zero build (zluda/src/impl/function.rs) *)
(* does around a kernel: the checkpoint manager (checkpoint.rs) knows which*)
(* launches are under way and saves them when a signal asked for it, and   *)
(* the recording session (replay.rs) writes them down for a replay.        *)
(*                                                                         *)
(* Threads launch and synchronize, the signal comes between any two steps, *)
(* and a recording may be started and stopped at any time.  Each step is   *)
(* one access to what the threads share: an atomic, or a mutex taken and   *)
(* released.  A launch is its execution id.  A checkpoint file is what     *)
(* active_kernels is when it is saved, and is not kept; a trace is the     *)
(* launches it holds, each with its sequence id and with what the          *)
(* properties ask about it.                                                *)
(***************************************************************************)
EXTENDS Naturals, Sequences, FiniteSets

CONSTANTS Threads,        \* threads of the program
          MaxLaunches,    \* bound: launches
          MaxRequests,    \* bound: signals
          MaxRecordings   \* bound: recordings started

ASSUME LaunchAssumption ==
    MaxLaunches \in Nat /\ MaxRequests \in Nat /\ MaxRecordings \in Nat

VARIABLES
    proc,       \* per thread: where it is in its call, and the launch
    requested,  \* CHECKPOINT_REQUESTED
    nextExec,   \* KERNEL_EXECUTION_ID
    active,     \* CheckpointManager.active_kernels
    session,    \* RECORDING_SESSION
    asked,      \* history: the signals so far
    answered,   \* history: those that came before the last save for a signal began
    recordings  \* history: the recordings started so far

vars == <<proc, requested, nextExec, active, session, asked, answered, recordings>>
checkpoints == <<requested, nextExec, active, asked, answered>>
recording == <<session, recordings>>

Execs == 0 .. MaxLaunches - 1
NoExec == MaxLaunches

\* A recorded launch: its numbers, the launch that added it to the trace, and
\* whether another recorded launch was under way when it was taken down.
Launch == [seq : Execs, exec : Execs, by : Execs \cup {NoExec}, mixed : BOOLEAN]
NoLaunch == [seq |-> 0, exec |-> NoExec, by |-> NoExec, mixed |-> FALSE]
NoSession == [active |-> FALSE, nextSeq |-> 0, current |-> NoLaunch, trace |-> <<>>]
Idle == [pc |-> "idle", call |-> "sync", exec |-> NoExec, seq |-> 0, native |-> FALSE]

Init ==
    /\ proc = [t \in Threads |-> Idle]
    /\ requested = FALSE /\ nextExec = 0 /\ active = {}
    /\ session = NoSession
    /\ asked = 0 /\ answered = 0 /\ recordings = 0

At(t, pc) == proc[t].pc = pc
Goto(t, pc) == proc' = [proc EXCEPT ![t].pc = pc]
-----------------------------------------------------------------------------
(* Signals, safe points and checkpoints.                                   *)

\* sigint_handler only sets the flag.
Request ==
    /\ asked < MaxRequests
    /\ requested' = TRUE
    /\ asked' = asked + 1
    /\ UNCHANGED <<proc, nextExec, active, answered, recording>>

\* The launches that have no execution id yet.
Unnumbered == {t \in Threads : proc[t].pc \in {"flag", "clear", "save", "number"}
                                  /\ proc[t].call = "launch"}

\* A launch begins with check_checkpoint_at_launch, and synchronize ends with
\* process_pending_checkpoint: both look at the flag first.
Call(t) ==
    /\ At(t, "idle")
    /\ \E c \in {"launch", "sync"} :
           /\ c = "launch" => Cardinality(Unnumbered) + nextExec < MaxLaunches
           /\ proc' = [proc EXCEPT ![t].pc = "flag", ![t].call = c]
    /\ UNCHANGED <<checkpoints, recording>>

\* What the caller does when the checkpoint is dealt with.
AfterCheckpoint(t) ==
    IF proc[t].call = "launch" THEN Goto(t, "number") ELSE proc' = [proc EXCEPT ![t] = Idle]

SeeFlagAtLaunch(t) ==
    /\ At(t, "flag")
    /\ IF requested /\ proc[t].call = "launch" THEN Goto(t, "clear") ELSE AfterCheckpoint(t)
    /\ UNCHANGED <<checkpoints, recording>>

\* is_checkpoint_requested
SeeFlag(t) ==
    /\ At(t, "flag")
    /\ IF requested THEN Goto(t, "clear") ELSE AfterCheckpoint(t)
    /\ UNCHANGED <<checkpoints, recording>>

ClearAndSkip(t) ==
    /\ At(t, "clear")
    /\ requested' = FALSE
    /\ IF active = {} THEN AfterCheckpoint(t) ELSE Goto(t, "save")
    /\ UNCHANGED <<nextExec, active, asked, answered, recording>>

\* clear_checkpoint_request, before the save.
ClearFlag(t) ==
    /\ At(t, "clear")
    /\ requested' = FALSE
    /\ Goto(t, "save")
    /\ UNCHANGED <<nextExec, active, asked, answered, recording>>

\* save_checkpoint under the manager's lock.  The write may fail: the request
\* is not raised again.  With HETGPU_CHECKPOINT_PAUSE a launch then returns
\* without its kernel.
Save(t) ==
    /\ At(t, "save")
    /\ answered' = asked
    /\ AfterCheckpoint(t) \/ proc' = [proc EXCEPT ![t] = Idle]
    /\ UNCHANGED <<requested, nextExec, active, asked, recording>>
-----------------------------------------------------------------------------
(* A launch.                                                               *)

NumberAhead(t) ==
    /\ At(t, "number")
    /\ nextExec' = nextExec + 1
    /\ proc' = [proc EXCEPT ![t].pc = "register", ![t].exec = nextExec + 1]
    /\ UNCHANGED <<requested, active, asked, answered, recording>>

\* begin_kernel_execution: next_execution_id, and then, with the PTX of the
\* module in hand, register_kernel.
Number(t) ==
    /\ At(t, "number")
    /\ nextExec' = nextExec + 1
    /\ proc' = [proc EXCEPT ![t].pc = "register", ![t].exec = nextExec]
    /\ UNCHANGED <<requested, active, asked, answered, recording>>

Register(t) ==
    /\ At(t, "register")
    /\ active' = active \cup {proc[t].exec}
    /\ Goto(t, "recording")
    /\ UNCHANGED <<requested, nextExec, asked, answered, recording>>

\* is_recording_active, with a lock of its own.
AskRecording(t) ==
    /\ At(t, "recording")
    /\ Goto(t, IF session.active THEN "pre" ELSE "run")
    /\ UNCHANGED <<checkpoints, recording>>

\* The launches that have a number of a session and will look for a launch
\* to record when they are done.
WillRecord(u) == proc[u].pc \in {"run", "end", "ask", "post"} /\ proc[u].seq > 0

Current(t) == [seq |-> session.nextSeq, exec |-> proc[t].exec, by |-> NoExec,
               mixed |-> \E u \in Threads \ {t} : WillRecord(u)]

PreLaunchOnce(t) ==
    /\ At(t, "pre")
    /\ IF session.active
       THEN /\ session' = [session EXCEPT !.nextSeq = @ + 1,
                                          !.current = IF @ = NoLaunch THEN Current(t) ELSE @]
            /\ proc' = [proc EXCEPT ![t].pc = "run", ![t].seq = session.nextSeq]
       ELSE Goto(t, "run") /\ UNCHANGED session
    /\ UNCHANGED <<checkpoints, recordings>>

\* record_kernel_pre_launch looks again, and replaces the launch being
\* recorded, whatever became of it.
PreLaunch(t) ==
    /\ At(t, "pre")
    /\ IF session.active
       THEN /\ session' = [session EXCEPT !.nextSeq = @ + 1, !.current = Current(t)]
            /\ proc' = [proc EXCEPT ![t].pc = "run", ![t].seq = session.nextSeq]
       ELSE Goto(t, "run") /\ UNCHANGED session
    /\ UNCHANGED <<checkpoints, recordings>>

\* The kernel is submitted to the queue (native), or a fallback computes it or
\* one of the calls on the way to the queue fails (not native).
Run(t) ==
    /\ At(t, "run")
    /\ \E native \in BOOLEAN :
           proc' = [proc EXCEPT ![t].pc = "end", ![t].native = native]
    /\ UNCHANGED <<checkpoints, recording>>

\* Where a launch goes after its end: only a native one that has a number is
\* recorded, and 0 counts as none.
Records(p) == p.native /\ p.seq > 0

EndNative(t) ==
    /\ At(t, "end")
    /\ active' = IF proc[t].native THEN active \ {proc[t].exec} ELSE active
    /\ proc' = [proc EXCEPT ![t] = IF Records(@) THEN [@ EXCEPT !.pc = "ask"] ELSE Idle]
    /\ UNCHANGED <<requested, nextExec, asked, answered, recording>>

\* end_kernel_execution, on every way out.
End(t) ==
    /\ At(t, "end")
    /\ active' = active \ {proc[t].exec}
    /\ proc' = [proc EXCEPT ![t] = IF Records(@) THEN [@ EXCEPT !.pc = "ask"] ELSE Idle]
    /\ UNCHANGED <<requested, nextExec, asked, answered, recording>>

AskRecordingAgain(t) ==
    /\ At(t, "ask")
    /\ proc' = [proc EXCEPT ![t] = IF session.active THEN [@ EXCEPT !.pc = "post"] ELSE Idle]
    /\ UNCHANGED <<checkpoints, recording>>

Taken(t) == [session.current EXCEPT !.by = proc[t].exec]

PostLaunchKeeps(t) ==
    /\ At(t, "post")
    /\ session' = IF session.active /\ session.current # NoLaunch
                  THEN [session EXCEPT !.trace = Append(@, Taken(t))]
                  ELSE session
    /\ proc' = [proc EXCEPT ![t] = Idle]
    /\ UNCHANGED <<checkpoints, recordings>>

\* record_kernel_post_launch takes the launch being recorded, whosever it is,
\* and adds it to the trace.
PostLaunch(t) ==
    /\ At(t, "post")
    /\ session' = IF session.active /\ session.current # NoLaunch
                  THEN [session EXCEPT !.trace = Append(@, Taken(t)),
                                       !.current = NoLaunch]
                  ELSE session
    /\ proc' = [proc EXCEPT ![t] = Idle]
    /\ UNCHANGED <<checkpoints, recordings>>
-----------------------------------------------------------------------------
(* hetgpu_recording_start and hetgpu_recording_stop.                       *)

\* The new session replaces the one there is, running or not.
StartRecording ==
    /\ recordings < MaxRecordings
    /\ session' = [NoSession EXCEPT !.active = TRUE]
    /\ recordings' = recordings + 1
    /\ UNCHANGED <<proc, checkpoints>>

StopRecording ==
    /\ session.active
    /\ session' = [session EXCEPT !.active = FALSE]
    /\ UNCHANGED <<proc, checkpoints, recordings>>
-----------------------------------------------------------------------------
Proceed(t) ==
    \/ SeeFlag(t) \/ ClearFlag(t) \/ Save(t) \/ Number(t) \/ Register(t)
    \/ AskRecording(t) \/ PreLaunch(t) \/ Run(t) \/ End(t)
    \/ AskRecordingAgain(t) \/ PostLaunch(t)

Next ==
    \/ Request \/ StartRecording \/ StopRecording
    \/ \E t \in Threads : Call(t) \/ Proceed(t)

\* A thread goes on with the call it is in: no step waits for another thread,
\* and the calls of the driver return.  Nothing makes a thread call.
Fairness == \A t \in Threads : WF_vars(Proceed(t))

Spec == Init /\ [][Next]_vars /\ Fairness
-----------------------------------------------------------------------------
TypeOK ==
    /\ proc \in [Threads -> [pc : {"idle", "flag", "clear", "save", "number", "register",
                                   "recording", "pre", "run", "end", "ask", "post"},
                             call : {"launch", "sync"}, exec : 0 .. MaxLaunches,
                             seq : Execs \cup {0}, native : BOOLEAN]]
    /\ \A t \in Threads : proc[t].pc \in {"register", "recording", "pre", "run", "end"}
                              => proc[t].exec \in Execs
    /\ requested \in BOOLEAN /\ nextExec \in 0 .. MaxLaunches
    /\ active \subseteq Execs
    /\ session \in [active : BOOLEAN, nextSeq : 0 .. MaxLaunches,
                    current : Launch \cup {NoLaunch}, trace : Seq(Launch)]
    /\ asked \in 0 .. MaxRequests /\ answered \in 0 .. MaxRequests
    /\ recordings \in 0 .. MaxRecordings

\* A signal is not lost: until a save has begun after it, the flag is up or
\* some thread has taken the flag down and is about to save.
RequestsAreKept ==
    asked > answered => \/ requested
                        \/ \E t \in Threads : proc[t].pc \in {"clear", "save"}

\* The launches between register_kernel and end_kernel_execution.
Running == {proc[t].exec : t \in {u \in Threads : proc[u].pc \in {"recording", "pre", "run",
                                                                 "end"}}}

\* What a checkpoint lists, whoever saves it and whenever, is the launches
\* under way: none that failed, was left to a fallback or has returned.
CheckpointsListRunning == active = Running

\* A trace holds its launches in the order of their numbers, each once,
\* however the threads overwrite and take each other's current launch.
TraceInOrder ==
    \A i, j \in DOMAIN session.trace :
        i < j => session.trace[i].seq < session.trace[j].seq

\* A launch gets into the trace by its own end, and so went well, unless
\* another launch with a number was under way when it was taken down: the end
\* of that one may add it, whatever becomes of it.
RecordedByItself ==
    \A i \in DOMAIN session.trace :
        LET e == session.trace[i] IN e.by = e.exec \/ e.mixed

\* "will save at next sync point": once a thread reaches a launch or the end
\* of a synchronization, every signal that came before is followed by a save.
SignalsAreAnswered ==
    \A t \in Threads, n \in 1 .. MaxRequests :
        (At(t, "flag") /\ asked = n) ~> answered >= n
=============================================================================
