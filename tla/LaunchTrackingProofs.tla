------------------------- MODULE LaunchTrackingProofs -------------------------
(***************************************************************************)
(* Proofs about launches, checkpoint requests and recordings, for any set  *)
(* of threads and any number of launches, signals and recordings.          *)
(***************************************************************************)
EXTENDS LaunchTracking, FiniteSetTheorems, TLAPS

\* Most leaves are first-order reasoning; those with arithmetic cite SMT.
USE Zenon

(***************************************************************************)
(* What the variables are, without the bounds of the model.                *)
(***************************************************************************)
Pcs == {"idle", "flag", "clear", "save", "number", "register", "recording", "pre", "run",
        "end", "ask", "post"}
ProcState == [pc : Pcs, call : {"launch", "sync"}, exec : Nat, seq : Nat, native : BOOLEAN]
Entry == [seq : Nat, exec : Nat, by : Nat, mixed : BOOLEAN]
Session == [active : BOOLEAN, nextSeq : Nat, current : Entry, trace : Seq(Entry)]

Shape ==
    /\ proc \in [Threads -> ProcState]
    /\ requested \in BOOLEAN /\ nextExec \in Nat
    /\ asked \in Nat /\ answered \in Nat
    /\ session \in Session

\* Nothing is recorded before the first launch.
LEMMA NoneTyped == NoLaunch \in Entry /\ NoSession \in Session /\ Idle \in ProcState
<1>1. MaxLaunches \in Nat
  BY LaunchAssumption
<1>2. NoLaunch \in Entry
  BY <1>1 DEF NoLaunch, NoExec, Entry
<1>3. NoSession \in Session
  BY <1>2, SMT DEF NoSession, Session
<1>4. Idle \in ProcState
  BY <1>1 DEF Idle, NoExec, ProcState, Pcs
<1> QED
  BY <1>2, <1>3, <1>4

(***************************************************************************)
(* Where a step takes a thread.                                            *)
(***************************************************************************)

\* Only thread t moves, from one place in its call to another.
Moves(t, from, to) ==
    /\ proc' \in [Threads -> ProcState]
    /\ \A u \in Threads \ {t} : proc'[u] = proc[u]
    /\ proc[t].pc = from /\ proc'[t].pc \in to

\* The launch keeps its numbers.
Keeps(t) == proc'[t].exec = proc[t].exec /\ proc'[t].seq = proc[t].seq

\* Setting pc does that.
LEMMA GotoMoves ==
    ASSUME Shape, NEW t \in Threads, NEW from \in Pcs, NEW to \in Pcs, At(t, from), Goto(t, to)
    PROVE  Moves(t, from, {to}) /\ Keeps(t)
<1>1. proc \in [Threads -> ProcState] /\ proc[t].pc = from
      /\ proc' = [proc EXCEPT ![t].pc = to]
  BY DEF Shape, At, Goto
<1> QED
  BY <1>1 DEF Moves, Keeps, ProcState

\* The launch and its numbers are forgotten.
Ended(t) == proc'[t].seq = 0 /\ proc'[t].exec = NoExec

\* The end of a call.
LEMMA IdleMoves ==
    ASSUME Shape, NEW t \in Threads, NEW from \in Pcs, At(t, from),
           proc' = [proc EXCEPT ![t] = Idle]
    PROVE  Moves(t, from, {"idle"}) /\ Ended(t)
<1>1. proc \in [Threads -> ProcState] /\ proc[t].pc = from
  BY DEF Shape, At
<1>2. Idle.pc = "idle" /\ Idle.seq = 0 /\ Idle.exec = NoExec
  BY DEF Idle
<1> QED
  BY <1>1, <1>2, NoneTyped DEF Moves, Ended

\* What each action does to its thread.
LEMMA StepMoves ==
    ASSUME Shape, NEW t \in Threads
    PROVE  /\ Call(t) => Moves(t, "idle", {"flag"}) /\ Keeps(t)
           /\ SeeFlag(t) => \/ Moves(t, "flag", {"clear"}) /\ Keeps(t) /\ requested
                            \/ Moves(t, "flag", {"number"}) /\ Keeps(t)
                            \/ Moves(t, "flag", {"idle"}) /\ Ended(t)
           /\ ClearFlag(t) => Moves(t, "clear", {"save"}) /\ Keeps(t)
           /\ Save(t) => \/ Moves(t, "save", {"number"}) /\ Keeps(t)
                         \/ Moves(t, "save", {"idle"}) /\ Ended(t)
           /\ Number(t) => /\ Moves(t, "number", {"register"})
                           /\ proc'[t].exec = nextExec /\ proc'[t].seq = proc[t].seq
           /\ Register(t) => Moves(t, "register", {"recording"}) /\ Keeps(t)
           /\ AskRecording(t) => Moves(t, "recording", {"pre", "run"}) /\ Keeps(t)
           /\ Run(t) => Moves(t, "run", {"end"}) /\ Keeps(t)
           /\ End(t) => \/ Moves(t, "end", {"ask"}) /\ Keeps(t) /\ proc[t].seq > 0
                        \/ Moves(t, "end", {"idle"}) /\ Ended(t)
           /\ AskRecordingAgain(t) => \/ Moves(t, "ask", {"post"}) /\ Keeps(t)
                                      \/ Moves(t, "ask", {"idle"}) /\ Ended(t)
           /\ PostLaunch(t) => Moves(t, "post", {"idle"}) /\ Ended(t)
<1>1. proc \in [Threads -> ProcState] /\ nextExec \in Nat
  BY DEF Shape
<1>2. Call(t) => Moves(t, "idle", {"flag"}) /\ Keeps(t)
  <2> SUFFICES ASSUME Call(t) PROVE Moves(t, "idle", {"flag"}) /\ Keeps(t)
    OBVIOUS
  <2>1. PICK c \in {"launch", "sync"} : proc' = [proc EXCEPT ![t].pc = "flag", ![t].call = c]
    BY DEF Call
  <2>2. proc' = [proc EXCEPT ![t] = [@ EXCEPT !.pc = "flag", !.call = c]]
    BY <1>1, <2>1, Zenon
  <2>3. proc[t].pc = "idle" /\ proc[t] \in ProcState
    BY <1>1 DEF Call, At
  <2>4. PICK s : s = [proc[t] EXCEPT !.pc = "flag"]
    OBVIOUS
  <2>5. PICK r : r = [s EXCEPT !.call = c]
    OBVIOUS
  <2>6. s \in ProcState /\ s.pc = "flag" /\ s.exec = proc[t].exec /\ s.seq = proc[t].seq
    BY <2>3, <2>4 DEF ProcState, Pcs
  <2>7. r \in ProcState /\ r.pc = "flag" /\ r.exec = proc[t].exec /\ r.seq = proc[t].seq
    BY <2>5, <2>6 DEF ProcState
  <2>8. proc' = [proc EXCEPT ![t] = r]
    BY <2>2, <2>4, <2>5
  <2> QED
    BY <1>1, <2>3, <2>7, <2>8 DEF Moves, Keeps
<1>3. ASSUME NEW from \in Pcs, At(t, from), AfterCheckpoint(t)
      PROVE  \/ Moves(t, from, {"number"}) /\ Keeps(t)
             \/ Moves(t, from, {"idle"}) /\ Ended(t)
  BY <1>3, GotoMoves, IdleMoves DEF AfterCheckpoint, Pcs
<1>4. SeeFlag(t) => \/ Moves(t, "flag", {"clear"}) /\ Keeps(t) /\ requested
                    \/ Moves(t, "flag", {"number"}) /\ Keeps(t)
                    \/ Moves(t, "flag", {"idle"}) /\ Ended(t)
  BY <1>3, GotoMoves DEF SeeFlag, Pcs
<1>5. ClearFlag(t) => Moves(t, "clear", {"save"}) /\ Keeps(t)
  BY GotoMoves DEF ClearFlag, Pcs
<1>6. Save(t) => \/ Moves(t, "save", {"number"}) /\ Keeps(t)
                 \/ Moves(t, "save", {"idle"}) /\ Ended(t)
  BY <1>3, IdleMoves DEF Save, Pcs
<1>7. Number(t) => /\ Moves(t, "number", {"register"})
                   /\ proc'[t].exec = nextExec /\ proc'[t].seq = proc[t].seq
  <2> SUFFICES ASSUME Number(t)
               PROVE  /\ Moves(t, "number", {"register"})
                      /\ proc'[t].exec = nextExec /\ proc'[t].seq = proc[t].seq
    OBVIOUS
  <2>1. proc' = [proc EXCEPT ![t].pc = "register", ![t].exec = nextExec]
    BY DEF Number
  <2>2. proc' = [proc EXCEPT ![t] = [@ EXCEPT !.pc = "register", !.exec = nextExec]]
    BY <1>1, <2>1, Zenon
  <2>3. proc[t].pc = "number"
    BY DEF Number, At
  <2> QED
    BY <1>1, <2>2, <2>3 DEF Moves, ProcState, Pcs
<1>8. Register(t) => Moves(t, "register", {"recording"}) /\ Keeps(t)
  BY GotoMoves DEF Register, Pcs
<1>9. AskRecording(t) => Moves(t, "recording", {"pre", "run"}) /\ Keeps(t)
  <2> SUFFICES ASSUME AskRecording(t)
               PROVE  Moves(t, "recording", {"pre", "run"}) /\ Keeps(t)
    OBVIOUS
  <2>1. PICK to \in {"pre", "run"} : Goto(t, to)
    BY DEF AskRecording
  <2>2. Moves(t, "recording", {to}) /\ Keeps(t)
    BY <2>1, GotoMoves DEF AskRecording, Pcs
  <2> QED
    BY <2>2 DEF Moves
<1>10. Run(t) => Moves(t, "run", {"end"}) /\ Keeps(t)
  <2> SUFFICES ASSUME Run(t) PROVE Moves(t, "run", {"end"}) /\ Keeps(t)
    OBVIOUS
  <2>1. PICK native \in BOOLEAN :
            proc' = [proc EXCEPT ![t].pc = "end", ![t].native = native]
    BY DEF Run
  <2>2. proc' = [proc EXCEPT ![t] = [@ EXCEPT !.pc = "end", !.native = native]]
    BY <1>1, <2>1, Zenon
  <2>3. proc[t].pc = "run"
    BY DEF Run, At
  <2> QED
    BY <1>1, <2>2, <2>3 DEF Moves, Keeps, ProcState, Pcs
<1>11. End(t) => \/ Moves(t, "end", {"ask"}) /\ Keeps(t) /\ proc[t].seq > 0
                 \/ Moves(t, "end", {"idle"}) /\ Ended(t)
  <2> SUFFICES ASSUME End(t)
               PROVE  \/ Moves(t, "end", {"ask"}) /\ Keeps(t) /\ proc[t].seq > 0
                      \/ Moves(t, "end", {"idle"}) /\ Ended(t)
    OBVIOUS
  <2>1. CASE Records(proc[t])
    <3>1. Goto(t, "ask")
      BY <1>1, <2>1, Zenon DEF End, Goto
    <3> QED
      BY <2>1, <3>1, GotoMoves DEF End, Records, Pcs
  <2>2. CASE ~Records(proc[t])
    <3>1. proc' = [proc EXCEPT ![t] = Idle]
      BY <1>1, <2>2, Zenon DEF End
    <3> QED
      BY <3>1, IdleMoves DEF End, Pcs
  <2> QED
    BY <2>1, <2>2
<1>12. AskRecordingAgain(t) => \/ Moves(t, "ask", {"post"}) /\ Keeps(t)
                               \/ Moves(t, "ask", {"idle"}) /\ Ended(t)
  <2> SUFFICES ASSUME AskRecordingAgain(t)
               PROVE  \/ Moves(t, "ask", {"post"}) /\ Keeps(t)
                      \/ Moves(t, "ask", {"idle"}) /\ Ended(t)
    OBVIOUS
  <2>1. CASE session.active
    <3>1. Goto(t, "post")
      BY <1>1, <2>1, Zenon DEF AskRecordingAgain, Goto
    <3> QED
      BY <3>1, GotoMoves DEF AskRecordingAgain, Pcs
  <2>2. CASE ~session.active
    <3>1. proc' = [proc EXCEPT ![t] = Idle]
      BY <1>1, <2>2, Zenon DEF AskRecordingAgain
    <3> QED
      BY <3>1, IdleMoves DEF AskRecordingAgain, Pcs
  <2> QED
    BY <2>1, <2>2
<1>13. PostLaunch(t) => Moves(t, "post", {"idle"}) /\ Ended(t)
  BY IdleMoves DEF PostLaunch, Pcs
<1> QED
  BY <1>2, <1>4, <1>5, <1>6, <1>7, <1>8, <1>9, <1>10, <1>11, <1>12, <1>13

\* A session with a launch more in its trace.
LEMMA NewTrace ==
    ASSUME NEW s \in Session, NEW q \in Seq(Entry)
    PROVE  LET r == [s EXCEPT !.trace = q, !.current = NoLaunch]
           IN /\ r \in Session /\ r.active = s.active /\ r.nextSeq = s.nextSeq
              /\ r.current = NoLaunch /\ r.trace = q
<1> DEFINE a == [s EXCEPT !.trace = q]
           r == [s EXCEPT !.trace = q, !.current = NoLaunch]
<1>1. r = [a EXCEPT !.current = NoLaunch]
  BY Zenon
<1>2. a \in Session /\ a.active = s.active /\ a.nextSeq = s.nextSeq /\ a.trace = q
  BY DEF Session
<1> HIDE DEF a
<1> QED
  BY <1>1, <1>2, NoneTyped DEF Session

\* record_pre_launch: the launch gets a number of the session and becomes the one
\* being recorded.
LEMMA PreLaunchMoves ==
    ASSUME Shape, NEW t \in Threads, PreLaunch(t)
    PROVE  /\ Moves(t, "pre", {"run"}) /\ proc'[t].exec = proc[t].exec
           /\ \/ session' = session /\ proc'[t].seq = proc[t].seq
              \/ /\ proc'[t].seq = session.nextSeq
                 /\ session' \in Session /\ session'.nextSeq = session.nextSeq + 1
                 /\ session'.current = Current(t) /\ session'.trace = session.trace
<1>1. proc \in [Threads -> ProcState] /\ session \in Session /\ proc[t].pc = "pre"
  BY DEF Shape, PreLaunch, At
<1>2. CASE session.active
  <2>1. proc' = [proc EXCEPT ![t].pc = "run", ![t].seq = session.nextSeq]
    BY <1>2 DEF PreLaunch
  <2>2. proc' = [proc EXCEPT ![t] = [@ EXCEPT !.pc = "run", !.seq = session.nextSeq]]
    BY <1>1, <2>1, Zenon
  <2>3. session.nextSeq \in Nat
    BY <1>1 DEF Session
  <2>4. Moves(t, "pre", {"run"}) /\ proc'[t].exec = proc[t].exec
        /\ proc'[t].seq = session.nextSeq
    BY <1>1, <2>2, <2>3 DEF Moves, ProcState, Pcs
  <2>5. NoExec \in Nat /\ proc[t].exec \in Nat
    BY <1>1, LaunchAssumption DEF NoExec, ProcState
  <2>6. (\E u \in Threads \ {t} : WillRecord(u)) \in BOOLEAN
    OBVIOUS
  <2>7. Current(t) \in Entry
    BY <2>3, <2>5, <2>6 DEF Current, Entry
  <2> DEFINE counted == [session EXCEPT !.nextSeq = session.nextSeq + 1]
  <2>8. session' = [counted EXCEPT !.current = Current(t)]
    BY <1>2, Zenon DEF PreLaunch
  <2>9. /\ counted \in Session /\ counted.nextSeq = session.nextSeq + 1
        /\ counted.trace = session.trace
    BY <1>1, <2>3, SMT DEF Session
  <2>10. /\ session' \in Session /\ session'.nextSeq = session.nextSeq + 1
         /\ session'.current = Current(t) /\ session'.trace = session.trace
    <3> HIDE DEF counted
    <3> QED
      BY <2>7, <2>8, <2>9 DEF Session
  <2> QED
    BY <2>4, <2>10
<1>3. CASE ~session.active
  BY <1>3, GotoMoves DEF PreLaunch, Keeps, Pcs
<1> QED
  BY <1>2, <1>3

\* record_post_launch: the launch being recorded goes into the trace.
LEMMA PostLaunchSession ==
    ASSUME Shape, NEW t \in Threads, PostLaunch(t)
    PROVE  \/ session' = session
           \/ /\ session.current # NoLaunch /\ Taken(t) \in Entry
              /\ Taken(t).seq = session.current.seq /\ Taken(t).exec = session.current.exec
              /\ Taken(t).mixed = session.current.mixed /\ Taken(t).by = proc[t].exec
              /\ session' \in Session /\ session'.nextSeq = session.nextSeq
              /\ session'.current = NoLaunch
              /\ session'.trace = Append(session.trace, Taken(t))
<1>1. /\ session \in Session /\ session.current \in Entry /\ session.trace \in Seq(Entry)
      /\ proc[t].exec \in Nat
  BY DEF Shape, Session, ProcState
<1>2. /\ Taken(t) \in Entry
      /\ Taken(t).seq = session.current.seq /\ Taken(t).exec = session.current.exec
      /\ Taken(t).mixed = session.current.mixed /\ Taken(t).by = proc[t].exec
  BY <1>1 DEF Taken, Entry
<1>3. CASE session.active /\ session.current # NoLaunch
  <2>1. session' = [session EXCEPT !.trace = Append(session.trace, Taken(t)),
                                   !.current = NoLaunch]
    BY <1>3 DEF PostLaunch
  <2>2. Append(session.trace, Taken(t)) \in Seq(Entry)
    BY <1>1, <1>2, SMT
  <2>3. /\ session' \in Session /\ session'.nextSeq = session.nextSeq
        /\ session'.current = NoLaunch
        /\ session'.trace = Append(session.trace, Taken(t))
    BY <1>1, <2>1, <2>2, NewTrace
  <2> QED
    BY <1>2, <1>3, <2>3
<1>4. CASE ~(session.active /\ session.current # NoLaunch)
  BY <1>4 DEF PostLaunch
<1> QED
  BY <1>3, <1>4

\* The variables keep their shape.
LEMMA ShapeStep ==
    ASSUME Shape, [Next]_vars
    PROVE  Shape'
<1> USE DEF Shape
<1>1. CASE UNCHANGED vars
  BY <1>1 DEF vars
<1>2. CASE Request
  BY <1>2, SMT DEF Request, recording
<1>3. CASE StartRecording
  <2>1. session' \in Session
    BY <1>3, NoneTyped DEF StartRecording, Session
  <2> QED
    BY <1>3, <2>1 DEF StartRecording, checkpoints
<1>4. CASE StopRecording
  <2>1. session' \in Session
    BY <1>4 DEF StopRecording, Session
  <2> QED
    BY <1>4, <2>1 DEF StopRecording, checkpoints
<1>5. ASSUME NEW t \in Threads, Call(t) \/ Proceed(t)
      PROVE  Shape'
  <2>1. proc' \in [Threads -> ProcState]
    <3> HIDE DEF Shape
    <3> QED
      BY <1>5, StepMoves, PreLaunchMoves DEF Moves, Proceed
  <2>2. session' \in Session
    <3>1. CASE PreLaunch(t)
      BY <3>1, PreLaunchMoves
    <3>2. CASE PostLaunch(t)
      BY <3>2, PostLaunchSession
    <3>3. CASE session' = session
      BY <3>3
    <3> QED
      BY <1>5, <3>1, <3>2, <3>3
      DEF Proceed, Call, SeeFlag, ClearFlag, Save, Number, Register, AskRecording, Run, End,
          AskRecordingAgain, recording
  <2>3. requested' \in BOOLEAN
    <3>1. requested' = requested \/ requested' = FALSE
      BY <1>5
      DEF Proceed, Call, SeeFlag, ClearFlag, Save, Number, Register, AskRecording, PreLaunch,
          Run, End, AskRecordingAgain, PostLaunch, checkpoints
    <3> QED
      BY <3>1
  <2>4. nextExec' \in Nat /\ asked' \in Nat /\ answered' \in Nat
    <3>1. \/ nextExec' = nextExec + 1 /\ UNCHANGED <<asked, answered>>
          \/ answered' = asked /\ UNCHANGED <<nextExec, asked>>
          \/ UNCHANGED <<nextExec, asked, answered>>
      <4> HIDE DEF Shape
      <4> QED
        BY <1>5, Zenon
        DEF Proceed, Call, SeeFlag, ClearFlag, Save, Number, Register, AskRecording,
            PreLaunch, Run, End, AskRecordingAgain, PostLaunch, checkpoints
    <3> QED
      BY <3>1, SMT
  <2> QED
    BY <2>1, <2>2, <2>3, <2>4
<1> QED
  BY <1>1, <1>2, <1>3, <1>4, <1>5 DEF Next
-----------------------------------------------------------------------------
(***************************************************************************)
(* Requests.  RequestsAreKept is inductive: the flag is taken down by a    *)
(* thread that saw it and goes on to save, and a save answers all signals  *)
(* up to it.                                                               *)
(***************************************************************************)
LEMMA RequestsStep ==
    ASSUME Shape, RequestsAreKept, [Next]_vars
    PROVE  RequestsAreKept'
<1> USE DEF RequestsAreKept
<1>1. CASE UNCHANGED vars \/ StartRecording \/ StopRecording
  BY <1>1 DEF vars, StartRecording, StopRecording, checkpoints
<1>2. CASE Request
  BY <1>2 DEF Request
<1>3. ASSUME NEW t \in Threads, Call(t) \/ Proceed(t)
      PROVE  RequestsAreKept'
  <2>1. CASE SeeFlag(t)
    BY <2>1, StepMoves DEF SeeFlag, Moves, checkpoints
  <2>2. CASE ClearFlag(t)
    BY <2>2, StepMoves DEF ClearFlag, Moves
  <2>3. CASE Save(t)
    BY <2>3, SMT DEF Save, Shape
  <2>4. ASSUME NEW from \in Pcs \ {"clear", "save"}, NEW to, Moves(t, from, to),
               UNCHANGED <<requested, asked, answered>>
        PROVE  RequestsAreKept'
    BY <2>4 DEF Moves
  <2>5. CASE Call(t)
    BY <2>4, <2>5, StepMoves DEF Call, Pcs, checkpoints
  <2>6. CASE Number(t) \/ Register(t) \/ AskRecording(t)
    BY <2>4, <2>6, StepMoves DEF Number, Register, AskRecording, Pcs, checkpoints
  <2>7. CASE PreLaunch(t)
    BY <2>4, <2>7, PreLaunchMoves DEF PreLaunch, Pcs, checkpoints
  <2>8. CASE Run(t) \/ End(t)
    BY <2>4, <2>8, StepMoves DEF Run, End, Pcs, checkpoints
  <2>9. CASE AskRecordingAgain(t) \/ PostLaunch(t)
    BY <2>4, <2>9, StepMoves DEF AskRecordingAgain, PostLaunch, Pcs, checkpoints
  <2> QED
    BY <1>3, <2>1, <2>2, <2>3, <2>5, <2>6, <2>7, <2>8, <2>9 DEF Proceed
<1> QED
  BY <1>1, <1>2, <1>3 DEF Next

\* The initial state.
LEMMA ShapeInit == Init => Shape /\ RequestsAreKept
<1> SUFFICES ASSUME Init PROVE Shape /\ RequestsAreKept
  OBVIOUS
<1>1. proc \in [Threads -> ProcState]
  BY NoneTyped DEF Init
<1>2. /\ nextExec \in Nat /\ asked \in Nat /\ answered \in Nat
      /\ asked = 0 /\ answered = 0
  BY DEF Init
<1>3. requested \in BOOLEAN /\ session \in Session
  BY NoneTyped DEF Init
<1>4. RequestsAreKept
  BY <1>2, SMT DEF RequestsAreKept
<1> QED
  BY <1>1, <1>2, <1>3, <1>4 DEF Shape

\* No signal is lost between the handler that raises the flag, the threads that
\* take it down and the saves: for any number of threads and signals.
THEOREM RequestsKept == Spec => []RequestsAreKept
<1>1. Init => Shape /\ RequestsAreKept
  BY ShapeInit
<1>2. (Shape /\ RequestsAreKept) /\ [Next]_vars => (Shape /\ RequestsAreKept)'
  BY ShapeStep, RequestsStep
<1> QED
  BY <1>1, <1>2, PTL DEF Spec
-----------------------------------------------------------------------------
(***************************************************************************)
(* The launches under way.  end_kernel_execution takes one execution id    *)
(* out of active_kernels; that this is nobody else's needs that launches   *)
(* have different ids, which come from one counter.                        *)
(***************************************************************************)
Numbered == {"register", "recording", "pre", "run", "end"}
Listed == {"recording", "pre", "run", "end"}

ExecsDiffer ==
    /\ \A t \in Threads : proc[t].pc \in Numbered => proc[t].exec < nextExec
    /\ \A t, u \in Threads : /\ t # u
                             /\ proc[t].pc \in Numbered /\ proc[u].pc \in Numbered
                             => proc[t].exec # proc[u].exec

\* CheckpointsListRunning, element by element.
ListsRunning ==
    \A e : e \in active <=> \E t \in Threads : proc[t].pc \in Listed /\ proc[t].exec = e

\* The form of CheckpointsListRunning that the steps below use.
LEMMA ListsRunningIs == ListsRunning <=> CheckpointsListRunning
  BY DEF ListsRunning, CheckpointsListRunning, Running, Listed

\* A thread that moves without a new id, and not over the ends of Numbered and of
\* Listed, changes nothing here.
LEMMA OtherMoves ==
    ASSUME Shape, ExecsDiffer, ListsRunning, NEW t \in Threads, NEW from, NEW to,
           Moves(t, from, {to}), UNCHANGED <<nextExec, active>>,
           from \in Numbered <=> to \in Numbered, from \in Listed <=> to \in Listed,
           to \in Numbered => proc'[t].exec = proc[t].exec
    PROVE  ExecsDiffer' /\ ListsRunning'
<1>1. ASSUME NEW u \in Threads
      PROVE  /\ proc'[u].pc \in Numbered <=> proc[u].pc \in Numbered
             /\ proc'[u].pc \in Listed <=> proc[u].pc \in Listed
             /\ proc[u].pc \in Numbered => proc'[u].exec = proc[u].exec
  BY DEF Moves
<1>2. ExecsDiffer'
  BY <1>1 DEF ExecsDiffer
<1>3. Listed \subseteq Numbered
  BY DEF Listed, Numbered
<1>4. ListsRunning'
  BY <1>1, <1>3 DEF ListsRunning
<1> QED
  BY <1>2, <1>4

\* Every step keeps executions apart and the table of kernels complete.
LEMMA RunningStep ==
    ASSUME Shape, ExecsDiffer, ListsRunning, [Next]_vars
    PROVE  ExecsDiffer' /\ ListsRunning'
<1>0. proc \in [Threads -> ProcState] /\ nextExec \in Nat
  BY DEF Shape
<1> USE DEF Numbered, Listed
<1>1. CASE UNCHANGED vars \/ StartRecording \/ StopRecording \/ Request
  BY <1>1 DEF vars, StartRecording, StopRecording, Request, checkpoints, ExecsDiffer,
              ListsRunning
<1>2. ASSUME NEW t \in Threads, Call(t) \/ Proceed(t)
      PROVE  ExecsDiffer' /\ ListsRunning'
  <2>1. CASE Call(t)
    <3>1. Moves(t, "idle", {"flag"})
      BY <2>1, StepMoves
    <3>2. UNCHANGED <<nextExec, active>>
      BY <2>1 DEF Call, checkpoints
    <3> QED
      BY <3>1, <3>2, OtherMoves
  <2>2. CASE SeeFlag(t)
    <3>1. PICK to \in {"clear", "number", "idle"} : Moves(t, "flag", {to})
      BY <2>2, StepMoves
    <3>2. UNCHANGED <<nextExec, active>>
      BY <2>2 DEF SeeFlag, checkpoints
    <3> QED
      BY <3>1, <3>2, OtherMoves
  <2>3. CASE ClearFlag(t)
    <3>1. Moves(t, "clear", {"save"})
      BY <2>3, StepMoves
    <3>2. UNCHANGED <<nextExec, active>>
      BY <2>3 DEF ClearFlag
    <3> QED
      BY <3>1, <3>2, OtherMoves
  <2>4. CASE Save(t)
    <3>1. PICK to \in {"number", "idle"} : Moves(t, "save", {to})
      BY <2>4, StepMoves
    <3>2. UNCHANGED <<nextExec, active>>
      BY <2>4 DEF Save
    <3> QED
      BY <3>1, <3>2, OtherMoves
  <2>5. CASE Number(t)
    <3>1. /\ Moves(t, "number", {"register"}) /\ proc'[t].exec = nextExec
          /\ nextExec' = nextExec + 1 /\ active' = active
      BY <2>5, StepMoves DEF Number
    <3>2. ExecsDiffer'
      BY <1>0, <3>1, SMT DEF Moves, ExecsDiffer, ProcState
    <3>3. ListsRunning'
      BY <3>1, SMT DEF Moves, ListsRunning
    <3> QED
      BY <3>2, <3>3
  <2>6. CASE Register(t)
    <3>1. /\ Moves(t, "register", {"recording"}) /\ proc'[t].exec = proc[t].exec
          /\ nextExec' = nextExec /\ active' = active \cup {proc[t].exec}
      BY <2>6, StepMoves DEF Register, Keeps
    <3>2. ExecsDiffer'
      BY <3>1, SMT DEF Moves, ExecsDiffer
    <3>3. ListsRunning'
      BY <3>1, SMT DEF Moves, ListsRunning
    <3> QED
      BY <3>2, <3>3
  <2>7. CASE AskRecording(t)
    <3>1. PICK to \in {"pre", "run"} : Moves(t, "recording", {to}) /\ Keeps(t)
      BY <2>7, StepMoves DEF Moves
    <3> QED
      BY <2>7, <3>1, OtherMoves DEF AskRecording, checkpoints, Keeps
  <2>8. CASE PreLaunch(t)
    BY <2>8, PreLaunchMoves, OtherMoves DEF PreLaunch, checkpoints
  <2>9. CASE Run(t)
    BY <2>9, StepMoves, OtherMoves DEF Run, checkpoints, Keeps
  <2>10. CASE End(t)
    <3>1. PICK to \in {"ask", "idle"} : Moves(t, "end", {to})
      BY <2>10, StepMoves
    <3>2. nextExec' = nextExec /\ active' = active \ {proc[t].exec}
      BY <2>10 DEF End
    <3>3. ExecsDiffer'
      BY <3>1, <3>2 DEF Moves, ExecsDiffer
    <3>4. ListsRunning'
      <4>1. \A u \in Threads \ {t} : proc[u].pc \in Listed => proc[u].exec # proc[t].exec
        BY <3>1 DEF Moves, ExecsDiffer
      <4> QED
        BY <3>1, <3>2, <4>1, SMT DEF Moves, ListsRunning
    <3> QED
      BY <3>3, <3>4
  <2>11. CASE AskRecordingAgain(t)
    <3>1. PICK to \in {"post", "idle"} : Moves(t, "ask", {to})
      BY <2>11, StepMoves
    <3>2. UNCHANGED <<nextExec, active>>
      BY <2>11 DEF AskRecordingAgain, checkpoints
    <3> QED
      BY <3>1, <3>2, OtherMoves
  <2>12. CASE PostLaunch(t)
    <3>1. Moves(t, "post", {"idle"})
      BY <2>12, StepMoves
    <3>2. UNCHANGED <<nextExec, active>>
      BY <2>12 DEF PostLaunch, checkpoints
    <3> QED
      BY <3>1, <3>2, OtherMoves
  <2> QED
    BY <1>2, <2>1, <2>2, <2>3, <2>4, <2>5, <2>6, <2>7, <2>8, <2>9, <2>10, <2>11, <2>12
    DEF Proceed
<1> QED
  BY <1>1, <1>2 DEF Next

\* A checkpoint lists exactly the launches between register_kernel and
\* end_kernel_execution, for any number of threads.
THEOREM CheckpointsComplete == Spec => []CheckpointsListRunning
<1>1. Init => Shape /\ ExecsDiffer /\ ListsRunning
  <2> SUFFICES ASSUME Init PROVE ExecsDiffer /\ ListsRunning
    BY ShapeInit
  <2>1. \A t \in Threads : proc[t].pc = "idle"
    BY DEF Init, Idle
  <2>2. active = {}
    BY DEF Init
  <2> QED
    BY <2>1, <2>2 DEF ExecsDiffer, ListsRunning, Numbered, Listed
<1>2. /\ (Shape /\ ExecsDiffer /\ ListsRunning) /\ [Next]_vars
         => (Shape /\ ExecsDiffer /\ ListsRunning)'
  BY ShapeStep, RunningStep
<1> QED
  BY <1>1, <1>2, ListsRunningIs, PTL DEF Spec
-----------------------------------------------------------------------------
(***************************************************************************)
(* The trace.  Sequence ids only grow, the launch being recorded is        *)
(* younger than all of the trace, and it leaves its slot when it gets into *)
(* the trace.                                                              *)
(***************************************************************************)
TraceOlder ==
    /\ \A i \in DOMAIN session.trace : session.trace[i].seq < session.nextSeq
    /\ session.current # NoLaunch =>
           /\ session.current.seq < session.nextSeq
           /\ \A i \in DOMAIN session.trace : session.trace[i].seq < session.current.seq

\* Sequences that end in something greater than all before stay in order.
LEMMA AppendInOrder ==
    ASSUME NEW s \in Seq(Entry), NEW e \in Entry, NEW n \in Nat, e.seq < n,
           \A i \in DOMAIN s : s[i].seq < e.seq,
           \A i, j \in DOMAIN s : i < j => s[i].seq < s[j].seq
    PROVE  /\ \A i \in DOMAIN Append(s, e) : Append(s, e)[i].seq < n
           /\ \A i, j \in DOMAIN Append(s, e) :
                  i < j => Append(s, e)[i].seq < Append(s, e)[j].seq
<1>1. /\ DOMAIN s = 1 .. Len(s) /\ Len(s) \in Nat
      /\ DOMAIN Append(s, e) = 1 .. Len(s) + 1
      /\ \A i \in 1 .. Len(s) : Append(s, e)[i] = s[i] /\ s[i] \in Entry
      /\ Append(s, e)[Len(s) + 1] = e
  BY SMT
<1>2. e.seq \in Nat /\ \A i \in 1 .. Len(s) : s[i].seq \in Nat
  BY <1>1 DEF Entry
<1>3. \A i \in DOMAIN Append(s, e) : i \in 1 .. Len(s) \/ i = Len(s) + 1
  BY <1>1, SMT
<1>4. \A i \in DOMAIN Append(s, e) : Append(s, e)[i].seq < n
  BY <1>1, <1>2, <1>3, SMT
<1>5. \A i, j \in DOMAIN Append(s, e) :
          i < j => Append(s, e)[i].seq < Append(s, e)[j].seq
  BY <1>1, <1>2, <1>3, SMT
<1> QED
  BY <1>4, <1>5

\* Every step keeps the trace in order and older than what comes next.
LEMMA TraceStep ==
    ASSUME Shape, TraceOlder, TraceInOrder, [Next]_vars
    PROVE  TraceOlder' /\ TraceInOrder'
<1>1. /\ session.nextSeq \in Nat /\ session.trace \in Seq(Entry)
      /\ session.current \in Entry
  BY DEF Shape, Session
<1>2. CASE session' = session
  BY <1>2 DEF TraceOlder, TraceInOrder
<1>3. CASE StartRecording
  <2>1. session'.current = NoLaunch /\ session'.trace = << >>
    BY <1>3, NoneTyped DEF StartRecording, NoSession
  <2> QED
    BY <2>1, SMT DEF TraceOlder, TraceInOrder
<1>4. CASE StopRecording
  <2>1. /\ session'.nextSeq = session.nextSeq /\ session'.current = session.current
        /\ session'.trace = session.trace
    BY <1>4 DEF StopRecording, Shape, Session
  <2> QED
    BY <2>1 DEF TraceOlder, TraceInOrder
<1>5. ASSUME NEW t \in Threads, PreLaunch(t), session' # session
      PROVE  TraceOlder' /\ TraceInOrder'
  <2>1. /\ session'.nextSeq = session.nextSeq + 1 /\ session'.current = Current(t)
        /\ session'.trace = session.trace
    BY <1>5, PreLaunchMoves
  <2>2. Current(t).seq = session.nextSeq
    BY DEF Current
  <2>3. \A i \in DOMAIN session.trace : session.trace[i].seq \in Nat
    <3>1. PICK s \in Seq(Entry) : s = session.trace
      BY <1>1
    <3>2. \A i \in DOMAIN s : s[i] \in Entry
      BY SMT
    <3>3. \A i \in DOMAIN s : s[i].seq \in Nat
      BY <3>2 DEF Entry
    <3> QED
      BY <3>1, <3>3
  <2> QED
    BY <1>1, <2>1, <2>2, <2>3, SMT DEF TraceOlder, TraceInOrder
<1>6. ASSUME NEW t \in Threads, PostLaunch(t), session' # session
      PROVE  TraceOlder' /\ TraceInOrder'
  <2>1. /\ session.current # NoLaunch
        /\ Taken(t) \in Entry /\ Taken(t).seq = session.current.seq
        /\ session'.nextSeq = session.nextSeq /\ session'.current = NoLaunch
        /\ session'.trace = Append(session.trace, Taken(t))
    BY <1>6, PostLaunchSession
  <2>2. /\ Taken(t).seq < session.nextSeq
        /\ \A i \in DOMAIN session.trace : session.trace[i].seq < Taken(t).seq
    BY <2>1 DEF TraceOlder
  <2>3. \A i, j \in DOMAIN session.trace : i < j => session.trace[i].seq < session.trace[j].seq
    BY DEF TraceInOrder
  <2>4. /\ \A i \in DOMAIN session'.trace : session'.trace[i].seq < session.nextSeq
        /\ \A i, j \in DOMAIN session'.trace :
               i < j => session'.trace[i].seq < session'.trace[j].seq
    <3>1. PICK s \in Seq(Entry), e \in Entry, n \in Nat :
              s = session.trace /\ e = Taken(t) /\ n = session.nextSeq
      BY <1>1, <2>1
    <3>2. /\ \A i \in DOMAIN Append(s, e) : Append(s, e)[i].seq < n
          /\ \A i, j \in DOMAIN Append(s, e) :
                 i < j => Append(s, e)[i].seq < Append(s, e)[j].seq
      BY <2>2, <2>3, <3>1, AppendInOrder
    <3> QED
      BY <2>1, <3>1, <3>2
  <2> QED
    BY <2>1, <2>4 DEF TraceOlder, TraceInOrder
<1> QED
  BY <1>2, <1>3, <1>4, <1>5, <1>6
  DEF Next, Proceed, vars, Request, Call, SeeFlag, ClearFlag, Save, Number, Register,
      AskRecording, Run, End, AskRecordingAgain, recording

\* A trace is in the order of its sequence ids and has each once, for any number
\* of threads and launches, and whatever threads take each other's launch.
THEOREM TraceOrdered == Spec => []TraceInOrder
<1>1. Init => Shape /\ TraceOlder /\ TraceInOrder
  <2> SUFFICES ASSUME Init PROVE TraceOlder /\ TraceInOrder
    BY ShapeInit
  <2>1. session.current = NoLaunch /\ session.trace = << >>
    BY DEF Init, NoSession
  <2> QED
    BY <2>1, SMT DEF TraceOlder, TraceInOrder
<1>2. /\ (Shape /\ TraceOlder /\ TraceInOrder) /\ [Next]_vars
         => (Shape /\ TraceOlder /\ TraceInOrder)'
  BY ShapeStep, TraceStep
<1> QED
  BY <1>1, <1>2, PTL DEF Spec
-----------------------------------------------------------------------------
(***************************************************************************)
(* Who records what.  A launch without a number of a session never looks   *)
(* for a launch to record; one with a number finds its own, or one that    *)
(* was taken down when it already had its number.                          *)
(***************************************************************************)
Recorder == {"run", "end", "ask", "post"}

OwnLaunch ==
    /\ \A t \in Threads : proc[t].pc \notin Recorder => proc[t].seq = 0
    /\ \A t \in Threads : proc[t].pc \in {"ask", "post"} => proc[t].seq > 0
    /\ \A t \in Threads : WillRecord(t) /\ session.current # NoLaunch
                          => \/ session.current.exec = proc[t].exec
                             \/ session.current.mixed

\* A step that leaves the launch being recorded alone keeps this, if its thread
\* does not get a number by it.
LEMMA OwnMoves ==
    ASSUME OwnLaunch, NEW t \in Threads, NEW from, NEW to, Moves(t, from, {to}),
           session'.current = session.current,
           from \in Recorder /\ to \in Recorder => Keeps(t),
           from \notin Recorder \/ to \notin Recorder => proc'[t].seq = 0,
           to \in {"ask", "post"} => proc'[t].seq > 0
    PROVE  OwnLaunch'
<1>1. \A u \in Threads \ {t} : proc'[u] = proc[u]
  BY DEF Moves
<1>2. proc[t].pc = from /\ proc'[t].pc = to
  BY DEF Moves
<1>3. \A u \in Threads : proc'[u].pc \notin Recorder => proc'[u].seq = 0
  BY <1>1, <1>2 DEF OwnLaunch
<1>4. \A u \in Threads : proc'[u].pc \in {"ask", "post"} => proc'[u].seq > 0
  BY <1>1, <1>2 DEF OwnLaunch
<1>5. \A u \in Threads : WillRecord(u)' => WillRecord(u) /\ proc'[u].exec = proc[u].exec
  BY <1>1, <1>2, SMT DEF WillRecord, Recorder, Keeps
<1> QED
  BY <1>3, <1>4, <1>5 DEF OwnLaunch

\* Every step keeps the current launch with its own thread, or marked.
LEMMA OwnStep ==
    ASSUME Shape, OwnLaunch, RecordedByItself, [Next]_vars
    PROVE  OwnLaunch' /\ RecordedByItself'
<1>1. OwnLaunch'
  <2>1. CASE UNCHANGED vars \/ Request
    BY <2>1 DEF vars, Request, recording, OwnLaunch, WillRecord
  <2>2. CASE StartRecording
    <3>1. session'.current = NoLaunch /\ proc' = proc
      BY <2>2, NoneTyped DEF StartRecording, NoSession
    <3> QED
      BY <3>1 DEF OwnLaunch, WillRecord
  <2>3. CASE StopRecording
    <3>1. session'.current = session.current /\ proc' = proc
      BY <2>3 DEF StopRecording, Shape, Session
    <3> QED
      BY <3>1 DEF OwnLaunch, WillRecord
  <2>4. ASSUME NEW t \in Threads, Call(t) \/ Proceed(t)
        PROVE  OwnLaunch'
    <3>0. proc[t].pc \notin Recorder => proc[t].seq = 0
      BY DEF OwnLaunch
    <3>1. CASE Call(t)
      <4>1. Moves(t, "idle", {"flag"}) /\ Keeps(t) /\ session' = session
        BY <3>1, StepMoves DEF Call, recording
      <4>2. proc'[t].seq = 0
        BY <3>0, <4>1 DEF Moves, Keeps, Recorder
      <4> QED
        BY <4>1, <4>2, OwnMoves DEF Recorder
    <3>2. CASE SeeFlag(t)
      <4>1. PICK to \in {"clear", "number", "idle"} :
                /\ Moves(t, "flag", {to}) /\ session' = session
                /\ proc'[t].seq = 0 \/ Keeps(t)
        BY <3>2, StepMoves DEF SeeFlag, recording, Ended
      <4>2. proc'[t].seq = 0
        BY <3>0, <4>1 DEF Moves, Keeps, Recorder
      <4> QED
        BY <4>1, <4>2, OwnMoves DEF Recorder
    <3>3. CASE ClearFlag(t)
      <4>1. Moves(t, "clear", {"save"}) /\ Keeps(t) /\ session' = session
        BY <3>3, StepMoves DEF ClearFlag, recording
      <4>2. proc'[t].seq = 0
        BY <3>0, <4>1 DEF Moves, Keeps, Recorder
      <4> QED
        BY <4>1, <4>2, OwnMoves DEF Recorder
    <3>4. CASE Save(t)
      <4>1. PICK to \in {"number", "idle"} :
                /\ Moves(t, "save", {to}) /\ session' = session
                /\ proc'[t].seq = 0 \/ Keeps(t)
        BY <3>4, StepMoves DEF Save, recording, Ended
      <4>2. proc'[t].seq = 0
        BY <3>0, <4>1 DEF Moves, Keeps, Recorder
      <4> QED
        BY <4>1, <4>2, OwnMoves DEF Recorder
    <3>5. CASE Number(t)
      <4>1. Moves(t, "number", {"register"}) /\ proc'[t].seq = proc[t].seq /\ session' = session
        BY <3>5, StepMoves DEF Number, recording
      <4>2. proc'[t].seq = 0
        BY <3>0, <4>1 DEF Moves, Recorder
      <4> QED
        BY <4>1, <4>2, OwnMoves DEF Recorder
    <3>6. CASE Register(t)
      <4>1. Moves(t, "register", {"recording"}) /\ Keeps(t) /\ session' = session
        BY <3>6, StepMoves DEF Register, recording
      <4>2. proc'[t].seq = 0
        BY <3>0, <4>1 DEF Moves, Keeps, Recorder
      <4> QED
        BY <4>1, <4>2, OwnMoves DEF Recorder
    <3>7. CASE AskRecording(t)
      <4>1. PICK to \in {"pre", "run"} :
                Moves(t, "recording", {to}) /\ Keeps(t) /\ session' = session
        BY <3>7, StepMoves DEF AskRecording, recording, Moves
      <4>2. proc'[t].seq = 0
        BY <3>0, <4>1 DEF Moves, Keeps, Recorder
      <4> QED
        BY <4>1, <4>2, OwnMoves DEF Recorder
    <3>8. CASE PreLaunch(t)
      <4>1. Moves(t, "pre", {"run"}) /\ proc'[t].exec = proc[t].exec
        BY <3>8, PreLaunchMoves
      <4>2. CASE session' = session /\ proc'[t].seq = proc[t].seq
        <5>1. proc'[t].seq = 0
          BY <3>0, <4>1, <4>2 DEF Moves, Recorder
        <5> QED
          BY <4>1, <4>2, <5>1, OwnMoves DEF Recorder
      <4>3. CASE session'.current = Current(t)
        <5>1. /\ Current(t).exec = proc[t].exec
              /\ \A u \in Threads \ {t} : WillRecord(u) => Current(t).mixed
          BY DEF Current
        <5>2. \A u \in Threads \ {t} : proc'[u] = proc[u]
          BY <4>1 DEF Moves
        <5>3. \A u \in Threads : proc'[u].pc \notin Recorder => proc'[u].seq = 0
          BY <4>1, <5>2 DEF OwnLaunch, Moves, Recorder
        <5>4. \A u \in Threads : proc'[u].pc \in {"ask", "post"} => proc'[u].seq > 0
          BY <4>1, <5>2 DEF OwnLaunch, Moves
        <5>5. \A u \in Threads : WillRecord(u)' =>
                  session'.current.exec = proc'[u].exec \/ session'.current.mixed
          BY <4>1, <4>3, <5>1, <5>2, SMT DEF WillRecord
        <5> QED
          BY <5>3, <5>4, <5>5 DEF OwnLaunch
      <4> QED
        BY <3>8, <4>2, <4>3, PreLaunchMoves
    <3>9. CASE Run(t)
      <4>1. Moves(t, "run", {"end"}) /\ Keeps(t) /\ session' = session
        BY <3>9, StepMoves DEF Run, recording
      <4> QED
        BY <4>1, OwnMoves DEF Recorder
    <3>10. CASE End(t)
      <4>1. CASE Moves(t, "end", {"ask"}) /\ Keeps(t) /\ proc[t].seq > 0
        BY <3>10, <4>1, OwnMoves DEF End, recording, Recorder, Keeps
      <4>2. CASE Moves(t, "end", {"idle"}) /\ Ended(t)
        BY <3>10, <4>2, OwnMoves DEF End, recording, Recorder, Ended
      <4> QED
        BY <3>10, <4>1, <4>2, StepMoves
    <3>11. CASE AskRecordingAgain(t)
      <4>1. CASE Moves(t, "ask", {"post"}) /\ Keeps(t)
        <5>1. proc'[t].seq > 0
          BY <4>1 DEF OwnLaunch, Moves, Keeps
        <5> QED
          BY <3>11, <4>1, <5>1, OwnMoves DEF AskRecordingAgain, recording, Recorder
      <4>2. CASE Moves(t, "ask", {"idle"}) /\ Ended(t)
        BY <3>11, <4>2, OwnMoves DEF AskRecordingAgain, recording, Recorder, Ended
      <4> QED
        BY <3>11, <4>1, <4>2, StepMoves
    <3>12. CASE PostLaunch(t)
      <4>1. Moves(t, "post", {"idle"}) /\ proc'[t].seq = 0
        BY <3>12, StepMoves DEF Ended
      <4>2. CASE session' = session
        BY <4>1, <4>2, OwnMoves DEF Recorder
      <4>3. CASE session'.current = NoLaunch
        BY <4>1, <4>3 DEF OwnLaunch, Moves
      <4> QED
        BY <3>12, <4>2, <4>3, PostLaunchSession
    <3> QED
      BY <2>4, <3>1, <3>2, <3>3, <3>4, <3>5, <3>6, <3>7, <3>8, <3>9, <3>10, <3>11, <3>12
      DEF Proceed
  <2> QED
    BY <2>1, <2>2, <2>3, <2>4 DEF Next
<1>2. CASE session'.trace = session.trace
  BY <1>1, <1>2 DEF RecordedByItself
<1>3. ASSUME NEW t \in Threads, PostLaunch(t), session' # session
      PROVE  RecordedByItself'
  <2>1. /\ session.current # NoLaunch
        /\ Taken(t).exec = session.current.exec /\ Taken(t).mixed = session.current.mixed
        /\ Taken(t).by = proc[t].exec /\ Taken(t) \in Entry
        /\ session'.trace = Append(session.trace, Taken(t))
    BY <1>3, PostLaunchSession
  <2>2. Taken(t).by = Taken(t).exec \/ Taken(t).mixed
    <3>1. proc[t].pc = "post"
      BY <1>3 DEF PostLaunch, At
    <3>2. WillRecord(t)
      BY <3>1 DEF OwnLaunch, WillRecord
    <3> QED
      BY <2>1, <3>2 DEF OwnLaunch
  <2>3. PICK s \in Seq(Entry), e \in Entry : s = session.trace /\ e = Taken(t)
    BY <2>1 DEF Shape, Session
  <2>4. \A i \in DOMAIN s : s[i].by = s[i].exec \/ s[i].mixed
    BY <2>3 DEF RecordedByItself
  <2>5. \A i \in DOMAIN Append(s, e) :
            (i \in DOMAIN s /\ Append(s, e)[i] = s[i]) \/ Append(s, e)[i] = e
    BY SMT
  <2>6. \A i \in DOMAIN Append(s, e) :
            Append(s, e)[i].by = Append(s, e)[i].exec \/ Append(s, e)[i].mixed
    BY <2>2, <2>3, <2>4, <2>5
  <2> QED
    BY <2>1, <2>3, <2>6 DEF RecordedByItself
<1>4. CASE StartRecording
  <2>1. session'.trace = << >>
    BY <1>4 DEF StartRecording, NoSession
  <2> QED
    BY <1>1, <2>1, SMT DEF RecordedByItself
<1>5. CASE StopRecording
  <2>1. session'.trace = session.trace
    BY <1>5 DEF StopRecording, Shape, Session
  <2> QED
    BY <1>2, <2>1
<1>6. ASSUME NEW t \in Threads, PreLaunch(t)
      PROVE  session'.trace = session.trace
  BY <1>6, PreLaunchMoves
<1>7. \/ session' = session \/ StartRecording \/ StopRecording
      \/ \E t \in Threads : PreLaunch(t) \/ PostLaunch(t)
  BY DEF Next, Proceed, vars, Request, Call, SeeFlag, ClearFlag, Save, Number, Register,
         AskRecording, Run, End, AskRecordingAgain, recording
<1> QED
  BY <1>1, <1>2, <1>3, <1>4, <1>5, <1>6, <1>7

\* A launch is recorded by its own end, unless another launch with a number was
\* under way when it was taken down: for any number of threads.
THEOREM RecordedByOwnEnd == Spec => []RecordedByItself
<1>1. Init => Shape /\ OwnLaunch /\ RecordedByItself
  <2> SUFFICES ASSUME Init PROVE OwnLaunch /\ RecordedByItself
    BY ShapeInit
  <2>1. session.current = NoLaunch /\ session.trace = << >>
    BY DEF Init, NoSession
  <2>2. \A t \in Threads : proc[t].pc = "idle" /\ proc[t].seq = 0
    BY DEF Init, Idle
  <2> QED
    BY <2>1, <2>2, SMT DEF OwnLaunch, RecordedByItself
<1>2. /\ (Shape /\ OwnLaunch /\ RecordedByItself) /\ [Next]_vars
         => (Shape /\ OwnLaunch /\ RecordedByItself)'
  BY ShapeStep, OwnStep
<1> QED
  BY <1>1, <1>2, PTL DEF Spec
-----------------------------------------------------------------------------
(***************************************************************************)
(* The counters stay in their ranges.  A launch that has called and has no *)
(* execution id yet has one reserved, and one that has an id and may still *)
(* get a number of the session has that reserved.                          *)
(***************************************************************************)
Unrecorded == {t \in Threads : proc[t].pc \in {"register", "recording", "pre"}}

\* There is room for one more than n below m, for each element of S.
Room(S, n, m) == IsFiniteSet(S) /\ Cardinality(S) + n <= m

Counted ==
    /\ Room(Unnumbered, nextExec, MaxLaunches)
    /\ Room(Unrecorded, session.nextSeq, nextExec)
    /\ \A t \in Threads : proc[t].pc = "number" => proc[t].call = "launch"

\* How many elements a set has when one joins, leaves, or some go.
LEMMA CountChanges ==
    ASSUME NEW S, IsFiniteSet(S), NEW T, NEW t, T \subseteq S \cup {t}
    PROVE  /\ IsFiniteSet(T) /\ Cardinality(S) \in Nat /\ Cardinality(T) \in Nat
           /\ Cardinality(T) <= Cardinality(S) + 1
           /\ T \subseteq S => Cardinality(T) <= Cardinality(S)
           /\ t \in S /\ t \notin T => Cardinality(T) + 1 <= Cardinality(S)
<1>1. IsFiniteSet(S \cup {t}) /\ Cardinality(S) \in Nat
  BY FS_AddElement, FS_CardinalityType
<1>2. Cardinality(S \cup {t}) <= Cardinality(S) + 1
  BY <1>1, FS_AddElement, SMT
<1>3. IsFiniteSet(T) /\ Cardinality(T) <= Cardinality(S \cup {t})
  BY <1>1, FS_Subset
<1>4. Cardinality(T) \in Nat /\ Cardinality(S \cup {t}) \in Nat
  BY <1>1, <1>3, FS_CardinalityType
<1>5. T \subseteq S => Cardinality(T) <= Cardinality(S)
  BY FS_Subset
<1>6. ASSUME t \in S, t \notin T PROVE Cardinality(T) + 1 <= Cardinality(S)
  <2>1. T \subseteq S \ {t}
    BY <1>6
  <2>2. IsFiniteSet(S \ {t}) /\ Cardinality(S \ {t}) = Cardinality(S) - 1
    BY <1>6, FS_RemoveElement, SMT
  <2>3. Cardinality(T) <= Cardinality(S \ {t})
    BY <2>1, <2>2, FS_Subset
  <2> QED
    BY <1>1, <1>4, <2>2, <2>3, SMT
<1>7. Cardinality(T) <= Cardinality(S) + 1
  BY <1>1, <1>2, <1>3, <1>4, SMT
<1> QED
  BY <1>1, <1>3, <1>4, <1>5, <1>6, <1>7

\* Elements may go, and with each the room kept for it may be used.
LEMMA RoomStays ==
    ASSUME NEW S, NEW T, NEW n \in Nat, NEW m \in Nat, Room(S, n, m), T \subseteq S
    PROVE  /\ \A k \in Nat : k <= n => Room(T, k, m)
           /\ n <= m
           /\ \A t \in S : /\ n + 1 <= m
                           /\ t \notin T => Room(T, n + 1, m)
<1>1. IsFiniteSet(S) /\ Cardinality(S) + n <= m
  BY DEF Room
<1>2. /\ IsFiniteSet(T) /\ Cardinality(S) \in Nat /\ Cardinality(T) \in Nat
      /\ Cardinality(T) <= Cardinality(S)
  BY <1>1, CountChanges
<1>3. \A k \in Nat : k <= n => Room(T, k, m)
  BY <1>1, <1>2, SMT DEF Room
<1>4. n <= m
  BY <1>1, <1>2, SMT
<1>5. ASSUME NEW t \in S PROVE n + 1 <= m /\ (t \notin T => Room(T, n + 1, m))
  <2>1. t \notin T => Cardinality(T) + 1 <= Cardinality(S)
    BY <1>1, CountChanges
  <2>2. Cardinality(S \ {t}) \in Nat /\ Cardinality(S \ {t}) + 1 <= Cardinality(S)
    BY <1>1, CountChanges
  <2>3. n + 1 <= m
    BY <1>1, <1>2, <2>2, SMT
  <2>4. t \notin T => Room(T, n + 1, m)
    BY <1>1, <1>2, <2>1, SMT DEF Room
  <2> QED
    BY <2>3, <2>4
<1> QED
  BY <1>3, <1>4, <1>5

\* An element joins where there is room.
LEMMA RoomTaken ==
    ASSUME NEW S, NEW T, NEW t, NEW n \in Nat, NEW m \in Nat, T \subseteq S \cup {t},
           IsFiniteSet(S), Cardinality(S) + n < m
    PROVE  Room(T, n, m)
<1>1. /\ IsFiniteSet(T) /\ Cardinality(S) \in Nat /\ Cardinality(T) \in Nat
      /\ Cardinality(T) <= Cardinality(S) + 1
  BY CountChanges
<1> QED
  BY <1>1, SMT DEF Room

\* The places of a launch that has no execution id yet, and of one that has.
Waiting == {"flag", "clear", "save", "number"}
Between == {"register", "recording", "pre"}

\* Whether the thread of a step joins or leaves the launches without an id.
LEMMA UnnumberedMoves ==
    ASSUME NEW t \in Threads, NEW from, NEW to, Moves(t, from, to)
    PROVE  /\ Unnumbered' \subseteq Unnumbered \cup {t}
           /\ to \cap Waiting = {} => Unnumbered' \subseteq Unnumbered /\ t \notin Unnumbered'
           /\ from \in Waiting /\ proc'[t].call = proc[t].call => Unnumbered' \subseteq Unnumbered
           /\ proc'[t].call # "launch" => Unnumbered' \subseteq Unnumbered
  BY DEF Moves, Unnumbered, Waiting

\* Whether it joins or leaves those that may still get a number of the session.
LEMMA UnrecordedMoves ==
    ASSUME NEW t \in Threads, NEW from, NEW to, Moves(t, from, to)
    PROVE  /\ Unrecorded' \subseteq Unrecorded \cup {t}
           /\ to \cap Between = {} => Unrecorded' \subseteq Unrecorded /\ t \notin Unrecorded'
           /\ from \in Between => Unrecorded' \subseteq Unrecorded /\ t \in Unrecorded
  BY DEF Moves, Unrecorded, Between

\* At a safe point a thread keeps what it was called for, and only a launch goes on
\* to begin_kernel_execution.
LEMMA CallKept ==
    ASSUME Shape, NEW t \in Threads, SeeFlag(t) \/ ClearFlag(t) \/ Save(t)
    PROVE  \/ proc'[t].pc = "idle"
           \/ /\ proc'[t].call = proc[t].call
              /\ proc'[t].pc = "number" => proc[t].call = "launch"
<1>1. proc \in [Threads -> ProcState]
  BY DEF Shape
<1>2. ASSUME NEW to, Goto(t, to)
      PROVE  proc'[t].call = proc[t].call /\ proc'[t].pc = to
  BY <1>1, <1>2 DEF Goto, ProcState
<1>3. ASSUME proc' = [proc EXCEPT ![t] = Idle]
      PROVE  proc'[t].pc = "idle"
  BY <1>1, <1>3 DEF Idle
<1>4. ASSUME AfterCheckpoint(t)
      PROVE  \/ proc'[t].pc = "idle"
             \/ proc'[t].call = proc[t].call /\ proc[t].call = "launch"
  BY <1>2, <1>3, <1>4 DEF AfterCheckpoint
<1>5. CASE SeeFlag(t)
  <2>1. CASE Goto(t, "clear")
    BY <1>2, <2>1, SMT
  <2> QED
    BY <1>4, <1>5, <2>1 DEF SeeFlag
<1>6. CASE ClearFlag(t)
  <2>1. Goto(t, "save")
    BY <1>6 DEF ClearFlag
  <2> QED
    BY <1>2, <2>1, SMT
<1>7. CASE Save(t)
  BY <1>3, <1>4, <1>7 DEF Save
<1> QED
  BY <1>5, <1>6, <1>7

\* What a step that lets nobody join does to the two counts.
LEMMA NobodyJoins ==
    ASSUME Shape, Counted, Unnumbered' \subseteq Unnumbered, Unrecorded' \subseteq Unrecorded,
           nextExec' = nextExec, session'.nextSeq \in Nat, session'.nextSeq <= session.nextSeq
    PROVE  /\ Room(Unnumbered', nextExec', MaxLaunches)
           /\ Room(Unrecorded', session'.nextSeq, nextExec')
<1>1. nextExec \in Nat /\ session.nextSeq \in Nat /\ MaxLaunches \in Nat
  BY LaunchAssumption DEF Shape, Session
<1>2. Room(Unnumbered, nextExec, MaxLaunches) /\ Room(Unrecorded, session.nextSeq, nextExec)
  BY DEF Counted
<1>3. nextExec <= nextExec
  BY <1>1, SMT
<1>4. Room(Unnumbered', nextExec, MaxLaunches)
  BY <1>1, <1>2, <1>3, RoomStays
<1>5. Room(Unrecorded', session'.nextSeq, nextExec)
  BY <1>1, <1>2, RoomStays
<1> QED
  BY <1>4, <1>5

\* Every step leaves room for the launches under way.
LEMMA CountedStep ==
    ASSUME Shape, Shape', Counted, [Next]_vars
    PROVE  Counted'
<1>0. /\ nextExec \in Nat /\ session.nextSeq \in Nat /\ session'.nextSeq \in Nat
      /\ MaxLaunches \in Nat /\ session.nextSeq <= session.nextSeq
  <2>1. /\ nextExec \in Nat /\ session.nextSeq \in Nat /\ session'.nextSeq \in Nat
        /\ MaxLaunches \in Nat
    BY LaunchAssumption DEF Shape, Session
  <2> QED
    BY <2>1, SMT
<1>1. CASE UNCHANGED vars \/ Request \/ StartRecording \/ StopRecording
  <2>1. proc' = proc /\ nextExec' = nextExec
    BY <1>1 DEF vars, Request, StartRecording, StopRecording, checkpoints
  <2>2. Unnumbered' = Unnumbered /\ Unrecorded' = Unrecorded
    BY <2>1 DEF Unnumbered, Unrecorded
  <2>3. session'.nextSeq <= session.nextSeq
    <3>1. CASE session' = session
      BY <1>0, <3>1
    <3>2. CASE StartRecording
      <4>1. session'.nextSeq = 0
        BY <3>2 DEF StartRecording, NoSession
      <4> QED
        BY <1>0, <4>1, SMT
    <3>3. CASE StopRecording
      <4>1. session'.nextSeq = session.nextSeq
        BY <3>3 DEF StopRecording, Shape, Session
      <4> QED
        BY <1>0, <4>1
    <3> QED
      BY <1>1, <3>1, <3>2, <3>3 DEF vars, Request, recording
  <2> QED
    BY <1>0, <2>1, <2>2, <2>3, NobodyJoins DEF Counted
<1>2. ASSUME NEW t \in Threads, Call(t) \/ Proceed(t)
      PROVE  Counted'
  <2>0. ASSUME NEW from, NEW to, Moves(t, from, to),
               "number" \in to => proc'[t].call = "launch"
        PROVE  \A u \in Threads : proc'[u].pc = "number" => proc'[u].call = "launch"
    BY <2>0 DEF Counted, Moves
  <2>1. CASE Call(t)
    <3>1. Moves(t, "idle", {"flag"}) /\ nextExec' = nextExec /\ session' = session
      BY <2>1, StepMoves DEF Call, checkpoints, recording
    <3>2. \A u \in Threads : proc'[u].pc = "number" => proc'[u].call = "launch"
      <4>1. "number" \notin {"flag"}
        OBVIOUS
      <4> QED
        BY <2>0, <3>1, <4>1
    <3>3. Unrecorded' \subseteq Unrecorded
      <4>1. {"flag"} \cap Between = {}
        BY DEF Between
      <4> QED
        BY <3>1, <4>1, UnrecordedMoves
    <3>4. CASE proc'[t].call # "launch"
      <4>1. Unnumbered' \subseteq Unnumbered
        BY <3>1, <3>4, UnnumberedMoves
      <4> QED
        BY <1>0, <3>1, <3>2, <3>3, <4>1, NobodyJoins DEF Counted
    <3>5. CASE proc'[t].call = "launch"
      <4>1. Cardinality(Unnumbered) + nextExec < MaxLaunches
        <5>1. PICK c \in {"launch", "sync"} :
                  /\ c = "launch" => Cardinality(Unnumbered) + nextExec < MaxLaunches
                  /\ proc' = [proc EXCEPT ![t].pc = "flag", ![t].call = c]
          BY <2>1 DEF Call
        <5>2. proc'[t].call = c
          BY <5>1, SMT DEF Shape, ProcState
        <5> QED
          BY <3>5, <5>1, <5>2
      <4>2. IsFiniteSet(Unnumbered) /\ Unnumbered' \subseteq Unnumbered \cup {t}
        BY <3>1, UnnumberedMoves DEF Counted, Room
      <4>3. Room(Unnumbered', nextExec, MaxLaunches)
        BY <1>0, <4>1, <4>2, RoomTaken
      <4>4. Room(Unrecorded', session.nextSeq, nextExec)
        BY <1>0, <3>3, RoomStays DEF Counted
      <4> QED
        BY <3>1, <3>2, <4>3, <4>4 DEF Counted
    <3> QED
      BY <3>4, <3>5
  <2>2. CASE SeeFlag(t) \/ ClearFlag(t) \/ Save(t)
    <3>1. PICK from \in Waiting, to \in {"clear", "save", "number", "idle"} :
              Moves(t, from, {to})
      BY <2>2, StepMoves DEF Waiting
    <3>2. nextExec' = nextExec /\ session' = session
      BY <2>2 DEF SeeFlag, ClearFlag, Save, checkpoints, recording
    <3>3. proc'[t].pc = to
      BY <3>1 DEF Moves
    <3>4. \A u \in Threads : proc'[u].pc = "number" => proc'[u].call = "launch"
      <4>1. "number" \in {to} => proc'[t].call = "launch"
        BY <2>2, <3>3, CallKept, SMT
      <4> QED
        BY <2>0, <3>1, <4>1
    <3>5. Unnumbered' \subseteq Unnumbered
      <4>1. CASE to = "idle"
        <5>1. {to} \cap Waiting = {}
          BY <4>1 DEF Waiting
        <5> QED
          BY <3>1, <5>1, UnnumberedMoves
      <4>2. CASE to # "idle"
        <5>1. proc'[t].call = proc[t].call
          BY <2>2, <3>3, <4>2, CallKept
        <5> QED
          BY <3>1, <5>1, UnnumberedMoves
      <4> QED
        BY <4>1, <4>2
    <3>6. Unrecorded' \subseteq Unrecorded
      <4>1. {to} \cap Between = {}
        BY DEF Between
      <4> QED
        BY <3>1, <4>1, UnrecordedMoves
    <3> QED
      BY <1>0, <3>2, <3>4, <3>5, <3>6, NobodyJoins DEF Counted
  <2>3. CASE Number(t)
    <3>1. /\ Moves(t, "number", {"register"}) /\ nextExec' = nextExec + 1
          /\ session' = session
      BY <2>3, StepMoves DEF Number, recording
    <3>2. t \in Unnumbered
      BY <3>1 DEF Counted, Moves, Unnumbered
    <3>3. Unnumbered' \subseteq Unnumbered /\ t \notin Unnumbered'
      <4>1. {"register"} \cap Waiting = {}
        BY DEF Waiting
      <4> QED
        BY <3>1, <4>1, UnnumberedMoves
    <3>4. Room(Unnumbered', nextExec + 1, MaxLaunches)
      BY <1>0, <3>2, <3>3, RoomStays DEF Counted
    <3>5. Room(Unrecorded', session.nextSeq, nextExec + 1)
      <4>1. IsFiniteSet(Unrecorded) /\ Cardinality(Unrecorded) + session.nextSeq <= nextExec
        BY DEF Counted, Room
      <4>2. Cardinality(Unrecorded) \in Nat
        BY <4>1, FS_CardinalityType
      <4>3. Cardinality(Unrecorded) + session.nextSeq < nextExec + 1 /\ nextExec + 1 \in Nat
        BY <1>0, <4>1, <4>2, SMT
      <4>4. Unrecorded' \subseteq Unrecorded \cup {t}
        BY <3>1, UnrecordedMoves
      <4> QED
        BY <1>0, <4>1, <4>3, <4>4, RoomTaken
    <3>6. \A u \in Threads : proc'[u].pc = "number" => proc'[u].call = "launch"
      <4>1. "number" \notin {"register"}
        OBVIOUS
      <4> QED
        BY <2>0, <3>1, <4>1
    <3> QED
      BY <3>1, <3>4, <3>5, <3>6 DEF Counted
  <2>4. ASSUME NEW from, NEW to \in {"recording", "pre", "run", "end", "ask", "post", "idle"},
               Moves(t, from, {to}), to \in Between => from \in Between
        PROVE  /\ Unnumbered' \subseteq Unnumbered /\ Unrecorded' \subseteq Unrecorded
               /\ to \notin Between => t \notin Unrecorded'
               /\ \A u \in Threads : proc'[u].pc = "number" => proc'[u].call = "launch"
    <3>1. {to} \cap Waiting = {} /\ "number" \notin {to}
      BY DEF Waiting
    <3>2. to \notin Between => {to} \cap Between = {}
      OBVIOUS
    <3>3. Unnumbered' \subseteq Unnumbered
      BY <2>4, <3>1, UnnumberedMoves
    <3>4. Unrecorded' \subseteq Unrecorded /\ (to \notin Between => t \notin Unrecorded')
      BY <2>4, <3>2, UnrecordedMoves
    <3>5. \A u \in Threads : proc'[u].pc = "number" => proc'[u].call = "launch"
      BY <2>0, <2>4, <3>1
    <3> QED
      BY <3>3, <3>4, <3>5
  <2>5. CASE \/ Register(t) \/ AskRecording(t) \/ Run(t) \/ End(t)
             \/ AskRecordingAgain(t) \/ PostLaunch(t)
    <3>1. nextExec' = nextExec /\ session'.nextSeq = session.nextSeq
      <4>1. CASE PostLaunch(t)
        BY <4>1, PostLaunchSession DEF PostLaunch, checkpoints
      <4> QED
        BY <2>5, <4>1
        DEF Register, AskRecording, Run, End, AskRecordingAgain, checkpoints, recording
    <3>2. PICK from \in Pcs, to \in {"recording", "pre", "run", "end", "ask", "post", "idle"} :
              Moves(t, from, {to}) /\ (to \in Between => from \in Between)
      <4>1. CASE Register(t)
        BY <4>1, StepMoves DEF Between, Pcs
      <4>2. CASE AskRecording(t)
        BY <4>2, StepMoves DEF Between, Pcs, Moves
      <4>3. CASE Run(t)
        BY <4>3, StepMoves DEF Between, Pcs
      <4>4. CASE End(t)
        BY <4>4, StepMoves DEF Between, Pcs
      <4>5. CASE AskRecordingAgain(t)
        BY <4>5, StepMoves DEF Between, Pcs
      <4>6. CASE PostLaunch(t)
        BY <4>6, StepMoves DEF Between, Pcs
      <4> QED
        BY <2>5, <4>1, <4>2, <4>3, <4>4, <4>5, <4>6
    <3> QED
      BY <1>0, <2>4, <3>1, <3>2, NobodyJoins DEF Counted
  <2>6. CASE PreLaunch(t)
    <3>1. Moves(t, "pre", {"run"}) /\ nextExec' = nextExec
      BY <2>6, PreLaunchMoves DEF PreLaunch, checkpoints
    <3>2. /\ Unnumbered' \subseteq Unnumbered /\ Unrecorded' \subseteq Unrecorded
          /\ t \notin Unrecorded' /\ t \in Unrecorded
          /\ \A u \in Threads : proc'[u].pc = "number" => proc'[u].call = "launch"
      BY <2>4, <3>1, UnrecordedMoves DEF Between
    <3>3. CASE session' = session
      BY <1>0, <3>1, <3>2, <3>3, NobodyJoins DEF Counted
    <3>4. CASE session'.nextSeq = session.nextSeq + 1
      <4>1. Room(Unrecorded', session.nextSeq + 1, nextExec)
        <5>1. Room(Unrecorded, session.nextSeq, nextExec)
          BY DEF Counted
        <5> QED
          BY <1>0, <3>2, <5>1, RoomStays
      <4>2. Room(Unnumbered', nextExec, MaxLaunches)
        <5>1. nextExec <= nextExec
          BY <1>0, SMT
        <5> QED
          BY <1>0, <3>2, <5>1, RoomStays DEF Counted
      <4> QED
        BY <3>1, <3>2, <3>4, <4>1, <4>2 DEF Counted
    <3> QED
      BY <2>6, <3>3, <3>4, PreLaunchMoves
  <2> QED
    BY <1>2, <2>1, <2>2, <2>3, <2>5, <2>6 DEF Proceed
<1> QED
  BY <1>1, <1>2 DEF Next

\* The launches, and what the threads and the session know of them, within the
\* bounds.
Bounded(p) ==
    /\ p.exec \in 0 .. MaxLaunches /\ p.seq \in Execs \cup {0}
    /\ p.pc \in Numbered => p.exec \in Execs

Bounds ==
    /\ \A t \in Threads : Bounded(proc[t])
    /\ active \subseteq Execs
    /\ session.current \in Launch \cup {NoLaunch} /\ session.trace \in Seq(Launch)
    /\ asked <= MaxRequests /\ answered <= MaxRequests
    /\ recordings \in 0 .. MaxRecordings

\* Shape, the counts and the bounds are TypeOK.
LEMMA BoundsTyped == Shape /\ Counted /\ Bounds => TypeOK
<1> SUFFICES ASSUME Shape, Counted, Bounds PROVE TypeOK
  OBVIOUS
<1>0. /\ nextExec \in Nat /\ session.nextSeq \in Nat /\ MaxLaunches \in Nat
      /\ asked \in Nat /\ answered \in Nat /\ MaxRequests \in Nat
      /\ session \in Session
  BY LaunchAssumption DEF Shape, Session
<1>1. nextExec <= MaxLaunches /\ session.nextSeq <= nextExec
  BY <1>0, RoomStays DEF Counted
<1>2. nextExec \in 0 .. MaxLaunches /\ session.nextSeq \in 0 .. MaxLaunches
  BY <1>0, <1>1, SMT
<1>3. asked \in 0 .. MaxRequests /\ answered \in 0 .. MaxRequests
  BY <1>0, SMT DEF Bounds
<1>4. session \in [active : BOOLEAN, nextSeq : 0 .. MaxLaunches,
                   current : Launch \cup {NoLaunch}, trace : Seq(Launch)]
  <2>1. session.current \in Launch \cup {NoLaunch} /\ session.trace \in Seq(Launch)
    BY DEF Bounds
  <2> QED
    BY <1>0, <1>2, <2>1 DEF Session
<1>5. ASSUME NEW t \in Threads
      PROVE  proc[t] \in [pc : Pcs, call : {"launch", "sync"}, exec : 0 .. MaxLaunches,
                          seq : Execs \cup {0}, native : BOOLEAN]
  <2>1. proc[t] \in ProcState
    BY DEF Shape
  <2>2. proc[t].exec \in 0 .. MaxLaunches /\ proc[t].seq \in Execs \cup {0}
    BY DEF Bounds, Bounded
  <2> QED
    BY <2>1, <2>2 DEF ProcState
<1>6. proc \in [Threads -> [pc : Pcs, call : {"launch", "sync"}, exec : 0 .. MaxLaunches,
                            seq : Execs \cup {0}, native : BOOLEAN]]
  BY <1>5 DEF Shape
<1>7. \A t \in Threads : proc[t].pc \in Numbered => proc[t].exec \in Execs
  BY DEF Bounds, Bounded
<1> QED
  BY <1>2, <1>3, <1>4, <1>6, <1>7 DEF TypeOK, Pcs, Numbered, Bounds, Shape

\* What is nothing is within the bounds.
LEMMA NothingBounded == NoExec \in 0 .. MaxLaunches /\ 0 \in Execs \cup {0}
  BY LaunchAssumption, SMT DEF NoExec

\* A launch that is to get a number gets one within the bounds.
LEMMA NumbersBounded ==
    ASSUME Shape, Counted, NEW t \in Threads
    PROVE  /\ At(t, "number") => nextExec \in Execs /\ nextExec \in 0 .. MaxLaunches
           /\ At(t, "pre") => session.nextSeq \in Execs
<1>0. nextExec \in Nat /\ session.nextSeq \in Nat /\ MaxLaunches \in Nat
  BY LaunchAssumption DEF Shape, Session
<1>1. Room(Unnumbered, nextExec, MaxLaunches) /\ Room(Unrecorded, session.nextSeq, nextExec)
  BY DEF Counted
<1>2. nextExec <= MaxLaunches
  BY <1>0, <1>1, RoomStays
<1>3. ASSUME At(t, "number") PROVE nextExec \in Execs /\ nextExec \in 0 .. MaxLaunches
  <2>1. t \in Unnumbered
    BY <1>3 DEF At, Counted, Unnumbered
  <2>2. nextExec + 1 <= MaxLaunches
    BY <1>0, <1>1, <2>1, RoomStays
  <2> QED
    BY <1>0, <2>2, SMT DEF Execs
<1>4. ASSUME At(t, "pre") PROVE session.nextSeq \in Execs
  <2>1. t \in Unrecorded
    BY <1>4 DEF At, Unrecorded
  <2>2. session.nextSeq + 1 <= nextExec
    BY <1>0, <1>1, <2>1, RoomStays
  <2> QED
    BY <1>0, <1>2, <2>2, SMT DEF Execs
<1> QED
  BY <1>3, <1>4

\* Every step keeps what the threads know of their launches within the bounds.
LEMMA ProcsBounded ==
    ASSUME Shape, Counted, Bounds, NEW t \in Threads, Call(t) \/ Proceed(t)
    PROVE  \A u \in Threads : Bounded(proc'[u])
<1>0. Bounded(proc[t])
  BY DEF Bounds
<1>1. ASSUME NEW from, NEW to, Moves(t, from, to), Bounded(proc'[t])
      PROVE  \A u \in Threads : Bounded(proc'[u])
  BY <1>1 DEF Bounds, Moves
<1>2. ASSUME NEW from, Moves(t, from, {"idle"}), Ended(t)
      PROVE  Bounded(proc'[t])
  BY <1>2, NothingBounded DEF Bounded, Ended, Moves, Numbered
<1>3. ASSUME NEW from, NEW to, Moves(t, from, {to}), Keeps(t),
             to \in Numbered => from \in Numbered
      PROVE  Bounded(proc'[t])
  BY <1>0, <1>3 DEF Bounded, Keeps, Moves
<1> USE DEF Numbered
<1>4. CASE Call(t)
  BY <1>1, <1>3, <1>4, StepMoves
<1>5. CASE SeeFlag(t)
  BY <1>1, <1>2, <1>3, <1>5, StepMoves
<1>6. CASE ClearFlag(t)
  BY <1>1, <1>3, <1>6, StepMoves
<1>7. CASE Save(t)
  BY <1>1, <1>2, <1>3, <1>7, StepMoves
<1>8. CASE Number(t)
  <2>1. /\ Moves(t, "number", {"register"})
        /\ proc'[t].exec = nextExec /\ proc'[t].seq = proc[t].seq
    BY <1>8, StepMoves
  <2>2. nextExec \in Execs /\ nextExec \in 0 .. MaxLaunches
    BY <1>8, NumbersBounded DEF Number
  <2>3. Bounded(proc'[t])
    BY <1>0, <2>1, <2>2 DEF Bounded
  <2> QED
    BY <1>1, <2>1, <2>3
<1>9. CASE Register(t)
  BY <1>1, <1>3, <1>9, StepMoves
<1>10. CASE AskRecording(t)
  <2>1. PICK to \in {"pre", "run"} : Moves(t, "recording", {to}) /\ Keeps(t)
    BY <1>10, StepMoves DEF Moves
  <2> QED
    BY <1>1, <1>3, <2>1
<1>11. CASE PreLaunch(t)
  <2>1. Moves(t, "pre", {"run"}) /\ proc'[t].exec = proc[t].exec
    BY <1>11, PreLaunchMoves
  <2>2. proc'[t].seq = proc[t].seq \/ proc'[t].seq = session.nextSeq
    BY <1>11, PreLaunchMoves
  <2>3. session.nextSeq \in Execs
    BY <1>11, NumbersBounded DEF PreLaunch
  <2>4. Bounded(proc'[t])
    BY <1>0, <2>1, <2>2, <2>3 DEF Bounded, Moves
  <2> QED
    BY <1>1, <2>1, <2>4
<1>12. CASE Run(t)
  BY <1>1, <1>3, <1>12, StepMoves
<1>13. CASE End(t)
  BY <1>1, <1>2, <1>3, <1>13, StepMoves
<1>14. CASE AskRecordingAgain(t)
  BY <1>1, <1>2, <1>3, <1>14, StepMoves
<1>15. CASE PostLaunch(t)
  BY <1>1, <1>2, <1>15, StepMoves
<1> QED
  BY <1>4, <1>5, <1>6, <1>7, <1>8, <1>9, <1>10, <1>11, <1>12, <1>13, <1>14, <1>15
  DEF Proceed

\* And what the session holds of them.
LEMMA SessionBounded ==
    ASSUME Shape, Counted, Bounds, [Next]_vars
    PROVE  session'.current \in Launch \cup {NoLaunch} /\ session'.trace \in Seq(Launch)
<1>0. session.current \in Launch \cup {NoLaunch} /\ session.trace \in Seq(Launch)
  BY DEF Bounds
<1>1. CASE session' = session
  BY <1>0, <1>1
<1>2. CASE StartRecording
  <2>1. session'.current = NoLaunch /\ session'.trace = << >>
    BY <1>2, NoneTyped DEF StartRecording, NoSession
  <2>2. << >> \in Seq(Launch)
    BY SMT
  <2> QED
    BY <2>1, <2>2
<1>3. CASE StopRecording
  <2>1. session'.current = session.current /\ session'.trace = session.trace
    BY <1>3 DEF StopRecording, Shape, Session
  <2> QED
    BY <1>0, <2>1
<1>4. ASSUME NEW t \in Threads, PreLaunch(t), session' # session
      PROVE  session'.current \in Launch /\ session'.trace = session.trace
  <2>1. session'.current = Current(t) /\ session'.trace = session.trace
    BY <1>4, PreLaunchMoves
  <2>2. session.nextSeq \in Execs
    BY <1>4, NumbersBounded DEF PreLaunch
  <2>3. proc[t].exec \in Execs
    BY <1>4 DEF PreLaunch, At, Bounds, Bounded, Numbered
  <2>4. (\E u \in Threads \ {t} : WillRecord(u)) \in BOOLEAN
    OBVIOUS
  <2>5. Current(t) \in Launch
    BY <2>2, <2>3, <2>4 DEF Current, Launch
  <2> QED
    BY <2>1, <2>5
<1>5. ASSUME NEW t \in Threads, PostLaunch(t), session' # session
      PROVE  session'.current = NoLaunch /\ session'.trace \in Seq(Launch)
  <2>1. /\ session.current # NoLaunch /\ session'.current = NoLaunch
        /\ session'.trace = Append(session.trace, Taken(t))
    BY <1>5, PostLaunchSession
  <2>2. session.current \in Launch
    BY <1>0, <2>1
  <2>3. proc[t].exec \in Execs \cup {NoExec}
    BY LaunchAssumption, SMT DEF Bounds, Bounded, Execs, NoExec
  <2>4. Taken(t) \in Launch
    BY <2>2, <2>3 DEF Taken, Launch
  <2> QED
    BY <1>0, <2>1, <2>4, SMT
<1> QED
  BY <1>0, <1>1, <1>2, <1>3, <1>4, <1>5
  DEF Next, Proceed, vars, Request, Call, SeeFlag, ClearFlag, Save, Number, Register,
      AskRecording, Run, End, AskRecordingAgain, recording

\* Every step stays within the bounds.
LEMMA BoundsStep ==
    ASSUME Shape, Counted, Bounds, [Next]_vars
    PROVE  Bounds'
<1>1. \A t \in Threads : Bounded(proc'[t])
  <2>1. CASE proc' = proc
    BY <2>1 DEF Bounds
  <2> QED
    BY <2>1, ProcsBounded DEF Next, vars, Request, StartRecording, StopRecording
<1>2. active' \subseteq Execs
  <2>1. ASSUME NEW t \in Threads, Register(t)
        PROVE  active' \subseteq Execs
    BY <2>1 DEF Register, At, Bounds, Bounded, Numbered
  <2>2. ASSUME NEW t \in Threads, End(t)
        PROVE  active' \subseteq Execs
    BY <2>2 DEF End, Bounds
  <2>3. CASE active' = active
    BY <2>3 DEF Bounds
  <2> QED
    BY <2>1, <2>2, <2>3
    DEF Next, Proceed, vars, Request, StartRecording, StopRecording, Call, SeeFlag, ClearFlag,
        Save, Number, AskRecording, PreLaunch, Run, AskRecordingAgain, PostLaunch, checkpoints
<1>3. asked' <= MaxRequests /\ answered' <= MaxRequests
  <2>1. \/ asked < MaxRequests /\ asked' = asked + 1 /\ answered' = answered
        \/ asked' = asked /\ answered' \in {asked, answered}
    BY DEF Next, Proceed, vars, Request, StartRecording, StopRecording, Call, SeeFlag,
           ClearFlag, Save, Number, Register, AskRecording, PreLaunch, Run, End,
           AskRecordingAgain, PostLaunch, checkpoints
  <2> QED
    BY <2>1, LaunchAssumption, SMT DEF Shape, Bounds
<1>4. recordings' \in 0 .. MaxRecordings
  <2>1. \/ recordings < MaxRecordings /\ recordings' = recordings + 1
        \/ recordings' = recordings
    BY DEF Next, Proceed, vars, Request, StartRecording, StopRecording, Call, SeeFlag,
           ClearFlag, Save, Number, Register, AskRecording, PreLaunch, Run, End,
           AskRecordingAgain, PostLaunch, recording
  <2> QED
    BY <2>1, LaunchAssumption, SMT DEF Bounds
<1> QED
  BY <1>1, <1>2, <1>3, <1>4, SessionBounded DEF Bounds

\* The variables keep their types and their bounds: no launch is numbered beyond
\* the ids of the model, however calls, safe points and recordings interleave.
THEOREM LaunchesTyped == Spec => []TypeOK
<1>1. Init => Shape /\ Counted /\ Bounds
  <2> SUFFICES ASSUME Init PROVE Counted /\ Bounds
    BY ShapeInit
  <2>0. MaxLaunches \in Nat /\ MaxRequests \in Nat /\ MaxRecordings \in Nat
    BY LaunchAssumption
  <2>1. \A t \in Threads : proc[t] = Idle /\ proc[t].pc = "idle"
    BY DEF Init, Idle
  <2>2. /\ nextExec = 0 /\ active = {} /\ asked = 0 /\ answered = 0 /\ recordings = 0
        /\ session.current = NoLaunch /\ session.trace = << >> /\ session.nextSeq = 0
    BY DEF Init, NoSession
  <2>3. Unnumbered = {} /\ Unrecorded = {}
    BY <2>1 DEF Unnumbered, Unrecorded
  <2>4. Room({}, 0, MaxLaunches) /\ Room({}, 0, 0)
    BY <2>0, FS_EmptySet, SMT DEF Room
  <2>5. Counted
    BY <2>1, <2>2, <2>3, <2>4 DEF Counted
  <2>6. Bounded(Idle)
    BY NothingBounded DEF Bounded, Idle, Numbered
  <2>7. << >> \in Seq(Launch) /\ 0 <= MaxRequests /\ 0 \in 0 .. MaxRecordings
    BY <2>0, SMT
  <2>8. Bounds
    BY <2>1, <2>2, <2>6, <2>7 DEF Bounds
  <2> QED
    BY <2>5, <2>8
<1>2. (Shape /\ Counted /\ Bounds) /\ [Next]_vars => (Shape /\ Counted /\ Bounds)'
  BY ShapeStep, CountedStep, BoundsStep
<1> QED
  BY <1>1, <1>2, BoundsTyped, PTL DEF Spec
=============================================================================
