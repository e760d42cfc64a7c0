--------------------------- MODULE SifiveJobsProofs ---------------------------
(***************************************************************************)
(* Proofs about the job protocol, for any set of host threads, any mix of  *)
(* jobs, and any number of calls, failed calls, mirrors and restarts.      *)
(***************************************************************************)
EXTENDS SifiveJobs, FiniteSetTheorems, TLAPS

\* Most leaves are first-order reasoning; those with arithmetic cite SMT.
USE Zenon

(***************************************************************************)
(* What the variables are, without the bounds of the model.                *)
(***************************************************************************)
HostPcs == {"idle", "lock", "check", "erase", "marker", "forget", "empty", "payload",
            "header", "doorbell", "wait", "return", "clear"}
JobdPcs == {"boot", "bootscan", "idle", "scan", "found", "matched", "run", "publish",
            "number"}
Run2 == [seq : Nat, args : Nat]
ProcState == [pc : HostPcs, kind : Kinds \cup {"none"}, path : Paths, seq : Nat,
              result : {"ok", "error", "none"}, run : Run2]
SlotState == [seq : Nat, args : Nat]
CompState == [kind : Kinds \cup {"none", "kernel"}, status : {"ok", "error"}, seq : Nat,
              run : Run2]
JobdState == [pc : JobdPcs, via : {"loop", "doorbell", "bootscan"},
              kind : Kinds \cup {"none", "kernel"}, seq : Nat, args : Nat,
              status : {"ok", "error"}, mirror : Nat]
DoorbellState == [kind : Kinds \cup {"none"}, seq : Nat]

HostShape == proc \in [Threads -> ProcState] /\ given \subseteq Nat \ {0}
DdrShape ==
    /\ slot \in [Kinds -> SlotState] /\ comp \in CompState
    /\ doorbell \in DoorbellState /\ (doorbell.seq # 0 => doorbell.kind \in Kinds)
JobdShape ==
    /\ jobd \in JobdState
    /\ jobd.pc \in {"found", "matched", "run"} => jobd.kind \in Kinds
    /\ jobd.pc = "found" => jobd.seq # 0
Shape == HostShape /\ DdrShape /\ JobdShape

(***************************************************************************)
(* The invariant: the threads that have a number are in the critical       *)
(* section, so there is at most one.  Nothing is said of the order of the  *)
(* numbers: a number is only known from one that was not given before.     *)
(***************************************************************************)
Fresh == {"forget", "empty", "payload", "header"}
Staged == {"doorbell", "wait"}
Inside == {"check", "erase", "marker", "return"} \cup Fresh \cup Staged

Exclusive == \A t \in Threads : proc[t].pc \in Inside => lock = t

\* Every number in the shared window and in the daemon's hands is one of N.
Within(N) ==
    /\ \A k \in Kinds : slot[k].seq \in N
    /\ doorbell.seq \in N /\ comp.seq \in N /\ jobd.seq \in N

Known == Within(given \cup {0})
Absent(s) == Within(Nat \ {s})

\* Job s of kind k stands in its slot with its arguments, or its slot was emptied
\* by someone else.  What the daemon does under its number, it does with its
\* arguments, and once the record has its number, no other job of its kind is
\* in the daemon's hands any more.
StagedView(k, s) ==
    /\ slot[k].seq \in {0, s} /\ slot[k].args = s
    /\ \A j \in Kinds \ {k} : slot[j].seq # s
    /\ doorbell.seq # s \/ doorbell = [kind |-> k, seq |-> s]
    /\ jobd.seq = s =>
           /\ jobd.kind \in {k, "kernel"}
           /\ jobd.kind = k /\ jobd.pc \in {"run", "publish", "number"} => jobd.args = s
           /\ jobd.pc = "number" => /\ comp.kind = jobd.kind
                                    /\ comp.run = [seq |-> s, args |-> jobd.args]
    /\ comp.seq = s =>
           /\ jobd.kind = k /\ jobd.pc \in {"matched", "run", "publish", "number"}
              => jobd.seq = s
           /\ comp.kind = k => comp.run = [seq |-> s, args |-> s]

View(t) ==
    /\ proc[t].pc \in Fresh \cup Staged =>
           proc[t].kind \in Kinds /\ proc[t].seq # 0 /\ proc[t].seq \in given
    /\ proc[t].pc = "lock" => proc[t].kind \in Kinds
    /\ proc[t].pc \in {"check", "erase", "marker"} => proc[t].kind \in Kinds
    /\ proc[t].pc \in Fresh => Absent(proc[t].seq)
    /\ proc[t].pc = "header" => slot[proc[t].kind].args = proc[t].seq
    /\ proc[t].pc \in Staged => StagedView(proc[t].kind, proc[t].seq)

Numbers == Known /\ \A t \in Threads : View(t)

\* A call that returns an outcome leaves with its own, AnswersAreOwn.
Inv == Shape /\ Exclusive /\ Numbers /\ AnswersAreOwn
-----------------------------------------------------------------------------
(***************************************************************************)
(* What a step of the daemon does.                                         *)
(***************************************************************************)
Holds == jobd'.kind = jobd.kind /\ jobd'.seq = jobd.seq
HoldsArgs == Holds /\ jobd'.args = jobd.args

\* It has no job in its hands.
Rests == /\ jobd'.pc \in {"boot", "bootscan", "idle", "scan"}
         /\ jobd'.kind = "none" /\ jobd'.seq = 0
\* It takes the job of a slot, or that of the doorbell.
TakesSlot == /\ jobd'.pc \in {"found", "matched"} /\ jobd'.kind \in Kinds
             /\ jobd'.seq = slot[jobd'.kind].seq /\ jobd'.seq # 0
TakesDoorbell == /\ jobd'.pc = "found" /\ doorbell.seq # 0
                 /\ jobd'.kind = doorbell.kind /\ jobd'.seq = doorbell.seq
Marks == jobd'.pc = "publish" /\ jobd'.kind = "kernel" /\ jobd'.seq = doorbell.seq
\* It goes on with the job it has.
Matches == /\ jobd.pc = "found" /\ jobd'.pc = "matched" /\ Holds
           /\ slot[jobd.kind].seq = jobd.seq
Copies == /\ jobd.pc = "matched" /\ jobd'.pc = "run" /\ Holds
          /\ jobd'.args = slot[jobd.kind].args
Runs1 == /\ jobd.pc = "run" /\ jobd'.pc = "publish" /\ HoldsArgs
Publishes == /\ jobd.pc = "publish" /\ jobd'.pc = "number" /\ HoldsArgs
             /\ comp'.kind = jobd.kind /\ comp'.seq = comp.seq
             /\ comp'.run = [seq |-> jobd.seq, args |-> jobd.args]
Concludes == /\ jobd.pc = "number"
             /\ comp'.kind = comp.kind /\ comp'.seq = jobd.seq /\ comp'.run = comp.run
             /\ Rests \/ (jobd'.pc = "publish" /\ HoldsArgs)

DaemonStep ==
    /\ UNCHANGED <<proc, lock, given, slot, doorbell, cleared>>
    /\ jobd' \in JobdState /\ comp' \in CompState
    /\ \/ /\ comp' = comp /\ late' = late
          /\ Rests \/ TakesSlot \/ TakesDoorbell \/ Marks \/ Matches \/ Copies
       \/ /\ comp' = comp /\ Runs1
          /\ late' = [late EXCEPT ![jobd.seq] = IF jobd.seq \in cleared /\ @ < 2
                                                THEN @ + 1 ELSE @]
       \/ /\ late' = late
          /\ Publishes \/ Concludes

\* The daemon without a job.
LEMMA RestingIs ==
    ASSUME NEW pc \in {"boot", "bootscan", "idle", "scan"},
           jobd' = [Resting EXCEPT !.pc = pc]
    PROVE  jobd' \in JobdState /\ Rests
BY DEF Resting, JobdState, JobdPcs, Rests

\* The daemon that is done.
LEMMA IsResting == jobd' = Resting => jobd' \in JobdState /\ Rests
BY SMT DEF Resting, JobdState, JobdPcs, Rests

\* Taking a job.
LEMMA TakeIs ==
    ASSUME NEW pc \in {"found", "matched"}, NEW via \in {"loop", "doorbell", "bootscan"},
           NEW kind \in Kinds, NEW seq \in Nat, Take(pc, via, kind, seq)
    PROVE  /\ jobd' \in JobdState
           /\ jobd'.pc = pc /\ jobd'.kind = kind /\ jobd'.seq = seq
BY DEF Take, Resting, JobdState, JobdPcs

\* Leaving the marker.
LEMMA MarkerIs == DdrShape /\ LeaveMarker => jobd' \in JobdState /\ Marks
<1> SUFFICES ASSUME DdrShape, LeaveMarker PROVE jobd' \in JobdState /\ Marks
  OBVIOUS
<1>1. PICK s \in Nat : s = doorbell.seq
  BY DEF DdrShape, DoorbellState
<1>2. jobd' = [pc |-> "publish", via |-> "loop", kind |-> "kernel", seq |-> s, args |-> 0,
               status |-> "ok", mirror |-> 1]
  BY <1>1 DEF LeaveMarker, Resting
<1> QED
  BY <1>1, <1>2 DEF JobdState, JobdPcs, Marks

\* Looking at the slots, in the loop or while starting.
LEMMA ScanTakes ==
    ASSUME DdrShape, NEW via \in {"loop", "bootscan"},
           \E k \in Kinds : Newest(k) /\ Take("found", via, k, slot[k].seq)
    PROVE  jobd' \in JobdState /\ TakesSlot
<1>1. PICK k \in Kinds : Newest(k) /\ Take("found", via, k, slot[k].seq)
  OBVIOUS
<1>2. slot[k].seq \in Nat
  BY DEF DdrShape, SlotState
<1>3. slot[k].seq # 0
  BY <1>1 DEF Newest, Pending
<1> QED
  BY <1>1, <1>2, <1>3, TakeIs, SMT DEF TakesSlot

\* Every action of the daemon is one of these.
LEMMA DaemonMoves ==
    ASSUME Shape, Jobd \/ Restart
    PROVE  DaemonStep
<1>s. jobd \in JobdState /\ comp \in CompState /\ DdrShape
  BY DEF Shape, JobdShape, DdrShape
<1> USE DEF host, ddr, history
<1>1. CASE PollGemm
  <2>1. CASE DirectGemm
    <3>1. slot["gemm"].seq \in Nat \ {0}
      BY <2>1 DEF Shape, DdrShape, SlotState, DirectGemm, Kinds
    <3>2. Take("matched", "loop", "gemm", slot["gemm"].seq)
      BY <1>1, <2>1 DEF PollGemm
    <3>3. jobd' \in JobdState /\ TakesSlot
      BY <3>1, <3>2, TakeIs DEF TakesSlot, Kinds
    <3> QED
      BY <1>s, <1>1, <3>3 DEF PollGemm, DaemonStep
  <2>2. CASE ~DirectGemm
    BY <1>s, <1>1, <2>2, RestingIs DEF PollGemm, DaemonStep
  <2> QED
    BY <2>1, <2>2
<1>2. CASE ScanSlots
  <2>1. jobd' \in JobdState /\ (TakesSlot \/ Rests)
    BY <1>s, <1>2, ScanTakes, IsResting DEF ScanSlots
  <2> QED
    BY <1>s, <1>2, <2>1 DEF ScanSlots, DaemonStep
<1>3. CASE BootDoorbell
  <2>1. CASE doorbell.seq # 0
    <3>1. Take("found", "doorbell", doorbell.kind, doorbell.seq)
      BY <1>3, <2>1 DEF BootDoorbell
    <3>2. doorbell.seq \in Nat /\ doorbell.kind \in Kinds
      BY <1>s, <2>1 DEF DdrShape, DoorbellState
    <3>3. jobd' \in JobdState /\ TakesDoorbell
      BY <2>1, <3>1, <3>2, TakeIs DEF TakesDoorbell
    <3> QED
      BY <1>s, <1>3, <3>3 DEF BootDoorbell, DaemonStep
  <2>2. CASE doorbell.seq = 0
    BY <1>s, <1>3, <2>2, RestingIs DEF BootDoorbell, DaemonStep
  <2> QED
    BY <2>1, <2>2
<1>4. CASE BootScan
  <2>1. jobd' \in JobdState /\ (TakesSlot \/ Marks)
    BY <1>s, <1>4, ScanTakes, MarkerIs DEF BootScan
  <2> QED
    BY <1>s, <1>4, <2>1 DEF BootScan, DaemonStep
<1>5. CASE MatchHeader
  <2>1. jobd' \in JobdState /\ Matches
    BY <1>s, <1>5 DEF MatchHeader, JobdAt, Matches, Holds, JobdState, JobdPcs
  <2> QED
    BY <1>s, <1>5, <2>1 DEF MatchHeader, DaemonStep
<1>6. CASE ArgsGone
  <2>1. \/ jobd' = Resting \/ jobd' = [Resting EXCEPT !.pc = "bootscan"]
        \/ jobd' = [Resting EXCEPT !.pc = "boot"] \/ LeaveMarker
    BY <1>s, <1>6 DEF ArgsGone, JobdState
  <2>2. jobd' \in JobdState /\ (Rests \/ Marks)
    BY <1>s, <2>1, RestingIs, IsResting, MarkerIs
  <2> QED
    BY <1>s, <1>6, <2>2 DEF ArgsGone, DaemonStep
<1>7. CASE CopyArgs
  <2>0. slot[jobd.kind].args \in Nat
    BY <1>7 DEF Shape, DdrShape, JobdShape, SlotState, CopyArgs, JobdAt
  <2>1. jobd' \in JobdState /\ (Rests \/ Copies)
    <3>1. CASE slot[jobd.kind].args = 0
      BY <1>7, <3>1, IsResting DEF CopyArgs
    <3>2. CASE slot[jobd.kind].args # 0
      <4>1. jobd' = [jobd EXCEPT !.pc = "run", !.args = slot[jobd.kind].args]
        BY <1>7, <3>2 DEF CopyArgs
      <4> QED
        BY <1>s, <1>7, <2>0, <4>1 DEF CopyArgs, JobdAt, Copies, Holds, JobdState, JobdPcs
    <3> QED
      BY <3>1, <3>2
  <2> QED
    BY <1>s, <1>7, <2>1 DEF CopyArgs, DaemonStep
<1>8. CASE Run
  <2>1. PICK st \in {"ok", "error"} :
            jobd' = [jobd EXCEPT !.pc = "publish", !.status = st, !.mirror = 1]
    BY <1>8 DEF Run
  <2>2. jobd' \in JobdState /\ Runs1
    BY <1>s, <1>8, <2>1 DEF Run, JobdAt, Runs1, Holds, HoldsArgs, JobdState, JobdPcs
  <2> QED
    BY <1>s, <1>8, <2>2 DEF Run, DaemonStep
<1>9. CASE PublishStatus
  <2>1. jobd' \in JobdState /\ HoldsArgs /\ jobd'.pc = "number" /\ jobd.pc = "publish"
    BY <1>s, <1>9 DEF PublishStatus, JobdAt, Holds, HoldsArgs, JobdState, JobdPcs
  <2>2. /\ comp' \in CompState /\ comp'.kind = jobd.kind /\ comp'.seq = comp.seq
        /\ comp'.run = [seq |-> jobd.seq, args |-> jobd.args]
    BY <1>s, <1>9 DEF PublishStatus, JobdState, CompState, Run2
  <2> QED
    BY <1>9, <2>1, <2>2 DEF PublishStatus, DaemonStep, Publishes
<1>10. CASE PublishSeq
  <2>1. /\ comp' \in CompState /\ comp'.kind = comp.kind /\ comp'.seq = jobd.seq
        /\ comp'.run = comp.run
    BY <1>s, <1>10 DEF PublishSeq, JobdState, CompState
  <2>2. jobd' \in JobdState /\ (Rests \/ (jobd'.pc = "publish" /\ HoldsArgs))
    <3>1. CASE jobd' = Resting
      BY <3>1, IsResting
    <3>2. CASE jobd' = [jobd EXCEPT !.pc = "publish", !.mirror = @ + 1]
      <4>1. PICK m \in Nat : m = jobd.mirror + 1
        BY <1>s, SMT DEF JobdState
      <4>2. jobd' = [jobd EXCEPT !.pc = "publish", !.mirror = m]
        BY <3>2, <4>1
      <4> QED
        BY <1>s, <4>2 DEF Holds, HoldsArgs, JobdState, JobdPcs
    <3> QED
      BY <1>10, <3>1, <3>2 DEF PublishSeq
  <2> QED
    BY <1>10, <2>1, <2>2 DEF PublishSeq, JobdAt, DaemonStep, Concludes
<1>11. CASE Restart
  BY <1>s, <1>11, RestingIs DEF Restart, DaemonStep
<1> QED
  BY <1>1, <1>2, <1>3, <1>4, <1>5, <1>6, <1>7, <1>8, <1>9, <1>10, <1>11 DEF Jobd
-----------------------------------------------------------------------------
(***************************************************************************)
(* What a step of the daemon keeps.                                        *)
(***************************************************************************)

\* It holds no number that was not in the shared window.
LEMMA DaemonWithin ==
    ASSUME Shape, NEW N, 0 \in N, Within(N), DaemonStep
    PROVE  Within(N)'
<1>1. slot' = slot /\ doorbell' = doorbell
  BY DEF DaemonStep
<1>2. jobd'.seq \in N
  BY DEF Within, DaemonStep, Rests, TakesSlot, TakesDoorbell, Marks, Matches, Copies, Runs1,
         Publishes, Concludes, Holds, HoldsArgs
<1>3. comp'.seq \in N
  <2>1. comp' = comp \/ Publishes \/ Concludes
    BY DEF DaemonStep
  <2> QED
    BY <2>1 DEF Within, Publishes, Concludes
<1> QED
  BY <1>1, <1>2, <1>3 DEF Within

\* The daemon's record of what it does keeps its shape.
LEMMA DaemonShape ==
    ASSUME Shape, DaemonStep
    PROVE  Shape'
<1>1. HostShape' /\ DdrShape'
  BY DEF Shape, HostShape, DdrShape, DaemonStep
<1>2. jobd' \in JobdState
  BY DEF DaemonStep
<1>3. jobd'.pc = "found" => jobd'.seq # 0
  BY DEF DaemonStep, Rests, TakesSlot, TakesDoorbell, Marks, Matches, Copies, Runs1,
         Publishes, Concludes
<1>4. jobd'.pc \in {"found", "matched", "run"} => jobd'.kind \in Kinds
  BY DEF DaemonStep, Rests, TakesSlot, TakesDoorbell, Marks, Matches, Copies, Runs1,
         Publishes, Concludes, Holds, Shape, JobdShape, DdrShape
<1> QED
  BY <1>1, <1>2, <1>3, <1>4 DEF Shape, JobdShape

\* The daemon does what it does under the number of the staged job with that
\* job's arguments, and publishes it under that number only.
LEMMA DaemonStaged ==
    ASSUME Shape, NEW k \in Kinds, NEW s \in Nat \ {0}, StagedView(k, s), DaemonStep
    PROVE  StagedView(k, s)'
<1>k. k # "none" /\ k # "kernel"
  BY DEF Kinds
<1>f. slot' = slot /\ doorbell' = doorbell
  BY DEF DaemonStep
<1>1. /\ slot[k].seq \in {0, s} /\ slot[k].args = s
      /\ \A j \in Kinds \ {k} : slot[j].seq # s
      /\ doorbell.seq # s \/ doorbell = [kind |-> k, seq |-> s]
  BY DEF StagedView
<1>2. jobd.seq = s =>
           /\ jobd.kind \in {k, "kernel"}
           /\ jobd.kind = k /\ jobd.pc \in {"run", "publish", "number"} => jobd.args = s
           /\ jobd.pc = "number" => /\ comp.kind = jobd.kind
                                    /\ comp.run = [seq |-> s, args |-> jobd.args]
  BY DEF StagedView
<1>3. comp.seq = s =>
           /\ jobd.kind = k /\ jobd.pc \in {"matched", "run", "publish", "number"}
              => jobd.seq = s
           /\ comp.kind = k => comp.run = [seq |-> s, args |-> s]
  BY DEF StagedView
<1>j. /\ jobd.pc \in {"found", "matched", "run"} => jobd.kind \in Kinds
      /\ jobd.pc = "found" => jobd.seq # 0
  BY DEF Shape, JobdShape
<1> DEFINE ByNumber ==
        jobd'.seq = s =>
           /\ jobd'.kind \in {k, "kernel"}
           /\ jobd'.kind = k /\ jobd'.pc \in {"run", "publish", "number"} => jobd'.args = s
           /\ jobd'.pc = "number" => /\ comp'.kind = jobd'.kind
                                     /\ comp'.run = [seq |-> s, args |-> jobd'.args]
        ByRecord ==
        comp'.seq = s =>
           /\ jobd'.kind = k /\ jobd'.pc \in {"matched", "run", "publish", "number"}
              => jobd'.seq = s
           /\ comp'.kind = k => comp'.run = [seq |-> s, args |-> s]
<1>4. ByNumber /\ ByRecord
  <2>1. CASE comp' = comp /\ Rests
    BY <1>k, <1>3, <2>1 DEF Rests
  <2>2. CASE comp' = comp /\ TakesSlot
    <3>1. jobd'.kind # k => jobd'.seq # s
      BY <1>1, <2>2 DEF TakesSlot
    <3>2. jobd'.kind = k => jobd'.seq = s
      BY <1>1, <2>2 DEF TakesSlot
    <3>3. jobd'.pc \in {"found", "matched"}
      BY <2>2 DEF TakesSlot
    <3> QED
      BY <1>3, <2>2, <3>1, <3>2, <3>3
  <2>3. CASE comp' = comp /\ TakesDoorbell
    <3>1. jobd'.seq = s => jobd'.kind = k
      BY <1>1, <2>3, SMT DEF TakesDoorbell
    <3>2. jobd'.pc = "found"
      BY <2>3 DEF TakesDoorbell
    <3> QED
      BY <1>3, <2>3, <3>1, <3>2
  <2>4. CASE comp' = comp /\ Marks
    BY <1>k, <1>3, <2>4 DEF Marks
  <2>5. CASE comp' = comp /\ Matches
    <3>1. jobd.kind = k => jobd.seq = s
      BY <1>1, <1>j, <2>5 DEF Matches
    <3> QED
      BY <1>2, <1>3, <2>5, <3>1 DEF Matches, Holds
  <2>6. CASE comp' = comp /\ Copies
    BY <1>1, <1>2, <1>3, <2>6 DEF Copies, Holds
  <2>7. CASE comp' = comp /\ Runs1
    BY <1>2, <1>3, <1>j, <1>k, <2>7 DEF Runs1, Holds, HoldsArgs
  <2>8. CASE Publishes
    BY <1>2, <1>3, <2>8 DEF Publishes, Holds, HoldsArgs
  <2>9. CASE Concludes
    BY <1>2, <1>3, <1>k, <2>9 DEF Concludes, Rests, Holds, HoldsArgs
  <2> QED
    BY <2>1, <2>2, <2>3, <2>4, <2>5, <2>6, <2>7, <2>8, <2>9 DEF DaemonStep
<1> HIDE DEF ByNumber, ByRecord
<1>5. StagedView(k, s)' = (/\ slot'[k].seq \in {0, s} /\ slot'[k].args = s
                           /\ \A j \in Kinds \ {k} : slot'[j].seq # s
                           /\ doorbell'.seq # s \/ doorbell' = [kind |-> k, seq |-> s]
                           /\ ByNumber /\ ByRecord)
  BY DEF StagedView, ByNumber, ByRecord
<1> QED
  BY <1>1, <1>4, <1>5, <1>f
-----------------------------------------------------------------------------
(***************************************************************************)
(* What a step of the host does.                                           *)
(***************************************************************************)

\* Only thread t moves, from one place in its call to another.
Moves(t, from, to) ==
    /\ proc' \in [Threads -> ProcState]
    /\ \A u \in Threads \ {t} : proc'[u] = proc[u]
    /\ proc[t].pc = from /\ proc'[t].pc = to
Keeps(t) == proc'[t].kind = proc[t].kind /\ proc'[t].seq = proc[t].seq

\* The thread is ready for another call.
LEMMA IdleTyped == Idle \in ProcState /\ Idle.pc = "idle"
BY DEF Idle, ProcState, HostPcs, Paths, Run2, NoRun

\* Setting pc moves the thread.
LEMMA GotoMoves ==
    ASSUME HostShape, NEW t \in Threads, NEW from, NEW to \in HostPcs, At(t, from), Goto(t, to)
    PROVE  Moves(t, from, to) /\ Keeps(t)
<1>1. proc \in [Threads -> ProcState] /\ proc[t].pc = from
      /\ proc' = [proc EXCEPT ![t].pc = to]
  BY DEF HostShape, At, Goto
<1> QED
  BY <1>1 DEF Moves, Keeps, ProcState

\* So does ending the call.
LEMMA IdleMoves ==
    ASSUME HostShape, NEW t \in Threads, NEW from, At(t, from),
           proc' = [proc EXCEPT ![t] = Idle]
    PROVE  Moves(t, from, "idle")
BY IdleTyped DEF HostShape, At, Moves

\* Starting a call.
LEMMA SubmitMoves ==
    ASSUME HostShape, NEW t \in Threads, Submit(t)
    PROVE  Moves(t, "idle", "lock") /\ proc'[t].kind \in Kinds
<1>1. PICK c \in Calls[t] :
          proc' = [proc EXCEPT ![t] = [Idle EXCEPT !.pc = "lock", !.kind = c[1],
                                                  !.path = c[2]]]
  BY DEF Submit
<1>2. PICK k \in Kinds, w \in Paths : k = c[1] /\ w = c[2]
  <2>1. c \in Kinds \X Paths
    BY SifiveAssumption
  <2> QED
    BY <2>1
<1> DEFINE p == [Idle EXCEPT !.pc = "lock", !.kind = k, !.path = w]
<1>4. p \in ProcState /\ p.pc = "lock" /\ p.kind \in Kinds
  BY IdleTyped DEF ProcState, HostPcs
<1>5. proc' = [proc EXCEPT ![t] = p]
  BY <1>1, <1>2
<1> HIDE DEF p
<1>6. proc \in [Threads -> ProcState] /\ proc[t].pc = "idle"
  BY DEF HostShape, Submit, At
<1> QED
  BY <1>4, <1>5, <1>6 DEF Moves

\* The numbers of the model are positive.
LEMMA SeqsPositive == Seqs \subseteq Nat \ {0}
BY SifiveAssumption, SMT DEF Seqs

\* Taking a number.
LEMMA NumberMoves ==
    ASSUME HostShape, NEW t \in Threads, NEW from, At(t, from), Number(t)
    PROVE  \E s \in Seqs \ given : /\ Moves(t, from, "forget") /\ given' = given \cup {s}
                                   /\ proc'[t].kind = proc[t].kind /\ proc'[t].seq = s
                                   /\ proc'[t].run = proc[t].run
<1>1. proc \in [Threads -> ProcState] /\ proc[t].pc = from
  BY DEF HostShape, At
<1>2. PICK s \in Seqs \ given : /\ proc' = [proc EXCEPT ![t].pc = "forget", ![t].seq = s]
                                /\ given' = given \cup {s}
  BY DEF Number
<1> DEFINE p == [proc[t] EXCEPT !.pc = "forget", !.seq = s]
<1>3. s \in Nat
  BY SeqsPositive
<1>4. /\ p \in ProcState /\ p.pc = "forget" /\ p.kind = proc[t].kind /\ p.seq = s
      /\ p.run = proc[t].run
  BY <1>1, <1>3 DEF ProcState, HostPcs
<1>5. proc' = [proc EXCEPT ![t] = p]
  BY <1>1, <1>2, Zenon
<1> HIDE DEF p
<1>6. /\ Moves(t, from, "forget")
      /\ proc'[t].kind = proc[t].kind /\ proc'[t].seq = s /\ proc'[t].run = proc[t].run
  BY <1>1, <1>4, <1>5 DEF Moves
<1> QED
  BY <1>2, <1>6

\* Reading the answer.
LEMMA AnswerMoves ==
    ASSUME HostShape, comp \in CompState, NEW t \in Threads, SeeAnswer(t)
    PROVE  Moves(t, "wait", "return") /\ Keeps(t) /\ proc'[t].run = comp.run
<1>1. proc \in [Threads -> ProcState] /\ proc[t].pc = "wait"
  BY DEF HostShape, SeeAnswer, At
<1>2. proc' = [proc EXCEPT ![t].pc = "return", ![t].result = comp.status,
                           ![t].run = comp.run]
  BY DEF SeeAnswer
<1>3. PICK st \in {"ok", "error"}, r \in Run2 : st = comp.status /\ r = comp.run
  BY DEF CompState
<1> DEFINE p == [proc[t] EXCEPT !.pc = "return", !.result = st, !.run = r]
<1>4. /\ p \in ProcState /\ p.pc = "return" /\ p.run = r
      /\ p.kind = proc[t].kind /\ p.seq = proc[t].seq
  BY <1>1 DEF ProcState, HostPcs
<1>5. proc' = [proc EXCEPT ![t] = p]
  BY <1>1, <1>2, <1>3, Zenon
<1> HIDE DEF p
<1> QED
  BY <1>1, <1>3, <1>4, <1>5 DEF Moves, Keeps

\* Giving up.
LEMMA FailureMoves ==
    ASSUME HostShape, NEW t \in Threads,
           proc' = [proc EXCEPT ![t].pc = "return", ![t].result = "none"]
    PROVE  Moves(t, proc[t].pc, "return") /\ Keeps(t) /\ proc'[t].result = "none"
<1>1. proc \in [Threads -> ProcState]
  BY DEF HostShape
<1>2. proc' = [proc EXCEPT ![t] = [@ EXCEPT !.pc = "return", !.result = "none"]]
  BY <1>1, Zenon
<1> QED
  BY <1>1, <1>2, SMT DEF Moves, Keeps, ProcState, HostPcs

\* Leaving the critical section.
LEMMA ReturnMoves ==
    ASSUME HostShape, NEW t \in Threads, Return(t)
    PROVE  Moves(t, "return", "idle") \/ Moves(t, "return", "clear")
<1>1. proc \in [Threads -> ProcState] /\ proc[t].pc = "return"
  BY DEF HostShape, Return, At
<1>2. CASE proc' = [proc EXCEPT ![t] = Idle]
  BY <1>1, <1>2, IdleTyped DEF Moves
<1>3. CASE proc' = [proc EXCEPT ![t] = [proc[t] EXCEPT !.pc = "clear"]]
  BY <1>1, <1>3, SMT DEF Moves, ProcState, HostPcs
<1>4. proc' = [proc EXCEPT ![t] = IF proc[t].path = "mmvf"
                                  THEN [proc[t] EXCEPT !.pc = "clear"] ELSE Idle]
  BY DEF Return
<1> QED
  BY <1>2, <1>3, <1>4
-----------------------------------------------------------------------------
(***************************************************************************)
(* What a write to a slot does.                                            *)
(***************************************************************************)
OthersKept(k) == \A j \in Kinds \ {k} : slot'[j] = slot[j]

\* Writing the header.
LEMMA SlotSeq ==
    ASSUME slot \in [Kinds -> SlotState], NEW k \in Kinds, NEW s \in Nat,
           slot' = [slot EXCEPT ![k].seq = s]
    PROVE  /\ slot' \in [Kinds -> SlotState] /\ OthersKept(k)
           /\ slot'[k].seq = s /\ slot'[k].args = slot[k].args
BY DEF SlotState, OthersKept

\* Writing the payload.
LEMMA SlotArgs ==
    ASSUME slot \in [Kinds -> SlotState], NEW k \in Kinds, NEW s \in Nat,
           slot' = [slot EXCEPT ![k].args = s]
    PROVE  /\ slot' \in [Kinds -> SlotState] /\ OthersKept(k)
           /\ slot'[k].seq = slot[k].seq /\ slot'[k].args = s
BY DEF SlotState, OthersKept
-----------------------------------------------------------------------------
(***************************************************************************)
(* What a step of the host keeps.                                          *)
(***************************************************************************)

\* The critical section stays one thread's.
LEMMA ExclusiveStep ==
    ASSUME Exclusive, NEW t \in Threads, NEW from, NEW to, Moves(t, from, to),
           \/ from \notin Inside /\ to \notin Inside /\ lock' = lock
           \/ from \in Inside /\ to \in Inside /\ lock' = lock
           \/ lock = NoThread /\ lock' = t
           \/ from \in Inside /\ to \notin Inside
    PROVE  Exclusive'
<1> SUFFICES ASSUME NEW u \in Threads, proc'[u].pc \in Inside PROVE lock' = u
  BY DEF Exclusive
<1>1. NoThread \notin Threads
  BY SifiveAssumption
<1>2. CASE u = t
  BY <1>1, <1>2 DEF Exclusive, Moves
<1>3. CASE u # t
  BY <1>1, <1>3 DEF Exclusive, Moves
<1> QED
  BY <1>2, <1>3

\* A thread in the critical section, or one that enters it, is the only one with
\* a job on its way.
LEMMA OthersView ==
    ASSUME Exclusive, NEW t \in Threads, NEW u \in Threads \ {t}, NEW from, NEW to,
           Moves(t, from, to), from \in Inside \/ lock = NoThread, View(u)
    PROVE  View(u)'
<1>1. NoThread \notin Threads
  BY SifiveAssumption
<1>2. proc[u].pc \notin Inside
  BY <1>1 DEF Exclusive, Moves
<1>3. proc[u].pc \notin Fresh /\ proc[u].pc \notin Staged /\ proc[u].pc # "header"
  BY <1>2 DEF Inside, Fresh
<1>4. proc'[u] = proc[u]
  BY DEF Moves
<1> QED
  BY <1>3, <1>4 DEF View

\* Only the thread that reads an answer has something to show.
LEMMA AnswersStep ==
    ASSUME AnswersAreOwn, NEW t \in Threads, NEW from, NEW to, Moves(t, from, to),
           given \subseteq given',
           \/ to # "return"
           \/ proc'[t].result = "none"
           \/ ~Latest(proc[t].seq)'
           \/ proc'[t].run = [seq |-> proc'[t].seq, args |-> proc'[t].seq]
    PROVE  AnswersAreOwn'
<1> SUFFICES ASSUME NEW u \in Threads, proc'[u].pc = "return", proc'[u].result # "none",
                    Latest(proc[u].seq)'
             PROVE  proc'[u].run = [seq |-> proc'[u].seq, args |-> proc'[u].seq]
  BY DEF AnswersAreOwn, At
<1>1. CASE u = t
  BY <1>1 DEF Moves
<1>2. CASE u # t
  <2>1. proc'[u] = proc[u]
    BY <1>2 DEF Moves
  <2>2. Latest(proc[u].seq)
    BY <2>1 DEF Latest
  <2> QED
    BY <2>1, <2>2 DEF AnswersAreOwn, At
<1> QED
  BY <1>1, <1>2

\* Emptying a slot brings no other number.
LEMMA WithinEmptied ==
    ASSUME slot \in [Kinds -> SlotState], NEW N, 0 \in N, Within(N), NEW k \in Kinds,
           slot' = [slot EXCEPT ![k].seq = 0] \/ slot' = slot, UNCHANGED <<doorbell, comp, jobd>>
    PROVE  Within(N)'
<1>1. \A j \in Kinds : slot'[j].seq = 0 \/ slot'[j].seq = slot[j].seq
  BY SlotSeq DEF OthersKept
<1> QED
  BY <1>1 DEF Within

\* The staged job may be lost in this way, but not mistaken.
LEMMA StagedEmptied ==
    ASSUME slot \in [Kinds -> SlotState], NEW s \in Nat \ {0}, NEW k \in Kinds,
           StagedView(k, s), NEW e \in Kinds,
           slot' = [slot EXCEPT ![e].seq = 0] \/ slot' = slot, UNCHANGED <<doorbell, comp, jobd>>
    PROVE  StagedView(k, s)'
<1>1. \A j \in Kinds : /\ slot'[j].seq = 0 \/ slot'[j].seq = slot[j].seq
                       /\ slot'[j].args = slot[j].args
  BY SlotSeq DEF OthersKept
<1>2. slot'[k].seq \in {0, s} /\ slot'[k].args = s /\ \A j \in Kinds \ {k} : slot'[j].seq # s
  BY <1>1, SMT DEF StagedView
<1> QED
  BY <1>2 DEF StagedView

\* A step outside of the critical section leaves the job that is on its way alone,
\* except that its slot may be emptied.
LEMMA OutsideView ==
    ASSUME Shape, Numbers, NEW t \in Threads, NEW u \in Threads \ {t}, NEW from, NEW to,
           Moves(t, from, to), NEW e \in Kinds,
           slot' = [slot EXCEPT ![e].seq = 0] \/ slot' = slot,
           UNCHANGED <<given, doorbell, comp, jobd>>
    PROVE  View(u)'
<1>1. View(u) /\ proc'[u] = proc[u]
  BY DEF Numbers, Moves
<1>2. slot \in [Kinds -> SlotState] /\ proc[u].seq \in Nat /\ given' = given
  BY DEF Shape, DdrShape, HostShape, ProcState
<1>3. \A j \in Kinds : slot'[j].args = slot[j].args
  BY <1>2, SlotSeq DEF OthersKept
<1>4. proc[u].pc \in Fresh \cup Staged =>
          proc[u].kind \in Kinds /\ proc[u].seq \in Nat \ {0}
  BY <1>1, <1>2 DEF View
<1>5. proc[u].pc \in Fresh => Absent(proc[u].seq)'
  <2> SUFFICES ASSUME proc[u].pc \in Fresh PROVE Absent(proc[u].seq)'
    OBVIOUS
  <2>1. PICK N : N = Nat \ {proc[u].seq}
    OBVIOUS
  <2>2. Within(N) /\ 0 \in N
    BY <1>1, <1>4, <2>1 DEF View, Absent
  <2>3. Within(N)'
    BY <1>2, <2>2, WithinEmptied
  <2>4. N = Nat \ {proc'[u].seq}
    BY <1>1, <2>1
  <2> QED
    BY <2>3, <2>4 DEF Absent, Within
<1>6. proc[u].pc \in Staged => StagedView(proc[u].kind, proc[u].seq)'
  <2> SUFFICES ASSUME proc[u].pc \in Staged PROVE StagedView(proc[u].kind, proc[u].seq)'
    OBVIOUS
  <2>1. PICK n \in Nat \ {0}, k \in Kinds : n = proc[u].seq /\ k = proc[u].kind
    BY <1>4
  <2>2. StagedView(k, n)
    BY <1>1, <2>1 DEF View
  <2>3. StagedView(k, n)'
    BY <1>2, <2>2, StagedEmptied
  <2>4. proc'[u].seq = n /\ proc'[u].kind = k
    BY <1>1, <2>1
  <2> QED
    BY <2>3, <2>4 DEF StagedView
<1>7. proc[u].pc = "header" => slot'[proc[u].kind].args = proc[u].seq
  BY <1>1, <1>3, <1>4 DEF View, Fresh
<1> QED
  BY <1>1, <1>2, <1>5, <1>6, <1>7 DEF View

\* A step in, into or out of the critical section.
LEMMA InsideStep ==
    ASSUME Inv, NEW t \in Threads, NEW from, NEW to, Moves(t, from, to),
           \/ from \in Inside /\ to \in Inside /\ lock' = lock
           \/ lock = NoThread /\ lock' = t
           \/ from \in Inside /\ to \notin Inside,
           Shape', Known', View(t)', given \subseteq given',
           \/ to # "return"
           \/ proc'[t].result = "none"
           \/ ~Latest(proc[t].seq)'
           \/ proc'[t].run = [seq |-> proc'[t].seq, args |-> proc'[t].seq]
    PROVE  Inv'
<1>1. Exclusive'
  BY ExclusiveStep DEF Inv
<1>2. AnswersAreOwn'
  BY AnswersStep DEF Inv
<1>3. ASSUME NEW u \in Threads PROVE View(u)'
  <2>1. CASE u = t
    BY <2>1
  <2>2. CASE u # t
    BY <2>2, OthersView DEF Inv, Numbers
  <2> QED
    BY <2>1, <2>2
<1> QED
  BY <1>1, <1>2, <1>3 DEF Inv, Numbers

\* A step outside of it.
LEMMA OutsideStep ==
    ASSUME Inv, NEW t \in Threads, NEW from \in HostPcs \ Inside, NEW to \in HostPcs \ Inside,
           Moves(t, from, to), to = "lock" => proc'[t].kind \in Kinds,
           NEW e \in Kinds, slot' = [slot EXCEPT ![e].seq = 0] \/ slot' = slot,
           UNCHANGED <<lock, given, doorbell, comp, jobd>>
    PROVE  Inv'
<1>1. Exclusive'
  BY ExclusiveStep DEF Inv
<1>2. AnswersAreOwn'
  <2>1. to # "return"
    BY DEF Inside
  <2> QED
    BY <2>1, AnswersStep DEF Inv
<1>3. slot \in [Kinds -> SlotState] /\ Known
  BY DEF Inv, Shape, DdrShape, Numbers
<1>4. Shape'
  <2>1. slot' \in [Kinds -> SlotState]
    BY <1>3, SlotSeq
  <2> QED
    BY <2>1 DEF Inv, Shape, HostShape, DdrShape, JobdShape, Moves
<1>5. Known'
  <2>1. PICK N : N = given \cup {0}
    OBVIOUS
  <2>2. Within(N) /\ 0 \in N
    BY <1>3, <2>1 DEF Known
  <2>3. Within(N)'
    BY <1>3, <2>2, WithinEmptied
  <2>4. N = given' \cup {0}
    BY <2>1
  <2> QED
    BY <2>3, <2>4 DEF Known, Within
<1>6. ASSUME NEW u \in Threads PROVE View(u)'
  <2>1. CASE u = t
    <3>1. /\ proc'[t].pc = to /\ to \notin Fresh /\ to \notin Staged /\ to # "header"
          /\ to \notin {"check", "erase", "marker"}
      BY DEF Inside, Fresh, Moves
    <3> QED
      BY <2>1, <3>1 DEF View
  <2>2. CASE u # t
    BY <2>2, OutsideView DEF Inv
  <2> QED
    BY <2>1, <2>2
<1> QED
  BY <1>1, <1>2, <1>4, <1>5, <1>6 DEF Inv, Numbers

\* The steps that do not touch the shared window and take no number.
LEMMA QuietStep ==
    ASSUME Inv, NEW t \in Threads, NEW from, NEW to, Moves(t, from, to),
           UNCHANGED <<given, slot, doorbell, comp, jobd>>
    PROVE  Shape' /\ Known'
<1>1. Shape'
  BY DEF Inv, Shape, HostShape, DdrShape, JobdShape, Moves
<1>2. Known'
  BY DEF Inv, Numbers, Known, Within
<1> QED
  BY <1>1, <1>2

\* The steps that write to it.
LEMMA WriteStep ==
    ASSUME Inv, NEW t \in Threads, NEW from, NEW to, Moves(t, from, to), DdrShape',
           UNCHANGED <<given, jobd>>
    PROVE  Shape'
BY DEF Inv, Shape, HostShape, JobdShape, Moves

\* Taking a number: nothing has it yet.
LEMMA NumberStep ==
    ASSUME Inv, NEW t \in Threads, NEW from \in {"check", "marker"}, At(t, from), Number(t),
           UNCHANGED <<lock, slot, doorbell, comp, jobd>>
    PROVE  Inv'
<1>1. PICK s \in Seqs \ given :
          /\ Moves(t, from, "forget") /\ given' = given \cup {s}
          /\ proc'[t].kind = proc[t].kind /\ proc'[t].seq = s
  BY NumberMoves DEF Inv, Shape
<1>2. s \in Nat \ {0} /\ s \notin given
  BY SeqsPositive
<1>3. Shape'
  BY <1>1, <1>2 DEF Inv, Shape, HostShape, DdrShape, JobdShape, Moves
<1>4. Known
  BY DEF Inv, Numbers
<1>5. Known'
  BY <1>1, <1>4 DEF Known, Within
<1>6. given \cup {0} \subseteq Nat \ {s}
  <2>1. given \subseteq Nat \ {0}
    BY DEF Inv, Shape, HostShape
  <2> QED
    BY <1>2, <2>1, SMT
<1>7. View(t)'
  <2>1. proc[t].kind \in Kinds
    BY DEF Inv, Numbers, View, At
  <2>2. Absent(proc[t].seq)'
    BY <1>1, <1>4, <1>6 DEF Known, Absent, Within
  <2>3. proc'[t].pc = "forget"
    BY <1>1 DEF Moves
  <2> QED
    BY <1>1, <1>2, <2>1, <2>2, <2>3 DEF View, Staged
<1>8. from \in Inside /\ "forget" \in Inside
  BY DEF Inside, Fresh
<1> QED
  BY <1>1, <1>3, <1>5, <1>7, <1>8, InsideStep

\* What is known of a thread that has a number and has not written its header.
LEMMA FreshFacts ==
    ASSUME Inv, NEW t \in Threads, proc[t].pc \in Fresh
    PROVE  /\ proc[t].kind \in Kinds /\ proc[t].seq \in Nat \ {0}
           /\ proc[t].seq \in given /\ Absent(proc[t].seq)
<1>1. proc[t].seq \in Nat
  BY DEF Inv, Shape, HostShape, ProcState
<1> QED
  BY <1>1 DEF Inv, Numbers, View

\* A step of a thread that has a number and puts it nowhere.
LEMMA FreshStep ==
    ASSUME Inv, NEW t \in Threads, NEW from \in Fresh, NEW to \in Fresh,
           Moves(t, from, to), Keeps(t), DdrShape', UNCHANGED <<lock, given, jobd>>,
           doorbell'.seq = doorbell.seq, comp'.seq \in {0, comp.seq},
           \A k \in Kinds : slot'[k].seq \in {0, slot[k].seq},
           to = "header" => slot'[proc[t].kind].args = proc[t].seq
    PROVE  Inv'
<1>1. /\ proc[t].kind \in Kinds /\ proc[t].seq \in Nat \ {0}
      /\ proc[t].seq \in given /\ Absent(proc[t].seq)
  BY FreshFacts DEF Moves
<1>2. PICK s \in Nat \ {0} : s = proc[t].seq
  BY <1>1
<1>3. Absent(s)' /\ Known'
  <2>1. ASSUME NEW N, 0 \in N, Within(N) PROVE Within(N)'
    BY <2>1 DEF Within
  <2>2. Absent(s)'
    <3>1. PICK N : N = Nat \ {s}
      OBVIOUS
    <3> QED
      BY <1>1, <1>2, <2>1, <3>1 DEF Absent
  <2>3. Known'
    <3>1. PICK N : N = given \cup {0}
      OBVIOUS
    <3>2. Within(N)'
      BY <2>1, <3>1 DEF Inv, Numbers, Known
    <3>3. N = given' \cup {0}
      BY <3>1
    <3> QED
      BY <3>2, <3>3 DEF Known, Within
  <2> QED
    BY <2>2, <2>3
<1>4. Shape'
  BY WriteStep
<1>5. View(t)'
  <2>1. proc'[t].pc = to /\ proc'[t].seq = s /\ proc'[t].kind = proc[t].kind
    BY <1>2 DEF Moves, Keeps
  <2>2. Absent(proc[t].seq)'
    BY <1>3, <2>1 DEF Absent, Within
  <2>3. to \notin Staged /\ to \notin {"lock", "check", "erase", "marker"}
    BY DEF Fresh, Staged
  <2> QED
    BY <1>1, <1>2, <2>1, <2>2, <2>3 DEF View
<1>6. from \in Inside /\ to \in Inside /\ to # "return"
  BY DEF Inside, Fresh
<1> QED
  BY <1>3, <1>4, <1>5, <1>6, InsideStep

\* From the first write of the record to the payload.
LEMMA FillStep ==
    ASSUME Inv, NEW t \in Threads, ClearStatus(t) \/ EmptySlot(t) \/ StagePayload(t)
    PROVE  Inv'
<1>h. HostShape /\ DdrShape /\ slot \in [Kinds -> SlotState]
  BY DEF Inv, Shape, DdrShape
<1>1. CASE ClearStatus(t)
  <2>1. PICK to \in {"empty", "payload"} : Goto(t, to)
    BY <1>1 DEF ClearStatus
  <2>2. Moves(t, "forget", to) /\ Keeps(t)
    BY <1>1, <1>h, <2>1, GotoMoves DEF ClearStatus, HostPcs
  <2>3. comp' \in CompState /\ comp'.seq = 0
    BY <1>1 DEF ClearStatus, EmptyComp, CompState, NoRun, Run2
  <2>4. UNCHANGED <<lock, given, slot, doorbell, jobd>>
    BY <1>1 DEF ClearStatus, daemon
  <2>5. DdrShape'
    BY <1>h, <2>3, <2>4 DEF DdrShape
  <2>6. "forget" \in Fresh /\ to \in Fresh /\ to # "header"
    BY DEF Fresh
  <2> QED
    BY <2>2, <2>3, <2>4, <2>5, <2>6, FreshStep
<1>2. CASE EmptySlot(t)
  <2>1. Moves(t, "empty", "payload") /\ Keeps(t)
    BY <1>2, <1>h, GotoMoves DEF EmptySlot, HostPcs
  <2>2. PICK k \in Kinds : k = proc[t].kind
    BY <2>1, FreshFacts DEF Moves, Fresh
  <2>3. slot' = [slot EXCEPT ![k].seq = 0]
    BY <1>2, <2>2 DEF EmptySlot
  <2>4. slot' \in [Kinds -> SlotState] /\ \A j \in Kinds : slot'[j].seq \in {0, slot[j].seq}
    BY <1>h, <2>3, SlotSeq DEF OthersKept
  <2>5. UNCHANGED <<lock, given, doorbell, comp, jobd>>
    BY <1>2 DEF EmptySlot, daemon
  <2>6. DdrShape'
    BY <1>h, <2>4, <2>5 DEF DdrShape
  <2>7. "empty" \in Fresh /\ "payload" \in Fresh
    BY DEF Fresh
  <2> QED
    BY <2>1, <2>4, <2>5, <2>6, <2>7, FreshStep
<1>3. CASE StagePayload(t)
  <2>1. Moves(t, "payload", "header") /\ Keeps(t)
    BY <1>3, <1>h, GotoMoves DEF StagePayload, HostPcs
  <2>2. PICK k \in Kinds, s \in Nat : k = proc[t].kind /\ s = proc[t].seq
    BY <2>1, FreshFacts DEF Moves, Fresh
  <2>3. slot' = [slot EXCEPT ![k].args = s]
    BY <1>3, <2>2 DEF StagePayload
  <2>4. /\ slot' \in [Kinds -> SlotState] /\ slot'[k].args = s
        /\ \A j \in Kinds : slot'[j].seq \in {0, slot[j].seq}
    BY <1>h, <2>3, SlotArgs DEF OthersKept
  <2>5. UNCHANGED <<lock, given, doorbell, comp, jobd>>
    BY <1>3 DEF StagePayload, daemon
  <2>6. DdrShape'
    BY <1>h, <2>4, <2>5 DEF DdrShape
  <2>7. "payload" \in Fresh /\ "header" \in Fresh
    BY DEF Fresh
  <2> QED
    BY <2>1, <2>2, <2>4, <2>5, <2>6, <2>7, FreshStep
<1> QED
  BY <1>1, <1>2, <1>3

\* The header makes the job visible: no trace of its number is anywhere else.
LEMMA HeaderStep ==
    ASSUME Inv, NEW t \in Threads, StageHeader(t)
    PROVE  Inv'
<1>h. HostShape /\ DdrShape /\ JobdShape /\ slot \in [Kinds -> SlotState]
  BY DEF Inv, Shape, DdrShape
<1>1. Moves(t, "header", "doorbell") /\ Keeps(t)
  BY <1>h, GotoMoves DEF StageHeader, HostPcs
<1>2. /\ proc[t].kind \in Kinds /\ proc[t].seq \in Nat \ {0}
      /\ proc[t].seq \in given /\ Absent(proc[t].seq)
  BY <1>1, FreshFacts DEF Moves, Fresh
<1>3. PICK k \in Kinds, s \in Nat \ {0} : k = proc[t].kind /\ s = proc[t].seq
  BY <1>2
<1>4. slot[k].args = s
  BY <1>1, <1>3 DEF Inv, Numbers, View, Moves
<1>5. slot' = [slot EXCEPT ![k].seq = s]
  BY <1>3 DEF StageHeader
<1>6. /\ slot' \in [Kinds -> SlotState] /\ OthersKept(k)
      /\ slot'[k].seq = s /\ slot'[k].args = s
  BY <1>h, <1>4, <1>5, SlotSeq
<1>7. UNCHANGED <<lock, given, doorbell, comp, jobd>>
  BY DEF StageHeader, daemon
<1>8. Shape'
  <2>1. DdrShape'
    BY <1>h, <1>6, <1>7 DEF DdrShape
  <2> QED
    BY <1>1, <1>7, <2>1, WriteStep
<1>9. /\ \A j \in Kinds : slot[j].seq # s
      /\ doorbell.seq # s /\ comp.seq # s /\ jobd.seq # s
  BY <1>2, <1>3 DEF Absent, Within
<1>10. Known'
  <2>1. Known /\ s \in given
    BY <1>2, <1>3 DEF Inv, Numbers
  <2>2. \A j \in Kinds : slot'[j].seq \in given \cup {0}
    BY <1>6, <2>1 DEF OthersKept, Known, Within
  <2> QED
    BY <1>7, <2>1, <2>2 DEF Known, Within
<1>11. View(t)'
  <2>1. proc'[t].pc = "doorbell" /\ proc'[t].seq = s /\ proc'[t].kind = k
    BY <1>1, <1>3 DEF Moves, Keeps
  <2>2. \A j \in Kinds \ {k} : slot'[j].seq # s
    BY <1>6, <1>9 DEF OthersKept
  <2>3. StagedView(k, s)'
    BY <1>6, <1>7, <1>9, <2>2 DEF StagedView
  <2>4. StagedView(proc[t].kind, proc[t].seq)'
    BY <2>1, <2>3 DEF StagedView
  <2> QED
    BY <1>2, <1>3, <1>7, <2>1, <2>4 DEF View, Fresh, Staged
<1>12. "header" \in Inside /\ "doorbell" \in Inside
  BY DEF Inside, Fresh, Staged
<1> QED
  BY <1>1, <1>7, <1>8, <1>10, <1>11, <1>12, InsideStep

\* What is known of a thread whose job is staged.
LEMMA StagedFacts ==
    ASSUME Inv, NEW t \in Threads, proc[t].pc \in Staged
    PROVE  /\ proc[t].kind \in Kinds /\ proc[t].seq \in Nat \ {0}
           /\ proc[t].seq \in given /\ StagedView(proc[t].kind, proc[t].seq)
<1>1. proc[t].seq \in Nat
  BY DEF Inv, Shape, HostShape, ProcState
<1> QED
  BY <1>1 DEF Inv, Numbers, View

\* The doorbell repeats what the header says.
LEMMA DoorbellStep ==
    ASSUME Inv, NEW t \in Threads, StageDoorbell(t)
    PROVE  Inv'
<1>h. HostShape /\ DdrShape /\ JobdShape
  BY DEF Inv, Shape
<1>1. Moves(t, "doorbell", "wait") /\ Keeps(t)
  BY <1>h, GotoMoves DEF StageDoorbell, HostPcs
<1>2. /\ proc[t].kind \in Kinds /\ proc[t].seq \in Nat \ {0}
      /\ proc[t].seq \in given /\ StagedView(proc[t].kind, proc[t].seq)
  BY <1>1, StagedFacts DEF Moves, Staged
<1>3. PICK k \in Kinds, s \in Nat \ {0} : k = proc[t].kind /\ s = proc[t].seq
  BY <1>2
<1>4. doorbell' = [kind |-> k, seq |-> s]
  BY <1>3 DEF StageDoorbell
<1>5. UNCHANGED <<lock, given, slot, comp, jobd>>
  BY DEF StageDoorbell, daemon
<1>6. Shape'
  <2>1. DdrShape'
    BY <1>h, <1>4, <1>5 DEF DdrShape, DoorbellState
  <2> QED
    BY <1>1, <1>5, <2>1, WriteStep
<1>7. Known'
  <2>1. Known /\ doorbell'.seq \in given
    BY <1>2, <1>3, <1>4 DEF Inv, Numbers
  <2> QED
    BY <1>5, <2>1 DEF Known, Within
<1>8. View(t)'
  <2>1. proc'[t].pc = "wait" /\ proc'[t].seq = s /\ proc'[t].kind = k
    BY <1>1, <1>3 DEF Moves, Keeps
  <2>2. StagedView(k, s)
    BY <1>2, <1>3
  <2>3. StagedView(k, s)'
    BY <1>4, <1>5, <2>2 DEF StagedView
  <2>4. StagedView(proc[t].kind, proc[t].seq)'
    BY <2>1, <2>3 DEF StagedView
  <2> QED
    BY <1>2, <1>3, <1>5, <2>1, <2>4 DEF View, Fresh, Staged
<1>9. "doorbell" \in Inside /\ "wait" \in Inside
  BY DEF Inside, Staged
<1> QED
  BY <1>1, <1>5, <1>6, <1>7, <1>8, <1>9, InsideStep

\* The record that answers a call whose number is the largest has that number, and
\* comes from a run of its job with its arguments.
LEMMA AnswerStep ==
    ASSUME Inv, NEW t \in Threads, SeeAnswer(t)
    PROVE  Inv'
<1>h. HostShape /\ comp \in CompState
  BY DEF Inv, Shape, DdrShape
<1>1. Moves(t, "wait", "return") /\ Keeps(t) /\ proc'[t].run = comp.run
  BY <1>h, AnswerMoves
<1>2. /\ proc[t].kind \in Kinds /\ proc[t].seq \in Nat \ {0}
      /\ proc[t].seq \in given /\ StagedView(proc[t].kind, proc[t].seq)
  BY <1>1, StagedFacts DEF Moves, Staged
<1>3. PICK k \in Kinds, s \in Nat \ {0} : k = proc[t].kind /\ s = proc[t].seq
  BY <1>2
<1>4. Latest(s) => comp.seq = s /\ comp.kind = k
  <2>1. comp.kind = k /\ comp.seq >= s /\ comp.seq # 0
    BY <1>3 DEF SeeAnswer, Decodes
  <2>2. comp.seq \in given
    BY <2>1 DEF Inv, Numbers, Known, Within
  <2>3. Latest(s) => comp.seq <= s
    BY <2>2 DEF Latest
  <2>4. comp.seq \in Nat
    BY <1>h DEF CompState
  <2> QED
    BY <2>1, <2>3, <2>4, SMT
<1>5. Latest(s) => comp.run = [seq |-> s, args |-> s]
  <2>1. StagedView(k, s)
    BY <1>2, <1>3
  <2> QED
    BY <1>4, <2>1 DEF StagedView
<1>6. \/ ~Latest(proc[t].seq)'
      \/ proc'[t].run = [seq |-> proc'[t].seq, args |-> proc'[t].seq]
  <2>1. proc'[t].seq = s /\ given' = given
    BY <1>1, <1>3 DEF Keeps, SeeAnswer
  <2>2. Latest(proc[t].seq)' => Latest(s)
    BY <2>1 DEF Latest
  <2> QED
    BY <1>1, <1>5, <2>1, <2>2
<1>7. UNCHANGED <<lock, given, slot, doorbell, comp, jobd>>
  BY DEF SeeAnswer, ddr, daemon
<1>8. Shape' /\ Known'
  BY <1>1, <1>7, QuietStep
<1>9. View(t)'
  BY <1>1 DEF View, Moves, Fresh, Staged
<1>10. "wait" \in Inside /\ "return" \in Inside
  BY DEF Inside, Staged
<1> QED
  BY <1>1, <1>6, <1>7, <1>8, <1>9, <1>10, InsideStep

\* Calls that give up in the critical section.
LEMMA FailureStep ==
    ASSUME Inv, NEW t \in Threads, WriteFails(t) \/ WaitTimeout(t)
    PROVE  Inv'
<1>1. proc' = [proc EXCEPT ![t].pc = "return", ![t].result = "none"]
  BY DEF WriteFails, WaitTimeout
<1>2. Moves(t, proc[t].pc, "return") /\ proc'[t].result = "none"
  BY <1>1, FailureMoves DEF Inv, Shape
<1>3. UNCHANGED <<lock, given, slot, doorbell, comp, jobd>>
  BY DEF WriteFails, WaitTimeout, ddr, daemon
<1>4. Shape' /\ Known'
  BY <1>2, <1>3, QuietStep
<1>5. View(t)'
  BY <1>2 DEF View, Moves, Fresh, Staged
<1>6. proc[t].pc \in Inside /\ "return" \in Inside
  BY DEF WriteFails, WaitTimeout, At, Inside, Fresh, Staged
<1> QED
  BY <1>2, <1>3, <1>4, <1>5, <1>6, InsideStep

\* The end of the critical section.
LEMMA ReturnStep ==
    ASSUME Inv, NEW t \in Threads, Return(t)
    PROVE  Inv'
<1>h. HostShape /\ DdrShape /\ slot \in [Kinds -> SlotState]
  BY DEF Inv, Shape, DdrShape
<1>1. PICK to \in {"idle", "clear"} : Moves(t, "return", to)
  BY <1>h, ReturnMoves
<1>2. UNCHANGED <<given, doorbell, comp, jobd>>
  BY DEF Return, daemon
<1>3. \E e \in Kinds : slot' = [slot EXCEPT ![e].seq = 0] \/ slot' = slot
  <2>1. CASE proc[t].kind \in Kinds
    BY <2>1 DEF Return
  <2>2. CASE proc[t].kind \notin Kinds
    <3>1. [slot EXCEPT ![proc[t].kind].seq = 0] = slot
      BY <1>h, <2>2
    <3>2. slot' = slot
      BY <3>1 DEF Return
    <3> QED
      BY <3>2 DEF Kinds
  <2> QED
    BY <2>1, <2>2
<1>4. PICK e \in Kinds : slot' = [slot EXCEPT ![e].seq = 0] \/ slot' = slot
  BY <1>3
<1>5. slot' \in [Kinds -> SlotState]
  BY <1>h, <1>4, SlotSeq
<1>6. Shape'
  <2>1. DdrShape'
    BY <1>h, <1>2, <1>5 DEF DdrShape
  <2> QED
    BY <1>1, <1>2, <2>1, WriteStep
<1>7. Known'
  <2>1. PICK N : N = given \cup {0}
    OBVIOUS
  <2>2. Within(N) /\ 0 \in N
    BY <2>1 DEF Inv, Numbers, Known
  <2>3. Within(N)'
    BY <1>h, <1>2, <1>4, <2>2, WithinEmptied
  <2>4. N = given' \cup {0}
    BY <1>2, <2>1
  <2> QED
    BY <2>3, <2>4 DEF Known, Within
<1>8. View(t)'
  BY <1>1 DEF View, Moves, Fresh, Staged
<1>9. "return" \in Inside /\ to \notin Inside /\ to # "return"
  BY DEF Inside, Fresh, Staged
<1> QED
  BY <1>1, <1>2, <1>6, <1>7, <1>8, <1>9, InsideStep

\* Finding the daemon ready, or asking it for its marker.
LEMMA BootStep ==
    ASSUME Inv, NEW t \in Threads,
           CheckBoot(t) \/ EraseForBoot(t) \/ SeeMarker(t) \/ BootTimeout(t)
    PROVE  Inv'
<1>h. HostShape /\ DdrShape
  BY DEF Inv, Shape
<1>i. "check" \in Inside /\ "erase" \in Inside /\ "marker" \in Inside /\ "idle" \notin Inside
  BY DEF Inside, Fresh, Staged
<1>1. CASE CheckBoot(t)
  <2>1. CASE Number(t)
    BY <1>1, <2>1, NumberStep DEF CheckBoot, ddr, daemon
  <2>2. CASE Goto(t, "erase") /\ UNCHANGED given
    <3>1. Moves(t, "check", "erase") /\ Keeps(t)
      BY <1>1, <1>h, <2>2, GotoMoves DEF CheckBoot, HostPcs
    <3>2. UNCHANGED <<lock, given, slot, doorbell, comp, jobd>>
      BY <1>1, <2>2 DEF CheckBoot, ddr, daemon
    <3>3. Shape' /\ Known'
      BY <3>1, <3>2, QuietStep
    <3>4. View(t)'
      BY <3>1 DEF Inv, Numbers, View, Moves, Keeps, Fresh, Staged
    <3> QED
      BY <1>i, <3>1, <3>2, <3>3, <3>4, InsideStep
  <2> QED
    BY <1>1, <2>1, <2>2 DEF CheckBoot
<1>2. CASE EraseForBoot(t)
  <2>1. Moves(t, "erase", "marker") /\ Keeps(t)
    BY <1>2, <1>h, GotoMoves DEF EraseForBoot, HostPcs
  <2>2. UNCHANGED <<lock, given, slot, jobd>>
    BY <1>2 DEF EraseForBoot, daemon
  <2>3. DdrShape' /\ doorbell'.seq = 0 /\ comp'.seq = 0
    BY <1>h, <1>2, <2>2 DEF EraseForBoot, DdrShape, NoJob, EmptyComp, NoRun, Run2,
                            CompState, DoorbellState
  <2>4. Shape'
    BY <2>1, <2>2, <2>3, WriteStep
  <2>5. Known'
    BY <2>2, <2>3 DEF Inv, Numbers, Known, Within
  <2>6. View(t)'
    BY <2>1 DEF Inv, Numbers, View, Moves, Keeps, Fresh, Staged
  <2> QED
    BY <1>i, <2>1, <2>2, <2>4, <2>5, <2>6, InsideStep
<1>3. CASE SeeMarker(t)
  BY <1>3, NumberStep DEF SeeMarker, ddr, daemon
<1>4. CASE BootTimeout(t)
  <2>1. Moves(t, "marker", "idle")
    BY <1>4, <1>h, IdleMoves DEF BootTimeout
  <2>2. UNCHANGED <<given, slot, doorbell, comp, jobd>>
    BY <1>4 DEF BootTimeout, ddr, daemon
  <2>3. Shape' /\ Known'
    BY <2>1, <2>2, QuietStep
  <2>4. View(t)'
    BY <2>1 DEF View, Moves, Fresh, Staged
  <2> QED
    BY <1>i, <2>1, <2>2, <2>3, <2>4, InsideStep
<1> QED
  BY <1>1, <1>2, <1>3, <1>4

\* Waiting for the lock, and the second clear of an MMVF call.
LEMMA LockStep ==
    ASSUME Inv, NEW t \in Threads,
           Submit(t) \/ LockTimeout(t) \/ Acquire(t) \/ ClearMmvfSlot(t)
    PROVE  Inv'
<1>h. HostShape
  BY DEF Inv, Shape
<1>i. {"idle", "lock", "clear"} \subseteq HostPcs \ Inside
  BY DEF HostPcs, Inside, Fresh, Staged
<1>1. CASE Submit(t)
  <2>1. Moves(t, "idle", "lock") /\ proc'[t].kind \in Kinds
    BY <1>1, <1>h, SubmitMoves
  <2>2. slot' = slot /\ UNCHANGED <<lock, given, doorbell, comp, jobd>> /\ "gemm" \in Kinds
    BY <1>1 DEF Submit, ddr, daemon, Kinds
  <2> QED
    BY <1>i, <2>1, <2>2, OutsideStep
<1>2. CASE LockTimeout(t)
  <2>1. Moves(t, "lock", "idle")
    BY <1>2, <1>h, IdleMoves DEF LockTimeout
  <2>2. slot' = slot /\ UNCHANGED <<lock, given, doorbell, comp, jobd>> /\ "gemm" \in Kinds
    BY <1>2 DEF LockTimeout, ddr, daemon, Kinds
  <2> QED
    BY <1>i, <2>1, <2>2, OutsideStep
<1>3. CASE Acquire(t)
  <2>1. Moves(t, "lock", "check") /\ Keeps(t)
    BY <1>3, <1>h, GotoMoves DEF Acquire, HostPcs
  <2>2. lock = NoThread /\ lock' = t /\ UNCHANGED <<given, slot, doorbell, comp, jobd>>
    BY <1>3 DEF Acquire, ddr, daemon
  <2>3. Shape' /\ Known'
    BY <2>1, <2>2, QuietStep
  <2>4. View(t)'
    BY <2>1 DEF Inv, Numbers, View, Moves, Keeps, Fresh, Staged
  <2> QED
    BY <2>1, <2>2, <2>3, <2>4, InsideStep
<1>4. CASE ClearMmvfSlot(t)
  <2>1. Moves(t, "clear", "idle")
    BY <1>4, <1>h, IdleMoves DEF ClearMmvfSlot
  <2>2. /\ slot' = [slot EXCEPT !["mmvf"].seq = 0] /\ "mmvf" \in Kinds
        /\ UNCHANGED <<lock, given, doorbell, comp, jobd>>
    BY <1>4 DEF ClearMmvfSlot, daemon, Kinds
  <2> QED
    BY <1>i, <2>1, <2>2, OutsideStep
<1> QED
  BY <1>1, <1>2, <1>3, <1>4

\* A step of the daemon.
LEMMA JobdKeepsInv ==
    ASSUME Inv, DaemonStep
    PROVE  Inv'
<1>1. UNCHANGED <<proc, lock, given>>
  BY DEF DaemonStep
<1>2. Shape'
  BY DaemonShape DEF Inv
<1>3. Exclusive' /\ AnswersAreOwn'
  BY <1>1 DEF Inv, Exclusive, AnswersAreOwn, At, Latest
<1>4. PICK N : N = given \cup {0}
  OBVIOUS
<1>5. Known'
  <2>1. Within(N)'
    BY <1>4, DaemonWithin DEF Inv, Numbers, Known
  <2>2. N = given' \cup {0}
    BY <1>1, <1>4
  <2> QED
    BY <2>1, <2>2 DEF Known, Within
<1>6. ASSUME NEW t \in Threads PROVE View(t)'
  <2>v. View(t) /\ proc' = proc /\ given' = given
    BY <1>1 DEF Inv, Numbers
  <2>1. proc[t].pc \in Fresh => Absent(proc[t].seq)'
    <3> SUFFICES ASSUME proc[t].pc \in Fresh PROVE Absent(proc[t].seq)'
      OBVIOUS
    <3>1. PICK M : M = Nat \ {proc[t].seq}
      OBVIOUS
    <3>2. Within(M) /\ 0 \in M
      BY <3>1, FreshFacts DEF Absent
    <3>3. Within(M)'
      BY <3>2, DaemonWithin DEF Inv
    <3>4. M = Nat \ {proc'[t].seq}
      BY <2>v, <3>1
    <3> QED
      BY <3>3, <3>4 DEF Absent, Within
  <2>2. proc[t].pc \in Staged => StagedView(proc[t].kind, proc[t].seq)'
    <3> SUFFICES ASSUME proc[t].pc \in Staged
                 PROVE  StagedView(proc[t].kind, proc[t].seq)'
      OBVIOUS
    <3>1. PICK k \in Kinds, s \in Nat \ {0} :
              k = proc[t].kind /\ s = proc[t].seq /\ StagedView(k, s)
      BY StagedFacts
    <3>2. StagedView(k, s)'
      BY <3>1, DaemonStaged DEF Inv
    <3>3. proc'[t].seq = s /\ proc'[t].kind = k
      BY <2>v, <3>1
    <3> QED
      BY <3>2, <3>3 DEF StagedView
  <2>3. slot' = slot
    BY DEF DaemonStep
  <2> QED
    BY <2>v, <2>1, <2>2, <2>3 DEF View
<1> QED
  BY <1>2, <1>3, <1>5, <1>6 DEF Inv, Numbers

\* Every step keeps the invariant.
LEMMA InvStep ==
    ASSUME Inv, [Next]_vars
    PROVE  Inv'
<1>1. CASE Jobd \/ Restart
  BY <1>1, DaemonMoves, JobdKeepsInv DEF Inv
<1>2. ASSUME NEW t \in Threads,
             \/ Submit(t) \/ LockTimeout(t) \/ BootTimeout(t)
             \/ WriteFails(t) \/ WaitTimeout(t) \/ Proceed(t)
      PROVE  Inv'
  BY <1>2, LockStep, BootStep, FailureStep, FillStep, HeaderStep, DoorbellStep, AnswerStep,
     ReturnStep DEF Proceed
<1>3. CASE UNCHANGED vars
  <2>1. UNCHANGED <<proc, lock, given, slot, doorbell, comp, jobd>>
    BY <1>3 DEF vars
  <2>2. Shape' /\ Exclusive' /\ AnswersAreOwn'
    BY <2>1 DEF Inv, Shape, HostShape, DdrShape, JobdShape, Exclusive, AnswersAreOwn, At,
              Latest
  <2>3. Numbers'
    <3>1. Known'
      BY <2>1 DEF Inv, Numbers, Known, Within
    <3>2. ASSUME NEW t \in Threads PROVE View(t)'
      <4>1. View(t)
        BY DEF Inv, Numbers
      <4>2. proc[t].pc \in Fresh => Absent(proc[t].seq)'
        BY <2>1, <4>1 DEF View, Absent, Within
      <4>3. proc[t].pc \in Staged => StagedView(proc[t].kind, proc[t].seq)'
        BY <2>1, <4>1 DEF View, StagedView
      <4> QED
        BY <2>1, <4>1, <4>2, <4>3 DEF View
    <3> QED
      BY <3>1, <3>2 DEF Numbers
  <2> QED
    BY <2>2, <2>3 DEF Inv
<1> QED
  BY <1>1, <1>2, <1>3 DEF Next

\* It holds at first.
LEMMA InvInit == Init => Inv
<1> SUFFICES ASSUME Init PROVE Inv
  OBVIOUS
<1>1. proc = [t \in Threads |-> Idle] /\ given = {}
  BY DEF Init
<1>2. HostShape /\ \A t \in Threads : proc[t].pc = "idle"
  BY <1>1, IdleTyped DEF HostShape
<1>3. /\ slot \in [Kinds -> SlotState] /\ (\A k \in Kinds : slot[k].seq = 0)
      /\ comp \in CompState /\ comp.seq = 0
      /\ doorbell \in DoorbellState /\ doorbell.seq = 0
  BY DEF Init, SlotState, EmptyComp, CompState, NoRun, Run2, NoJob, DoorbellState
<1>4. jobd \in JobdState /\ jobd.pc = "boot" /\ jobd.seq = 0
  BY DEF Init, Resting, JobdState, JobdPcs
<1>5. Shape
  BY <1>2, <1>3, <1>4 DEF Shape, DdrShape, JobdShape
<1>6. Known
  BY <1>3, <1>4 DEF Known, Within
<1>7. \A t \in Threads : View(t)
  BY <1>2 DEF View, Fresh, Staged
<1>8. Exclusive /\ AnswersAreOwn
  BY <1>2 DEF Exclusive, AnswersAreOwn, At, Inside, Fresh, Staged
<1> QED
  BY <1>5, <1>6, <1>7, <1>8 DEF Inv, Numbers

\* What a call returns is the outcome of its own job, run with its own arguments
\* (SeeAnswer), whatever timed out, failed, restarted or ran twice before, unless
\* next_runtime_job_seq gave some job a larger number than that of the call.
THEOREM AnswersOwn == Spec => []AnswersAreOwn
<1>1. Init => Inv
  BY InvInit
<1>2. Inv /\ [Next]_vars => Inv'
  BY InvStep
<1>3. Inv => AnswersAreOwn
  BY DEF Inv
<1> QED
  BY <1>1, <1>2, <1>3, PTL DEF Spec
-----------------------------------------------------------------------------
(***************************************************************************)
(* Runs that end after the call.  A job whose call emptied its slot stands *)
(* in no slot and comes into none: its number was given only once.  So the *)
(* daemon does not begin another run of it, and the run it was in the      *)
(* middle of is the only one that is late.                                 *)
(***************************************************************************)
Numbered == Fresh \cup Staged \cup {"return"}

ClearedOnce ==
    /\ cleared \subseteq given
    /\ \A t \in Threads : proc[t].pc \in Numbered => proc[t].seq \notin cleared

\* The job of a call that went well stands in the slot of its kind or in none.
OwnSlotOnly ==
    \A t \in Threads : proc[t].pc = "return" /\ proc[t].result = "ok" =>
        /\ proc[t].kind \in Kinds /\ proc[t].seq # 0 /\ proc[t].seq \in given
        /\ \A j \in Kinds \ {proc[t].kind} : slot[j].seq # proc[t].seq

OutOfSlots == \A s \in cleared, k \in Kinds : slot[k].seq # s

LateRuns ==
    /\ late \in [Seqs -> Nat]
    /\ \A s \in Seqs :
           /\ late[s] <= 1
           /\ s \notin cleared => late[s] = 0
           /\ jobd.seq = s /\ jobd.pc \in {"matched", "run"} => late[s] = 0

LateInv == ClearedOnce /\ OwnSlotOnly /\ OutOfSlots /\ LateRuns

\* The daemon.
LEMMA DaemonLate ==
    ASSUME Inv, LateInv, DaemonStep
    PROVE  LateInv'
<1>1. UNCHANGED <<proc, lock, given, slot, doorbell, cleared>>
  BY DEF DaemonStep
<1>2. ClearedOnce' /\ OwnSlotOnly' /\ OutOfSlots'
  BY <1>1 DEF LateInv, ClearedOnce, OwnSlotOnly, OutOfSlots
<1>3. LateRuns'
  <2>0. LateRuns /\ OutOfSlots /\ cleared' = cleared
    BY <1>1 DEF LateInv
  <2>k. jobd.pc \in {"found", "matched", "run"} => jobd.kind \in Kinds
    BY DEF Inv, Shape, JobdShape
  <2>1. CASE late' = late /\ (Rests \/ TakesDoorbell \/ Marks \/ Publishes \/ Concludes)
    <3>1. jobd'.pc \notin {"matched", "run"}
      BY <2>1 DEF Rests, TakesDoorbell, Marks, Publishes, Concludes
    <3> QED
      BY <2>0, <2>1, <3>1 DEF LateRuns
  <2>2. CASE late' = late /\ (TakesSlot \/ Matches)
    <3>1. jobd'.seq \notin cleared
      BY <2>0, <2>2, <2>k DEF TakesSlot, Matches, Holds, OutOfSlots
    <3> QED
      BY <2>0, <2>2, <3>1 DEF LateRuns
  <2>3. CASE late' = late /\ Copies
    BY <2>0, <2>3 DEF LateRuns, Copies, Holds
  <2>4. CASE /\ Runs1
             /\ late' = [late EXCEPT ![jobd.seq] = IF jobd.seq \in cleared /\ @ < 2
                                                   THEN @ + 1 ELSE @]
    <3>1. jobd.pc = "run" /\ jobd'.pc = "publish"
      BY <2>4 DEF Runs1
    <3>2. \A s \in Seqs : s # jobd.seq => late'[s] = late[s]
      BY <2>0, <2>4 DEF LateRuns
    <3>3. jobd.seq \in Seqs => late'[jobd.seq] = IF jobd.seq \in cleared THEN 1 ELSE 0
      BY <2>0, <2>4, <3>1, SMT DEF LateRuns
    <3>4. late' \in [Seqs -> Nat]
      <4>1. \A s \in Seqs : late'[s] \in Nat
        BY <2>0, <3>2, <3>3, SMT DEF LateRuns
      <4>2. late' = [s \in Seqs |-> late'[s]]
        BY <2>0, <2>4 DEF LateRuns
      <4> QED
        BY <4>1, <4>2
    <3> QED
      BY <2>0, <3>1, <3>2, <3>3, <3>4, SMT DEF LateRuns
  <2> QED
    BY <2>1, <2>2, <2>3, <2>4 DEF DaemonStep
<1> QED
  BY <1>2, <1>3 DEF LateInv

\* The host: it counts no run, and what it clears was not cleared before.
LEMMA HostLate ==
    ASSUME LateInv, late' = late, jobd' = jobd, cleared \subseteq cleared'
    PROVE  LateRuns'
BY DEF LateInv, LateRuns

\* A step of a thread that does not end its call well and writes no header.
LEMMA MovesLate ==
    ASSUME Inv, LateInv, NEW t \in Threads, NEW from, NEW to, Moves(t, from, to),
           UNCHANGED <<late, jobd, cleared, given>>,
           \A k \in Kinds : slot'[k].seq \in {0, slot[k].seq},
           \/ to \notin Numbered
           \/ from \in Numbered /\ to # "return" /\ Keeps(t)
           \/ from \in Numbered /\ to = "return" /\ Keeps(t) /\ proc'[t].result = "none"
    PROVE  LateInv'
<1>1. LateRuns'
  BY HostLate
<1>2. OutOfSlots'
  <2>1. 0 \notin cleared
    BY DEF LateInv, ClearedOnce, Inv, Shape, HostShape
  <2> QED
    BY <2>1 DEF LateInv, OutOfSlots
<1>3. ClearedOnce'
  <2>1. ASSUME NEW u \in Threads, proc'[u].pc \in Numbered PROVE proc'[u].seq \notin cleared
    <3>1. CASE u = t
      BY <2>1, <3>1 DEF LateInv, ClearedOnce, Moves, Keeps
    <3>2. CASE u # t
      BY <2>1, <3>2 DEF LateInv, ClearedOnce, Moves
    <3> QED
      BY <3>1, <3>2
  <2> QED
    BY <2>1 DEF LateInv, ClearedOnce
<1>4. OwnSlotOnly'
  <2> SUFFICES ASSUME NEW u \in Threads, proc'[u].pc = "return", proc'[u].result = "ok"
               PROVE  /\ proc'[u].kind \in Kinds /\ proc'[u].seq # 0 /\ proc'[u].seq \in given'
                      /\ \A j \in Kinds \ {proc'[u].kind} : slot'[j].seq # proc'[u].seq
    BY DEF OwnSlotOnly
  <2>1. u # t
    BY DEF Moves, Numbered
  <2>2. proc'[u] = proc[u]
    BY <2>1 DEF Moves
  <2> QED
    BY <2>2 DEF LateInv, OwnSlotOnly
<1> QED
  BY <1>1, <1>2, <1>3, <1>4 DEF LateInv

\* A new number was not cleared.
LEMMA NumberLate ==
    ASSUME Inv, LateInv, NEW t \in Threads, NEW from, At(t, from), Number(t),
           UNCHANGED <<late, jobd, cleared, slot>>
    PROVE  LateInv'
<1>1. PICK s \in Seqs \ given : /\ Moves(t, from, "forget") /\ given' = given \cup {s}
                                /\ proc'[t].seq = s
  BY NumberMoves DEF Inv, Shape
<1>3. LateRuns' /\ OutOfSlots'
  BY HostLate DEF LateInv, OutOfSlots
<1>4. ClearedOnce'
  <2>2. s \notin cleared /\ cleared \subseteq given'
    BY <1>1 DEF LateInv, ClearedOnce
  <2>3. ASSUME NEW u \in Threads, proc'[u].pc \in Numbered PROVE proc'[u].seq \notin cleared
    <3>1. CASE u = t
      BY <1>1, <2>2, <3>1
    <3>2. CASE u # t
      BY <1>1, <2>3, <3>2 DEF LateInv, ClearedOnce, Moves
    <3> QED
      BY <3>1, <3>2
  <2> QED
    BY <2>2, <2>3 DEF LateInv, ClearedOnce
<1>5. OwnSlotOnly'
  <2> SUFFICES ASSUME NEW u \in Threads, proc'[u].pc = "return", proc'[u].result = "ok"
               PROVE  /\ proc'[u].kind \in Kinds /\ proc'[u].seq # 0 /\ proc'[u].seq \in given'
                      /\ \A j \in Kinds \ {proc'[u].kind} : slot'[j].seq # proc'[u].seq
    BY DEF OwnSlotOnly
  <2>1. u # t
    BY <1>1 DEF Moves
  <2>2. proc'[u] = proc[u]
    BY <1>1, <2>1 DEF Moves
  <2>3. /\ proc[u].kind \in Kinds /\ proc[u].seq # 0 /\ proc[u].seq \in given
        /\ \A j \in Kinds \ {proc[u].kind} : slot[j].seq # proc[u].seq
    BY <2>2 DEF LateInv, OwnSlotOnly
  <2>4. slot' = slot /\ proc[u].seq \in given'
    BY <1>1, <2>3
  <2> QED
    BY <2>2, <2>3, <2>4
<1> QED
  BY <1>3, <1>4, <1>5 DEF LateInv

\* The header puts a job into a slot whose number was not cleared.
LEMMA HeaderLate ==
    ASSUME Inv, LateInv, NEW t \in Threads, StageHeader(t)
    PROVE  LateInv'
<1>h. HostShape /\ slot \in [Kinds -> SlotState]
  BY DEF Inv, Shape, DdrShape
<1>1. Moves(t, "header", "doorbell") /\ Keeps(t)
  BY <1>h, GotoMoves DEF StageHeader, HostPcs
<1>2. UNCHANGED <<late, jobd, cleared, given>>
  BY DEF StageHeader, daemon, history
<1>3. PICK k \in Kinds, s \in Nat : k = proc[t].kind /\ s = proc[t].seq
  BY <1>1, FreshFacts DEF Moves, Fresh
<1>4. slot' = [slot EXCEPT ![k].seq = s]
  BY <1>3 DEF StageHeader
<1>5. OthersKept(k) /\ slot'[k].seq = s
  BY <1>h, <1>4, SlotSeq
<1>6. s \notin cleared
  BY <1>1, <1>3 DEF LateInv, ClearedOnce, Moves, Numbered, Fresh
<1>7. LateRuns' /\ OutOfSlots'
  BY <1>2, <1>5, <1>6, HostLate DEF LateInv, OutOfSlots, OthersKept
<1>8. ClearedOnce'
  <2>1. ASSUME NEW u \in Threads, proc'[u].pc \in Numbered PROVE proc'[u].seq \notin cleared
    <3>1. CASE u = t
      BY <1>1, <1>3, <1>6, <3>1 DEF Keeps
    <3>2. CASE u # t
      BY <1>1, <2>1, <3>2 DEF LateInv, ClearedOnce, Moves
    <3> QED
      BY <3>1, <3>2
  <2> QED
    BY <1>2, <2>1 DEF LateInv, ClearedOnce
<1>9. OwnSlotOnly'
  <2>1. ASSUME NEW u \in Threads PROVE proc'[u].pc # "return"
    <3>1. lock = t
      BY <1>1 DEF Inv, Exclusive, Moves, Inside, Fresh
    <3>2. CASE u = t
      BY <1>1, <3>2 DEF Moves
    <3>3. CASE u # t
      BY <1>1, <3>1, <3>3 DEF Inv, Exclusive, Moves, Inside
    <3> QED
      BY <3>2, <3>3
  <2> QED
    BY <2>1 DEF OwnSlotOnly
<1> QED
  BY <1>7, <1>8, <1>9 DEF LateInv

\* A call that has its answer: its job stands in the slot of its kind or in none.
LEMMA AnswerLate ==
    ASSUME Inv, LateInv, NEW t \in Threads, SeeAnswer(t)
    PROVE  LateInv'
<1>1. Moves(t, "wait", "return") /\ Keeps(t)
  BY AnswerMoves DEF Inv, Shape, DdrShape
<1>2. UNCHANGED <<late, jobd, cleared, given, slot>>
  BY DEF SeeAnswer, ddr, daemon, history
<1>3. /\ proc[t].kind \in Kinds /\ proc[t].seq \in Nat \ {0}
      /\ proc[t].seq \in given /\ StagedView(proc[t].kind, proc[t].seq)
  BY <1>1, StagedFacts DEF Moves, Staged
<1>4. LateRuns' /\ OutOfSlots'
  BY <1>2, HostLate DEF LateInv, OutOfSlots
<1>5. ClearedOnce'
  <2>1. ASSUME NEW u \in Threads, proc'[u].pc \in Numbered PROVE proc'[u].seq \notin cleared
    <3>1. CASE u = t
      BY <1>1, <3>1 DEF LateInv, ClearedOnce, Moves, Keeps, Numbered, Staged
    <3>2. CASE u # t
      BY <1>1, <2>1, <3>2 DEF LateInv, ClearedOnce, Moves
    <3> QED
      BY <3>1, <3>2
  <2> QED
    BY <1>2, <2>1 DEF LateInv, ClearedOnce
<1>6. OwnSlotOnly'
  <2> SUFFICES ASSUME NEW u \in Threads, proc'[u].pc = "return", proc'[u].result = "ok"
               PROVE  /\ proc'[u].kind \in Kinds /\ proc'[u].seq # 0 /\ proc'[u].seq \in given'
                      /\ \A j \in Kinds \ {proc'[u].kind} : slot'[j].seq # proc'[u].seq
    BY DEF OwnSlotOnly
  <2>1. CASE u = t
    <3>1. PICK k \in Kinds, s \in Nat \ {0} : k = proc[t].kind /\ s = proc[t].seq
      BY <1>3
    <3>2. \A j \in Kinds \ {k} : slot[j].seq # s
      BY <1>3, <3>1 DEF StagedView
    <3>3. proc'[u].kind = k /\ proc'[u].seq = s /\ s \in given'
      BY <1>1, <1>2, <1>3, <2>1, <3>1 DEF Keeps
    <3> QED
      BY <1>2, <3>2, <3>3
  <2>2. CASE u # t
    <3>1. proc'[u] = proc[u]
      BY <1>1, <2>2 DEF Moves
    <3> QED
      BY <1>2, <3>1 DEF LateInv, OwnSlotOnly
  <2> QED
    BY <2>1, <2>2
<1> QED
  BY <1>4, <1>5, <1>6 DEF LateInv

\* A call that returns well empties the only slot its job can stand in.
LEMMA ReturnLate ==
    ASSUME Inv, LateInv, NEW t \in Threads, Return(t)
    PROVE  LateInv'
<1>h. HostShape /\ slot \in [Kinds -> SlotState]
  BY DEF Inv, Shape, DdrShape
<1>1. PICK to \in {"idle", "clear"} : Moves(t, "return", to)
  BY <1>h, ReturnMoves
<1>2. UNCHANGED <<late, jobd, given>>
  BY DEF Return, daemon
<1>n. to \notin Numbered
  BY DEF Numbered, Fresh, Staged
<1>3. CASE proc[t].result = "ok" /\ proc[t].path # "cached"
  <2>1. /\ proc[t].kind \in Kinds /\ proc[t].seq # 0 /\ proc[t].seq \in given
        /\ \A j \in Kinds \ {proc[t].kind} : slot[j].seq # proc[t].seq
    BY <1>1, <1>3 DEF LateInv, OwnSlotOnly, Moves
  <2>2. PICK k \in Kinds, s \in Nat \ {0} : k = proc[t].kind /\ s = proc[t].seq
    BY <1>h, <2>1 DEF HostShape, ProcState
  <2>3. slot' = [slot EXCEPT ![k].seq = 0] /\ cleared' = cleared \cup {s}
    BY <1>3, <2>2 DEF Return
  <2>4. OthersKept(k) /\ slot'[k].seq = 0
    BY <1>h, <2>3, SlotSeq
  <2>5. LateRuns'
    BY <1>2, <2>3, HostLate
  <2>6. OutOfSlots'
    <3>1. ASSUME NEW c \in cleared', NEW j \in Kinds PROVE slot'[j].seq # c
      <4>1. c # 0
        BY <1>h, <2>3 DEF LateInv, ClearedOnce, HostShape
      <4>2. CASE j = k
        BY <2>4, <4>1, <4>2
      <4>3. CASE j # k
        <5>1. slot'[j].seq = slot[j].seq
          BY <2>4, <4>3 DEF OthersKept
        <5>2. slot[j].seq # s
          BY <2>1, <2>2, <4>3
        <5>3. c \in cleared => slot[j].seq # c
          BY DEF LateInv, OutOfSlots
        <5> QED
          BY <2>3, <5>1, <5>2, <5>3
      <4> QED
        BY <4>2, <4>3
    <3> QED
      BY <3>1 DEF OutOfSlots
  <2>i. ASSUME NEW u \in Threads PROVE proc'[u].pc \notin Numbered
    <3>1. lock = t
      BY <1>1 DEF Inv, Exclusive, Moves, Inside
    <3>2. CASE u = t
      BY <1>1, <1>n, <3>2 DEF Moves
    <3>3. CASE u # t
      BY <1>1, <3>1, <3>3 DEF Inv, Exclusive, Moves, Inside, Numbered
    <3> QED
      BY <3>2, <3>3
  <2>7. ClearedOnce'
    <3>1. cleared' \subseteq given'
      BY <1>2, <2>1, <2>2, <2>3 DEF LateInv, ClearedOnce
    <3> QED
      BY <2>i, <3>1 DEF ClearedOnce
  <2>8. OwnSlotOnly'
    BY <2>i DEF OwnSlotOnly, Numbered
  <2> QED
    BY <2>5, <2>6, <2>7, <2>8 DEF LateInv
<1>4. CASE ~(proc[t].result = "ok" /\ proc[t].path # "cached")
  <2>1. slot' = slot /\ cleared' = cleared
    BY <1>4 DEF Return
  <2> QED
    BY <1>1, <1>2, <1>n, <2>1, MovesLate
<1> QED
  BY <1>3, <1>4

\* The other steps of the host.
LEMMA OtherLate ==
    ASSUME Inv, LateInv, NEW t \in Threads,
           \/ Submit(t) \/ LockTimeout(t) \/ BootTimeout(t) \/ WriteFails(t) \/ WaitTimeout(t)
           \/ Acquire(t) \/ CheckBoot(t) \/ EraseForBoot(t) \/ SeeMarker(t) \/ ClearStatus(t)
           \/ EmptySlot(t) \/ StagePayload(t) \/ StageDoorbell(t) \/ ClearMmvfSlot(t)
    PROVE  LateInv'
<1>h. HostShape /\ slot \in [Kinds -> SlotState]
  BY DEF Inv, Shape, DdrShape
<1>f. UNCHANGED <<late, jobd, cleared>>
  BY DEF Submit, LockTimeout, BootTimeout, WriteFails, WaitTimeout, Acquire, CheckBoot,
         EraseForBoot, SeeMarker, ClearStatus, EmptySlot, StagePayload, StageDoorbell,
         ClearMmvfSlot, daemon, history
<1>n. /\ {"forget", "empty", "payload", "header", "doorbell", "wait"} \subseteq Numbered
      /\ "return" \in Numbered
      /\ \A to \in {"idle", "lock", "check", "erase", "marker"} : to \notin Numbered
  BY DEF Numbered, Fresh, Staged
<1>1. CASE Number(t) /\ (CheckBoot(t) \/ SeeMarker(t))
  BY <1>1, <1>f, NumberLate DEF CheckBoot, SeeMarker, ddr
<1>2. CASE Submit(t) \/ LockTimeout(t) \/ BootTimeout(t) \/ Acquire(t) \/ EraseForBoot(t)
  <2>1. slot' = slot /\ given' = given
    BY <1>2 DEF Submit, LockTimeout, BootTimeout, Acquire, EraseForBoot, ddr
  <2>2. \E from \in HostPcs, to \in {"idle", "lock", "check", "marker"} : Moves(t, from, to)
    BY <1>2, <1>h, SubmitMoves, IdleMoves, GotoMoves
    DEF LockTimeout, BootTimeout, Acquire, EraseForBoot, HostPcs
  <2> QED
    BY <1>f, <1>n, <2>1, <2>2, MovesLate
<1>3. CASE CheckBoot(t) /\ ~Number(t)
  <2>1. slot' = slot /\ given' = given /\ Goto(t, "erase") /\ At(t, "check")
    BY <1>3 DEF CheckBoot, ddr
  <2>2. Moves(t, "check", "erase")
    BY <1>h, <2>1, GotoMoves DEF HostPcs
  <2> QED
    BY <1>f, <1>n, <2>1, <2>2, MovesLate
<1>4. CASE WriteFails(t) \/ WaitTimeout(t)
  <2>1. slot' = slot /\ given' = given
    BY <1>4 DEF WriteFails, WaitTimeout, ddr
  <2>2. proc[t].pc \in Numbered
    BY <1>4 DEF WriteFails, WaitTimeout, At, Numbered, Fresh, Staged
  <2>3. Moves(t, proc[t].pc, "return") /\ Keeps(t) /\ proc'[t].result = "none"
    BY <1>4, <1>h, FailureMoves DEF WriteFails, WaitTimeout
  <2> QED
    BY <1>f, <2>1, <2>2, <2>3, MovesLate
<1>5. CASE ClearStatus(t) \/ StageDoorbell(t)
  <2>1. slot' = slot /\ given' = given
    BY <1>5 DEF ClearStatus, StageDoorbell
  <2>2. \E from \in {"forget", "doorbell"}, to \in {"empty", "payload", "wait"} :
            Moves(t, from, to) /\ Keeps(t)
    BY <1>5, <1>h, GotoMoves DEF ClearStatus, StageDoorbell, HostPcs
  <2> QED
    BY <1>f, <1>n, <2>1, <2>2, MovesLate
<1>6. CASE EmptySlot(t) \/ StagePayload(t)
  <2>0. PICK k \in Kinds, s \in Nat : k = proc[t].kind /\ s = proc[t].seq
    BY <1>6, FreshFacts DEF EmptySlot, StagePayload, At, Fresh
  <2>1. slot' = [slot EXCEPT ![k].seq = 0] \/ slot' = [slot EXCEPT ![k].args = s]
    BY <1>6, <2>0 DEF EmptySlot, StagePayload
  <2>2. \A j \in Kinds : slot'[j].seq \in {0, slot[j].seq}
    BY <1>h, <2>1, SlotSeq, SlotArgs, SMT DEF OthersKept
  <2>3. \E from \in {"empty", "payload"}, to \in {"payload", "header"} :
            Moves(t, from, to) /\ Keeps(t)
    BY <1>6, <1>h, GotoMoves DEF EmptySlot, StagePayload, HostPcs
  <2>4. given' = given
    BY <1>6 DEF EmptySlot, StagePayload
  <2> QED
    BY <1>f, <1>n, <2>2, <2>3, <2>4, MovesLate
<1>7. CASE ClearMmvfSlot(t)
  <2>1. slot' = [slot EXCEPT !["mmvf"].seq = 0] /\ given' = given /\ "mmvf" \in Kinds
    BY <1>7 DEF ClearMmvfSlot, Kinds
  <2>2. \A j \in Kinds : slot'[j].seq \in {0, slot[j].seq}
    BY <1>h, <2>1, SlotSeq DEF OthersKept
  <2>3. Moves(t, "clear", "idle")
    BY <1>7, <1>h, IdleMoves DEF ClearMmvfSlot
  <2> QED
    BY <1>f, <1>n, <2>1, <2>2, <2>3, MovesLate
<1> QED
  BY <1>1, <1>2, <1>3, <1>4, <1>5, <1>6, <1>7 DEF SeeMarker

\* It holds at first.
LEMMA LateInit == Init => LateInv
<1> SUFFICES ASSUME Init PROVE LateInv
  OBVIOUS
<1>1. \A t \in Threads : proc[t].pc = "idle"
  BY IdleTyped DEF Init
<1>2. ClearedOnce /\ OwnSlotOnly /\ OutOfSlots
  BY <1>1 DEF Init, ClearedOnce, OwnSlotOnly, OutOfSlots, Numbered, Fresh, Staged
<1>3. LateRuns
  BY SMT DEF Init, LateRuns
<1> QED
  BY <1>2, <1>3 DEF LateInv

\* Every step keeps it.
LEMMA LateStep ==
    ASSUME Inv, LateInv, [Next]_vars
    PROVE  LateInv'
<1>1. CASE Jobd \/ Restart
  BY <1>1, DaemonMoves, DaemonLate DEF Inv
<1>2. ASSUME NEW t \in Threads,
             \/ Submit(t) \/ LockTimeout(t) \/ BootTimeout(t)
             \/ WriteFails(t) \/ WaitTimeout(t) \/ Proceed(t)
      PROVE  LateInv'
  BY <1>2, OtherLate, HeaderLate, AnswerLate, ReturnLate DEF Proceed
<1>3. CASE UNCHANGED vars
  BY <1>3 DEF vars, LateInv, ClearedOnce, OwnSlotOnly, OutOfSlots, LateRuns
<1> QED
  BY <1>1, <1>2, <1>3 DEF Next

\* The daemon runs a job again for as long as it stands in its slot
\* (jobd_redispatch_seen_arg_slot_enabled); once the call has emptied the slot, at
\* most one run of it comes to an end.
THEOREM OneLateRun == Spec => []AtMostOneLateRun
<1>1. Init => Inv /\ LateInv
  BY InvInit, LateInit
<1>2. Inv /\ LateInv /\ [Next]_vars => Inv' /\ LateInv'
  BY InvStep, LateStep
<1>3. LateInv => AtMostOneLateRun
  BY DEF LateInv, LateRuns, AtMostOneLateRun
<1> QED
  BY <1>1, <1>2, <1>3, PTL DEF Spec
-----------------------------------------------------------------------------
(***************************************************************************)
(* The numbers stay in their ranges.  A call that has started and has no   *)
(* number yet has one reserved; every other number in the shared window,   *)
(* in a call or in the daemon's hands was given to a call before.          *)
(***************************************************************************)
Given == Seqs \cup {0}

ProcRange == \A t \in Threads : proc[t].seq \in Given /\ proc[t].run \in Runs
DdrRange == (\A k \in Kinds : slot[k].args \in Given) /\ comp.run \in Runs
JobdRange == /\ jobd.args \in Given /\ jobd.mirror <= Mirrors
             /\ seen \in [Kinds -> Given]
FaultRange == faults \in [failures : 0 .. MaxFailures, restarts : 0 .. MaxRestarts]
HostRange == lock \in Threads \cup {NoThread} /\ booted \in BOOLEAN

GivenRange == given \subseteq Seqs

Ranges == GivenRange /\ ProcRange /\ DdrRange /\ JobdRange /\ FaultRange /\ HostRange

\* The steps of a call that neither start it nor give it its number.
GoesOn(t) ==
    \/ LockTimeout(t) \/ BootTimeout(t) \/ WriteFails(t) \/ WaitTimeout(t) \/ Acquire(t)
    \/ (CheckBoot(t) /\ Goto(t, "erase")) \/ EraseForBoot(t) \/ ClearStatus(t) \/ EmptySlot(t)
    \/ StagePayload(t) \/ StageHeader(t) \/ StageDoorbell(t) \/ SeeAnswer(t) \/ Return(t)
    \/ ClearMmvfSlot(t)

\* A step of the host starts a call, gives it its number, or is one of these.
LEMMA HostCases ==
    ASSUME NEW t \in Threads,
           \/ Submit(t) \/ LockTimeout(t) \/ BootTimeout(t)
           \/ WriteFails(t) \/ WaitTimeout(t) \/ Proceed(t)
    PROVE  \/ Submit(t) /\ given' = given
           \/ Number(t) /\ (At(t, "check") \/ At(t, "marker"))
           \/ GoesOn(t) /\ given' = given
<1>1. CASE Submit(t)
  BY <1>1 DEF Submit
<1>2. CASE CheckBoot(t) \/ SeeMarker(t)
  BY <1>2 DEF CheckBoot, SeeMarker, GoesOn
<1>3. CASE LockTimeout(t) \/ BootTimeout(t) \/ WriteFails(t) \/ WaitTimeout(t) \/ Acquire(t)
  BY <1>3 DEF GoesOn, LockTimeout, BootTimeout, WriteFails, WaitTimeout, Acquire
<1>4. CASE EraseForBoot(t) \/ ClearStatus(t) \/ EmptySlot(t) \/ StagePayload(t)
           \/ StageHeader(t)
  BY <1>4 DEF GoesOn, EraseForBoot, ClearStatus, EmptySlot, StagePayload, StageHeader
<1>5. CASE StageDoorbell(t) \/ SeeAnswer(t) \/ Return(t) \/ ClearMmvfSlot(t)
  BY <1>5 DEF GoesOn, StageDoorbell, SeeAnswer, Return, ClearMmvfSlot
<1> QED
  BY <1>1, <1>2, <1>3, <1>4, <1>5 DEF Proceed

\* A call's numbers are those it had, the one it was given, or those of the record.
LEMMA ProcValues ==
    ASSUME Shape, NEW t \in Threads, Submit(t) \/ GoesOn(t)
    PROVE  \A u \in Threads : /\ proc'[u].seq \in {0, proc[u].seq}
                              /\ proc'[u].run \in {NoRun, proc[u].run, comp.run}
<1>h. proc \in [Threads -> ProcState]
  BY DEF Shape, HostShape
<1>i. Idle.seq = 0 /\ Idle.run = NoRun
  BY DEF Idle
<1>1. ASSUME NEW pc, Goto(t, pc)
      PROVE  \A u \in Threads : proc'[u].seq = proc[u].seq /\ proc'[u].run = proc[u].run
  BY <1>h, <1>1 DEF Goto, ProcState
<1>2. ASSUME NEW p, proc' = [proc EXCEPT ![t] = p],
             p.seq \in {0, proc[t].seq}, p.run \in {NoRun, proc[t].run, comp.run}
      PROVE  \A u \in Threads : /\ proc'[u].seq \in {0, proc[u].seq}
                                /\ proc'[u].run \in {NoRun, proc[u].run, comp.run}
  BY <1>h, <1>2
<1>3. CASE Submit(t)
  <2>1. PICK c \in Calls[t] :
            proc' = [proc EXCEPT ![t] = [Idle EXCEPT !.pc = "lock", !.kind = c[1],
                                                    !.path = c[2]]]
    BY <1>3 DEF Submit
  <2>2. PICK p : p = [Idle EXCEPT !.pc = "lock", !.kind = c[1], !.path = c[2]]
    OBVIOUS
  <2>3. p.seq = 0 /\ p.run = NoRun
    BY <2>2, SMT DEF Idle
  <2> QED
    BY <1>2, <2>1, <2>2, <2>3
<1>4. CASE LockTimeout(t) \/ BootTimeout(t) \/ ClearMmvfSlot(t)
  BY <1>2, <1>4, <1>i DEF LockTimeout, BootTimeout, ClearMmvfSlot
<1>5. CASE WriteFails(t) \/ WaitTimeout(t)
  <2>1. proc' = [proc EXCEPT ![t].pc = "return", ![t].result = "none"]
    BY <1>5 DEF WriteFails, WaitTimeout
  <2>2. proc' = [proc EXCEPT ![t] = [@ EXCEPT !.pc = "return", !.result = "none"]]
    BY <1>h, <2>1, Zenon
  <2>3. PICK p : p = [proc[t] EXCEPT !.pc = "return", !.result = "none"]
    OBVIOUS
  <2>4. p.seq = proc[t].seq /\ p.run = proc[t].run
    BY <1>h, <2>3, SMT DEF ProcState
  <2> QED
    BY <1>2, <2>2, <2>3, <2>4
<1>6. CASE Acquire(t) \/ (CheckBoot(t) /\ Goto(t, "erase")) \/ EraseForBoot(t)
           \/ ClearStatus(t) \/ EmptySlot(t) \/ StagePayload(t) \/ StageHeader(t)
           \/ StageDoorbell(t)
  <2>1. \E pc : Goto(t, pc)
    BY <1>6 DEF Acquire, EraseForBoot, ClearStatus, EmptySlot, StagePayload, StageHeader,
                StageDoorbell
  <2> QED
    BY <1>1, <2>1
<1>7. CASE SeeAnswer(t)
  <2>1. proc' = [proc EXCEPT ![t].pc = "return", ![t].result = comp.status,
                             ![t].run = comp.run]
    BY <1>7 DEF SeeAnswer
  <2>2. PICK st, r : st = comp.status /\ r = comp.run
    OBVIOUS
  <2>3. proc' = [proc EXCEPT ![t] = [@ EXCEPT !.pc = "return", !.result = st, !.run = r]]
    BY <1>h, <2>1, <2>2, Zenon
  <2>4. PICK p : p = [proc[t] EXCEPT !.pc = "return", !.result = st, !.run = r]
    OBVIOUS
  <2>5. p.seq = proc[t].seq /\ p.run = r
    BY <1>h, <2>4, SMT DEF ProcState
  <2> QED
    BY <1>2, <2>2, <2>3, <2>4, <2>5
<1>8. CASE Return(t)
  <2>1. PICK q : q = [proc[t] EXCEPT !.pc = "clear"]
    OBVIOUS
  <2>2. q.seq = proc[t].seq /\ q.run = proc[t].run
    BY <1>h, <2>1, SMT DEF ProcState
  <2>3. proc' = [proc EXCEPT ![t] = IF proc[t].path = "mmvf" THEN q ELSE Idle]
    BY <1>8, <2>1 DEF Return
  <2>4. PICK p : p = IF proc[t].path = "mmvf" THEN q ELSE Idle
    OBVIOUS
  <2>5. p.seq \in {0, proc[t].seq} /\ p.run \in {NoRun, proc[t].run, comp.run}
    BY <1>i, <2>2, <2>4
  <2> QED
    BY <1>2, <2>3, <2>4, <2>5
<1> QED
  BY <1>3, <1>4, <1>5, <1>6, <1>7, <1>8 DEF GoesOn

\* The host writes no arguments but those of the call, and no outcome.
LEMMA DdrValues ==
    ASSUME Shape, NEW t \in Threads,
           \/ Submit(t) \/ LockTimeout(t) \/ BootTimeout(t)
           \/ WriteFails(t) \/ WaitTimeout(t) \/ Proceed(t)
    PROVE  /\ \A k \in Kinds : slot'[k].args \in {slot[k].args, proc[t].seq}
           /\ comp' \in {comp, EmptyComp}
<1>h. slot \in [Kinds -> SlotState]
  BY DEF Shape, DdrShape
<1>1. ASSUME NEW k, NEW s, slot' = [slot EXCEPT ![k].seq = s]
      PROVE  \A j \in Kinds : slot'[j].args = slot[j].args
  BY <1>h, <1>1, SMT DEF SlotState
<1>2. CASE \/ Submit(t) \/ LockTimeout(t) \/ BootTimeout(t) \/ WriteFails(t) \/ WaitTimeout(t)
           \/ Acquire(t) \/ CheckBoot(t) \/ SeeMarker(t) \/ SeeAnswer(t)
  <2>1. UNCHANGED <<slot, comp>>
    BY <1>2 DEF Submit, LockTimeout, BootTimeout, WriteFails, WaitTimeout, Acquire, CheckBoot,
                SeeMarker, SeeAnswer, ddr
  <2> QED
    BY <2>1
<1>3. CASE EraseForBoot(t) \/ ClearStatus(t) \/ StageDoorbell(t)
  <2>1. slot' = slot /\ comp' \in {comp, EmptyComp}
    BY <1>3 DEF EraseForBoot, ClearStatus, StageDoorbell
  <2> QED
    BY <2>1
<1>4. CASE EmptySlot(t) \/ StageHeader(t) \/ Return(t) \/ ClearMmvfSlot(t)
  <2>1. /\ comp' = comp
        /\ slot' = slot \/ \E k, s : slot' = [slot EXCEPT ![k].seq = s]
    BY <1>4 DEF EmptySlot, StageHeader, Return, ClearMmvfSlot
  <2> QED
    BY <1>1, <2>1
<1>5. CASE StagePayload(t)
  <2>1. PICK k, s : k = proc[t].kind /\ s = proc[t].seq
    OBVIOUS
  <2>2. slot' = [slot EXCEPT ![k].args = s] /\ comp' = comp
    BY <1>5, <2>1 DEF StagePayload
  <2>3. \A j \in Kinds : slot'[j].args \in {slot[j].args, s}
    BY <1>h, <2>2, SMT DEF SlotState
  <2> QED
    BY <2>1, <2>2, <2>3
<1> QED
  BY <1>2, <1>3, <1>4, <1>5 DEF Proceed

\* The rest of what the host writes.
LEMMA HostValues ==
    ASSUME FaultRange, HostRange, NEW t \in Threads,
           \/ Submit(t) \/ LockTimeout(t) \/ BootTimeout(t)
           \/ WriteFails(t) \/ WaitTimeout(t) \/ Proceed(t)
    PROVE  jobd' = jobd /\ seen' = seen /\ FaultRange' /\ HostRange'
<1>1. CASE LockTimeout(t) \/ WriteFails(t) \/ WaitTimeout(t)
  <2>1. /\ UNCHANGED <<jobd, seen, lock, booted>> /\ faults.failures < MaxFailures
        /\ faults' = [faults EXCEPT !.failures = @ + 1]
    BY <1>1 DEF LockTimeout, WriteFails, WaitTimeout, daemon
  <2>2. FaultRange'
    BY <2>1, SifiveAssumption, SMT DEF FaultRange
  <2> QED
    BY <2>1, <2>2 DEF HostRange
<1>2. CASE Submit(t) \/ BootTimeout(t) \/ Acquire(t) \/ CheckBoot(t) \/ SeeMarker(t)
           \/ Return(t)
  <2>1. /\ UNCHANGED <<jobd, seen, faults>>
        /\ lock' \in {lock, t, NoThread} /\ booted' \in {booted, TRUE}
    BY <1>2 DEF Submit, BootTimeout, Acquire, CheckBoot, SeeMarker, Return, daemon, history
  <2> QED
    BY <2>1 DEF FaultRange, HostRange
<1>3. CASE EraseForBoot(t) \/ ClearStatus(t) \/ EmptySlot(t) \/ StagePayload(t)
           \/ StageHeader(t) \/ StageDoorbell(t) \/ SeeAnswer(t) \/ ClearMmvfSlot(t)
  <2>1. UNCHANGED <<jobd, seen, faults, lock, booted>>
    BY <1>3 DEF EraseForBoot, ClearStatus, EmptySlot, StagePayload, StageHeader,
                StageDoorbell, SeeAnswer, ClearMmvfSlot, daemon, history
  <2> QED
    BY <2>1 DEF FaultRange, HostRange
<1> QED
  BY <1>1, <1>2, <1>3 DEF Proceed

\* The numbers of the slots, the doorbell, the record and the daemon's job were given.
LEMMA SeqsGiven ==
    ASSUME Known, GivenRange
    PROVE  /\ \A k \in Kinds : slot[k].seq \in Given
           /\ doorbell.seq \in Given /\ comp.seq \in Given /\ jobd.seq \in Given
BY DEF Known, Within, GivenRange, Given

\* What the daemon has in its hands besides the job: no arguments, those it had, or those
\* of the slot; and the count of the writes of the record.
LEMMA JobdValues ==
    ASSUME Shape, jobd.mirror <= Mirrors, Jobd \/ Restart
    PROVE  /\ jobd'.args \in {0, jobd.args} \/ \E k \in Kinds : jobd'.args = slot[k].args
           /\ jobd'.mirror <= Mirrors
<1>h. /\ jobd \in JobdState
      /\ jobd.pc \in {"found", "matched", "run"} => jobd.kind \in Kinds
  BY DEF Shape, JobdShape
<1>m. Mirrors \in Nat \ {0} /\ 0 <= Mirrors /\ 1 <= Mirrors
  BY SifiveAssumption, SMT
<1>1. ASSUME NEW pc, jobd' = Resting \/ jobd' = [Resting EXCEPT !.pc = pc]
      PROVE  jobd'.args = 0 /\ jobd'.mirror = 0
  BY <1>1, SMT DEF Resting
<1>2. ASSUME NEW pc, NEW via, NEW kind, NEW seq, Take(pc, via, kind, seq)
      PROVE  jobd'.args = 0 /\ jobd'.mirror = 0
  BY <1>2, SMT DEF Take, Resting
<1>3. LeaveMarker => jobd'.args = 0 /\ jobd'.mirror = 1
  BY SMT DEF LeaveMarker, Resting
<1>4. CASE \/ \E pc : jobd' = Resting \/ jobd' = [Resting EXCEPT !.pc = pc]
           \/ \E pc, via, kind, seq : Take(pc, via, kind, seq)
           \/ LeaveMarker
  BY <1>m, <1>1, <1>2, <1>3, <1>4
<1>5. CASE PollGemm \/ ScanSlots \/ BootDoorbell \/ BootScan
  BY <1>4, <1>5 DEF PollGemm, ScanSlots, BootDoorbell, BootScan
<1>6. CASE ArgsGone
  <2>1. \/ jobd' = Resting \/ jobd' = [Resting EXCEPT !.pc = "bootscan"]
        \/ jobd' = [Resting EXCEPT !.pc = "boot"] \/ LeaveMarker
    BY <1>h, <1>6 DEF ArgsGone, JobdState
  <2> QED
    BY <1>4, <2>1
<1>7. CASE MatchHeader \/ PublishStatus
  <2>1. \E pc : jobd' = [jobd EXCEPT !.pc = pc]
    BY <1>7 DEF MatchHeader, PublishStatus
  <2>2. jobd'.args = jobd.args /\ jobd'.mirror = jobd.mirror
    BY <1>h, <2>1, SMT DEF JobdState
  <2> QED
    BY <2>2
<1>8. CASE CopyArgs
  <2>1. CASE jobd' = Resting
    BY <1>4, <2>1
  <2>2. CASE jobd' = [jobd EXCEPT !.pc = "run", !.args = slot[jobd.kind].args]
    <3>1. PICK k \in Kinds : k = jobd.kind
      BY <1>h, <1>8 DEF CopyArgs, JobdAt
    <3>2. PICK a : a = slot[k].args
      OBVIOUS
    <3>3. jobd' = [jobd EXCEPT !.pc = "run", !.args = a]
      BY <2>2, <3>1, <3>2
    <3>4. jobd'.args = a /\ jobd'.mirror = jobd.mirror
      BY <1>h, <3>3, SMT DEF JobdState
    <3> QED
      BY <3>2, <3>4
  <2> QED
    BY <1>8, <2>1, <2>2 DEF CopyArgs
<1>9. CASE Run
  <2>1. PICK st : jobd' = [jobd EXCEPT !.pc = "publish", !.status = st, !.mirror = 1]
    BY <1>9 DEF Run
  <2>2. jobd'.args = jobd.args /\ jobd'.mirror = 1
    BY <1>h, <2>1, SMT DEF JobdState
  <2> QED
    BY <1>m, <2>2
<1>10. CASE PublishSeq
  <2>1. CASE jobd' = Resting
    BY <1>4, <2>1
  <2>2. CASE /\ jobd.mirror < Mirrors
             /\ jobd' = [jobd EXCEPT !.pc = "publish", !.mirror = @ + 1]
    <3>1. PICK m \in Nat : m = jobd.mirror + 1
      BY <1>h, SMT DEF JobdState
    <3>2. m <= Mirrors
      BY <1>h, <1>m, <2>2, <3>1, SMT DEF JobdState
    <3>3. jobd' = [jobd EXCEPT !.pc = "publish", !.mirror = m]
      BY <2>2, <3>1
    <3>4. jobd'.args = jobd.args /\ jobd'.mirror = m
      BY <1>h, <3>3, SMT DEF JobdState
    <3> QED
      BY <3>2, <3>4
  <2> QED
    BY <1>10, <2>1, <2>2 DEF PublishSeq
<1>11. CASE Restart
  BY <1>4, <1>11 DEF Restart
<1> QED
  BY <1>5, <1>6, <1>7, <1>8, <1>9, <1>10, <1>11 DEF Jobd

\* What the daemon writes elsewhere: the record, the jobs it has seen.
LEMMA DaemonValues ==
    ASSUME Shape, comp.run \in Runs, jobd.seq \in Given, jobd.args \in Given,
           seen \in [Kinds -> Given], FaultRange, HostRange, Jobd \/ Restart
    PROVE  comp'.run \in Runs /\ seen' \in [Kinds -> Given] /\ FaultRange' /\ HostRange'
<1>g. 0 \in Given
  BY DEF Given
<1>1. HostRange'
  BY DEF HostRange, Jobd, Restart, PollGemm, ScanSlots, BootDoorbell, BootScan, MatchHeader,
         ArgsGone, CopyArgs, Run, PublishStatus, PublishSeq, host
<1>2. comp'.run \in Runs
  <2>1. comp'.run \in {comp.run, [seq |-> jobd.seq, args |-> jobd.args]}
    BY DaemonMoves DEF DaemonStep, Publishes, Concludes
  <2>2. [seq |-> jobd.seq, args |-> jobd.args] \in Runs
    BY SMT DEF Runs, Given
  <2> QED
    BY <2>1, <2>2
<1>3. CASE PollGemm \/ ScanSlots \/ BootDoorbell \/ BootScan \/ MatchHeader \/ ArgsGone
           \/ CopyArgs \/ Run \/ PublishStatus
  <2>1. seen' = seen /\ faults' = faults
    BY <1>3 DEF PollGemm, ScanSlots, BootDoorbell, BootScan, MatchHeader, ArgsGone, CopyArgs,
                Run, PublishStatus, history
  <2> QED
    BY <1>1, <1>2, <2>1 DEF FaultRange
<1>4. CASE PublishSeq
  <2>1. PICK s \in Given : s = jobd.seq
    OBVIOUS
  <2>2. \/ seen' = seen
        \/ seen' = [k \in Kinds |-> IF k = jobd.kind /\ s > seen[k] THEN s ELSE seen[k]]
    BY <1>4, <2>1 DEF PublishSeq
  <2>3. seen' \in [Kinds -> Given]
    BY <2>2
  <2>4. faults' = faults
    BY <1>4 DEF PublishSeq, history
  <2> QED
    BY <1>1, <1>2, <2>3, <2>4 DEF FaultRange
<1>5. CASE Restart
  <2>1. seen' = [k \in Kinds |-> 0] /\ faults.restarts < MaxRestarts
        /\ faults' = [faults EXCEPT !.restarts = @ + 1]
    BY <1>5 DEF Restart
  <2>2. FaultRange'
    BY <2>1, SifiveAssumption, SMT DEF FaultRange
  <2>3. seen' \in [Kinds -> Given]
    BY <1>g, <2>1
  <2> QED
    BY <1>1, <1>2, <2>2, <2>3
<1> QED
  BY <1>3, <1>4, <1>5 DEF Jobd

\* The ranges hold at first.
LEMMA RangesInit == Init => Ranges
<1> SUFFICES ASSUME Init PROVE Ranges
  OBVIOUS
<1>g. 0 \in Given /\ NoRun \in Runs
  BY SMT DEF Given, Runs, NoRun
<1>1. proc = [t \in Threads |-> Idle] /\ given = {}
  BY DEF Init
<1>4. GivenRange
  BY <1>1 DEF GivenRange
<1>5. ProcRange
  <2>1. Idle.seq = 0 /\ Idle.run = NoRun
    BY DEF Idle
  <2> QED
    BY <1>g, <1>1, <2>1 DEF ProcRange
<1>6. DdrRange
  <2>1. comp.run = NoRun /\ \A k \in Kinds : slot[k].args = 0
    BY SMT DEF Init, EmptyComp
  <2> QED
    BY <1>g, <2>1 DEF DdrRange
<1>7. JobdRange
  <2>1. jobd.args = 0 /\ jobd.mirror = 0
    BY SMT DEF Init, Resting
  <2>2. 0 <= Mirrors
    BY SifiveAssumption, SMT
  <2>3. seen \in [Kinds -> Given]
    BY <1>g DEF Init
  <2> QED
    BY <1>g, <2>1, <2>2, <2>3 DEF JobdRange
<1>8. FaultRange
  BY SifiveAssumption, SMT DEF Init, FaultRange
<1>9. HostRange
  BY DEF Init, HostRange
<1> QED
  BY <1>4, <1>5, <1>6, <1>7, <1>8, <1>9 DEF Ranges

\* Every step keeps them.
LEMMA RangesStep ==
    ASSUME Inv, Ranges, [Next]_vars
    PROVE  Ranges'
<1>s. Shape /\ Known
  BY DEF Inv, Numbers
<1>r. GivenRange /\ ProcRange /\ DdrRange /\ JobdRange /\ FaultRange /\ HostRange
  BY DEF Ranges
<1>g. 0 \in Given /\ NoRun \in Runs
  BY SMT DEF Given, Runs, NoRun
<1>1. ASSUME NEW t \in Threads,
             \/ Submit(t) \/ LockTimeout(t) \/ BootTimeout(t)
             \/ WriteFails(t) \/ WaitTimeout(t) \/ Proceed(t)
      PROVE  Ranges'
  <2>2. jobd' = jobd /\ seen' = seen /\ FaultRange' /\ HostRange'
    BY <1>r, <1>1, HostValues
  <2>3. DdrRange'
    <3>1. /\ \A k \in Kinds : slot'[k].args \in {slot[k].args, proc[t].seq}
          /\ comp' \in {comp, EmptyComp}
      BY <1>s, <1>1, DdrValues
    <3>2. EmptyComp.run = NoRun
      BY DEF EmptyComp
    <3> QED
      BY <1>g, <1>r, <3>1, <3>2 DEF DdrRange, ProcRange
  <2>4. ProcRange' /\ GivenRange'
    <3>1. CASE Number(t)
      <4>1. PICK s \in Seqs \ given :
                /\ Moves(t, proc[t].pc, "forget") /\ given' = given \cup {s}
                /\ proc'[t].seq = s /\ proc'[t].run = proc[t].run
        BY <1>s, <3>1, NumberMoves DEF Shape, At
      <4> QED
        BY <1>r, <4>1 DEF ProcRange, GivenRange, Given, Moves
    <3>2. CASE (Submit(t) \/ GoesOn(t)) /\ given' = given
      <4>1. \A u \in Threads : /\ proc'[u].seq \in {0, proc[u].seq}
                               /\ proc'[u].run \in {NoRun, proc[u].run, comp.run}
        BY <1>s, <3>2, ProcValues
      <4> QED
        BY <1>g, <1>r, <3>2, <4>1 DEF ProcRange, DdrRange, GivenRange
    <3> QED
      BY <1>1, <3>1, <3>2, HostCases
  <2>5. JobdRange'
    BY <1>r, <2>2 DEF JobdRange
  <2> QED
    BY <2>2, <2>3, <2>4, <2>5 DEF Ranges
<1>2. CASE Jobd \/ Restart
  <2>0. UNCHANGED <<proc, given, slot>>
    BY <1>s, <1>2, DaemonMoves DEF DaemonStep
  <2>1. jobd.seq \in Given
    BY <1>s, <1>r, SeqsGiven
  <2>2. comp'.run \in Runs /\ seen' \in [Kinds -> Given] /\ FaultRange' /\ HostRange'
    BY <1>s, <1>r, <1>2, <2>1, DaemonValues DEF DdrRange, JobdRange
  <2>3. /\ jobd'.args \in {0, jobd.args} \/ \E k \in Kinds : jobd'.args = slot[k].args
        /\ jobd'.mirror <= Mirrors
    BY <1>s, <1>r, <1>2, JobdValues DEF JobdRange
  <2>4. JobdRange'
    BY <1>g, <1>r, <2>2, <2>3 DEF JobdRange, DdrRange
  <2>5. DdrRange'
    BY <1>r, <2>0, <2>2 DEF DdrRange
  <2>6. GivenRange' /\ ProcRange'
    BY <1>r, <2>0 DEF GivenRange, ProcRange
  <2> QED
    BY <2>2, <2>4, <2>5, <2>6 DEF Ranges
<1>3. CASE UNCHANGED vars
  BY <1>r, <1>3 DEF vars, Ranges, GivenRange, ProcRange, DdrRange, JobdRange,
                    FaultRange, HostRange
<1> QED
  BY <1>1, <1>2, <1>3 DEF Next

\* The variables are of their types.
LEMMA RangesTyped ==
    ASSUME Inv, LateInv, Ranges
    PROVE  TypeOK
<1>s. Shape /\ Known /\ HostShape /\ DdrShape /\ JobdShape
  BY DEF Inv, Numbers, Shape
<1>r. GivenRange /\ ProcRange /\ DdrRange /\ JobdRange /\ FaultRange /\ HostRange
  BY DEF Ranges
<1>g. /\ \A k \in Kinds : slot[k].seq \in Given
      /\ doorbell.seq \in Given /\ comp.seq \in Given /\ jobd.seq \in Given
  BY <1>s, <1>r, SeqsGiven
<1>1. proc \in [Threads -> [pc : HostPcs, kind : Kinds \cup {"none"}, path : Paths,
                            seq : Given, result : {"ok", "error", "none"}, run : Runs]]
  <2>1. \A p \in ProcState : p.seq \in Given /\ p.run \in Runs =>
            p \in [pc : HostPcs, kind : Kinds \cup {"none"}, path : Paths, seq : Given,
                   result : {"ok", "error", "none"}, run : Runs]
    BY DEF ProcState
  <2> QED
    BY <1>s, <1>r, <2>1 DEF HostShape, ProcRange
<1>2. slot \in [Kinds -> [seq : Given, args : Given]]
  <2>1. \A x \in SlotState : x.seq \in Given /\ x.args \in Given =>
            x \in [seq : Given, args : Given]
    BY DEF SlotState
  <2> QED
    BY <1>s, <1>r, <1>g, <2>1 DEF DdrShape, DdrRange
<1>3. doorbell \in [kind : Kinds \cup {"none"}, seq : Given]
  BY <1>s, <1>g DEF DdrShape, DoorbellState
<1>4. comp \in [kind : Kinds \cup {"none", "kernel"}, status : {"ok", "error"},
                seq : Given, run : Runs]
  BY <1>s, <1>r, <1>g DEF DdrShape, CompState, DdrRange
<1>5. jobd \in [pc : JobdPcs, via : {"loop", "doorbell", "bootscan"},
                kind : Kinds \cup {"none", "kernel"}, seq : Given, args : Given,
                status : {"ok", "error"}, mirror : 0 .. Mirrors]
  <2>1. jobd \in JobdState /\ jobd.args \in Given
    BY <1>s, <1>r DEF JobdShape, JobdRange
  <2>2. jobd.mirror \in 0 .. Mirrors
    BY <1>r, <2>1, SifiveAssumption, SMT DEF JobdRange, JobdState
  <2> QED
    BY <1>g, <2>1, <2>2 DEF JobdState
<1>6. cleared \subseteq Seqs
  BY <1>r DEF LateInv, ClearedOnce, GivenRange
<1>7. late \in [Seqs -> 0 .. 2]
  <2>1. late \in [Seqs -> Nat] /\ \A s \in Seqs : late[s] <= 1
    BY DEF LateInv, LateRuns
  <2>2. \A n \in Nat : n <= 1 => n \in 0 .. 2
    BY SMT
  <2> QED
    BY <2>1, <2>2
<1> QED
  BY <1>1, <1>2, <1>3, <1>4, <1>5, <1>6, <1>7, <1>g, <1>r
  DEF TypeOK, Given, GivenRange, HostPcs, JobdPcs, JobdRange, FaultRange, HostRange

\* No call is given a number above MaxSubmits (next_runtime_job_seq), though calls wait
\* for the lock together; and no other number is in a slot, the doorbell, the record, a
\* call or the daemon's hands.  The record is written at most Mirrors times for one run.
THEOREM JobsTyped == Spec => []TypeOK
<1>1. Init => Inv /\ LateInv /\ Ranges
  BY InvInit, LateInit, RangesInit
<1>2. Inv /\ LateInv /\ Ranges /\ [Next]_vars => Inv' /\ LateInv' /\ Ranges'
  BY InvStep, LateStep, RangesStep
<1>3. Inv /\ LateInv /\ Ranges => TypeOK
  BY RangesTyped
<1> QED
  BY <1>1, <1>2, <1>3, PTL DEF Spec
=============================================================================
