--------------------------- MODULE PersistentWorker ---------------------------
(***************************************************************************)
(* The persistent GPU worker of zluda/src/impl/concordia_gpu.rs: a ring of *)
(* task slots in pinned memory that the host fills (enqueue_task) and the  *)
(* resident CUDA kernel persistent_worker drains.                          *)
(*                                                                         *)
(* Host and kernel share head, tail, quit and processed without a lock, so *)
(* every access to one of them is a step of its own.  Callers of the host  *)
(* side are serialised (the router's mutex, the Kimi manager), so there is *)
(* one host process; each thread block of the kernel is a process.  A task *)
(* is the number of its enqueue, from 1; slots hold 0 until first written. *)
(* Grid-stride loops make block b compute only its own share of a task.    *)
(***************************************************************************)
EXTENDS Integers, Sequences, FiniteSets

CONSTANTS Capacity,   \* slots of the ring
          Blocks,     \* the thread blocks of the kernel (CONCORDIA_PERSISTENT_BLOCKS)
          MaxTasks    \* bound: tasks enqueued (below i32::MAX, where tail would wrap)

ASSUME WorkerAssumption ==
    /\ Capacity \in Nat \ {0}
    /\ MaxTasks \in Nat

VARIABLES
    head, tail, quit, processed,   \* the control block
    ring,        \* the task slots
    submitted,   \* GpuPersistentKernel::submitted
    host,        \* the host's program counter and locals
    block,       \* per block: its threads' program counters, h, and the shared
                 \* `task' and has_work (uninitialised at the start)
    shares       \* history: how often thread 0 and the other threads of each
                 \* block computed their shares of a task

vars == <<head, tail, quit, processed, ring, submitted, host, block, shares>>

Tasks == 1 .. MaxTasks
Slots == 0 .. Capacity - 1

Init ==
    /\ head = 0 /\ tail = 0 /\ quit = 0 /\ processed = 0
    /\ ring = [s \in Slots |-> 0]
    /\ submitted = 0
    /\ host = [pc |-> "idle", target |-> 0]
    /\ block \in [Blocks -> [pc : {"poll"}, rest : {"poll"}, h : {0}, task : {0},
                              work : BOOLEAN]]
    /\ shares = [t \in Tasks |-> [b \in Blocks |-> [lead |-> 0, rest |-> 0]]]
-----------------------------------------------------------------------------
(***************************************************************************)
(* The host: enqueue_task, sync and shutdown, one at a time.               *)
(***************************************************************************)
HostAt(pc) == host.pc = pc
HostTo(pc) == host' = [host EXCEPT !.pc = pc]

\* "persistent worker ring is full": nothing changes.
EnqueueFull ==
    /\ HostAt("idle")
    /\ tail - head >= Capacity
    /\ UNCHANGED vars

EnqueueOverwriting ==
    /\ HostAt("idle")
    /\ tail < MaxTasks
    /\ tail - head <= Capacity
    /\ HostTo("write")
    /\ UNCHANGED <<head, tail, quit, processed, ring, submitted, block, shares>>

\* The host reads head, which only grows behind its back, and tail, its own.
EnqueueCheck ==
    /\ HostAt("idle")
    /\ tail < MaxTasks
    /\ tail - head < Capacity
    /\ HostTo("write")
    /\ UNCHANGED <<head, tail, quit, processed, ring, submitted, block, shares>>

EnqueueWriteNext ==
    /\ HostAt("write")
    /\ ring' = [ring EXCEPT ![(tail + 1) % Capacity] = tail + 1]
    /\ HostTo("publish")
    /\ UNCHANGED <<head, tail, quit, processed, submitted, block, shares>>

EnqueueWrite ==
    /\ HostAt("write")
    /\ ring' = [ring EXCEPT ![tail % Capacity] = tail + 1]
    /\ HostTo("publish")
    /\ UNCHANGED <<head, tail, quit, processed, submitted, block, shares>>

\* After the release fence: the slot is visible before the new tail.
EnqueuePublish ==
    /\ HostAt("publish")
    /\ tail' = tail + 1
    /\ HostTo("count")
    /\ UNCHANGED <<head, quit, processed, ring, submitted, block, shares>>

EnqueueCount ==
    /\ HostAt("count")
    /\ submitted' = submitted + 1
    /\ HostTo("idle")
    /\ UNCHANGED <<head, tail, quit, processed, ring, block, shares>>

SyncStart ==
    /\ HostAt("idle")
    /\ host' = [pc |-> "sync", target |-> submitted]
    /\ UNCHANGED <<head, tail, quit, processed, ring, submitted, block, shares>>

SyncStrict ==
    /\ HostAt("sync")
    /\ processed > host.target
    /\ HostTo("idle")
    /\ UNCHANGED <<head, tail, quit, processed, ring, submitted, block, shares>>

\* The spin loop ends.
SyncReturn ==
    /\ HostAt("sync")
    /\ processed >= host.target
    /\ HostTo("idle")
    /\ UNCHANGED <<head, tail, quit, processed, ring, submitted, block, shares>>

\* shutdown sets quit and waits for the kernel's stream; tasks still in the ring
\* are dropped.  concordia_gpu_shutdown then frees the worker: no call follows.
ShutdownStart ==
    /\ HostAt("idle")
    /\ quit' = 1
    /\ HostTo("joining")
    /\ UNCHANGED <<head, tail, processed, ring, submitted, block, shares>>

ShutdownJoin ==
    /\ HostAt("joining")
    /\ \A b \in Blocks : block[b].pc = "exit" /\ block[b].rest = "exit"
    /\ HostTo("freed")
    /\ UNCHANGED <<head, tail, quit, processed, ring, submitted, block, shares>>
-----------------------------------------------------------------------------
(***************************************************************************)
(* The kernel.  Thread 0 of a block (pc, h) fetches, executes and counts;  *)
(* the others (rest) join it in the execution.  Every thread tests quit    *)
(* for itself at the top of the loop, so the two can part ways.  A barrier *)
(* waits for the threads that have not left the kernel (sm_70 and later).  *)
(***************************************************************************)
BlockAt(b, pc) == block[b].pc = pc
BlockTo(b, pc) == block' = [block EXCEPT ![b].pc = pc]

Exit(b) ==
    /\ BlockAt(b, "poll") /\ quit # 0
    /\ BlockTo(b, "exit")
    /\ UNCHANGED <<head, tail, quit, processed, ring, submitted, host, shares>>

PollAnyway(b) ==
    /\ BlockAt(b, "poll")
    /\ block' = [block EXCEPT ![b].pc = "head", ![b].work = FALSE]
    /\ UNCHANGED <<head, tail, quit, processed, ring, submitted, host, shares>>

Poll(b) ==
    /\ BlockAt(b, "poll") /\ quit = 0
    /\ block' = [block EXCEPT ![b].pc = "head", ![b].work = FALSE]
    /\ UNCHANGED <<head, tail, quit, processed, ring, submitted, host, shares>>

ReadHead(b) ==
    /\ BlockAt(b, "head")
    /\ block' = [block EXCEPT ![b].pc = "tail", ![b].h = head]
    /\ UNCHANGED <<head, tail, quit, processed, ring, submitted, host, shares>>

ReadTailBehind(b) ==
    /\ BlockAt(b, "tail")
    /\ BlockTo(b, IF block[b].h + 1 < tail THEN "copy" ELSE "barrier")
    /\ UNCHANGED <<head, tail, quit, processed, ring, submitted, host, shares>>

ReadTailInclusive(b) ==
    /\ BlockAt(b, "tail")
    /\ BlockTo(b, IF block[b].h <= tail THEN "copy" ELSE "barrier")
    /\ UNCHANGED <<head, tail, quit, processed, ring, submitted, host, shares>>

ReadTail(b) ==
    /\ BlockAt(b, "tail")
    /\ BlockTo(b, IF block[b].h < tail THEN "copy" ELSE "barrier")
    /\ UNCHANGED <<head, tail, quit, processed, ring, submitted, host, shares>>

CopyTask(b) ==
    /\ BlockAt(b, "copy")
    /\ block' = [block EXCEPT ![b].pc = "advance", ![b].task = ring[block[b].h % Capacity]]
    /\ UNCHANGED <<head, tail, quit, processed, ring, submitted, host, shares>>

AdvanceInPlace(b) ==
    /\ BlockAt(b, "advance")
    /\ head' = block[b].h
    /\ block' = [block EXCEPT ![b].pc = "barrier", ![b].work = TRUE]
    /\ UNCHANGED <<tail, quit, processed, ring, submitted, host, shares>>

\* atomicExch, not a compare-and-swap: another block may have moved head.
Advance(b) ==
    /\ BlockAt(b, "advance")
    /\ head' = block[b].h + 1
    /\ block' = [block EXCEPT ![b].pc = "barrier", ![b].work = TRUE]
    /\ UNCHANGED <<tail, quit, processed, ring, submitted, host, shares>>

\* The other threads of the block test quit.
RestPoll(b) ==
    /\ block[b].rest = "poll"
    /\ block' = [block EXCEPT ![b].rest = IF quit = 0 THEN "barrier" ELSE "exit"]
    /\ UNCHANGED <<head, tail, quit, processed, ring, submitted, host, shares>>

\* The barrier after the fetch, with no work: back to the top of the loop.
\* ~has_work is what was left of the last round when thread 0 has exited.
NoWork(b) ==
    /\ block[b].pc \in {"barrier", "exit"}
    /\ block[b].rest \in {"barrier", "exit"}
    /\ "barrier" \in {block[b].pc, block[b].rest}
    /\ ~block[b].work
    /\ block' = [block EXCEPT ![b].pc = IF @ = "exit" THEN @ ELSE "poll",
                              ![b].rest = IF @ = "exit" THEN @ ELSE "poll"]
    /\ UNCHANGED <<head, tail, quit, processed, ring, submitted, host, shares>>

ExecuteNothing(b) ==
    /\ BlockAt(b, "barrier") /\ block[b].rest # "poll" /\ block[b].work
    /\ BlockTo(b, "count")
    /\ UNCHANGED <<head, tail, quit, processed, ring, submitted, host, shares>>

\* The switch on task.op: the threads that are still there compute their shares.
Execute(b) ==
    /\ BlockAt(b, "barrier") /\ block[b].rest # "poll" /\ block[b].work
    /\ shares' = [shares EXCEPT
          ![block[b].task][b].lead = @ + 1,
          ![block[b].task][b].rest = IF block[b].rest = "exit" THEN @ ELSE @ + 1]
    /\ BlockTo(b, "count")
    /\ UNCHANGED <<head, tail, quit, processed, ring, submitted, host>>

Count(b) ==
    /\ BlockAt(b, "count")
    /\ processed' = processed + 1
    /\ block' = [block EXCEPT ![b].pc = "poll",
                              ![b].rest = IF @ = "exit" THEN @ ELSE "poll"]
    /\ UNCHANGED <<head, tail, quit, ring, submitted, host, shares>>

\* Thread 0 has exited while the others saw quit = 0: they pass the barrier and
\* find has_work and task as the last round left them (or uninitialised, task 0).
ExecuteStale(b) ==
    /\ BlockAt(b, "exit") /\ block[b].rest = "barrier" /\ block[b].work
    /\ shares' = IF block[b].task \in Tasks
                 THEN [shares EXCEPT ![block[b].task][b].rest = @ + 1] ELSE shares
    /\ block' = [block EXCEPT ![b].rest = "poll"]
    /\ UNCHANGED <<head, tail, quit, processed, ring, submitted, host>>
-----------------------------------------------------------------------------
LeadStep(b) ==
    \/ Exit(b) \/ Poll(b) \/ ReadHead(b) \/ ReadTail(b)
    \/ CopyTask(b) \/ Advance(b) \/ NoWork(b) \/ Execute(b) \/ Count(b)

RestStep(b) == RestPoll(b) \/ ExecuteStale(b)

\* The steps that carry an operation the host has begun to its end.
HostProgress ==
    \/ EnqueueWrite \/ EnqueuePublish \/ EnqueueCount \/ SyncReturn \/ ShutdownJoin

Freed == HostAt("freed") /\ UNCHANGED vars

Next ==
    \/ EnqueueFull \/ EnqueueCheck \/ SyncStart \/ ShutdownStart
    \/ HostProgress
    \/ Freed
    \/ \E b \in Blocks : LeadStep(b) \/ RestStep(b)

Spec == Init /\ [][Next]_vars

\* Resident blocks are scheduled, and a host thread inside a call runs on.
FairSpec ==
    /\ Spec
    /\ WF_vars(HostProgress)
    /\ \A b \in Blocks : WF_vars(LeadStep(b)) /\ WF_vars(RestStep(b))
-----------------------------------------------------------------------------
(***************************************************************************)
(* Properties                                                              *)
(***************************************************************************)

\* The types of the shared memory, and that head and tail never drift further
\* apart than the ring is long, although each side tests a value it read earlier.
TypeOK ==
    /\ head \in Nat /\ tail \in Nat /\ quit \in {0, 1} /\ processed \in Nat
    /\ head <= tail /\ tail - head <= Capacity /\ tail <= MaxTasks
    /\ ring \in [Slots -> Nat]
    /\ submitted \in Nat
    /\ host \in [pc : {"idle", "write", "publish", "count", "sync", "joining", "freed"},
                 target : Nat]
    /\ block \in [Blocks -> [pc : {"poll", "head", "tail", "copy", "advance", "barrier",
                                   "count", "exit"},
                             rest : {"poll", "barrier", "exit"},
                             h : Nat, task : Nat, work : BOOLEAN]]
    /\ shares \in [Tasks -> [Blocks -> [lead : Nat, rest : Nat]]]

\* enqueue_task never overwrites a slot whose task no block has copied yet, with
\* head read before the slot is written and the ring full or empty.
PendingSlotsIntact ==
    \A i \in head .. tail - 1 : ring[i % Capacity] = i + 1

\* What sync relies on when it compares processed with submitted: until shutdown,
\* the first `processed' tasks have been executed by all threads, and only once.
ProcessedTasksDone ==
    quit = 0 => \A t \in Tasks : t <= processed =>
                    \A b \in Blocks : shares[t][b] = [lead |-> 1, rest |-> 1]

\* Whatever the order in which the threads see quit, thread 0 never executes a
\* task twice, and a task it has not reached is executed by no thread.
LeadRunsOnce ==
    \A t \in Tasks, b \in Blocks :
        /\ shares[t][b].lead <= 1
        /\ shares[t][b].rest > 0 => shares[t][b].lead = 1

\* The block that has fetched a task, between atomicExch on head and the
\* increment of processed.
Busy(b) == \/ block[b].pc = "barrier" /\ block[b].work
           \/ block[b].pc = "count"

Queue == INSTANCE TaskQueue WITH
    accepted <- tail,
    queue <- [i \in 1 .. tail - head |-> ring[(head + i - 1) % Capacity]],
    current <- IF \E b \in Blocks : Busy(b)
               THEN block[CHOOSE b \in Blocks : Busy(b)].task ELSE 0

\* With one block, ring, head and tail implement a bounded FIFO queue whose tasks
\* are taken one at a time, in order and once.
ImplementsQueue == Queue!QueueSpec

\* sync returns: the worker reaches every task that was submitted before it.
SyncReturns == HostAt("sync") ~> HostAt("idle")

\* A task whose enqueue was published is executed, unless the worker is shut down.
AcceptedTasksRun ==
    \A t \in Tasks : tail >= t ~> (quit # 0 \/ \A b \in Blocks : shares[t][b].lead > 0)

\* shutdown terminates: the blocks leave their loops and the stream drains.
ShutdownCompletes == HostAt("joining") ~> HostAt("freed")
=============================================================================
