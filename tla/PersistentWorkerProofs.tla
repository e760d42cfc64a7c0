------------------------ MODULE PersistentWorkerProofs ------------------------
(***************************************************************************)
(* Proofs about the persistent worker with one thread block (the default   *)
(* of CONCORDIA_PERSISTENT_BLOCKS), for every ring capacity and number of  *)
(* tasks: the ring, what has been executed at any point, and that the      *)
(* worker implements the bounded queue of TaskQueue.  With more blocks the *)
(* statements are false, see worker_blocks.                                *)
(***************************************************************************)
EXTENDS PersistentWorker, SequenceTheorems, TLAPS

\* Most leaves are first-order reasoning; those with arithmetic cite SMT.
USE Zenon

(***************************************************************************)
(* Slots of the ring                                                       *)
(***************************************************************************)

\* Division with remainder.
LEMMA Division ==
    ASSUME NEW c \in Nat \ {0}, NEW a \in Nat
    PROVE  /\ a = c * (a \div c) + (a % c)
           /\ a \div c \in Nat
           /\ a % c \in 0 .. c - 1
BY SMT

\* Multiples of c that differ do so by at least c.
LEMMA Multiples ==
    ASSUME NEW c \in Nat \ {0}, NEW p \in Int, NEW q \in Int, c * p < c * q
    PROVE  c * p + c <= c * q
<1>1. p + 1 <= q
  BY SMT
<1> QED
  BY <1>1, SMT

\* Positions less than a ring apart have different slots: a producer that is less
\* than Capacity ahead of the consumer does not reach a slot in use.
LEMMA DifferentSlots ==
    ASSUME NEW c \in Nat \ {0}, NEW a \in Nat, NEW i \in Nat, a < i, i < a + c
    PROVE  a % c # i % c
<1>1. PICK p \in Nat : a = c * p + (a % c)
  BY Division
<1>2. PICK q \in Nat : i = c * q + (i % c)
  BY Division
<1> SUFFICES ASSUME a % c = i % c PROVE FALSE
  OBVIOUS
<1>3. c * p \in Int /\ c * q \in Int
  BY SMT
<1>4. c * p < c * q /\ c * q < c * p + c
  BY <1>1, <1>2, <1>3, SMT
<1>5. c * p + c <= c * q
  BY <1>4, Multiples, SMT
<1> QED
  BY <1>3, <1>4, <1>5, SMT
-----------------------------------------------------------------------------
(***************************************************************************)
(* The inductive invariant.  Host and block each hold values they read     *)
(* earlier; it says what is still true of them.                            *)
(***************************************************************************)
HostPc == {"idle", "write", "publish", "count", "sync", "joining", "freed"}
BlockPc == {"poll", "head", "tail", "copy", "advance", "barrier", "count", "exit"}
RestPc == {"poll", "barrier", "exit"}
BlockState == [pc : BlockPc, rest : RestPc, h : Nat, task : Nat, work : BOOLEAN]
Share == [lead : Nat, rest : Nat]

\* The room the host saw is still there, and the slot it wrote is still its own.
HostView ==
    /\ host.pc \in {"write", "publish"} => tail - head < Capacity /\ tail < MaxTasks
    /\ host.pc = "publish" => ring[tail % Capacity] = tail + 1

\* The h a block read is still head, and the task it copied the one at head.
BlockView(b) ==
    /\ block[b].pc \in {"tail", "copy", "advance"} => block[b].h = head
    /\ block[b].pc \in {"copy", "advance"} => head < tail
    /\ block[b].pc \in {"head", "tail", "copy", "advance"} => ~block[b].work
    /\ block[b].pc = "advance" => block[b].task = head + 1
    /\ Busy(b) => block[b].task = head /\ 0 < head

RingInv(b) ==
    /\ TypeOK
    /\ HostView
    /\ BlockView(b)
    /\ PendingSlotsIntact

\* RingInv holds initially.
LEMMA RingInit ==
    ASSUME NEW b, Blocks = {b}, Init
    PROVE  RingInv(b)
<1>1. Capacity \in Nat \ {0} /\ MaxTasks \in Nat
  BY WorkerAssumption
<1>2. /\ head = 0 /\ tail = 0 /\ quit = 0 /\ processed = 0 /\ submitted = 0
      /\ ring = [s \in Slots |-> 0]
      /\ host = [pc |-> "idle", target |-> 0]
      /\ shares = [t \in Tasks |-> [x \in Blocks |-> [lead |-> 0, rest |-> 0]]]
      /\ block \in [Blocks -> [pc : {"poll"}, rest : {"poll"}, h : {0}, task : {0},
                               work : BOOLEAN]]
  BY DEF Init
<1>3. block[b].pc = "poll" /\ block[b].rest = "poll"
  BY <1>2
<1>4. TypeOK
  BY <1>1, <1>2, SMT DEF TypeOK
<1>5. HostView /\ BlockView(b) /\ PendingSlotsIntact
  BY <1>1, <1>2, <1>3, SMT DEF HostView, BlockView, PendingSlotsIntact, Busy
<1> QED
  BY <1>4, <1>5 DEF RingInv

\* A host step: the shared memory of the block stays, so BlockView can only be
\* disturbed through tail, which grows.
LEMMA HostKeepsRing ==
    ASSUME NEW b, Blocks = {b}, RingInv(b),
           \/ EnqueueFull \/ EnqueueCheck \/ SyncStart \/ ShutdownStart
           \/ HostProgress \/ Freed
    PROVE  RingInv(b)'
<1> USE DEF Busy, HostAt, HostTo
<1>1. Capacity \in Nat \ {0} /\ MaxTasks \in Nat
  BY WorkerAssumption
<1>2. /\ head \in Nat /\ tail \in Nat /\ quit \in {0, 1} /\ processed \in Nat
      /\ head <= tail /\ tail - head <= Capacity /\ tail <= MaxTasks
      /\ ring \in [Slots -> Nat] /\ submitted \in Nat
      /\ host \in [pc : HostPc, target : Nat]
  BY DEF RingInv, TypeOK, HostPc
<1>3. HostView /\ BlockView(b) /\ PendingSlotsIntact /\ TypeOK
  BY DEF RingInv
<1>4. CASE EnqueueFull \/ Freed
  <2>1. TypeOK'
    BY <1>3, <1>4 DEF EnqueueFull, Freed, TypeOK, vars
  <2>2. HostView' /\ BlockView(b)' /\ PendingSlotsIntact'
    BY <1>3, <1>4 DEF EnqueueFull, Freed, HostView, BlockView, PendingSlotsIntact, vars
  <2> QED
    BY <2>1, <2>2 DEF RingInv
<1>5. CASE EnqueueCheck
  <2>1. TypeOK'
    BY <1>3, <1>5 DEF EnqueueCheck, TypeOK
  <2>2. HostView' /\ BlockView(b)' /\ PendingSlotsIntact'
    BY <1>2, <1>3, <1>5 DEF EnqueueCheck, HostView, BlockView, PendingSlotsIntact
  <2> QED
    BY <2>1, <2>2 DEF RingInv
<1>6. CASE SyncStart
  <2>1. TypeOK'
    BY <1>3, <1>6 DEF SyncStart, TypeOK
  <2>2. HostView' /\ BlockView(b)' /\ PendingSlotsIntact'
    BY <1>3, <1>6 DEF SyncStart, HostView, BlockView, PendingSlotsIntact
  <2> QED
    BY <2>1, <2>2 DEF RingInv
<1>7. CASE ShutdownStart
  <2>1. TypeOK'
    BY <1>3, <1>7 DEF ShutdownStart, TypeOK
  <2>2. HostView' /\ BlockView(b)' /\ PendingSlotsIntact'
    BY <1>2, <1>3, <1>7 DEF ShutdownStart, HostView, BlockView, PendingSlotsIntact
  <2> QED
    BY <2>1, <2>2 DEF RingInv
<1>8. CASE EnqueueWrite
  <2>1. /\ host.pc = "write" /\ host' = [host EXCEPT !.pc = "publish"]
        /\ ring' = [ring EXCEPT ![tail % Capacity] = tail + 1]
        /\ UNCHANGED <<head, tail, quit, processed, submitted, block, shares>>
    BY <1>8 DEF EnqueueWrite
  <2>2. tail % Capacity \in Slots
    BY <1>1, <1>2, Division DEF Slots
  <2>3. TypeOK'
    BY <1>2, <1>3, <2>1, <2>2, SMT DEF TypeOK
  <2>4. HostView'
    BY <1>2, <1>3, <2>1, <2>2 DEF HostView
  <2>5. ASSUME NEW i \in head .. tail - 1
        PROVE  ring'[i % Capacity] = i + 1
    <3>1. i \in Nat /\ i < tail /\ tail < i + Capacity
      BY <1>1, <1>2, <1>3, <2>1, SMT DEF HostView
    <3>2. i % Capacity # tail % Capacity
      <4>1. PICK t \in Nat : t = tail
        BY <1>2
      <4>2. i % Capacity # t % Capacity
        BY <1>1, <3>1, <4>1, DifferentSlots
      <4> QED
        BY <4>1, <4>2
    <3>3. i % Capacity \in Slots
      BY <1>1, <3>1, Division DEF Slots
    <3>4. ring[i % Capacity] = i + 1
      BY <1>3 DEF PendingSlotsIntact
    <3> QED
      BY <1>2, <2>1, <3>2, <3>3, <3>4
  <2>6. BlockView(b)' /\ PendingSlotsIntact'
    BY <1>3, <2>1, <2>5 DEF BlockView, PendingSlotsIntact
  <2> QED
    BY <2>3, <2>4, <2>6 DEF RingInv
<1>9. CASE EnqueuePublish
  <2>1. /\ host.pc = "publish" /\ host' = [host EXCEPT !.pc = "count"]
        /\ tail' = tail + 1
        /\ UNCHANGED <<head, quit, processed, ring, submitted, block, shares>>
    BY <1>9 DEF EnqueuePublish
  <2>2. tail - head < Capacity /\ tail < MaxTasks /\ ring[tail % Capacity] = tail + 1
    BY <1>3, <2>1 DEF HostView
  <2>3. TypeOK'
    BY <1>1, <1>2, <1>3, <2>1, <2>2, SMT DEF TypeOK
  <2>4. HostView' /\ BlockView(b)'
    BY <1>2, <1>3, <2>1, SMT DEF HostView, BlockView
  <2>5. \A i \in head .. tail : i \in head .. tail - 1 \/ i = tail
    BY <1>2, SMT
  <2>6. PendingSlotsIntact'
    BY <1>2, <1>3, <2>1, <2>2, <2>5, SMT DEF PendingSlotsIntact
  <2> QED
    BY <2>3, <2>4, <2>6 DEF RingInv
<1>10. CASE EnqueueCount
  <2>1. TypeOK'
    BY <1>3, <1>10, SMT DEF EnqueueCount, TypeOK
  <2>2. HostView' /\ BlockView(b)' /\ PendingSlotsIntact'
    BY <1>2, <1>3, <1>10 DEF EnqueueCount, HostView, BlockView, PendingSlotsIntact
  <2> QED
    BY <2>1, <2>2 DEF RingInv
<1>11. CASE SyncReturn
  <2>1. TypeOK'
    BY <1>3, <1>11 DEF SyncReturn, TypeOK
  <2>2. HostView' /\ BlockView(b)' /\ PendingSlotsIntact'
    BY <1>2, <1>3, <1>11 DEF SyncReturn, HostView, BlockView, PendingSlotsIntact
  <2> QED
    BY <2>1, <2>2 DEF RingInv
<1>12. CASE ShutdownJoin
  <2>1. TypeOK'
    BY <1>3, <1>12 DEF ShutdownJoin, TypeOK
  <2>2. HostView' /\ BlockView(b)' /\ PendingSlotsIntact'
    BY <1>2, <1>3, <1>12 DEF ShutdownJoin, HostView, BlockView, PendingSlotsIntact
  <2> QED
    BY <2>1, <2>2 DEF RingInv
<1> QED
  BY <1>4, <1>5, <1>6, <1>7, <1>8, <1>9, <1>10, <1>11, <1>12 DEF HostProgress

\* Assigning pc keeps the type of a block's state.
LEMMA UpdatePc ==
    ASSUME NEW b \in Blocks, NEW f \in [Blocks -> BlockState], NEW p \in BlockPc
    PROVE  [f EXCEPT ![b].pc = p] \in [Blocks -> BlockState]
BY DEF BlockState

\* Assigning rest does.
LEMMA UpdateRest ==
    ASSUME NEW b \in Blocks, NEW f \in [Blocks -> BlockState], NEW q \in RestPc
    PROVE  [f EXCEPT ![b].rest = q] \in [Blocks -> BlockState]
BY DEF BlockState

\* So does assigning pc and rest (NoWork, Count),
LEMMA UpdatePcRest ==
    ASSUME NEW b \in Blocks, NEW f \in [Blocks -> BlockState],
           NEW p \in BlockPc, NEW q \in RestPc
    PROVE  [f EXCEPT ![b].pc = p, ![b].rest = q] \in [Blocks -> BlockState]
<1>1. [f[b] EXCEPT !.pc = p] \in BlockState
  BY DEF BlockState
<1>2. [[f[b] EXCEPT !.pc = p] EXCEPT !.rest = q] \in BlockState
  BY <1>1 DEF BlockState
<1>3. [f EXCEPT ![b].pc = p, ![b].rest = q]
          = [f EXCEPT ![b] = [[f[b] EXCEPT !.pc = p] EXCEPT !.rest = q]]
  BY Zenon
<1> QED
  BY <1>2, <1>3

\* pc and h (ReadHead),
LEMMA UpdatePcH ==
    ASSUME NEW b \in Blocks, NEW f \in [Blocks -> BlockState],
           NEW p \in BlockPc, NEW n \in Nat
    PROVE  [f EXCEPT ![b].pc = p, ![b].h = n] \in [Blocks -> BlockState]
<1>1. [f[b] EXCEPT !.pc = p] \in BlockState
  BY DEF BlockState
<1>2. [[f[b] EXCEPT !.pc = p] EXCEPT !.h = n] \in BlockState
  BY <1>1 DEF BlockState
<1>3. [f EXCEPT ![b].pc = p, ![b].h = n]
          = [f EXCEPT ![b] = [[f[b] EXCEPT !.pc = p] EXCEPT !.h = n]]
  BY Zenon
<1> QED
  BY <1>2, <1>3

\* pc and task (CopyTask),
LEMMA UpdatePcTask ==
    ASSUME NEW b \in Blocks, NEW f \in [Blocks -> BlockState],
           NEW p \in BlockPc, NEW n \in Nat
    PROVE  [f EXCEPT ![b].pc = p, ![b].task = n] \in [Blocks -> BlockState]
<1>1. [f[b] EXCEPT !.pc = p] \in BlockState
  BY DEF BlockState
<1>2. [[f[b] EXCEPT !.pc = p] EXCEPT !.task = n] \in BlockState
  BY <1>1 DEF BlockState
<1>3. [f EXCEPT ![b].pc = p, ![b].task = n]
          = [f EXCEPT ![b] = [[f[b] EXCEPT !.pc = p] EXCEPT !.task = n]]
  BY Zenon
<1> QED
  BY <1>2, <1>3

\* or pc and has_work (Poll, Advance).
LEMMA UpdatePcWork ==
    ASSUME NEW b \in Blocks, NEW f \in [Blocks -> BlockState],
           NEW p \in BlockPc, NEW w \in BOOLEAN
    PROVE  [f EXCEPT ![b].pc = p, ![b].work = w] \in [Blocks -> BlockState]
<1>1. [f[b] EXCEPT !.pc = p] \in BlockState
  BY DEF BlockState
<1>2. [[f[b] EXCEPT !.pc = p] EXCEPT !.work = w] \in BlockState
  BY <1>1 DEF BlockState
<1>3. [f EXCEPT ![b].pc = p, ![b].work = w]
          = [f EXCEPT ![b] = [[f[b] EXCEPT !.pc = p] EXCEPT !.work = w]]
  BY Zenon
<1> QED
  BY <1>2, <1>3

\* The type of an entry of the history variable.
LEMMA ShareAt ==
    ASSUME NEW s \in [Tasks -> [Blocks -> Share]], NEW t \in Tasks, NEW b \in Blocks
    PROVE  s[t][b] \in Share
<1>1. s[t] \in [Blocks -> Share]
  OBVIOUS
<1> QED
  BY <1>1

\* Assigning an entry keeps the history's type.
LEMMA UpdateShare ==
    ASSUME NEW s \in [Tasks -> [Blocks -> Share]], NEW t \in Tasks, NEW b \in Blocks,
           NEW r \in Share
    PROVE  [s EXCEPT ![t][b] = r] \in [Tasks -> [Blocks -> Share]]
<1>1. s[t] \in [Blocks -> Share]
  OBVIOUS
<1>2. [s[t] EXCEPT ![b] = r] \in [Blocks -> Share]
  BY <1>1
<1>3. ASSUME NEW g \in [Blocks -> Share]
      PROVE  [s EXCEPT ![t] = g] \in [Tasks -> [Blocks -> Share]]
  OBVIOUS
<1>4. [s EXCEPT ![t][b] = r] = [s EXCEPT ![t] = [s[t] EXCEPT ![b] = r]]
  BY Zenon
<1> QED
  BY <1>2, <1>3, <1>4, Zenon

\* So does assigning its field rest (ExecuteStale),
LEMMA UpdateShareRest ==
    ASSUME NEW s \in [Tasks -> [Blocks -> Share]], NEW t \in Tasks, NEW b \in Blocks,
           NEW n \in Nat
    PROVE  [s EXCEPT ![t][b].rest = n] \in [Tasks -> [Blocks -> Share]]
<1>1. [s[t][b] EXCEPT !.rest = n] \in Share
  BY ShareAt DEF Share
<1>2. [s EXCEPT ![t][b].rest = n] = [s EXCEPT ![t][b] = [s[t][b] EXCEPT !.rest = n]]
  BY Zenon
<1> QED
  BY <1>1, <1>2, UpdateShare, Zenon

\* or both of its fields (Execute).
LEMMA UpdateShares ==
    ASSUME NEW s \in [Tasks -> [Blocks -> Share]], NEW t \in Tasks, NEW b \in Blocks,
           NEW m \in Nat, NEW n \in Nat
    PROVE  [s EXCEPT ![t][b].lead = m, ![t][b].rest = n] \in [Tasks -> [Blocks -> Share]]
<1>1. [s[t][b] EXCEPT !.lead = m] \in Share
  BY ShareAt DEF Share
<1>2. [s EXCEPT ![t][b].lead = m] = [s EXCEPT ![t][b] = [s[t][b] EXCEPT !.lead = m]]
  BY Zenon
<1>3. [s EXCEPT ![t][b].lead = m] \in [Tasks -> [Blocks -> Share]]
  BY <1>1, <1>2, UpdateShare, Zenon
<1>4. [s EXCEPT ![t][b].lead = m, ![t][b].rest = n]
          = [[s EXCEPT ![t][b].lead = m] EXCEPT ![t][b].rest = n]
  OBVIOUS
<1> QED
  BY <1>3, <1>4, UpdateShareRest, Zenon

\* A step of the block's threads: only Advance moves head, and the host's view of
\* the room in the ring survives it.
LEMMA BlockKeepsRing ==
    ASSUME NEW b, Blocks = {b}, RingInv(b), LeadStep(b) \/ RestStep(b)
    PROVE  RingInv(b)'
<1> USE DEF Busy, BlockAt, BlockTo
<1>1. Capacity \in Nat \ {0} /\ MaxTasks \in Nat
  BY WorkerAssumption
<1>2. /\ head \in Nat /\ tail \in Nat /\ head <= tail /\ tail - head <= Capacity
      /\ ring \in [Slots -> Nat] /\ processed \in Nat /\ tail <= MaxTasks
      /\ shares \in [Tasks -> [Blocks -> Share]]
  BY DEF RingInv, TypeOK, Share
<1>3. HostView /\ BlockView(b) /\ PendingSlotsIntact /\ TypeOK
  BY DEF RingInv
<1>4. block \in [Blocks -> BlockState] /\ b \in Blocks /\ block[b] \in BlockState
  <2>1. block \in [Blocks -> BlockState] /\ b \in Blocks
    BY DEF RingInv, TypeOK, BlockState, BlockPc, RestPc
  <2> QED
    BY <2>1
<1>5. /\ block[b].pc \in BlockPc /\ block[b].rest \in RestPc /\ block[b].h \in Nat
      /\ block[b].task \in Nat
  BY <1>4 DEF BlockState
<1>6. CASE Exit(b)
  <2>1. /\ block' = [block EXCEPT ![b].pc = "exit"]
        /\ UNCHANGED <<head, tail, quit, processed, ring, submitted, host, shares>>
    BY <1>6 DEF Exit
  <2>2. block' \in [Blocks -> BlockState]
    BY <1>2, <1>4, <1>5, <2>1, UpdatePc, Zenon DEF BlockPc, RestPc
  <2>3. TypeOK'
    BY <1>3, <2>1, <2>2 DEF TypeOK, BlockState, BlockPc, RestPc
  <2>4. HostView' /\ PendingSlotsIntact'
    BY <1>3, <2>1 DEF HostView, PendingSlotsIntact
  <2>5. BlockView(b)'
    BY <1>2, <1>3, <1>4, <1>6, <2>1, SMT DEF BlockView, Exit, BlockState
  <2> QED
    BY <2>3, <2>4, <2>5 DEF RingInv
<1>7. CASE Poll(b)
  <2>1. /\ block' = [block EXCEPT ![b].pc = "head", ![b].work = FALSE]
        /\ UNCHANGED <<head, tail, quit, processed, ring, submitted, host, shares>>
    BY <1>7 DEF Poll
  <2>2. block' \in [Blocks -> BlockState]
    BY <1>2, <1>4, <1>5, <2>1, UpdatePcWork, Zenon DEF BlockPc, RestPc
  <2>3. TypeOK'
    BY <1>3, <2>1, <2>2 DEF TypeOK, BlockState, BlockPc, RestPc
  <2>4. HostView' /\ PendingSlotsIntact'
    BY <1>3, <2>1 DEF HostView, PendingSlotsIntact
  <2>5. BlockView(b)'
    BY <1>2, <1>3, <1>4, <1>7, <2>1, SMT DEF BlockView, Poll, BlockState
  <2> QED
    BY <2>3, <2>4, <2>5 DEF RingInv
<1>8. CASE ReadHead(b)
  <2>1. /\ block' = [block EXCEPT ![b].pc = "tail", ![b].h = head]
        /\ UNCHANGED <<head, tail, quit, processed, ring, submitted, host, shares>>
    BY <1>8 DEF ReadHead
  <2>2. block' \in [Blocks -> BlockState]
    BY <1>2, <1>4, <2>1, UpdatePcH, ZenonT(40) DEF BlockPc
  <2>3. TypeOK'
    BY <1>3, <2>1, <2>2 DEF TypeOK, BlockState, BlockPc, RestPc
  <2>4. HostView' /\ PendingSlotsIntact'
    BY <1>3, <2>1 DEF HostView, PendingSlotsIntact
  <2>5. BlockView(b)'
    BY <1>2, <1>3, <1>4, <1>8, <2>1, SMT DEF BlockView, ReadHead, BlockState
  <2> QED
    BY <2>3, <2>4, <2>5 DEF RingInv
<1>9. CASE ReadTail(b)
  <2>1. PICK p \in {"copy", "barrier"} :
            /\ p = IF block[b].h < tail THEN "copy" ELSE "barrier"
            /\ block' = [block EXCEPT ![b].pc = p]
    BY <1>9 DEF ReadTail
  <2>2. block[b].pc = "tail" /\ UNCHANGED <<head, tail, quit, processed, ring, submitted, host, shares>>
    BY <1>9 DEF ReadTail
  <2>3. block' \in [Blocks -> BlockState]
    BY <1>4, <2>1, UpdatePc, Zenon DEF BlockPc, RestPc
  <2>4. TypeOK'
    BY <1>3, <2>2, <2>3 DEF TypeOK, BlockState, BlockPc, RestPc, Share
  <2>5. HostView' /\ PendingSlotsIntact'
    BY <1>3, <2>2 DEF HostView, PendingSlotsIntact
  <2>6. /\ block'[b].pc = p /\ block'[b].h = head /\ (p = "copy" => head < tail)
        /\ block'[b].work = block[b].work
    BY <1>3, <1>4, <2>1, <2>2 DEF BlockView, BlockState
  <2>7. ~block[b].work
    BY <1>3, <2>2 DEF BlockView
  <2>8. BlockView(b)'
    BY <2>1, <2>2, <2>6, <2>7 DEF BlockView
  <2> QED
    BY <2>4, <2>5, <2>8 DEF RingInv
<1>10. CASE CopyTask(b)
  <2>1. block[b].pc = "copy" /\ block[b].h = head /\ head < tail
    BY <1>3, <1>10 DEF CopyTask, BlockView
  <2>2. ring[head % Capacity] = head + 1
    BY <1>2, <1>3, <2>1, SMT DEF PendingSlotsIntact
  <2>3. /\ block' = [block EXCEPT ![b].pc = "advance", ![b].task = head + 1]
        /\ UNCHANGED <<head, tail, quit, processed, ring, submitted, host, shares>>
    BY <1>10, <2>1, <2>2 DEF CopyTask
  <2>4. block' \in [Blocks -> BlockState]
    <3>1. PICK n \in Nat : n = head + 1
      BY <1>2, SMT
    <3>2. block' = [block EXCEPT ![b].pc = "advance", ![b].task = n]
      BY <2>3, <3>1
    <3> QED
      BY <1>4, <3>2, UpdatePcTask, Zenon DEF BlockPc
  <2>5. TypeOK'
    BY <1>3, <2>3, <2>4 DEF TypeOK, BlockState, BlockPc, RestPc
  <2>6. HostView' /\ PendingSlotsIntact'
    BY <1>3, <2>3 DEF HostView, PendingSlotsIntact
  <2>7. BlockView(b)'
    BY <1>3, <1>4, <2>1, <2>3 DEF BlockView, BlockState
  <2> QED
    BY <2>5, <2>6, <2>7 DEF RingInv
<1>11. CASE Advance(b)
  <2>1. /\ block[b].pc = "advance" /\ block[b].h = head /\ head < tail
        /\ block[b].task = head + 1 /\ head' = head + 1
        /\ block' = [block EXCEPT ![b].pc = "barrier", ![b].work = TRUE]
        /\ UNCHANGED <<tail, quit, processed, ring, submitted, host, shares>>
    BY <1>3, <1>11 DEF Advance, BlockView
  <2>2. block' \in [Blocks -> BlockState]
    BY <1>4, <2>1, UpdatePcWork, Zenon DEF BlockPc, RestPc
  <2>3. head' \in Nat /\ head' <= tail' /\ tail' - head' <= Capacity
    BY <1>1, <1>2, <2>1, SMT
  <2>4. TypeOK'
    BY <1>3, <2>1, <2>2, <2>3 DEF TypeOK, BlockState, BlockPc, RestPc, Share
  <2>5. HostView'
    BY <1>1, <1>2, <1>3, <2>1, SMT DEF HostView
  <2>6. PendingSlotsIntact'
    <3>1. \A i \in head + 1 .. tail - 1 : i \in head .. tail - 1
      BY <1>2, SMT
    <3> QED
      BY <1>3, <2>1, <3>1 DEF PendingSlotsIntact
  <2>7. BlockView(b)'
    BY <1>2, <1>4, <2>1, SMT DEF BlockView, BlockState
  <2> QED
    BY <2>4, <2>5, <2>6, <2>7 DEF RingInv
<1>12. CASE NoWork(b)
  <2>a. PICK p \in BlockPc : p = IF block[b].pc = "exit" THEN "exit" ELSE "poll"
    BY DEF BlockPc
  <2>b. PICK q \in RestPc : q = IF block[b].rest = "exit" THEN "exit" ELSE "poll"
    BY DEF RestPc
  <2>1. /\ block' = [block EXCEPT ![b].pc = p, ![b].rest = q]
        /\ UNCHANGED <<head, tail, quit, processed, ring, submitted, host, shares>>
    BY <1>12, <2>a, <2>b DEF NoWork
  <2>2. block' \in [Blocks -> BlockState]
    BY <1>4, <2>1, UpdatePcRest, Zenon
  <2>3. TypeOK'
    BY <1>3, <2>1, <2>2 DEF TypeOK, BlockState, BlockPc, RestPc
  <2>4. HostView' /\ PendingSlotsIntact'
    BY <1>3, <2>1 DEF HostView, PendingSlotsIntact
  <2>5. BlockView(b)'
    BY <1>2, <1>3, <1>4, <1>12, <2>a, <2>1, SMT DEF BlockView, NoWork, BlockState
  <2> QED
    BY <2>3, <2>4, <2>5 DEF RingInv
<1>13. CASE Execute(b)
  <2>1. /\ block' = [block EXCEPT ![b].pc = "count"]
        /\ block[b].pc = "barrier" /\ block[b].work
        /\ UNCHANGED <<head, tail, quit, processed, ring, submitted, host>>
    BY <1>13 DEF Execute
  <2>2. block' \in [Blocks -> BlockState]
    BY <1>4, <2>1, UpdatePc, Zenon DEF BlockPc, RestPc
  <2>3. shares' \in [Tasks -> [Blocks -> Share]]
    <3>1. PICK t \in Tasks : t = block[b].task
      BY <1>1, <1>2, <1>3, <2>1, SMT DEF BlockView, Tasks
    <3>2. PICK s \in [Tasks -> [Blocks -> Share]] : s = shares
      BY <1>2
    <3>3. s[t][b].lead + 1 \in Nat /\ s[t][b].rest \in Nat /\ s[t][b].rest + 1 \in Nat
      BY <1>4, ShareAt, SMT DEF Share
    <3>4. PICK m \in Nat : m = s[t][b].lead + 1
      BY <3>3
    <3>5. PICK n \in Nat :
              n = IF block[b].rest = "exit" THEN s[t][b].rest ELSE s[t][b].rest + 1
      BY <3>3
    <3>6. shares' = [s EXCEPT ![t][b].lead = m, ![t][b].rest = n]
      BY <1>13, <3>1, <3>2, <3>4, <3>5 DEF Execute
    <3> QED
      BY <1>4, <3>6, UpdateShares, ZenonT(40)
  <2>4. TypeOK'
    BY <1>3, <2>1, <2>2, <2>3 DEF TypeOK, BlockState, BlockPc, RestPc, Share
  <2>5. HostView' /\ PendingSlotsIntact'
    BY <1>3, <2>1 DEF HostView, PendingSlotsIntact
  <2>6. BlockView(b)'
    BY <1>3, <1>4, <2>1 DEF BlockView, BlockState
  <2> QED
    BY <2>4, <2>5, <2>6 DEF RingInv
<1>14. CASE Count(b)
  <2>a. PICK q \in RestPc : q = IF block[b].rest = "exit" THEN "exit" ELSE "poll"
    BY DEF RestPc
  <2>1. /\ block' = [block EXCEPT ![b].pc = "poll", ![b].rest = q]
        /\ processed' = processed + 1
        /\ UNCHANGED <<head, tail, quit, ring, submitted, host, shares>>
    BY <1>14, <2>a DEF Count
  <2>2. block' \in [Blocks -> BlockState]
    BY <1>4, <2>1, UpdatePcRest, ZenonT(40) DEF BlockPc
  <2>3. processed' \in Nat
    BY <1>2, <2>1, SMT
  <2>4. TypeOK'
    BY <1>3, <2>1, <2>2, <2>3 DEF TypeOK, BlockState, BlockPc, RestPc, Share
  <2>5. HostView' /\ PendingSlotsIntact'
    BY <1>3, <2>1 DEF HostView, PendingSlotsIntact
  <2>6. BlockView(b)'
    BY <1>4, <2>1 DEF BlockView, BlockState
  <2> QED
    BY <2>4, <2>5, <2>6 DEF RingInv
<1>15. CASE RestPoll(b)
  <2>1. PICK q \in RestPc : block' = [block EXCEPT ![b].rest = q]
    BY <1>15 DEF RestPoll, RestPc
  <2>2. UNCHANGED <<head, tail, quit, processed, ring, submitted, host, shares>>
    BY <1>15 DEF RestPoll
  <2>3. block' \in [Blocks -> BlockState]
    BY <1>4, <2>1, UpdateRest, Zenon DEF BlockPc, RestPc
  <2>4. TypeOK'
    BY <1>3, <2>2, <2>3 DEF TypeOK, BlockState, BlockPc, RestPc, Share
  <2>5. HostView' /\ PendingSlotsIntact'
    BY <1>3, <2>2 DEF HostView, PendingSlotsIntact
  <2>6. BlockView(b)'
    BY <1>3, <1>4, <2>1, <2>2 DEF BlockView, BlockState
  <2> QED
    BY <2>4, <2>5, <2>6 DEF RingInv
<1>16. CASE ExecuteStale(b)
  <2>1. /\ block' = [block EXCEPT ![b].rest = "poll"]
        /\ UNCHANGED <<head, tail, quit, processed, ring, submitted, host>>
    BY <1>16 DEF ExecuteStale
  <2>2. block' \in [Blocks -> BlockState]
    BY <1>4, <2>1, UpdateRest, Zenon DEF BlockPc, RestPc
  <2>3. shares' \in [Tasks -> [Blocks -> Share]]
    <3>1. CASE block[b].task \notin Tasks
      BY <1>2, <1>16, <3>1 DEF ExecuteStale
    <3>2. CASE block[b].task \in Tasks
      <4>1. PICK t \in Tasks : t = block[b].task
        BY <3>2
      <4>2. PICK s \in [Tasks -> [Blocks -> Share]] : s = shares
        BY <1>2
      <4>3. PICK n \in Nat : n = s[t][b].rest + 1
        BY <1>4, ShareAt, SMT DEF Share
      <4>4. shares' = [s EXCEPT ![t][b].rest = n]
        BY <1>16, <4>1, <4>2, <4>3 DEF ExecuteStale
      <4> QED
        BY <1>4, <4>4, UpdateShareRest, Zenon
    <3> QED
      BY <3>1, <3>2
  <2>4. TypeOK'
    BY <1>3, <2>1, <2>2, <2>3 DEF TypeOK, BlockState, BlockPc, RestPc, Share
  <2>5. HostView' /\ PendingSlotsIntact'
    BY <1>3, <2>1 DEF HostView, PendingSlotsIntact
  <2>6. BlockView(b)'
    BY <1>3, <1>4, <2>1 DEF BlockView, BlockState
  <2> QED
    BY <2>4, <2>5, <2>6 DEF RingInv
<1> QED
  BY <1>6, <1>7, <1>8, <1>9, <1>10, <1>11, <1>12, <1>13, <1>14, <1>15, <1>16
     DEF LeadStep, RestStep

\* Every step keeps RingInv.
LEMMA NextKeepsRing ==
    ASSUME NEW b, Blocks = {b}, RingInv(b), [Next]_vars
    PROVE  RingInv(b)'
<1>1. CASE UNCHANGED vars
  BY <1>1 DEF vars, RingInv, TypeOK, HostView, BlockView, PendingSlotsIntact, Busy
<1>2. CASE Next
  BY <1>2, HostKeepsRing, BlockKeepsRing DEF Next
<1> QED
  BY <1>1, <1>2

\* With one block, for every capacity: the control block and the ring have their
\* types, and head and tail stay within a ring's length of each other.
THEOREM WorkerTypeCorrect ==
    ASSUME NEW b, Blocks = {b}
    PROVE  Spec => []TypeOK
<1>1. Init => RingInv(b)
  BY RingInit
<1>2. RingInv(b) /\ [Next]_vars => RingInv(b)'
  BY NextKeepsRing
<1>3. RingInv(b) => TypeOK
  BY DEF RingInv
<1> QED
  BY <1>1, <1>2, <1>3, PTL DEF Spec

\* With one block, for every capacity: enqueue_task never overwrites a task that
\* has not been copied out of its slot.
THEOREM PendingSlotsIntactAlways ==
    ASSUME NEW b, Blocks = {b}
    PROVE  Spec => []PendingSlotsIntact
<1>1. Init => RingInv(b)
  BY RingInit
<1>2. RingInv(b) /\ [Next]_vars => RingInv(b)'
  BY NextKeepsRing
<1>3. RingInv(b) => PendingSlotsIntact
  BY DEF RingInv
<1> QED
  BY <1>1, <1>2, <1>3, PTL DEF Spec
-----------------------------------------------------------------------------
(***************************************************************************)
(* What has been executed                                                  *)
(***************************************************************************)

\* The tasks thread 0 has executed: all it took, but the one it waits at the
\* barrier to begin.
Executed(b) == IF block[b].pc = "barrier" /\ block[b].work THEN head - 1 ELSE head

\* Between taking a task and counting it, processed is one behind head.
CountView(b) == processed = IF Busy(b) THEN head - 1 ELSE head

\* Threads leave the kernel only after quit, and what they then find in has_work
\* and `task' is the last round (task 0 when there was none).
ExitView(b) ==
    /\ quit = 0 => block[b].pc # "exit" /\ block[b].rest # "exit"
    /\ block[b].pc \in {"poll", "exit"} /\ block[b].work => block[b].task = head

\* Thread 0 has executed the first Executed(b) tasks once and no other; the other
\* threads no others, and until quit the same.
SharesView(b) ==
    \A t \in Tasks :
        /\ shares[t][b].lead = IF t <= Executed(b) THEN 1 ELSE 0
        /\ shares[t][b].rest > 0 => t <= Executed(b)
        /\ quit = 0 => shares[t][b].rest = shares[t][b].lead

HistoryInv(b) ==
    /\ RingInv(b)
    /\ CountView(b)
    /\ ExitView(b)
    /\ SharesView(b)

\* HistoryInv holds initially.
LEMMA HistoryInit ==
    ASSUME NEW b, Blocks = {b}, Init
    PROVE  HistoryInv(b)
<1>1. /\ head = 0 /\ quit = 0 /\ processed = 0
      /\ shares = [t \in Tasks |-> [x \in Blocks |-> [lead |-> 0, rest |-> 0]]]
      /\ block \in [Blocks -> [pc : {"poll"}, rest : {"poll"}, h : {0}, task : {0},
                               work : BOOLEAN]]
  BY DEF Init
<1>2. block[b].pc = "poll" /\ block[b].rest = "poll" /\ block[b].task = 0
  BY <1>1
<1>3. CountView(b) /\ ExitView(b)
  BY <1>1, <1>2 DEF CountView, ExitView, Busy
<1>4. Executed(b) = 0
  BY <1>1, <1>2 DEF Executed
<1>5. ASSUME NEW t \in Tasks
      PROVE  shares[t][b].lead = 0 /\ shares[t][b].rest = 0 /\ ~(t <= 0)
  <2>1. shares[t][b] = [lead |-> 0, rest |-> 0]
    BY <1>1
  <2>2. t >= 1 /\ t \in Int
    BY WorkerAssumption, SMT DEF Tasks
  <2> QED
    BY <2>1, <2>2, SMT
<1>6. SharesView(b)
  BY <1>4, <1>5, SMT DEF SharesView
<1> QED
  BY <1>3, <1>6, RingInit DEF HistoryInv

\* A step that executes nothing and resets no flag keeps the record of what was
\* executed.
LEMMA NothingExecuted ==
    ASSUME NEW b, SharesView(b), shares' = shares, Executed(b)' = Executed(b),
           quit' = 0 => quit = 0
    PROVE  SharesView(b)'
BY DEF SharesView

\* The host executes nothing, and only sets quit.
LEMMA HostKeepsHistory ==
    ASSUME NEW b, Blocks = {b}, HistoryInv(b),
           \/ EnqueueFull \/ EnqueueCheck \/ SyncStart \/ ShutdownStart
           \/ HostProgress \/ Freed
    PROVE  HistoryInv(b)'
<1>1. head' = head /\ processed' = processed /\ block' = block /\ shares' = shares
  BY DEF EnqueueFull, EnqueueCheck, SyncStart, ShutdownStart, HostProgress, Freed,
         EnqueueWrite, EnqueuePublish, EnqueueCount, SyncReturn, ShutdownJoin, vars
<1>2. quit' = 0 => quit = 0
  BY SMT DEF EnqueueFull, EnqueueCheck, SyncStart, ShutdownStart, HostProgress, Freed,
         EnqueueWrite, EnqueuePublish, EnqueueCount, SyncReturn, ShutdownJoin, vars
<1>3. CountView(b)' /\ ExitView(b)'
  BY <1>1, <1>2 DEF HistoryInv, CountView, ExitView, Busy
<1>4. SharesView(b)'
  BY <1>1, <1>2, NothingExecuted DEF HistoryInv, Executed
<1> QED
  BY <1>3, <1>4, HostKeepsRing DEF HistoryInv

\* The steps of a block in which neither thread 0 nor the others execute a task.
Quiet(b) ==
    \/ Exit(b) \/ Poll(b) \/ ReadHead(b) \/ ReadTail(b)
    \/ CopyTask(b) \/ Advance(b) \/ NoWork(b) \/ Count(b) \/ RestPoll(b)

\* What such a step does to the views: Advance takes a task and Count counts it,
\* Exit and RestPoll leave only when quit is set.
LEMMA QuietKeepsViews ==
    ASSUME NEW b, Blocks = {b}, HistoryInv(b), Quiet(b)
    PROVE  /\ CountView(b)' /\ ExitView(b)'
           /\ shares' = shares /\ quit' = quit /\ Executed(b)' = Executed(b)
<1> USE DEF Busy, BlockAt, BlockTo, CountView, ExitView, Executed
<1>1. /\ head \in Nat /\ quit \in {0, 1} /\ processed \in Nat
      /\ b \in Blocks /\ block \in [Blocks -> BlockState]
  BY DEF HistoryInv, RingInv, TypeOK, BlockState, BlockPc, RestPc
<1>2. block[b] \in BlockState
  BY <1>1
<1>3. BlockView(b) /\ CountView(b) /\ ExitView(b)
  BY DEF HistoryInv, RingInv
<1>4. CASE Exit(b)
  <2>1. /\ block[b].pc = "poll" /\ quit # 0
        /\ UNCHANGED <<head, processed, quit, shares>>
    BY <1>4 DEF Exit
  <2>2. block'[b] = [block[b] EXCEPT !.pc = "exit"]
    BY <1>1, <1>4 DEF Exit
  <2>3. /\ block'[b].pc = "exit" /\ block'[b].work = block[b].work
        /\ block'[b].task = block[b].task
    BY <1>2, <2>2 DEF BlockState
  <2> QED
    BY <1>3, <2>1, <2>3
<1>5. CASE Poll(b)
  <2>1. /\ block[b].pc = "poll" /\ UNCHANGED <<head, processed, quit, shares>>
    BY <1>5 DEF Poll
  <2>2. block'[b] = [block[b] EXCEPT !.pc = "head", !.work = FALSE]
    BY <1>1, <1>5 DEF Poll
  <2>3. block'[b].pc = "head" /\ block'[b].rest = block[b].rest
    BY <1>2, <2>2 DEF BlockState
  <2> QED
    BY <1>3, <2>1, <2>3
<1>6. CASE ReadHead(b)
  <2>1. /\ block[b].pc = "head" /\ UNCHANGED <<head, processed, quit, shares>>
    BY <1>6 DEF ReadHead
  <2>2. block'[b] = [block[b] EXCEPT !.pc = "tail", !.h = head]
    BY <1>1, <1>6 DEF ReadHead
  <2>3. block'[b].pc = "tail" /\ block'[b].rest = block[b].rest
    BY <1>2, <2>2 DEF BlockState
  <2> QED
    BY <1>3, <2>1, <2>3
<1>7. CASE ReadTail(b)
  <2>1. /\ block[b].pc = "tail" /\ UNCHANGED <<head, processed, quit, shares>>
    BY <1>7 DEF ReadTail
  <2>2. PICK p \in {"copy", "barrier"} : block'[b] = [block[b] EXCEPT !.pc = p]
    BY <1>1, <1>7 DEF ReadTail
  <2>3. /\ block'[b].pc = p /\ block'[b].rest = block[b].rest
        /\ block'[b].work = block[b].work
    BY <1>2, <2>2 DEF BlockState
  <2>4. ~block[b].work
    BY <1>3, <2>1 DEF BlockView
  <2> QED
    BY <1>3, <2>1, <2>2, <2>3, <2>4
<1>8. CASE CopyTask(b)
  <2>1. /\ block[b].pc = "copy" /\ UNCHANGED <<head, processed, quit, shares>>
    BY <1>8 DEF CopyTask
  <2>2. PICK n : block'[b] = [block[b] EXCEPT !.pc = "advance", !.task = n]
    BY <1>1, <1>8 DEF CopyTask
  <2>3. block'[b].pc = "advance" /\ block'[b].rest = block[b].rest
    BY <1>2, <2>2 DEF BlockState
  <2> QED
    BY <1>3, <2>1, <2>3
<1>9. CASE Advance(b)
  <2>1. /\ block[b].pc = "advance" /\ UNCHANGED <<processed, quit, shares>>
        /\ head' = head + 1
    BY <1>3, <1>9 DEF Advance, BlockView
  <2>2. block'[b] = [block[b] EXCEPT !.pc = "barrier", !.work = TRUE]
    BY <1>1, <1>9 DEF Advance
  <2>3. block'[b].pc = "barrier" /\ block'[b].rest = block[b].rest /\ block'[b].work
    BY <1>2, <2>2 DEF BlockState
  <2> QED
    BY <1>1, <1>3, <2>1, <2>3, SMT
<1>10. CASE NoWork(b)
  <2>1. /\ block[b].pc \in {"barrier", "exit"} /\ ~block[b].work
        /\ UNCHANGED <<head, processed, quit, shares>>
    BY <1>10 DEF NoWork
  <2>2. block'[b] = [block[b] EXCEPT !.pc = IF @ = "exit" THEN @ ELSE "poll",
                                     !.rest = IF @ = "exit" THEN @ ELSE "poll"]
    BY <1>1, <1>10 DEF NoWork
  <2>3. /\ block'[b].pc = IF block[b].pc = "exit" THEN "exit" ELSE "poll"
        /\ block'[b].rest = IF block[b].rest = "exit" THEN "exit" ELSE "poll"
        /\ block'[b].work = block[b].work
    BY <1>2, <2>2 DEF BlockState
  <2> QED
    BY <1>3, <2>1, <2>3
<1>11. CASE Count(b)
  <2>1. /\ block[b].pc = "count" /\ UNCHANGED <<head, quit, shares>>
        /\ processed' = processed + 1
    BY <1>11 DEF Count
  <2>2. block'[b] = [block[b] EXCEPT !.pc = "poll",
                                     !.rest = IF @ = "exit" THEN @ ELSE "poll"]
    BY <1>1, <1>11 DEF Count
  <2>3. /\ block'[b].pc = "poll" /\ block'[b].task = block[b].task
        /\ block'[b].rest = IF block[b].rest = "exit" THEN "exit" ELSE "poll"
    BY <1>2, <2>2 DEF BlockState
  <2>4. block[b].task = head
    BY <1>3, <2>1 DEF BlockView
  <2> QED
    BY <1>1, <1>3, <2>1, <2>3, <2>4, SMT
<1>12. CASE RestPoll(b)
  <2>1. UNCHANGED <<head, processed, quit, shares>>
    BY <1>12 DEF RestPoll
  <2>2. block'[b] = [block[b] EXCEPT !.rest = IF quit = 0 THEN "barrier" ELSE "exit"]
    BY <1>1, <1>12 DEF RestPoll
  <2>3. /\ block'[b].pc = block[b].pc /\ block'[b].task = block[b].task
        /\ block'[b].work = block[b].work
        /\ block'[b].rest = IF quit = 0 THEN "barrier" ELSE "exit"
    BY <1>2, <2>2 DEF BlockState
  <2> QED
    BY <1>3, <2>1, <2>3
<1> QED
  BY <1>4, <1>5, <1>6, <1>7, <1>8, <1>9, <1>10, <1>11, <1>12 DEF Quiet

\* Execute sets the entries of its task,
LEMMA SharesOfTask ==
    ASSUME NEW s \in [Tasks -> [Blocks -> Share]], NEW t \in Tasks, NEW b \in Blocks,
           NEW m \in Nat, NEW n \in Nat, NEW u \in Tasks, NEW r,
           r = [s EXCEPT ![t][b].lead = m, ![t][b].rest = n]
    PROVE  /\ u = t => r[u][b].lead = m /\ r[u][b].rest = n
           /\ u # t => r[u] = s[u]
BY SMT DEF Share

\* and ExecuteStale the rest of its own.
LEMMA RestOfTask ==
    ASSUME NEW s \in [Tasks -> [Blocks -> Share]], NEW t \in Tasks, NEW b \in Blocks,
           NEW n \in Nat, NEW u \in Tasks, NEW r, r = [s EXCEPT ![t][b].rest = n]
    PROVE  /\ r[u][b].lead = s[u][b].lead
           /\ u # t => r[u] = s[u]
BY SMT DEF Share

\* Thread 0 executes the task it took last, which it has not executed; until quit
\* the other threads do so with it.
LEMMA ExecuteKeepsHistory ==
    ASSUME NEW b, Blocks = {b}, HistoryInv(b), Execute(b)
    PROVE  CountView(b)' /\ ExitView(b)' /\ SharesView(b)'
<1>1. /\ head \in Nat /\ quit \in {0, 1} /\ processed \in Nat /\ head <= MaxTasks
      /\ b \in Blocks /\ block \in [Blocks -> BlockState]
      /\ shares \in [Tasks -> [Blocks -> Share]]
  BY WorkerAssumption, SMT
     DEF HistoryInv, RingInv, TypeOK, BlockState, BlockPc, RestPc, Share
<1>2. block[b] \in BlockState
  BY <1>1
<1>3. BlockView(b) /\ CountView(b) /\ ExitView(b) /\ SharesView(b)
  BY DEF HistoryInv, RingInv
<1>4. /\ block[b].pc = "barrier" /\ block[b].work
      /\ UNCHANGED <<head, processed, quit>>
  BY DEF Execute, BlockAt
<1>5. block[b].task = head /\ head \in Tasks
  BY <1>1, <1>3, <1>4, WorkerAssumption, SMT DEF BlockView, Busy, Tasks
<1>6. block'[b] = [block[b] EXCEPT !.pc = "count"]
  BY <1>1 DEF Execute, BlockTo
<1>7. block'[b].pc = "count" /\ block'[b].rest = block[b].rest
  BY <1>2, <1>6 DEF BlockState
<1>8. CountView(b)' /\ ExitView(b)'
  BY <1>3, <1>4, <1>7 DEF CountView, ExitView, Busy
<1>9. Executed(b) = head - 1 /\ Executed(b)' = head
  BY <1>4, <1>7 DEF Executed
<1>10. PICK t \in Tasks : t = head
  BY <1>5
<1>11. PICK s \in [Tasks -> [Blocks -> Share]] : s = shares
  BY <1>1
<1>12. shares[t][b].lead \in Nat /\ shares[t][b].rest \in Nat
  BY <1>1, ShareAt DEF Share
<1>13. PICK m \in Nat : m = shares[t][b].lead + 1
  BY <1>12, SMT
<1>14. PICK n \in Nat : n = IF block[b].rest = "exit" THEN shares[t][b].rest
                           ELSE shares[t][b].rest + 1
  BY <1>12, SMT
<1>15. shares' = [shares EXCEPT ![t][b].lead = m, ![t][b].rest = n]
  BY <1>5, <1>10, <1>13, <1>14 DEF Execute
<1>16. shares[t][b].lead = 0 /\ (quit = 0 => shares[t][b].rest = 0)
  BY <1>1, <1>3, <1>9, <1>10, SMT DEF SharesView
<1>17. m = 1 /\ (quit = 0 => n = 1)
  BY <1>3, <1>13, <1>14, <1>16, SMT DEF ExitView
<1>18. ASSUME NEW u \in Tasks
       PROVE  /\ shares'[u][b].lead = IF u <= head THEN 1 ELSE 0
              /\ shares'[u][b].rest > 0 => u <= head
              /\ quit = 0 => shares'[u][b].rest = shares'[u][b].lead
  <2>1. u \in Int
    BY WorkerAssumption, SMT DEF Tasks
  <2>2. CASE u = t
    <3>1. shares'[u][b].lead = m /\ shares'[u][b].rest = n
      BY <1>11, <1>15, <2>2, SharesOfTask, SMT
    <3> QED
      BY <1>1, <1>10, <1>17, <2>1, <2>2, <3>1, SMT
  <2>3. CASE u # t
    <3>1. shares'[u] = shares[u]
      BY <1>11, <1>15, <2>3, SharesOfTask, SMT
    <3>2. /\ shares[u][b].lead = IF u <= head - 1 THEN 1 ELSE 0
          /\ shares[u][b].rest > 0 => u <= head - 1
          /\ quit = 0 => shares[u][b].rest = shares[u][b].lead
      BY <1>3, <1>9 DEF SharesView
    <3>3. (u <= head - 1) <=> (u <= head)
      BY <1>1, <1>10, <2>1, <2>3, SMT
    <3> QED
      BY <3>1, <3>2, <3>3
  <2> QED
    BY <2>2, <2>3
<1>19. SharesView(b)'
  BY <1>4, <1>9, <1>18 DEF SharesView
<1> QED
  BY <1>8, <1>19

\* When thread 0 has left, the others can only repeat the last task it executed.
LEMMA StaleKeepsHistory ==
    ASSUME NEW b, Blocks = {b}, HistoryInv(b), ExecuteStale(b)
    PROVE  CountView(b)' /\ ExitView(b)' /\ SharesView(b)'
<1>1. /\ head \in Nat /\ quit \in {0, 1} /\ processed \in Nat
      /\ b \in Blocks /\ block \in [Blocks -> BlockState]
      /\ shares \in [Tasks -> [Blocks -> Share]]
  BY DEF HistoryInv, RingInv, TypeOK, BlockState, BlockPc, RestPc, Share
<1>2. block[b] \in BlockState
  BY <1>1
<1>3. CountView(b) /\ ExitView(b) /\ SharesView(b)
  BY DEF HistoryInv
<1>4. /\ block[b].pc = "exit" /\ block[b].work
      /\ UNCHANGED <<head, processed, quit>>
  BY DEF ExecuteStale, BlockAt
<1>5. block[b].task = head /\ quit # 0
  BY <1>3, <1>4 DEF ExitView
<1>6. block'[b] = [block[b] EXCEPT !.rest = "poll"]
  BY <1>1 DEF ExecuteStale
<1>7. /\ block'[b].pc = "exit" /\ block'[b].work = block[b].work
      /\ block'[b].task = block[b].task
  BY <1>2, <1>4, <1>6 DEF BlockState
<1>8. CountView(b)' /\ ExitView(b)'
  BY <1>3, <1>4, <1>5, <1>7 DEF CountView, ExitView, Busy
<1>9. Executed(b) = head /\ Executed(b)' = head
  BY <1>4, <1>7 DEF Executed
<1>10. CASE head \notin Tasks
  <2>1. shares' = shares
    BY <1>5, <1>10 DEF ExecuteStale
  <2>2. SharesView(b)'
    BY <1>3, <1>4, <1>9, <2>1, NothingExecuted
  <2> QED
    BY <1>8, <2>2
<1>11. CASE head \in Tasks
  <2>1. PICK t \in Tasks : t = head
    BY <1>11
  <2>2. PICK n \in Nat : n = shares[t][b].rest + 1
    BY <1>1, ShareAt, SMT DEF Share
  <2>3. shares' = [shares EXCEPT ![t][b].rest = n]
    BY <1>5, <2>1, <2>2 DEF ExecuteStale
  <2>4. ASSUME NEW u \in Tasks
        PROVE  /\ shares'[u][b].lead = IF u <= head THEN 1 ELSE 0
               /\ shares'[u][b].rest > 0 => u <= head
    <3>1. shares'[u][b].lead = shares[u][b].lead /\ (u # t => shares'[u] = shares[u])
      BY <1>1, <2>3, RestOfTask, SMT
    <3>2. /\ shares[u][b].lead = IF u <= head THEN 1 ELSE 0
          /\ shares[u][b].rest > 0 => u <= head
      BY <1>3, <1>9 DEF SharesView
    <3>3. u = t => u <= head
      BY <1>1, <2>1, SMT
    <3> QED
      BY <3>1, <3>2, <3>3
  <2>5. SharesView(b)'
    BY <1>4, <1>5, <1>9, <2>4 DEF SharesView
  <2> QED
    BY <1>8, <2>5
<1> QED
  BY <1>10, <1>11

\* Every step keeps HistoryInv.
LEMMA NextKeepsHistory ==
    ASSUME NEW b, Blocks = {b}, HistoryInv(b), [Next]_vars
    PROVE  HistoryInv(b)'
<1>1. RingInv(b)'
  BY NextKeepsRing DEF HistoryInv
<1>2. CASE UNCHANGED vars
  BY <1>1, <1>2 DEF vars, HistoryInv, CountView, ExitView, SharesView, Executed, Busy
<1>3. CASE Next
  <2>1. CASE \/ EnqueueFull \/ EnqueueCheck \/ SyncStart \/ ShutdownStart
             \/ HostProgress \/ Freed
    BY <2>1, HostKeepsHistory
  <2>2. CASE Quiet(b)
    <3>1. /\ CountView(b)' /\ ExitView(b)'
          /\ shares' = shares /\ quit' = quit /\ Executed(b)' = Executed(b)
      BY <2>2, QuietKeepsViews
    <3>2. SharesView(b)'
      BY <3>1, NothingExecuted DEF HistoryInv
    <3> QED
      BY <1>1, <3>1, <3>2 DEF HistoryInv
  <2>3. CASE Execute(b)
    BY <1>1, <2>3, ExecuteKeepsHistory DEF HistoryInv
  <2>4. CASE ExecuteStale(b)
    BY <1>1, <2>4, StaleKeepsHistory DEF HistoryInv
  <2> QED
    BY <1>3, <2>1, <2>2, <2>3, <2>4 DEF Next, LeadStep, RestStep, Quiet
<1> QED
  BY <1>2, <1>3

\* With one block, for every capacity: until shutdown, the first `processed' tasks
\* have been executed by all threads exactly once, so sync may return when
\* processed reaches the count it saw.
THEOREM ProcessedTasksDoneAlways ==
    ASSUME NEW b, Blocks = {b}
    PROVE  Spec => []ProcessedTasksDone
<1>1. Init => HistoryInv(b)
  BY HistoryInit
<1>2. HistoryInv(b) /\ [Next]_vars => HistoryInv(b)'
  BY NextKeepsHistory
<1>3. HistoryInv(b) => ProcessedTasksDone
  <2> SUFFICES ASSUME HistoryInv(b), quit = 0, NEW t \in Tasks, t <= processed
               PROVE  shares[t][b] = [lead |-> 1, rest |-> 1]
    BY DEF ProcessedTasksDone
  <2>1. /\ head \in Nat /\ t \in Int /\ b \in Blocks
        /\ shares \in [Tasks -> [Blocks -> Share]]
    BY WorkerAssumption, SMT DEF HistoryInv, RingInv, TypeOK, Share, Tasks
  <2>2. t <= Executed(b)
    BY <2>1, SMT DEF HistoryInv, CountView, Executed, Busy
  <2>3. shares[t][b].lead = 1 /\ shares[t][b].rest = 1
    BY <2>2, SMT DEF HistoryInv, SharesView
  <2>4. shares[t][b] \in Share
    BY <2>1, ShareAt
  <2> QED
    BY <2>3, <2>4 DEF Share
<1> QED
  BY <1>1, <1>2, <1>3, PTL DEF Spec

\* With one block, for every capacity: thread 0 executes no task twice, and no
\* thread a task that thread 0 has not executed, in whatever order the threads
\* see quit.
THEOREM LeadRunsOnceAlways ==
    ASSUME NEW b, Blocks = {b}
    PROVE  Spec => []LeadRunsOnce
<1>1. Init => HistoryInv(b)
  BY HistoryInit
<1>2. HistoryInv(b) /\ [Next]_vars => HistoryInv(b)'
  BY NextKeepsHistory
<1>3. HistoryInv(b) => LeadRunsOnce
  BY SMT DEF HistoryInv, SharesView, LeadRunsOnce
<1> QED
  BY <1>1, <1>2, <1>3, PTL DEF Spec
-----------------------------------------------------------------------------
(***************************************************************************)
(* The queue the worker implements.  RingInv makes the mapped queue the    *)
(* numbers after head up to tail, and the mapped current task head or 0.   *)
(***************************************************************************)
QueueOf == [i \in 1 .. tail - head |-> ring[(head + i - 1) % Capacity]]

CurrentOf == IF \E b \in Blocks : Busy(b)
             THEN block[CHOOSE b \in Blocks : Busy(b)].task ELSE 0

\* The tasks h + 1 to t.
Waiting(h, t) == [i \in 1 .. t - h |-> h + i]

\* The slots from head to tail hold the tasks that wait, in order.
LEMMA QueueIsWaiting ==
    ASSUME NEW b, RingInv(b)
    PROVE  QueueOf = Waiting(head, tail)
<1>1. head \in Nat /\ tail \in Nat
  BY DEF RingInv, TypeOK
<1>2. ASSUME NEW i \in 1 .. tail - head
      PROVE  ring[(head + i - 1) % Capacity] = head + i
  <2>1. PICK j \in head .. tail - 1 : j = head + i - 1
    BY <1>1, SMT
  <2>2. ring[j % Capacity] = j + 1
    BY DEF RingInv, PendingSlotsIntact
  <2>3. j + 1 = head + i
    BY <1>1, <2>1, SMT
  <2> QED
    BY <2>1, <2>2, <2>3
<1> QED
  BY <1>2 DEF QueueOf, Waiting

\* The task in execution is the one at head.
LEMMA CurrentIsHead ==
    ASSUME NEW b, Blocks = {b}, RingInv(b)
    PROVE  CurrentOf = IF Busy(b) THEN head ELSE 0
<1>1. (\E x \in Blocks : Busy(x)) <=> Busy(b)
  OBVIOUS
<1>2. Busy(b) => (CHOOSE x \in Blocks : Busy(x)) = b
  OBVIOUS
<1>3. Busy(b) => block[b].task = head
  BY DEF RingInv, BlockView
<1> QED
  BY <1>1, <1>2, <1>3 DEF CurrentOf

\* Waiting is a sequence, and what Append, Head and Tail make of it.
LEMMA WaitingSequence ==
    ASSUME NEW h \in Nat, NEW t \in Nat, h <= t
    PROVE  /\ Waiting(h, t) \in Seq(Nat)
           /\ Len(Waiting(h, t)) = t - h
           /\ Waiting(h, t + 1) = Append(Waiting(h, t), t + 1)
           /\ h < t => /\ Waiting(h, t) # << >>
                       /\ Head(Waiting(h, t)) = h + 1
                       /\ Tail(Waiting(h, t)) = Waiting(h + 1, t)
<1>1. Waiting(h, t) \in Seq(Nat) /\ Len(Waiting(h, t)) = t - h
  BY SMT DEF Waiting
<1>2. Waiting(h, t + 1) = Append(Waiting(h, t), t + 1)
  BY <1>1, SMT DEF Waiting
<1>3. ASSUME h < t
      PROVE  /\ Waiting(h, t) # << >>
             /\ Head(Waiting(h, t)) = h + 1
             /\ Tail(Waiting(h, t)) = Waiting(h + 1, t)
  <2>1. Waiting(h, t) # << >> /\ Head(Waiting(h, t)) = h + 1
    BY <1>1, <1>3, SMT DEF Waiting
  <2>2. Tail(Waiting(h, t)) = Waiting(h + 1, t)
    <3>1. Waiting(h + 1, t) \in Seq(Nat) /\ Len(Waiting(h + 1, t)) = t - h - 1
      BY <1>3, SMT DEF Waiting
    <3>2. /\ Tail(Waiting(h, t)) \in Seq(Nat)
          /\ Len(Tail(Waiting(h, t))) = t - h - 1
          /\ \A i \in 1 .. t - h - 1 : Tail(Waiting(h, t))[i] = Waiting(h, t)[i + 1]
      BY <1>1, <2>1, HeadTailProperties
    <3>3. \A i \in 1 .. t - h - 1 : Waiting(h, t)[i + 1] = Waiting(h + 1, t)[i]
      BY SMT DEF Waiting
    <3> QED
      BY <3>1, <3>2, <3>3, SeqEqual
  <2> QED
    BY <2>1, <2>2
<1> QED
  BY <1>1, <1>2, <1>3

\* The first states map to the empty queue.
LEMMA QueueInitially ==
    ASSUME NEW b, Blocks = {b}, Init
    PROVE  Queue!QueueInit
<1>1. head = 0 /\ tail = 0 /\ RingInv(b)
  BY RingInit DEF Init
<1>2. block[b].pc = "poll"
  BY DEF Init
<1>3. QueueOf = << >>
  BY <1>1, SMT DEF QueueOf
<1>4. CurrentOf = 0
  BY <1>1, <1>2, CurrentIsHead DEF Busy
<1> QED
  BY <1>1, <1>3, <1>4 DEF Queue!QueueInit, QueueOf, CurrentOf

\* What the mapped variables are, in every state.
QueueView(b) ==
    /\ QueueOf = Waiting(head, tail)
    /\ CurrentOf = IF Busy(b) THEN head ELSE 0

\* A step that moves neither head nor tail and leaves the block as busy or idle as
\* it was is invisible.
LEMMA Invisible ==
    ASSUME NEW b, QueueView(b), QueueView(b)',
           head' = head, tail' = tail, Busy(b)' <=> Busy(b)
    PROVE  UNCHANGED Queue!queueVars
<1>1. QueueOf' = QueueOf /\ CurrentOf' = CurrentOf
  BY DEF QueueView
<1> QED
  BY <1>1 DEF Queue!queueVars, QueueOf, CurrentOf

\* The steps the queue does not see: all but the host's publication of a task,
\* atomicExch on head and the increment of processed.
LEMMA OtherStepsInvisible ==
    ASSUME NEW b, Blocks = {b}, RingInv(b), QueueView(b), QueueView(b)', Next,
           ~EnqueuePublish, ~Advance(b), ~Count(b)
    PROVE  UNCHANGED Queue!queueVars
<1> USE DEF Busy, BlockAt, BlockTo
<1>1. b \in Blocks /\ block \in [Blocks -> BlockState] /\ BlockView(b)
  BY DEF RingInv, TypeOK, BlockState, BlockPc, RestPc
<1>2. block[b] \in BlockState
  BY <1>1
<1>3. CASE block' = block
  <2>1. head' = head /\ tail' = tail
    BY <1>1, <1>3
       DEF Next, EnqueueFull, EnqueueCheck, SyncStart, ShutdownStart, HostProgress, Freed,
           EnqueueWrite, EnqueueCount, SyncReturn, ShutdownJoin, vars, LeadStep, RestStep,
           Exit, Poll, ReadHead, ReadTail, CopyTask, NoWork, Execute, RestPoll, ExecuteStale
  <2> QED
    BY <1>3, <2>1, Invisible
<1>4. CASE block' # block
  <2>1. \/ Exit(b) \/ Poll(b) \/ ReadHead(b) \/ ReadTail(b) \/ CopyTask(b)
        \/ NoWork(b) \/ Execute(b) \/ RestPoll(b) \/ ExecuteStale(b)
    BY <1>1, <1>4
       DEF Next, EnqueueFull, EnqueueCheck, SyncStart, ShutdownStart, HostProgress, Freed,
           EnqueueWrite, EnqueueCount, SyncReturn, ShutdownJoin, vars, LeadStep, RestStep
  <2>2. head' = head /\ tail' = tail
    BY <2>1
       DEF Exit, Poll, ReadHead, ReadTail, CopyTask, NoWork, Execute, RestPoll, ExecuteStale
  <2>3. Busy(b)' <=> Busy(b)
    <3>1. CASE Exit(b)
      <4>1. block'[b].pc = "exit" /\ block[b].pc = "poll"
        BY <1>1, <1>2, <3>1 DEF Exit, BlockState
      <4> QED
        BY <4>1
    <3>2. CASE Poll(b) \/ ReadHead(b) \/ CopyTask(b)
      <4>1. block[b].pc \in {"poll", "head", "copy"}
        BY <3>2 DEF Poll, ReadHead, CopyTask
      <4>2. block'[b].pc \in {"head", "tail", "advance"}
        BY <1>1, <1>2, <3>2, SMT DEF Poll, ReadHead, CopyTask, BlockState
      <4> QED
        BY <4>1, <4>2
    <3>3. CASE ReadTail(b)
      <4>1. block[b].pc = "tail" /\ block'[b].pc \in {"copy", "barrier"}
        BY <1>1, <1>2, <3>3 DEF ReadTail, BlockState
      <4>2. ~block[b].work /\ block'[b].work = block[b].work
        BY <1>1, <1>2, <3>3, <4>1 DEF ReadTail, BlockState, BlockView
      <4> QED
        BY <4>1, <4>2
    <3>4. CASE NoWork(b)
      <4>1. block[b].pc \in {"barrier", "exit"} /\ ~block[b].work
        BY <3>4 DEF NoWork
      <4>2. block'[b].pc \in {"exit", "poll"}
        BY <1>1, <1>2, <3>4 DEF NoWork, BlockState
      <4> QED
        BY <4>1, <4>2
    <3>5. CASE Execute(b)
      <4>1. block[b].pc = "barrier" /\ block[b].work /\ block'[b].pc = "count"
        BY <1>1, <1>2, <3>5 DEF Execute, BlockState
      <4> QED
        BY <4>1
    <3>6. CASE RestPoll(b) \/ ExecuteStale(b)
      <4>1. block'[b].pc = block[b].pc /\ block'[b].work = block[b].work
        BY <1>1, <1>2, <3>6, SMT DEF RestPoll, ExecuteStale, BlockState
      <4> QED
        BY <4>1
    <3> QED
      BY <2>1, <3>1, <3>2, <3>3, <3>4, <3>5, <3>6
  <2> QED
    BY <2>2, <2>3, Invisible
<1> QED
  BY <1>3, <1>4

\* Publication is Accept: the room the host saw is still there.
LEMMA PublishAccepts ==
    ASSUME NEW b, RingInv(b), QueueView(b), QueueView(b)', EnqueuePublish
    PROVE  Queue!Accept
<1>1. /\ head \in Nat /\ tail \in Nat /\ head <= tail /\ tail - head < Capacity
  BY DEF RingInv, TypeOK, HostView, EnqueuePublish, HostAt
<1>2. tail' = tail + 1 /\ head' = head /\ block' = block
  BY DEF EnqueuePublish
<1>3. QueueOf' = Append(QueueOf, tail + 1) /\ Len(QueueOf) = tail - head
  BY <1>1, <1>2, WaitingSequence DEF QueueView
<1>4. CurrentOf' = CurrentOf
  BY <1>2 DEF QueueView, Busy
<1> QED
  BY <1>1, <1>2, <1>3, <1>4 DEF Queue!Accept, QueueOf, CurrentOf

\* atomicExch on head is Take: the block took the oldest task, and held none.
LEMMA AdvanceTakes ==
    ASSUME NEW b, Blocks = {b}, RingInv(b), QueueView(b), QueueView(b)', Advance(b)
    PROVE  Queue!Take
<1>1. /\ head \in Nat /\ tail \in Nat /\ b \in Blocks /\ block \in [Blocks -> BlockState]
      /\ block[b].pc = "advance" /\ head < tail /\ block[b].h = head
  BY DEF RingInv, TypeOK, BlockView, Advance, BlockAt, BlockState, BlockPc, RestPc
<1>2. head' = head + 1 /\ tail' = tail
  BY <1>1 DEF Advance
<1>3. block[b] \in BlockState
  BY <1>1
<1>4. block'[b].pc = "barrier" /\ block'[b].work
  BY <1>1, <1>3 DEF Advance, BlockState
<1>5. CurrentOf = 0 /\ CurrentOf' = head + 1
  BY <1>1, <1>2, <1>4 DEF QueueView, Busy
<1>6. QueueOf # << >> /\ Head(QueueOf) = head + 1 /\ QueueOf' = Tail(QueueOf)
  <2>1. QueueOf = Waiting(head, tail) /\ QueueOf' = Waiting(head + 1, tail)
    BY <1>2 DEF QueueView
  <2>2. /\ Waiting(head, tail) # << >> /\ Head(Waiting(head, tail)) = head + 1
        /\ Tail(Waiting(head, tail)) = Waiting(head + 1, tail)
    <3>1. head <= tail
      BY <1>1, SMT
    <3> QED
      BY <1>1, <3>1, WaitingSequence, Zenon
  <2> QED
    BY <2>1, <2>2
<1> QED
  BY <1>2, <1>5, <1>6 DEF Queue!Take, QueueOf, CurrentOf

\* The increment of processed is Complete.
LEMMA CountCompletes ==
    ASSUME NEW b, Blocks = {b}, RingInv(b), QueueView(b), QueueView(b)', Count(b)
    PROVE  Queue!Complete
<1>1. /\ b \in Blocks /\ block \in [Blocks -> BlockState] /\ block[b].pc = "count"
      /\ head \in Nat /\ 0 < head
  BY DEF RingInv, TypeOK, BlockView, Busy, Count, BlockAt, BlockState, BlockPc, RestPc
<1>2. block[b] \in BlockState
  BY <1>1
<1>3. block'[b].pc = "poll" /\ head' = head /\ tail' = tail
  BY <1>1, <1>2 DEF Count, BlockState
<1>4. CurrentOf # 0 /\ CurrentOf' = 0 /\ QueueOf' = QueueOf
  BY <1>1, <1>3, SMT DEF QueueView, Busy
<1> QED
  BY <1>3, <1>4 DEF Queue!Complete, QueueOf, CurrentOf

\* With one block, for every capacity: host, ring and kernel implement a bounded
\* FIFO queue whose tasks are taken one at a time, in order and once.
THEOREM WorkerImplementsQueue ==
    ASSUME NEW b, Blocks = {b}
    PROVE  Spec => ImplementsQueue
<1>1. Init => RingInv(b) /\ Queue!QueueInit
  BY RingInit, QueueInitially
<1>2. RingInv(b) /\ [Next]_vars => RingInv(b)'
  BY NextKeepsRing
<1>3. RingInv(b) => QueueView(b)
  BY QueueIsWaiting, CurrentIsHead DEF QueueView
<1>4. RingInv(b) /\ QueueView(b) /\ QueueView(b)' /\ [Next]_vars
          => [Queue!QueueNext]_(Queue!queueVars)
  <2> SUFFICES ASSUME RingInv(b), QueueView(b), QueueView(b)', [Next]_vars
               PROVE  [Queue!QueueNext]_(Queue!queueVars)
    OBVIOUS
  <2>1. CASE UNCHANGED vars
    <3>1. head' = head /\ tail' = tail /\ (Busy(b)' <=> Busy(b))
      BY <2>1 DEF vars, Busy
    <3> QED
      BY <3>1, Invisible
  <2>2. CASE EnqueuePublish
    BY <2>2, PublishAccepts DEF Queue!QueueNext
  <2>3. CASE Advance(b)
    BY <2>3, AdvanceTakes DEF Queue!QueueNext
  <2>4. CASE Count(b)
    BY <2>4, CountCompletes DEF Queue!QueueNext
  <2>5. CASE Next /\ ~EnqueuePublish /\ ~Advance(b) /\ ~Count(b)
    BY <2>5, OtherStepsInvisible
  <2> QED
    BY <2>1, <2>2, <2>3, <2>4, <2>5
<1> QED
  BY <1>1, <1>2, <1>3, <1>4, PTL DEF Spec, ImplementsQueue, Queue!QueueSpec
=============================================================================
