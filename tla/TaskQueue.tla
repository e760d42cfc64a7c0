------------------------------ MODULE TaskQueue ------------------------------
(***************************************************************************)
(* What the persistent worker promises the code that enqueues tasks: a     *)
(* bounded FIFO queue with one consumer.  Tasks are numbered in the order  *)
(* they were accepted, and are taken one at a time, in that order, each    *)
(* once.                                                                   *)
(***************************************************************************)
EXTENDS Integers, Sequences

CONSTANT Capacity

VARIABLES
    accepted,   \* the number of tasks accepted
    queue,      \* the accepted tasks that nobody has taken, oldest first
    current     \* the task being executed, 0 when there is none

queueVars == <<accepted, queue, current>>

QueueInit ==
    /\ accepted = 0
    /\ queue = << >>
    /\ current = 0

Accept ==
    /\ Len(queue) < Capacity
    /\ accepted' = accepted + 1
    /\ queue' = Append(queue, accepted + 1)
    /\ UNCHANGED current

Take ==
    /\ current = 0
    /\ queue # << >>
    /\ current' = Head(queue)
    /\ queue' = Tail(queue)
    /\ UNCHANGED accepted

Complete ==
    /\ current # 0
    /\ current' = 0
    /\ UNCHANGED <<accepted, queue>>

QueueNext == Accept \/ Take \/ Complete

QueueSpec == QueueInit /\ [][QueueNext]_queueVars
=============================================================================
