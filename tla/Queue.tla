------------------------------- MODULE Queue -------------------------------
(***************************************************************************)
(* A bounded queue with a registered output: what the block RAM FIFO of    *)
(* the RAM shim (raster/ram_fifo.v) promises to a user who looks at its    *)
(* `empty` and `full` flags.  Everything happens at a clock edge; a push   *)
(* and a pop may share one, also when the queue is full.                   *)
(***************************************************************************)
EXTENDS Integers, Sequences

CONSTANTS Capacity, Data

VARIABLES queue, out

queueVars == <<queue, out>>

Empty == queue = <<>> /\ out \in Data

Push(v) ==
    /\ Len(queue) < Capacity
    /\ queue' = Append(queue, v)
    /\ UNCHANGED out

Pop ==
    /\ queue # <<>>
    /\ out' = Head(queue)
    /\ queue' = Tail(queue)

PushPop(v) ==
    /\ queue # <<>>
    /\ out' = Head(queue)
    /\ queue' = Append(Tail(queue), v)

Clear == queue' = <<>> /\ UNCHANGED out

QueueNext == Pop \/ Clear \/ \E v \in Data : Push(v) \/ PushPop(v)

QueueSpec == Empty /\ [][QueueNext]_queueVars
=============================================================================
