------------------------------ MODULE FifoQueue ------------------------------
(***************************************************************************)
(* What MPSCQueue promises its users: a queue.  Its one consumer takes the *)
(* items in the order they were put, each once; "taken" is the item it has *)
(* taken last.                                                             *)
(***************************************************************************)
EXTENDS Sequences

CONSTANTS Items, NoItem

VARIABLES items, taken

fifoVars == <<items, taken>>

FifoInit == items = <<>> /\ taken = NoItem

Put(x) == items' = Append(items, x) /\ UNCHANGED taken

Take == items # <<>> /\ taken' = Head(items) /\ items' = Tail(items)

FifoNext == Take \/ \E x \in Items : Put(x)

FifoSpec == FifoInit /\ [][FifoNext]_fifoVars
=============================================================================
