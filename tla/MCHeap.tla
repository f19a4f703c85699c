------------------------------- MODULE MCHeap -------------------------------
(***************************************************************************)
(* TLC instance of KernelHeap: a heap of five memblks below the hole and   *)
(* four above, two processes, and one pool more than there are semaphores. *)
(***************************************************************************)
EXTENDS KernelHeap

SmallAndWrapping == {1, 4, W - 1}
Shapes == {[bufsiz |-> 2, numbufs |-> 1], [bufsiz |-> 2, numbufs |-> 2]}
=============================================================================
