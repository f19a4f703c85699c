------------------------------ MODULE MCQueues ------------------------------
(***************************************************************************)
(* TLC instance of LinkedQueues: three processes, and a heap of as many    *)
(* entries as one queue can have.  Places in memory are alike, and so are  *)
(* queues.                                                                 *)
(***************************************************************************)
EXTENDS LinkedQueues, TLC

SomeKeys == {1, 2}
Alike == Permutations(Addr) \cup Permutations(Queue)
=============================================================================
