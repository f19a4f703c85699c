---------------------------- MODULE MCSemaphores ----------------------------
(***************************************************************************)
(* TLC instances of Semaphores: the null process and two or three others,  *)
(* one semaphore, and a small range of priorities.                         *)
(***************************************************************************)
EXTENDS Semaphores

OnePrio  == {1}
TwoPrios == {1, 2}
=============================================================================
