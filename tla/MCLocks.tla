------------------------------ MODULE MCLocks ------------------------------
(***************************************************************************)
(* TLC instances of Locks: two locks, the null process and two user        *)
(* processes, and a detection at every second call of resched.  The sets   *)
(* of client behaviours are named here for the configurations.             *)
(***************************************************************************)
EXTENDS Locks

Free  == Behaviours      \* every behaviour of a client
Tidy  == {}              \* acquire and release only
=============================================================================
