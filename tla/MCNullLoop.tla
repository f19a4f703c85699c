---------------------------- MODULE MCNullLoop ----------------------------
(***************************************************************************)
(* TLC instance of NullLoop: the null process and main.                    *)
(***************************************************************************)
EXTENDS NullLoop
=============================================================================
