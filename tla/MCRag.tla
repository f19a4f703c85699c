------------------------------- MODULE MCRag -------------------------------
(***************************************************************************)
(* The TLC instance of RagSystem: three processes and two locks have every *)
(* shape of chain and tree and a cycle with a spare vertex.  The constants *)
(* are in the configuration.                                               *)
(***************************************************************************)
EXTENDS RagSystem
=============================================================================
