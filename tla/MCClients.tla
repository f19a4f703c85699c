----------------------------- MODULE MCClients -----------------------------
(***************************************************************************)
(* TLC instance of Clients: the programs as the repository runs them,      *)
(* three philosophers or two workers, which acquire and release only.      *)
(***************************************************************************)
EXTENDS Clients

Tidy == {}
=============================================================================
