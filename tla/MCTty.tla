------------------------------- MODULE MCTty -------------------------------
(***************************************************************************)
(* TLC instances of Tty: small rings, a reader and a writer that aging     *)
(* may give the processor in any order, with budgets that favour the       *)
(* input half or the output half; or a reader of strictly higher key.      *)
(***************************************************************************)
EXTENDS Tty

Typist    == {"a", "nl", "erase", "kill", "eof", "stop", "start"}

TypingOrPrinting ==
  {[keys |-> 4, reads |-> 1, writes |-> 0, modes |-> 0],
   [keys |-> 3, reads |-> 2, writes |-> 0, modes |-> 0],
   [keys |-> 3, reads |-> 1, writes |-> 0, modes |-> 1],
   [keys |-> 4, reads |-> 0, writes |-> 0, modes |-> 1],
   [keys |-> 2, reads |-> 0, writes |-> 2, modes |-> 0]}

ReaderFirst == [p \in Readers \union Writers |-> IF p \in Readers THEN 1 ELSE 0]

NewlineOnly == {"nl"}
OneLine == {[keys |-> 1, reads |-> 1, writes |-> 1, modes |-> 1]}
=============================================================================
