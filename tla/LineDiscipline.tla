--------------------------- MODULE LineDiscipline ---------------------------
(***************************************************************************)
(* What the input half of the console promises: the text that has arrived  *)
(* and not been read, the first nready characters of which readers may     *)
(* take.  The rest is the line being typed, which can still be edited.     *)
(* broken says that the promise is off: the driver has met one of the      *)
(* conditions it does not handle.                                          *)
(***************************************************************************)
EXTENDS Integers, Sequences, SequencesExt

CONSTANTS Char, NL, Capacity

VARIABLES text, nready, broken

LineInit == text = <<>> /\ nready = 0 /\ broken = FALSE

\* A character of the line being typed.
Type(c) == text' = Append(text, c) /\ UNCHANGED nready

\* A character that goes to the readers at once, behind what is there.
Pass(c) == text' = Append(text, c) /\ nready' = nready + 1

Enter == text' = Append(text, NL) /\ nready' = Len(text')

Erase == Len(text) > nready /\ text' = Front(text) /\ UNCHANGED nready

Kill == text' = SubSeq(text, 1, nready) /\ UNCHANGED nready

Take == nready > 0 /\ text' = Tail(text) /\ nready' = nready - 1

Works ==
  /\ ~broken /\ UNCHANGED broken
  /\ Enter \/ Erase \/ Kill \/ Take \/ \E c \in Char : Type(c) \/ Pass(c)
  /\ Len(text') <= Capacity

Break == ~broken /\ broken' /\ text' = <<>> /\ nready' = 0

LineNext == Works \/ Break
lineVars == <<text, nready, broken>>

LineSpec == LineInit /\ [][LineNext]_lineVars
=============================================================================
