----------------------------- MODULE Allocator -----------------------------
(***************************************************************************)
(* What the memory allocator promises: a piece of memory has one owner at  *)
(* a time.  avail is the set of free words, held the set of pieces (sets   *)
(* of words) that have been handed out.                                    *)
(***************************************************************************)
EXTENDS FiniteSets

VARIABLES avail, held

AllocInit == held = {}

\* Pieces are handed out of what is free, and given back one at a time.
Hand(piece) == piece # {} /\ piece \subseteq avail /\ avail' = avail \ piece /\ held' = held \union {piece}

Return(piece) == avail' = avail \union piece /\ held' = held \ {piece}

AllocNext ==
  \/ \E piece \in held' \ held : Hand(piece)
  \/ \E piece \in held : Return(piece)

AllocSpec == AllocInit /\ [][AllocNext]_<<avail, held>>
=============================================================================
