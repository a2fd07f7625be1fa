----------------------------- MODULE MCInputPath -----------------------------
(***************************************************************************)
(* InputPath with a letter and a modifier, and a paste of a capital and a  *)
(* small letter, which asks for a second click, or of one capital letter.  *)
(***************************************************************************)
EXTENDS InputPath

CONSTANTS letter, shift

MCKeys == {letter, shift}
Chord(modifiers, key) == [modifiers |-> modifiers, key |-> key]
MCRisky == {<<Chord(<<shift>>, letter), Chord(<<>>, letter)>>}
MCPlans == MCRisky \cup {<<Chord(<<shift>>, letter)>>}

=============================================================================
