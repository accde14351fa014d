------------------------------- MODULE MCInput -------------------------------
(* One modifier, one other key, one character, one button, two key codes;  *)
(* two layouts that swap the codes; a narrower and a wider screen.         *)
EXTENDS Input

CONSTANTS alt, a, u
Layout(c, d, e) == [s \in Symbols |-> CASE s = alt -> c [] s = a -> d [] s = u -> e]
MCLayouts == {Layout(1, 2, 2), Layout(2, 1, 0)}
=============================================================================
