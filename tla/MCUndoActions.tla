--------------------------- MODULE MCUndoActions ---------------------------
(* Instances of UndoActions for TLC: two folders' worth of places, two     *)
(* trash slots of which one already holds a payload without a sidecar, two *)
(* settings.                                                               *)
EXTENDS UndoActions, TLC

CONSTANTS p, q, s1, s2, u1, u2, u3, font, theme, old, new

MCFirstFiles == [x \in Paths \union Slots |-> IF x = p THEN u1 ELSE IF x = s2 THEN u3 ELSE None]
MCFileTasks ==
    {[kind |-> "move", a |-> p, b |-> q],
     [kind |-> "trash", a |-> p, b |-> None],
     [kind |-> "create", a |-> q, b |-> None]}
MCUiTasks ==
    {[kind |-> "rename", a |-> p, b |-> q],
     [kind |-> "discard", a |-> p, b |-> None]}
MCSetTasks == {[kind |-> "set", a |-> font, b |-> new]}
Symmetry == Permutations(Ops) \union Permutations(Calls)
MCFirstText == [k \in Keys |-> old]

=============================================================================
