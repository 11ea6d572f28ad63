------------------------------ MODULE MCUserInput ------------------------------
(* Instance of UserInput for TLC: each kind of instruction alone, whose halts  *)
(* and resets interleave with its ticks.                                       *)
EXTENDS UserInput

CONSTANTS i1, i2, i3

All == {i1, i2, i3}
KindOf == [i \in All |-> CASE i = i1 -> "Input" [] i = i2 -> "UserConfirmation" [] i = i3 -> "UserChoice"]
Children == [i \in All |-> 2]
Alone == {<<i1>>, <<i2>>, <<i3>>}
Typed == {-1, 0, 2}

==============================================================================
