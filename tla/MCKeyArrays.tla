---------------------------- MODULE MCKeyArrays -----------------------------
(* KeyArrays with four keys of three low halves.  A range may begin or end     *)
(* within a key and cover up to two whole keys between a first and a last one; *)
(* a container holds its middle, its two ends or all of it, so that a range or *)
(* a flip can complete, split or empty it.                                     *)
EXTENDS KeyArrays

MCKeys == 0..3
MCLows == 0..2

\* The array with the containers f gives to keys, without the empty ones.
ArrayOf(f) == SelectSeq([i \in 1..4 |-> [key |-> i - 1, low |-> f[i - 1]]],
                        LAMBDA slot : slot.low # {})

MCInputs == {ArrayOf(f) : f \in [MCKeys -> {{}, {1}, {0, 2}, MCLows}]}
MCOperands == {ArrayOf(f) : f \in [MCKeys -> {{}, {0, 1}}]}
              \cup {ArrayOf(f) : f \in [MCKeys -> {{1}, MCLows}]}

\* Every range that is not empty, two that are, and some whose end is cut off.
MCRanges == {<<a, b>> \in (0..11) \X (1..12) : a < b}
            \cup {<<a, 13>> : a \in {0, 4, 10}} \cup {<<4, 4>>, <<5, 2>>}
MCOffsets == -11..11
MCSteps == 1..2
=============================================================================
