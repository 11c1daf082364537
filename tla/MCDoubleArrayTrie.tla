-------------------------- MODULE MCDoubleArrayTrie --------------------------
(* Instances of DoubleArrayTrie with blocks of four cells.                     *)
EXTENDS DoubleArrayTrie

MCNoValue == -1
MCValue == (<<1, 1, 3>> :> 3) @@ (<<1, 1>> :> 4) @@ (<<1, 3>> :> 0) @@ (<<1, 2>> :> 5)
MCKeys == DOMAIN MCValue
MCErasable == {<<1, 1, 3>>, <<1, 1>>}
===============================================================================
