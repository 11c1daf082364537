----------------------------- MODULE MCCowBitmaps -----------------------------
(* Small instances of CowBitmaps.  A container per slot and one container     *)
(* more are all a run can have in use at once: a container has one owner, and  *)
(* a step that replaces one needs the second only within the step.  A wrapper  *)
(* is made for two slots and its holders give it up one by one; two wrappers   *)
(* are in use at most with three slots of one key, or with four of two keys.   *)
EXTENDS CowBitmaps, TLC

Symmetry == Permutations(Bitmaps) \cup Permutations(Keys) \cup Permutations(Vals)
            \cup Permutations(Containers) \cup Permutations(Wrappers)
            \cup Permutations(Threads)
===============================================================================
