----------------------------- MODULE MCBulkContext ----------------------------
(* Small instances of BulkContext, with one thread.  Beside the careful        *)
(* caller and the one roaring.h describes, three callers who leave out one     *)
(* rule of CarefulCaller each.                                                 *)
EXTENDS BulkContext, TLC

\* Keys are ordered, so they are numbers and not symmetric.
Symmetry == Permutations(Bitmaps) \cup Permutations(Vals)
            \cup Permutations(Containers) \cup Permutations(Wrappers)

RemovesSharedSpec == BulkInit /\ [][BulkNext /\ AddsUnshared /\ SourcesForgotten']_bulkVars
AddsSharedSpec == BulkInit /\ [][BulkNext /\ RemovesUnshared' /\ SourcesForgotten']_bulkVars
KeepsContextSpec == BulkInit /\ [][BulkNext /\ RemovesUnshared' /\ AddsUnshared]_bulkVars
===============================================================================
