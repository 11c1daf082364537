----------------------------- MODULE MCContainers -----------------------------
(* Instance of Containers in which every boundary of the choice of a kind lies  *)
(* inside the domain: sizes around MaxArray, a run container cheaper and dearer *)
(* than an array and than a bitset, and Threshold below MaxArray.               *)
EXTENDS Containers
===============================================================================
