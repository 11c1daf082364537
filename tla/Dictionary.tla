----------------------------- MODULE Dictionary -----------------------------
(* What the trie is to its caller: a map from keys to numbers.                *)
EXTENDS Integers

CONSTANTS Keys, Value, NoValue

VARIABLE dict       \* the value of each key, NoValue for a key that is not there

Init == dict = [key \in Keys |-> NoValue]

\* A key that is not there begins at 0.
Add(key) == dict' = [dict EXCEPT ![key] = (IF @ = NoValue THEN 0 ELSE @) + Value[key]]
Remove(key) == dict' = [dict EXCEPT ![key] = NoValue]
=============================================================================
