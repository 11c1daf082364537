--------------------------- MODULE MCBitmapIterator ---------------------------
(* Small instances of BitmapIterator: every bitmap of at most MaxSize           *)
(* containers, of every kind a container with those values can have.            *)
EXTENDS BitmapIterator
===============================================================================
