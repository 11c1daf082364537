---------------------------- MODULE MCBitsetWords ----------------------------
EXTENDS BitsetWords
=============================================================================
