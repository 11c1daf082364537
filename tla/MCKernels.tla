------------------------------ MODULE MCKernels ------------------------------
EXTENDS ArrayKernels
=============================================================================
