------------------------------ MODULE MCKernel ------------------------------
(* Kernel, for model checking: everything it needs is in the configurations.*)
EXTENDS Kernel
=============================================================================
