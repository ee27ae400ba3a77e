--------------------------- MODULE MCKernelStacks ---------------------------
(* KernelStacks, for model checking: everything it needs is in its         *)
(* configuration.                                                          *)
EXTENDS KernelStacks
=============================================================================
