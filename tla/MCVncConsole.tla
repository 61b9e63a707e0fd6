---------------------------- MODULE MCVncConsole ----------------------------
(* VncConsole on a small instance.                                         *)
EXTENDS VncConsole, TLC

Symmetry == Permutations(Conn) \cup Permutations(Vm)
=============================================================================
