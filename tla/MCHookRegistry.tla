--------------------------- MODULE MCHookRegistry ---------------------------
(* Small instances of HookRegistry for TLC: two methods in one class, one in *)
(* another.                                                                  *)
EXTENDS HookRegistry

CONSTANTS m1, m2, m3, A, B

\* m1 and m2 are declared by A, m3 by B.
MCClassOf == [m \in Methods |-> IF m = m3 THEN B ELSE A]
=============================================================================
