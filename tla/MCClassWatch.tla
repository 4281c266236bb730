---------------------------- MODULE MCClassWatch ----------------------------
(* Small instances of ClassWatch for TLC: two classes of one name in two     *)
(* loaders, and one class of another name.                                   *)
EXTENDS ClassWatch

CONSTANTS w1, w2, none

MCNames == {"X", "Y"}
SameName == {<<"X", 1>>, <<"X", 2>>}
MCFaultSets == {{"scan"}, {"transform", "abort"}, {"events"}}
TwoNames == {<<"X", 1>>, <<"Y", 1>>}
=============================================================================
