---------------------------- MODULE MCDeviceLink -----------------------------
(* Names are interchangeable.                                               *)
EXTENDS DeviceLink, TLC

CONSTANTS a, b

MCNames  == {a, b}
Symmetry == Permutations(MCNames)
=============================================================================
