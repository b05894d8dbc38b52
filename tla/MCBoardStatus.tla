---------------------------- MODULE MCBoardStatus ----------------------------
(* Small instances of BoardStatus: providers one after the other, and rivals.*)
EXTENDS BoardStatus, TLC

CONSTANTS o1, o2

OwnerSymmetry == Permutations(Owners)
=============================================================================
