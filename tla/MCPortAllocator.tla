--------------------------- MODULE MCPortAllocator ---------------------------
(* A small port allocator for TLC: 8100, 9000 and 65535 become 2, 4 and 6, *)
(* and the configured minimum is 3, between the first two.  (The allocator *)
(* with its minimum below 8100 is a part of MCServices.)                   *)
EXTENDS PortAllocator, TLC

NameSymmetry == Permutations(Names)
=============================================================================
