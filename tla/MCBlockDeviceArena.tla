------------------------- MODULE MCBlockDeviceArena -------------------------
(* BlockDeviceArena on a device of six slots, aligned in pairs.           *)
EXTENDS BlockDeviceArena, TLC

Windows == {{0}, {0, 1, 2}}
Symmetry == Permutations(User) \union Permutations(Carrier)
=============================================================================
