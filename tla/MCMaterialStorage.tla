-------------------------- MODULE MCMaterialStorage --------------------------
EXTENDS MaterialStorage, TLC

CONSTANTS c1, c2

OneSize == [c \in Contents |-> 1]
SmallAndLarge == (c1 :> 1) @@ (c2 :> 2)
StorageSymmetry == Permutations(Materials)
=============================================================================
