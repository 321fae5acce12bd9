-------------------------- MODULE MCPropertyStore --------------------------
(* PropertyStore with an int, a string and a blob; an int has four values. *)
EXTENDS PropertyStore, TLC
CONSTANTS k1, k2, k3
OneOfEach == k1 :> "T_32BIT" @@ k2 :> "T_STR" @@ k3 :> "T_BLOB"
JustOne == {1}
Interchangeable == Permutations(Blocks) \cup Permutations(Texts)
=============================================================================
