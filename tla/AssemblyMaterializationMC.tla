---------------------- MODULE AssemblyMaterializationMC ----------------------
(* Small instances of AssemblyMaterialization: two records, the first with *)
(* versions that differ in the birth date, all with one name.  The runners *)
(* are interchangeable, and no initial state or property tells them apart. *)
EXTENDS AssemblyMaterialization, TLC

CONSTANTS w1, w2, o1, o2, o3, o4, k1, k2, n1, n2, b1, b2

MCVersions == {o1, o2, o3, o4}
MCRecords == <<k1, k2>>
MCKeyOf == o1 :> k1 @@ o2 :> k1 @@ o3 :> k1 @@ o4 :> k2
MCNameOf == [o \in MCVersions |-> n1]
Symmetry == Permutations(Runners)
MCBirthOf == o1 :> None @@ o2 :> b1 @@ o3 :> b2 @@ o4 :> b2
=============================================================================
