--------------------------- MODULE MCArtifactStorage ---------------------------
(* Instances of ArtifactStorage for TLC. *)
EXTENDS ArtifactStorage, TLC

CONSTANT large   \* an artifact of two parts; the others have one

PartCounts == [a \in Artifacts |-> IF a = large THEN 2 ELSE 1]

(* Requests and handlers are interchangeable. *)
Symmetry == Permutations(Uploads) \cup Permutations(Cleaners)
=============================================================================
