------------------------- MODULE MCRepositorySetup --------------------------
(* A small repository for TLC: how its default branch may look at first.    *)
EXTENDS RepositorySetup, TLC

AllOf(kind, retired) ==
  [p \in Paths \cup {"retired"} |-> IF p = "retired" THEN retired ELSE kind]

\* Nothing yet but a retired configuration people have edited, an older
\* setup, and an older setup with an edited file.
SomeRepositories ==
  {AllOf("absent", "custom"), AllOf("managed", "absent"),
   [AllOf("managed", "absent") EXCEPT !["config"] = "custom"]}

DeliverySymmetry == Permutations(Deliveries)
=============================================================================
