----------------------------- MODULE MCRegistry -----------------------------
(* Instances of Registry: images of every layer, or an index of one image.  *)
EXTENDS Registry, TLC

CONSTANT Index

MCImage == [m \in Manifests |-> Blobs]
MCIndex == [m \in Manifests |-> IF m = Index THEN Manifests \ {Index} ELSE Blobs]

(* Repositories, sessions and clients are interchangeable. *)
MCSymmetry == Permutations(Repos) \cup Permutations(Uploads) \cup Permutations(Clients)
=============================================================================
