----------------------------- MODULE MCPeerMesh -----------------------------
(* Instances of PeerMesh for TLC.                                          *)
EXTENDS PeerMesh, TLC

CONSTANTS p, a, b, c, d

\* Secondary controllers that are of one kind are alike.
Alike ==
  UNION {Permutations(S \ {Primary}) :
           S \in {Workers \cap Failing, Workers \ Failing,
                  Failing \ Workers, Nodes \ (Workers \union Failing)}}
    \union Permutations(Actions)

=============================================================================
