--------------------------- MODULE MC_MerkleTree ---------------------------
(***************************************************************************)
(* Trees of two to four layers with hashes of one to four inputs, all      *)
(* numbers of leaves they can have.                                        *)
(***************************************************************************)
EXTENDS MerkleTree

CONSTANTS s1, s2, s3

T(arity, store) == [arity |-> arity, store |-> store]

MCTrees == {T(<<1, 3, 3>>, 0), T(<<1, 3, 3>>, 1), T(<<3, 3>>, 0), T(<<2, 2, 2>>, 0),
            T(<<2, 2, 2>>, 2), T(<<1, 2, 4>>, 1), T(<<2, 3, 2>>, 1)}
=============================================================================
