---------------------------- MODULE MCMerkleTree ----------------------------
(***************************************************************************)
(* Instances of MerkleTree for TLC. Every operation treats the commitment  *)
(* hashes alike, so it is enough to insert them in one fixed order.        *)
(***************************************************************************)
EXTENDS MerkleTree

CONSTANTS L1, L2, L3, L4, L5, L6, L7, L8

FixedOrder == <<L1, L2, L3, L4, L5, L6, L7, L8>>

InFixedOrder == IsPrefix(inserted, FixedOrder)
=============================================================================
