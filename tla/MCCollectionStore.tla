-------------------------- MODULE MCCollectionStore -------------------------
(* A small instance of CollectionStore: one class at a time, of each kind. *)
EXTENDS CollectionStore, TLC

MCSymmetry == Permutations(Users) \cup Permutations(NftIds)

=============================================================================
