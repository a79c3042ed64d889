------------------------ MODULE MCVoucherSettlement -------------------------
(* Small instances of VoucherSettlement. *)
EXTENDS VoucherSettlement, TLC

MCDerivedClass == [c \in Contracts |-> <<"uptick", c>>]

MCDerivedClasses == {MCDerivedClass[c] : c \in Contracts}

MCSymmetry == Permutations(NftIds) \cup Permutations(TokenIds)

=============================================================================
