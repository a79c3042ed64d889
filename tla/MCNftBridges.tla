---------------------------- MODULE MCNftBridges ----------------------------
(* Small instances of NftBridges. *)
EXTENDS NftBridges, TLC

\* The class id of a contract is its address behind the "uptick-" prefix.
MCDerivedClass == [c \in Contracts |-> <<"uptick", c>>]

MCCwDerivedClass == [c \in CwContracts |-> <<"uptick", c>>]

MCDerivedClasses == {<<"uptick", c>> : c \in Contracts \cup CwContracts}

\* A class issued here whose id holds a slash, a voucher that came by channel-0,
\* and the classes derived from a contract, whose ids are bare.
MCClassPath ==
    [cl \in Classes |-> IF cl \in NativeClasses THEN <<"sub", "collection">>
                        ELSE IF cl \in VoucherClasses THEN <<"channel-0", "base">>
                        ELSE <<cl>>]

\* Bound on a state that is explored further: of the classes issued here or
\* received and the collections of users' CW721 contracts, one has
\* been given an NFT, a token or a pair.
MCUsed(cl) ==
    \/ \E n \in NftIds : nftOwner[<<cl, n>>] # None
    \/ \E p \in tokenPairs \cup cwTokenPairs : p[2] = cl

MCOneCollection ==
    Cardinality({cl \in NativeClasses \cup VoucherClasses : MCUsed(cl)}
      \cup {c \in CwExternal : \/ \E t \in TokenIds : cwOwner[<<c, t>>] # None
                               \/ MCUsed(CwDerivedClass[c])}) <= 1

MCSymmetry == Permutations(Users) \cup Permutations(NftIds) \cup Permutations(TokenIds)

=============================================================================
