--------------------------- MODULE MCErc721Bridge ---------------------------
(* Small instances of Erc721Bridge. *)
EXTENDS Erc721Bridge, TLC

CONSTANTS ibc, n1, d1, t1    \* named where an instance starts with a binding

\* The class id of a contract is its address behind the "uptick-" prefix.
MCDerivedClass == [c \in Contracts |-> <<"uptick", c>>]

MCDerivedClasses == {MCDerivedClass[c] : c \in Contracts}

\* One voucher that is wrapped in a legacy pair.
MCLegacyBinding == (<<ibc, n1>> :> <<d1, t1>>)

MCNoLegacy == <<>>

\* Bound on a state that is explored further: one of the users' contracts has
\* been given a token or a pair.
MCOneCollection ==
    Cardinality({c \in External : \/ \E t \in TokenIds : ercOwner[<<c, t>>] # None
                                  \/ \E p \in tokenPairs : p[1] = c}) <= 1

\* Without a legacy binding no id is special.
MCSymmetry ==
    Permutations(Users) \cup Permutations(NftIds) \cup Permutations(TokenIds)
      \cup Permutations(Contracts \ External)

MCUserSymmetry == Permutations(Users)

=============================================================================
