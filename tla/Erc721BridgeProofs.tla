------------------------- MODULE Erc721BridgeProofs -------------------------
(***************************************************************************)
(* Proofs that the bridge keeps its bindings one-to-one and its assets     *)
(* backed, that the holder of a converted asset can take it back, that a   *)
(* binding goes only with one of its halves, and that the refund of a failed *)
(* transfer pays its sender, for every set of users, classes, contracts and *)
(* ids.                                                                    *)
(***************************************************************************)
EXTENDS Erc721Bridge, Erc721RegistryProofs

\* The inductive invariant: none of its parts is inductive without the others.
IInv ==
    /\ TypeOK
    /\ BindingBijection
    /\ PairMapsAgree
    /\ PerTokenStateHasPair
    /\ BoundNftExists
    /\ CirculatingNftIsBacked

-----------------------------------------------------------------------------
(* Initial states *)

\* The genesis state, with the voucher pairs the settlement left, is good.
LEMMA InitIInv == Init => IInv
<1>. SUFFICES ASSUME Init PROVE IInv
  BY Zenon
<1>. DEFINE L == LegacyBinding
            D == DOMAIN LegacyBinding
<1>1. /\ D \subseteq NFTUIDs
      /\ L \in [D -> TokenUIDs]
      /\ Injective(L)
      /\ \A y \in D : y[1] \in VoucherClasses /\ L[y][1] \in Contracts \ External
      /\ \A y, z \in D : y[1] = z[1] <=> L[y][1] = L[z][1]
  BY LegacyAssumption, Zenon DEF NFTUIDs, TokenUIDs, Classes
<1>2. LegacyPairs \subseteq Pairs
  BY <1>1 DEF LegacyPairs, Pairs, Classes
<1>3. \A p, q \in LegacyPairs : p[1] = q[1] <=> p[2] = q[2]
  BY <1>1 DEF LegacyPairs
<1>4. \A p, q \in LegacyPairs : p[1] = q[1] \/ p[2] = q[2] => p = q
  BY <1>2, <1>3 DEF Pairs
<1>5. \A k : PairWith(LegacyPairs, 1, k) # None
               => PairWith(LegacyPairs, 1, k) \in LegacyPairs /\ PairWith(LegacyPairs, 1, k)[1] = k
  BY Zenon DEF PairWith
<1>6. \A k : PairWith(LegacyPairs, 2, k) # None
               => PairWith(LegacyPairs, 2, k) \in LegacyPairs /\ PairWith(LegacyPairs, 2, k)[2] = k
  BY Zenon DEF PairWith
<1>7. \A p \in LegacyPairs : PairWith(LegacyPairs, 1, p[1]) = p /\ PairWith(LegacyPairs, 2, p[2]) = p
  BY <1>4, Zenon DEF PairWith
<1>. DEFINE fw0 == [x \in TokenUIDs |-> None]
            rv0 == [y \in NFTUIDs |-> None]
<1>8. InverseIndex(fw0, rv0) /\ NoBindingConflict(fw0, rv0, L)
  BY <1>1, AbsentFacts, Zenon DEF InverseIndex, NoBindingConflict
<1>9. /\ forward \in [TokenUIDs -> NFTUIDs \cup {None}]
      /\ reverse \in [NFTUIDs -> TokenUIDs \cup {None}]
      /\ InverseIndex(forward, reverse)
  <2>. HIDE DEF L, D
  <2>1. L = LegacyBinding /\ D = DOMAIN L
    BY Zenon DEF L, D
  <2>2. fw0 \in [TokenUIDs -> NFTUIDs \cup {None}] /\ rv0 \in [NFTUIDs -> TokenUIDs \cup {None}]
    BY Zenon
  <2>3. forward = BindForward(fw0, L) /\ reverse = BindReverse(rv0, L)
    BY <2>1, Zenon DEF Init
  <2>. HIDE DEF fw0, rv0
  <2>. QED
    BY <1>1, <1>8, <2>1, <2>2, <2>3, BindKeepsInverse, Zenon
<1>10. \A y \in NFTUIDs : reverse[y] # None => y \in D /\ reverse[y] = L[y]
  BY Zenon DEF Init, BindReverse
<1>11. \A x \in TokenUIDs : forward[x] # None => forward[x] \in D /\ L[forward[x]] = x
  BY <1>9, <1>10, AbsentFacts DEF InverseIndex
<1>12. TypeOK
  <2>1. AssetsTypeOK
    BY Zenon DEF Init, AssetsTypeOK, NativeTypeOK, Denoms, Holders
  <2>2. RegistryTypeOK
    BY <1>2, <1>5, <1>6, <1>9, Zenon DEF Init, RegistryTypeOK
  <2>. QED
    BY <2>1, <2>2, Zenon DEF Init, TypeOK
<1>13. PairMapsAgree
  BY <1>2, <1>5, <1>6, <1>7, Zenon DEF Init, PairMapsAgree, Pairs
<1>14. PerTokenStateHasPair
  <2>1. ASSUME NEW x \in TokenUIDs, forward[x] # None
        PROVE  <<x[1], forward[x][1]>> \in tokenPairs
    BY <1>11, <2>1, Zenon DEF Init, LegacyPairs
  <2>. QED
    BY <2>1, Zenon DEF Init, PerTokenStateHasPair
<1>15. BoundNftExists
  BY <1>10, AccountsAssumption, Zenon DEF Init, BoundNftExists, Holders
<1>16. CirculatingNftIsBacked
  <2>1. \A x \in TokenUIDs : forward[x] # None => nftOwner[forward[x]] = Module
    BY <1>1, <1>11, Zenon DEF Init
  <2>. QED
    BY <2>1, AccountsAssumption, Zenon DEF CirculatingNftIsBacked
<1>. QED
  BY <1>9, <1>12, <1>13, <1>14, <1>15, <1>16, Zenon DEF IInv, BindingBijection

-----------------------------------------------------------------------------
(* Steps that leave the registry alone.  What they must respect: an NFT     *)
(* that leaves the ledger is unbound, an NFT that starts to circulate was    *)
(* already out or unbound, and a token leaves the module only for a rogue    *)
(* contract.                                                                 *)

\* A step that leaves the x/erc721 store alone keeps the invariant when it
\* moves bound NFTs and escrowed tokens only as their owners may.
LEMMA AssetStep ==
    ASSUME IInv, AssetsTypeOK', enabled' \in BOOLEAN,
           packets' \in SUBSET Packets, refunding' \in Packets \cup {None},
           UNCHANGED registryVars,
           \A y \in NFTUIDs : nftOwner'[y] # nftOwner[y] =>
               \/ reverse[y] = None
               \/ nftOwner[y] \in Users \cup {Escrow} /\ nftOwner'[y] \in Holders
               \/ nftOwner'[y] = Module,
           \A x \in TokenUIDs : ercOwner'[x] # ercOwner[x] =>
               \/ x[1] \in Rogue
               \/ code'[x[1]] # "live"
               \/ code[x[1]] = "live" /\ ercOwner[x] # Module,
           \A c \in Contracts : code'[c] = "live" => code[c] = "live"
    PROVE  IInv'
<1>1. TypeOK'
  BY Zenon DEF IInv, TypeOK, RegistryTypeOK, registryVars, Pairs, RefundKeys
<1>2. BindingBijection' /\ PairMapsAgree' /\ PerTokenStateHasPair'
  BY DEF IInv, BindingBijection, InverseIndex, PairMapsAgree, PerTokenStateHasPair, registryVars
<1>3. BoundNftExists'
  BY AccountsAssumption, Zenon DEF IInv, BoundNftExists, registryVars, Holders
<1>4. CirculatingNftIsBacked'
  <2>. SUFFICES ASSUME NEW x \in TokenUIDs, forward[x] # None, x[1] \notin Rogue,
                       nftOwner'[forward[x]] \in Users \cup {Escrow},
                       code'[x[1]] = "live"
                PROVE  ercOwner'[x] = Module
    BY Zenon DEF CirculatingNftIsBacked, registryVars
  <2>. DEFINE y == forward[x]
  <2>1. y \in NFTUIDs /\ reverse[y] = x /\ x # None /\ x[1] \in Contracts
    BY AbsentFacts DEF IInv, TypeOK, RegistryTypeOK, BindingBijection, InverseIndex, TokenUIDs
  <2>2. nftOwner[y] \in Users \cup {Escrow}
    BY <2>1, AccountsAssumption, Zenon DEF Holders
  <2>3. ercOwner[x] = Module /\ code[x[1]] = "live"
    BY <2>1, <2>2, Zenon DEF IInv, CirculatingNftIsBacked
  <2>. QED
    BY <2>1, <2>3, Zenon
<1>. QED
  BY <1>1, <1>2, <1>3, <1>4, Zenon DEF IInv

\* x/collection messages.
LEMMA CollectionSteps ==
    ASSUME IInv, UNCHANGED <<evmVars, bridgeVars>>,
           \/ \E u \in Users, cl \in Classes, restricted \in BOOLEAN : IssueDenom(u, cl, restricted)
           \/ \E u \in Users, cl \in Classes, v \in Users : TransferDenom(u, cl, v)
           \/ \E u \in Users, y \in NFTUIDs, v \in Users : MintNFT(u, y, v)
           \/ \E u \in Users, y \in NFTUIDs, v \in Receivers : TransferNFT(u, y, v)
           \/ \E u \in Users, y \in NFTUIDs : BurnNFT(u, y, IsConvertedNFT(y))
    PROVE  IInv'
<1>. USE DEF bridgeVars, ibcVars, evmVars
<1>1. AssetsTypeOK /\ enabled \in BOOLEAN /\ packets \in SUBSET Packets
      /\ refunding \in Packets \cup {None} /\ BoundNftExists
  BY Zenon DEF IInv, TypeOK
<1>2. CASE \E u \in Users, cl \in Classes, restricted \in BOOLEAN : IssueDenom(u, cl, restricted)
  <2>1. AssetsTypeOK'
    BY <1>1, <1>2 DEF IssueDenom, AssetsTypeOK, NativeTypeOK, Denoms, Holders
  <2>. QED
    BY <1>1, <1>2, <2>1, AssetStep, Zenon DEF IssueDenom
<1>3. CASE \E u \in Users, cl \in Classes, v \in Users : TransferDenom(u, cl, v)
  <2>1. AssetsTypeOK'
    BY <1>1, <1>3 DEF TransferDenom, AssetsTypeOK, NativeTypeOK, Denoms, Holders
  <2>. QED
    BY <1>1, <1>3, <2>1, AssetStep, Zenon DEF TransferDenom
<1>4. CASE \E u \in Users, y \in NFTUIDs, v \in Users : MintNFT(u, y, v)
  <2>1. PICK u \in Users, y \in NFTUIDs, v \in Users : MintNFT(u, y, v)
    BY <1>4, Zenon
  <2>2. AssetsTypeOK'
    BY <1>1, <2>1, Zenon DEF MintNFT, AssetsTypeOK, NativeTypeOK, Holders
  <2>3. reverse[y] = None
    BY <1>1, <2>1, Zenon DEF MintNFT, BoundNftExists
  <2>4. \A z \in NFTUIDs : nftOwner'[z] # nftOwner[z] => reverse[z] = None
    BY <1>1, <2>1, <2>3, Zenon DEF MintNFT, AssetsTypeOK, NativeTypeOK
  <2>. QED
    BY <1>1, <2>1, <2>2, <2>4, AssetStep, Zenon DEF MintNFT
<1>5. CASE \E u \in Users, y \in NFTUIDs, v \in Receivers : TransferNFT(u, y, v)
  <2>1. PICK u \in Users, y \in NFTUIDs, v \in Receivers : TransferNFT(u, y, v)
    BY <1>5, Zenon
  <2>2. AssetsTypeOK'
    BY <1>1, <2>1, Zenon DEF TransferNFT, AssetsTypeOK, NativeTypeOK, Holders, Receivers
  <2>3. \A z \in NFTUIDs : nftOwner'[z] # nftOwner[z] =>
            nftOwner[z] \in Users \cup {Escrow} /\ nftOwner'[z] \in Holders
    BY <1>1, <2>1, Zenon DEF TransferNFT, AssetsTypeOK, NativeTypeOK, Receivers, Holders
  <2>. QED
    BY <1>1, <2>1, <2>2, <2>3, AssetStep, Zenon DEF TransferNFT
<1>6. CASE \E u \in Users, y \in NFTUIDs : BurnNFT(u, y, IsConvertedNFT(y))
  <2>1. PICK u \in Users, y \in NFTUIDs : BurnNFT(u, y, IsConvertedNFT(y))
    BY <1>6, Zenon
  <2>2. AssetsTypeOK'
    BY <1>1, <2>1, Zenon DEF BurnNFT, AssetsTypeOK, NativeTypeOK
  <2>3. \A z \in NFTUIDs : nftOwner'[z] # nftOwner[z] => reverse[z] = None
    BY <1>1, <2>1, Zenon DEF BurnNFT, IsConvertedNFT, AssetsTypeOK, NativeTypeOK
  <2>. QED
    BY <1>1, <2>1, <2>2, <2>3, AssetStep, Zenon DEF BurnNFT
<1>. QED
  BY <1>2, <1>3, <1>4, <1>5, <1>6, Zenon

\* ERC721 contracts.
LEMMA ContractSteps ==
    ASSUME IInv, UNCHANGED <<nativeVars, bridgeVars>>,
           \/ \E u \in Users, x \in TokenUIDs, v \in Receivers : ErcTransfer(u, x, v)
           \/ \E u \in Users, x \in TokenUIDs : ErcBurn(u, x)
           \/ \E x \in TokenUIDs, v \in Users : ErcMint(x, v)
           \/ \E x \in TokenUIDs, v \in Receivers \cup {None} : ErcReassign(x, v)
           \/ \E c \in Contracts : SelfDestruct(c)
    PROVE  IInv'
<1>. USE DEF bridgeVars, ibcVars, nativeVars
<1>1. AssetsTypeOK /\ enabled \in BOOLEAN /\ packets \in SUBSET Packets
      /\ refunding \in Packets \cup {None}
  BY Zenon DEF IInv, TypeOK
<1>2. ASSUME NEW x \in TokenUIDs, NEW v \in Users \cup {Module, None},
             code[x[1]] = "live", ercOwner[x] # Module \/ x[1] \in Rogue,
             ercOwner' = [ercOwner EXCEPT ![x] = v], UNCHANGED <<denom, nftOwner, code>>
      PROVE  IInv'
  <2>1. AssetsTypeOK'
    BY <1>1, <1>2, Zenon DEF AssetsTypeOK, NativeTypeOK
  <2>2. \A z \in TokenUIDs : ercOwner'[z] # ercOwner[z] =>
            z[1] \in Rogue \/ (code[z[1]] = "live" /\ ercOwner[z] # Module)
    BY <1>1, <1>2, Zenon DEF AssetsTypeOK, NativeTypeOK
  <2>. QED
    BY <1>1, <1>2, <2>1, <2>2, AssetStep, Zenon
<1>3. CASE \E u \in Users, x \in TokenUIDs, v \in Receivers : ErcTransfer(u, x, v)
  BY <1>2, <1>3, AccountsAssumption, Zenon DEF ErcTransfer, Receivers
<1>4. CASE \E u \in Users, x \in TokenUIDs : ErcBurn(u, x)
  BY <1>2, <1>4, AccountsAssumption, Zenon DEF ErcBurn
<1>5. CASE \E x \in TokenUIDs, v \in Users : ErcMint(x, v)
  BY <1>2, <1>5, AccountsAssumption, Zenon DEF ErcMint, Holders
<1>6. CASE \E x \in TokenUIDs, v \in Receivers \cup {None} : ErcReassign(x, v)
  BY <1>2, <1>6, Zenon DEF ErcReassign, Receivers
<1>7. CASE \E c \in Contracts : SelfDestruct(c)
  <2>1. PICK c \in Contracts : SelfDestruct(c)
    BY <1>7, Zenon
  <2>2. AssetsTypeOK'
    BY <1>1, <2>1, Zenon DEF SelfDestruct, AssetsTypeOK, NativeTypeOK
  <2>3. \A x \in TokenUIDs : ercOwner'[x] # ercOwner[x] => code'[x[1]] # "live"
    BY <1>1, <2>1, Zenon DEF SelfDestruct, AssetsTypeOK, NativeTypeOK
  <2>4. \A d \in Contracts : code'[d] = "live" => code[d] = "live"
    BY <1>1, <2>1, Zenon DEF SelfDestruct, AssetsTypeOK, NativeTypeOK
  <2>. QED
    BY <1>1, <2>1, <2>2, <2>3, <2>4, AssetStep, Zenon DEF SelfDestruct
<1>. QED
  BY <1>3, <1>4, <1>5, <1>6, <1>7, Zenon

\* ICS-721 steps outside the refund loop.
LEMMA IbcSteps ==
    ASSUME IInv, Idle,
           \/ \E u \in Users, y \in NFTUIDs, burned \in BOOLEAN : SendNFT(u, y, burned)
           \/ \E pkt \in packets : AcknowledgeSuccess(pkt)
           \/ \E pkt \in packets : FailPacket(pkt)
           \/ \E y \in NFTUIDs, v \in Users : ReceiveNFT(y, v)
    PROVE  IInv'
<1>1. AssetsTypeOK /\ enabled \in BOOLEAN /\ packets \in SUBSET Packets
      /\ refunding \in Packets \cup {None} /\ BoundNftExists
  BY Zenon DEF IInv, TypeOK
<1>2. CASE \E u \in Users, y \in NFTUIDs, burned \in BOOLEAN : SendNFT(u, y, burned)
  <2>1. PICK u \in Users, y \in NFTUIDs, burned \in BOOLEAN : SendNFT(u, y, burned)
    BY <1>2, Zenon
  <2>2. AssetsTypeOK'
    BY <1>1, <2>1, Zenon DEF SendNFT, AssetsTypeOK, NativeTypeOK, Holders
  <2>3. packets' \in SUBSET Packets
    <3>1. [nfts |-> {y}, convert |-> FALSE, origin |-> u, burned |-> burned] \in Packets
      BY Zenon DEF Packets
    <3>. QED
      BY <1>1, <2>1, <3>1, Zenon DEF SendNFT
  <2>4. \A z \in NFTUIDs : nftOwner'[z] # nftOwner[z] =>
            \/ reverse[z] = None
            \/ nftOwner[z] \in Users \cup {Escrow} /\ nftOwner'[z] \in Holders
    BY <1>1, <2>1, Zenon DEF SendNFT, AssetsTypeOK, NativeTypeOK, IsConvertedNFT, Holders
  <2>. QED
    BY <1>1, <2>1, <2>2, <2>3, <2>4, AssetStep, Zenon DEF SendNFT
<1>3. CASE \E pkt \in packets : AcknowledgeSuccess(pkt)
  <2>1. packets' \in SUBSET Packets
    BY <1>1, <1>3, Zenon DEF AcknowledgeSuccess
  <2>2. UNCHANGED <<denom, nftOwner, code, ercOwner, enabled, refunding, registryVars>>
    BY <1>3, Zenon DEF AcknowledgeSuccess, convertVars, registryVars
  <2>3. AssetsTypeOK'
    BY <1>1, <2>2, Zenon DEF AssetsTypeOK, NativeTypeOK
  <2>. QED
    BY <1>1, <2>1, <2>2, <2>3, AssetStep, Zenon
<1>4. CASE \E pkt \in packets : FailPacket(pkt)
  <2>1. PICK pkt \in packets : FailPacket(pkt)
    BY <1>4, Zenon
  <2>2. pkt \in Packets
    BY <1>1, Zenon
  <2>3. AssetsTypeOK'
    BY <1>1, <2>1, <2>2, Zenon DEF FailPacket, AssetsTypeOK, NativeTypeOK, Packets, Holders
  <2>4. packets' \in SUBSET Packets /\ refunding' \in Packets \cup {None}
    BY <1>1, <2>1, <2>2, Zenon DEF FailPacket
  <2>5. \A z \in NFTUIDs : nftOwner'[z] # nftOwner[z] =>
            \/ reverse[z] = None
            \/ nftOwner[z] \in Users \cup {Escrow} /\ nftOwner'[z] \in Holders
    BY <1>1, <2>1, <2>2, Zenon DEF FailPacket, BoundNftExists, Packets, Holders
  <2>. QED
    BY <1>1, <2>1, <2>3, <2>4, <2>5, AssetStep, Zenon DEF FailPacket
<1>5. CASE \E y \in NFTUIDs, v \in Users : ReceiveNFT(y, v)
  <2>1. PICK y \in NFTUIDs, v \in Users : ReceiveNFT(y, v)
    BY <1>5, Zenon
  <2>2. AssetsTypeOK'
    BY <1>1, <2>1, Zenon DEF ReceiveNFT, AssetsTypeOK, NativeTypeOK, Holders
  <2>3. \A z \in NFTUIDs : nftOwner'[z] # nftOwner[z] =>
            \/ reverse[z] = None
            \/ nftOwner[z] \in Users \cup {Escrow} /\ nftOwner'[z] \in Holders
    BY <1>1, <2>1, Zenon DEF ReceiveNFT, AssetsTypeOK, NativeTypeOK, BoundNftExists, Holders
  <2>. QED
    BY <1>1, <2>1, <2>2, <2>3, AssetStep, Zenon DEF ReceiveNFT, bridgeVars, ibcVars
<1>. QED
  BY <1>2, <1>3, <1>4, <1>5, Zenon

-----------------------------------------------------------------------------
(* The refund loop *)

\* One turn of RefundPacketToken, skipped or carried out.
LEMMA RefundStep ==
    ASSUME IInv, NEW y \in NFTUIDs, NEW evmFails \in BOOLEAN,
           RefundPacketToken(y, evmFails)
    PROVE  IInv'
<1>1. AssetsTypeOK /\ RegistryTypeOK /\ enabled \in BOOLEAN /\ packets \in SUBSET Packets
      /\ refunding \in Packets \cup {None}
  BY Zenon DEF IInv, TypeOK
<1>2. packets' \in SUBSET Packets /\ refunding' \in Packets \cup {None}
  BY <1>1, Zenon DEF RefundPacketToken, Packets
<1>3. CASE RefundSkipped(y, evmFails)
  <2>1. UNCHANGED <<denom, nftOwner, code, ercOwner, enabled, registryVars>>
    BY <1>3, Zenon DEF RefundPacketToken, RefundToken, convertVars, registryVars
  <2>2. AssetsTypeOK'
    BY <1>1, <2>1, Zenon DEF AssetsTypeOK, NativeTypeOK
  <2>. QED
    BY <1>1, <1>2, <2>1, <2>2, AssetStep, Zenon
<1>4. CASE ~RefundSkipped(y, evmFails)
  <2>. DEFINE x == reverse[y]
              r == GetEvmRefundReceiver(x, y)
  <2>1. x \in TokenUIDs /\ forward[x] = y
    BY <1>1, <1>4, Zenon DEF RefundSkipped, RegistryTypeOK, IInv, BindingBijection, InverseIndex
  <2>2. <<x[1], y[2]>> \in RefundKeys /\ x \in RefundKeys
    BY <2>1, Zenon DEF RefundKeys, TokenUIDs, NFTUIDs
  <2>3. ercOwner[x] = Module => r \in Users
    BY <1>1, <1>4, <2>2, Zenon DEF RefundSkipped, GetEvmRefundReceiver, RegistryTypeOK
  <2>4. /\ ercOwner' = [ercOwner EXCEPT ![x] = IF ercOwner[x] = Module THEN r ELSE ercOwner[x]]
        /\ refund' = [refund EXCEPT ![<<x[1], y[2]>>] = None, ![x] = None]
        /\ reverse' = [reverse EXCEPT ![y] = None]
        /\ forward' = [forward EXCEPT ![x] = None]
        /\ nftOwner' = [nftOwner EXCEPT ![y] = IF nftOwner[y] = Module THEN None ELSE nftOwner[y]]
        /\ UNCHANGED <<denom, code, tokenPairs, erc721Map, classMap, enabled>>
    BY <1>1, <1>4, <2>1, Zenon DEF RefundPacketToken, RefundToken, RefundUnbind, RefundBurn,
       AssetsTypeOK, NativeTypeOK
  <2>. HIDE DEF x, r
  <2>5. AssetsTypeOK'
    BY <1>1, <2>1, <2>3, <2>4, Zenon DEF AssetsTypeOK, NativeTypeOK
  <2>6. RegistryTypeOK'
    BY <1>1, <2>1, <2>2, <2>4, Zenon DEF RegistryTypeOK
  <2>7. BindingBijection'
    <3>. SUFFICES ASSUME NEW t \in TokenUIDs, NEW z \in NFTUIDs PROVE forward'[t] = z <=> reverse'[z] = t
      BY Zenon DEF BindingBijection, InverseIndex
    <3>1. t # None /\ z # None
      BY AbsentFacts, Zenon
    <3>2. forward[t] = z <=> reverse[z] = t
      BY Zenon DEF IInv, BindingBijection, InverseIndex
    <3>3. forward[x] = z <=> reverse[z] = x
      BY <2>1, Zenon DEF IInv, BindingBijection, InverseIndex
    <3>4. forward'[t] = IF t = x THEN None ELSE forward[t]
      BY <1>1, <2>4, Zenon DEF RegistryTypeOK
    <3>5. reverse'[z] = IF z = y THEN None ELSE reverse[z]
      BY <1>1, <2>4, Zenon DEF RegistryTypeOK
    <3>. QED
      BY <2>1, <3>1, <3>2, <3>3, <3>4, <3>5, Zenon
  <2>8. PairMapsAgree'
    BY <2>4, Zenon DEF IInv, PairMapsAgree
  <2>9. PerTokenStateHasPair'
    BY <1>1, <2>1, <2>2, <2>4, Zenon DEF IInv, PerTokenStateHasPair, RegistryTypeOK
  <2>10. BoundNftExists'
    BY <1>1, <2>4, Zenon DEF IInv, BoundNftExists, AssetsTypeOK, NativeTypeOK, RegistryTypeOK
  <2>11. CirculatingNftIsBacked'
    <3>. SUFFICES ASSUME NEW z \in TokenUIDs, forward'[z] # None, z[1] \notin Rogue,
                         nftOwner'[forward'[z]] \in Users \cup {Escrow}, code'[z[1]] = "live"
                  PROVE  ercOwner'[z] = Module
      BY Zenon DEF CirculatingNftIsBacked
    <3>1. z # x /\ forward'[z] = forward[z] /\ forward[z] \in NFTUIDs
      BY <1>1, <2>1, <2>4, Zenon DEF RegistryTypeOK
    <3>2. forward[z] # y
      BY <2>1, <3>1 DEF IInv, BindingBijection, InverseIndex
    <3>3. nftOwner'[forward[z]] = nftOwner[forward[z]] /\ ercOwner'[z] = ercOwner[z]
      BY <1>1, <2>1, <2>4, <3>1, <3>2, Zenon DEF AssetsTypeOK, NativeTypeOK
    <3>. QED
      BY <2>4, <3>1, <3>3, Zenon DEF IInv, CirculatingNftIsBacked
  <2>. QED
    BY <1>1, <1>2, <2>4, <2>5, <2>6, <2>7, <2>8, <2>9, <2>10, <2>11, Zenon DEF IInv, TypeOK
<1>. QED
  BY <1>3, <1>4, Zenon

-----------------------------------------------------------------------------
(* Native NFT to ERC721 *)

\* What convertCosmos2Evm establishes from an index fw, rv that is a part of
\* the current one.
LEMMA Cosmos2EvmStep ==
    ASSUME IInv,
           NEW u \in Users, NEW c \in Contracts, NEW cl \in Classes, NEW r \in Receivers,
           NEW b, DOMAIN b \subseteq NFTUIDs, b \in [DOMAIN b -> TokenUIDs], Injective(b),
           \A y \in DOMAIN b : y[1] = cl /\ b[y][1] = c,
           NEW fw \in [TokenUIDs -> NFTUIDs \cup {None}],
           NEW rv \in [NFTUIDs -> TokenUIDs \cup {None}],
           InverseIndex(fw, rv),
           \A x \in TokenUIDs : fw[x] \in {None, forward[x]},
           \A y \in NFTUIDs : rv[y] \in {None, reverse[y]},
           ConvertCosmos2Evm(u, b, r, fw, rv),
           \A x \in TokenUIDs : fw[x] # None /\ code'[x[1]] = "live" => code[x[1]] = "live"
    PROVE  /\ nftOwner' \in [NFTUIDs -> Holders \cup {None}]
           /\ ercOwner' \in [TokenUIDs -> Users \cup {Module, None}]
           /\ forward' \in [TokenUIDs -> NFTUIDs \cup {None}]
           /\ reverse' \in [NFTUIDs -> TokenUIDs \cup {None}]
           /\ BindingBijection' /\ BoundNftExists' /\ CirculatingNftIsBacked'
           /\ \A x \in TokenUIDs : forward'[x] # None =>
                 \/ x[1] = c /\ forward'[x][1] = cl
                 \/ fw[x] # None /\ forward'[x] = fw[x]
<1>1. AssetsTypeOK /\ RegistryTypeOK /\ BoundNftExists /\ CirculatingNftIsBacked
  BY Zenon DEF IInv, TypeOK
<1>2. NoBindingConflict(fw, rv, b) /\ forward' = BindForward(fw, b) /\ reverse' = BindReverse(rv, b)
  BY Zenon DEF ConvertCosmos2Evm
<1>3. /\ nftOwner' = [y \in NFTUIDs |-> IF y \in DOMAIN b THEN Module ELSE nftOwner[y]]
      /\ ercOwner' = [x \in TokenUIDs |-> IF x \in TokensOf(b) THEN r ELSE ercOwner[x]]
  BY Zenon DEF ConvertCosmos2Evm
<1>4. /\ forward' \in [TokenUIDs -> NFTUIDs \cup {None}]
      /\ reverse' \in [NFTUIDs -> TokenUIDs \cup {None}]
      /\ BindingBijection'
  BY <1>2, BindKeepsInverse DEF BindingBijection, InverseIndex
<1>5. /\ nftOwner' \in [NFTUIDs -> Holders \cup {None}]
      /\ ercOwner' \in [TokenUIDs -> Users \cup {Module, None}]
  BY <1>1, <1>3, Zenon DEF AssetsTypeOK, NativeTypeOK, Holders, Receivers
<1>6. \A x \in TokenUIDs :
         /\ x \in TokensOf(b) => forward'[x] \in DOMAIN b /\ b[forward'[x]] = x
         /\ x \notin TokensOf(b) => forward'[x] = fw[x]
  BY <1>2, NftForFacts, Zenon DEF BindForward
<1>7. BoundNftExists'
  BY <1>1, <1>2, <1>3, AccountsAssumption, Zenon DEF BindReverse, BoundNftExists, Holders
<1>8. CirculatingNftIsBacked'
  <2>. SUFFICES ASSUME NEW x \in TokenUIDs, forward'[x] # None, x[1] \notin Rogue,
                       nftOwner'[forward'[x]] \in Users \cup {Escrow}, code'[x[1]] = "live"
                PROVE  ercOwner'[x] = Module
    BY Zenon DEF CirculatingNftIsBacked
  <2>1. forward'[x] \in NFTUIDs \ DOMAIN b
    BY <1>3, <1>4, AccountsAssumption, Zenon
  <2>2. x \notin TokensOf(b) /\ forward'[x] = fw[x] /\ fw[x] = forward[x]
    BY <1>6, <2>1, Zenon
  <2>3. ercOwner[x] = Module
    BY <1>1, <1>3, <2>1, <2>2, Zenon DEF CirculatingNftIsBacked
  <2>. QED
    BY <1>3, <2>2, <2>3, Zenon
<1>9. ASSUME NEW x \in TokenUIDs, forward'[x] # None
      PROVE  \/ x[1] = c /\ forward'[x][1] = cl
             \/ fw[x] # None /\ forward'[x] = fw[x]
  BY <1>6, <1>9
<1>. QED
  BY <1>4, <1>5, <1>7, <1>8, <1>9, Zenon

\* A class with a live contract.
LEMMA ConvertNFTStep ==
    ASSUME IInv, NEW u \in Users, NEW p \in Pairs, NEW named, NEW r \in Receivers,
           ConvertNFT(u, p, named, r), UNCHANGED ibcVars
    PROVE  IInv'
<1>1. PICK b \in Batches(p[2], p[1]) : ConvertCosmos2Evm(u, b, r, forward, reverse)
  BY Zenon DEF ConvertNFT
<1>2. UNCHANGED <<denom, code, tokenPairs, erc721Map, classMap, refund, enabled, packets, refunding>>
  BY Zenon DEF ConvertNFT, ibcVars
<1>3. p \in tokenPairs /\ p = <<p[1], p[2]>> /\ p[1] \in Contracts /\ p[2] \in Classes
  BY AbsentFacts, PairFacts, Zenon DEF ConvertNFT, GetPairByClass
<1>4. RegistryTypeOK /\ AssetsTypeOK /\ InverseIndex(forward, reverse) /\ enabled \in BOOLEAN
      /\ packets \in SUBSET Packets /\ refunding \in Packets \cup {None}
  BY Zenon DEF IInv, TypeOK, BindingBijection
<1>5. /\ forward \in [TokenUIDs -> NFTUIDs \cup {None}]
      /\ reverse \in [NFTUIDs -> TokenUIDs \cup {None}]
  BY <1>4, Zenon DEF RegistryTypeOK
<1>6. /\ nftOwner' \in [NFTUIDs -> Holders \cup {None}]
      /\ ercOwner' \in [TokenUIDs -> Users \cup {Module, None}]
      /\ forward' \in [TokenUIDs -> NFTUIDs \cup {None}]
      /\ reverse' \in [NFTUIDs -> TokenUIDs \cup {None}]
      /\ BindingBijection' /\ BoundNftExists' /\ CirculatingNftIsBacked'
      /\ \A x \in TokenUIDs : forward'[x] # None =>
            \/ x[1] = p[1] /\ forward'[x][1] = p[2]
            \/ forward[x] # None /\ forward'[x] = forward[x]
  <2>1. /\ DOMAIN b \subseteq NFTUIDs /\ b \in [DOMAIN b -> TokenUIDs] /\ Injective(b)
        /\ \A y \in DOMAIN b : y[1] = p[2] /\ b[y][1] = p[1]
    BY BatchFacts, Zenon
  <2>2. InverseIndex(forward, reverse)
    BY <1>4, Zenon
  <2>3. \A x \in TokenUIDs : forward[x] # None /\ code'[x[1]] = "live" => code[x[1]] = "live"
    BY <1>2, Zenon
  <2>. QED
    BY <1>1, <1>3, <1>5, <2>1, <2>2, <2>3, Cosmos2EvmStep
<1>7. TypeOK'
  BY <1>2, <1>4, <1>6, Zenon DEF TypeOK, AssetsTypeOK, NativeTypeOK, RegistryTypeOK
<1>8. PairMapsAgree'
  BY <1>2, Zenon DEF IInv, PairMapsAgree
<1>9. PerTokenStateHasPair'
  BY <1>2, <1>3, <1>6, Zenon DEF IInv, PerTokenStateHasPair
<1>. QED
  BY <1>6, <1>7, <1>8, <1>9, Zenon DEF IInv

\* A class without a pair: deploy and register on the way.
LEMMA ConvertNFTDeployStep ==
    ASSUME IInv, NEW u \in Users, NEW p \in Pairs, NEW r \in Receivers,
           ConvertNFTDeploy(u, p, r), UNCHANGED ibcVars
    PROVE  IInv'
<1>1. PICK b \in Batches(p[2], p[1]) : ConvertCosmos2Evm(u, b, r, forward, reverse)
  BY Zenon DEF ConvertNFTDeploy
<1>2. UNCHANGED <<denom, refund, enabled, packets, refunding>>
  BY Zenon DEF ConvertNFTDeploy, ibcVars
<1>3. p = <<p[1], p[2]>> /\ p[1] \in Contracts /\ p[2] \in Classes
  BY DEF Pairs
<1>4. /\ classMap[p[2]] = None /\ erc721Map[p[1]] = None
      /\ tokenPairs' = tokenPairs \cup {p}
      /\ erc721Map' = [erc721Map EXCEPT ![p[1]] = p]
      /\ classMap' = [classMap EXCEPT ![p[2]] = p]
      /\ code' = [code EXCEPT ![p[1]] = "live"]
  BY <1>3, Zenon DEF ConvertNFTDeploy, RegisterNFT, SetPair, DeployERC721Contract
<1>5. RegistryTypeOK /\ AssetsTypeOK /\ InverseIndex(forward, reverse) /\ PairMapsAgree
      /\ PerTokenStateHasPair /\ enabled \in BOOLEAN
      /\ packets \in SUBSET Packets /\ refunding \in Packets \cup {None}
  BY Zenon DEF IInv, TypeOK, BindingBijection
<1>6. /\ forward \in [TokenUIDs -> NFTUIDs \cup {None}]
      /\ reverse \in [NFTUIDs -> TokenUIDs \cup {None}]
  BY <1>5, Zenon DEF RegistryTypeOK
<1>7. \A x \in TokenUIDs : forward[x] # None => x[1] # p[1] /\ x[1] \in Contracts
  <2>. SUFFICES ASSUME NEW x \in TokenUIDs, forward[x] # None PROVE x[1] # p[1] /\ x[1] \in Contracts
    BY Zenon
  <2>1. <<x[1], forward[x][1]>> \in tokenPairs /\ x[1] \in Contracts
    BY <1>5, Zenon DEF PerTokenStateHasPair, TokenUIDs
  <2>2. erc721Map[x[1]] = <<x[1], forward[x][1]>> /\ erc721Map[x[1]] # None
    BY <1>5, <2>1, AbsentFacts DEF PairMapsAgree, RegistryTypeOK, Pairs
  <2>. QED
    BY <1>4, <2>1, <2>2, Zenon
<1>8. \A x \in TokenUIDs : forward[x] # None /\ code'[x[1]] = "live" => code[x[1]] = "live"
  BY <1>4, <1>5, <1>7, Zenon DEF AssetsTypeOK, NativeTypeOK
<1>9. /\ nftOwner' \in [NFTUIDs -> Holders \cup {None}]
      /\ ercOwner' \in [TokenUIDs -> Users \cup {Module, None}]
      /\ forward' \in [TokenUIDs -> NFTUIDs \cup {None}]
      /\ reverse' \in [NFTUIDs -> TokenUIDs \cup {None}]
      /\ BindingBijection' /\ BoundNftExists' /\ CirculatingNftIsBacked'
      /\ \A x \in TokenUIDs : forward'[x] # None =>
            \/ x[1] = p[1] /\ forward'[x][1] = p[2]
            \/ forward[x] # None /\ forward'[x] = forward[x]
  <2>1. /\ DOMAIN b \subseteq NFTUIDs /\ b \in [DOMAIN b -> TokenUIDs] /\ Injective(b)
        /\ \A y \in DOMAIN b : y[1] = p[2] /\ b[y][1] = p[1]
    BY BatchFacts, Zenon
  <2>2. InverseIndex(forward, reverse)
    BY <1>5, Zenon
  <2>. QED
    BY <1>1, <1>3, <1>6, <1>8, <2>1, <2>2, Cosmos2EvmStep
<1>10. TypeOK'
  BY <1>2, <1>4, <1>5, <1>9, Zenon DEF TypeOK, AssetsTypeOK, NativeTypeOK, RegistryTypeOK
<1>11. PairMapsAgree'
  BY <1>3, <1>4, <1>5, AbsentFacts DEF PairMapsAgree, RegistryTypeOK, Pairs
<1>12. PerTokenStateHasPair'
  <2>1. \A k \in RefundKeys : refund'[k] # None => erc721Map'[k[1]] # None
    BY <1>2, <1>3, <1>4, <1>5, AbsentFacts, Zenon
       DEF PerTokenStateHasPair, RegistryTypeOK, RefundKeys, Pairs
  <2>. QED
    BY <1>3, <1>4, <1>5, <1>9, <2>1, Zenon DEF PerTokenStateHasPair
<1>. QED
  BY <1>9, <1>10, <1>11, <1>12, Zenon DEF IInv

\* DeletePairPerTokenState removes exactly the bindings of the pair.
LEMMA PurgeFacts ==
    ASSUME IInv, NEW p \in tokenPairs
    PROVE  LET fw == PurgeForward(forward, reverse, p)
               rv == PurgeReverse(forward, reverse, p)
           IN  /\ fw \in [TokenUIDs -> NFTUIDs \cup {None}]
               /\ rv \in [NFTUIDs -> TokenUIDs \cup {None}]
               /\ \A x \in TokenUIDs : fw[x] = IF x[1] = p[1] THEN None ELSE forward[x]
               /\ \A y \in NFTUIDs : rv[y] = IF y[1] = p[2] THEN None ELSE reverse[y]
               /\ InverseIndex(fw, rv)
<1>1. RegistryTypeOK /\ InverseIndex(forward, reverse) /\ PairMapsAgree /\ PerTokenStateHasPair
  BY Zenon DEF IInv, TypeOK, BindingBijection
<1>2. p \in Pairs /\ p = <<p[1], p[2]>> /\ erc721Map[p[1]] = p /\ classMap[p[2]] = p
  BY <1>1 DEF RegistryTypeOK, PairMapsAgree, Pairs
<1>3. ASSUME NEW x \in TokenUIDs, NEW y \in NFTUIDs, forward[x] = y
      PROVE  x[1] = p[1] <=> y[1] = p[2]
  <2>1. forward[x] # None
    BY <1>3, AbsentFacts, Zenon
  <2>2. <<x[1], y[1]>> \in tokenPairs
    BY <1>1, <1>3, <2>1, Zenon DEF PerTokenStateHasPair
  <2>3. erc721Map[x[1]] = <<x[1], y[1]>> /\ classMap[y[1]] = <<x[1], y[1]>>
    BY <1>1, <2>2, Zenon DEF PairMapsAgree
  <2>. QED
    BY <1>2, <2>3
<1>. DEFINE rest == PurgeReverseByContract(forward, reverse, p[1])
<1>4. \A y \in NFTUIDs : rest[y] = IF y[1] = p[2] THEN None ELSE reverse[y]
  <2>. SUFFICES ASSUME NEW y \in NFTUIDs
                PROVE  rest[y] = IF y[1] = p[2] THEN None ELSE reverse[y]
    BY Zenon
  <2>1. CASE reverse[y] = None
    BY <2>1, Zenon DEF PurgeReverseByContract
  <2>2. CASE reverse[y] # None
    <3>1. reverse[y] \in TokenUIDs /\ forward[reverse[y]] = y
      BY <1>1, <2>2, Zenon DEF RegistryTypeOK, InverseIndex
    <3>2. (\E x \in TokenUIDs : x[1] = p[1] /\ forward[x] = y) <=> y[1] = p[2]
      BY <1>3, <3>1, Zenon
    <3>. QED
      BY <3>2, Zenon DEF PurgeReverseByContract
  <2>. QED
    BY <2>1, <2>2, Zenon
<1>. DEFINE fw == PurgeForward(forward, reverse, p)
            rv == PurgeReverse(forward, reverse, p)
<1>5. \A y \in NFTUIDs : rv[y] = IF y[1] = p[2] THEN None ELSE reverse[y]
  BY <1>4, Zenon DEF PurgeReverse
<1>6. \A x \in TokenUIDs : fw[x] = IF x[1] = p[1] THEN None ELSE forward[x]
  <2>1. \A x \in TokenUIDs : ~ \E y \in NFTUIDs : y[1] = p[2] /\ rest[y] = x
    BY <1>4, AbsentFacts, Zenon
  <2>. QED
    BY <2>1, Zenon DEF PurgeForward
<1>7. fw \in [TokenUIDs -> NFTUIDs \cup {None}] /\ rv \in [NFTUIDs -> TokenUIDs \cup {None}]
  BY <1>1, <1>5, <1>6, Zenon DEF RegistryTypeOK, PurgeForward, PurgeReverse
<1>8. InverseIndex(fw, rv)
  <2>. HIDE DEF fw, rv
  <2>. SUFFICES ASSUME NEW x \in TokenUIDs, NEW y \in NFTUIDs PROVE fw[x] = y <=> rv[y] = x
    BY Zenon DEF InverseIndex
  <2>1. x # None /\ y # None
    BY AbsentFacts, Zenon
  <2>2. forward[x] = y <=> reverse[y] = x
    BY <1>1, Zenon DEF InverseIndex
  <2>3. CASE forward[x] = y
    BY <1>3, <1>5, <1>6, <2>1, <2>2, <2>3, Zenon
  <2>4. CASE forward[x] # y
    BY <1>5, <1>6, <2>1, <2>2, <2>4, Zenon
  <2>. QED
    BY <2>3, <2>4, Zenon
<1>. QED
  BY <1>5, <1>6, <1>7, <1>8, Zenon

\* Rebase moves a batch to the new contract.
LEMMA RebaseFacts ==
    ASSUME NEW p \in Pairs, NEW b \in Batches(p[2], p[1]), NEW c \in Contracts
    PROVE  /\ DOMAIN Rebase(b, c) = DOMAIN b /\ DOMAIN b \subseteq NFTUIDs
           /\ Rebase(b, c) \in [DOMAIN b -> TokenUIDs] /\ Injective(Rebase(b, c))
           /\ \A y \in DOMAIN b : y[1] = p[2] /\ Rebase(b, c)[y][1] = c
<1>. DEFINE d == Rebase(b, c)
<1>1. /\ DOMAIN b \subseteq NFTUIDs /\ b \in [DOMAIN b -> TokenUIDs] /\ Injective(b)
      /\ \A y \in DOMAIN b : y[1] = p[2] /\ b[y][1] = p[1]
  BY BatchFacts, Zenon
<1>2. DOMAIN d = DOMAIN b /\ \A y \in DOMAIN b : d[y] = <<c, b[y][2]>> /\ d[y] \in TokenUIDs
  BY <1>1, Zenon DEF Rebase, TokenUIDs
<1>3. d \in [DOMAIN b -> TokenUIDs]
  BY <1>2, Zenon DEF Rebase
<1>4. Injective(d)
  <2>. SUFFICES ASSUME NEW y \in DOMAIN b, NEW z \in DOMAIN b, d[y] = d[z] PROVE y = z
    BY <1>2, Zenon DEF Injective
  <2>1. b[y][2] = b[z][2] /\ b[y][1] = b[z][1]
    BY <1>1, <1>2
  <2>2. b[y] = b[z]
    BY <1>1, <2>1 DEF TokenUIDs
  <2>. QED
    BY <1>1, <2>2, Zenon DEF Injective
<1>. QED
  BY <1>1, <1>2, <1>3, <1>4

\* A contract without code: purge, redeploy, register and convert.
LEMMA ConvertNFTRedeployStep ==
    ASSUME IInv, NEW u \in Users, NEW p \in Pairs, NEW named, NEW c \in Contracts, NEW r \in Receivers,
           ConvertNFTRedeploy(u, p, named, c, r), UNCHANGED ibcVars
    PROVE  IInv'
<1>. DEFINE fw == PurgeForward(forward, reverse, p)
            rv == PurgeReverse(forward, reverse, p)
            q == <<c, p[2]>>
<1>1. PICK b \in Batches(p[2], p[1]) : ConvertCosmos2Evm(u, Rebase(b, c), r, fw, rv)
  BY Zenon DEF ConvertNFTRedeploy
<1>2. UNCHANGED <<denom, enabled, packets, refunding>>
  BY Zenon DEF ConvertNFTRedeploy, ibcVars
<1>3. p \in tokenPairs /\ p = <<p[1], p[2]>> /\ p[1] \in Contracts /\ p[2] \in Classes /\ q \in Pairs
  <2>1. p \in tokenPairs
    BY AbsentFacts, Zenon DEF ConvertNFTRedeploy, GetPairByClass
  <2>2. q \in Pairs
    BY PairFacts, Zenon DEF Pairs
  <2>. QED
    BY <2>1, <2>2, PairFacts, Zenon
<1>4. /\ erc721Map[c] = None /\ code[p[1]] # "live"
      /\ tokenPairs' = (tokenPairs \ {p}) \cup {q}
      /\ erc721Map' = [erc721Map EXCEPT ![p[1]] = None, ![c] = q]
      /\ classMap' = [classMap EXCEPT ![p[2]] = q]
      /\ refund' = PurgeRefund(p)
      /\ code' = [code EXCEPT ![c] = "live"]
  BY Zenon DEF ConvertNFTRedeploy, ReplacePair, DeployERC721Contract, LostCode
<1>5. RegistryTypeOK /\ AssetsTypeOK /\ PairMapsAgree /\ PerTokenStateHasPair /\ enabled \in BOOLEAN
      /\ packets \in SUBSET Packets /\ refunding \in Packets \cup {None}
  BY Zenon DEF IInv, TypeOK
<1>6. /\ fw \in [TokenUIDs -> NFTUIDs \cup {None}]
      /\ rv \in [NFTUIDs -> TokenUIDs \cup {None}]
      /\ \A x \in TokenUIDs : fw[x] = IF x[1] = p[1] THEN None ELSE forward[x]
      /\ \A y \in NFTUIDs : rv[y] = IF y[1] = p[2] THEN None ELSE reverse[y]
      /\ InverseIndex(fw, rv)
  BY <1>3, PurgeFacts, Zenon
<1>7. erc721Map[p[1]] = p /\ classMap[p[2]] = p /\ c # p[1]
  BY <1>3, <1>4, <1>5, AbsentFacts, Zenon DEF PairMapsAgree, RegistryTypeOK, Pairs
<1>8. \A x \in TokenUIDs : fw[x] # None =>
          /\ x[1] \in Contracts \ {c, p[1]} /\ forward[x] = fw[x]
          /\ <<x[1], fw[x][1]>> \in tokenPairs /\ <<x[1], fw[x][1]>> # p
  <2>. SUFFICES ASSUME NEW x \in TokenUIDs, fw[x] # None
                PROVE  /\ x[1] \in Contracts \ {c, p[1]} /\ forward[x] = fw[x]
                       /\ <<x[1], fw[x][1]>> \in tokenPairs /\ <<x[1], fw[x][1]>> # p
    BY Zenon
  <2>. HIDE DEF fw, rv
  <2>1. x[1] # p[1] /\ forward[x] = fw[x] /\ x[1] \in Contracts
    BY <1>6, Zenon DEF TokenUIDs
  <2>2. <<x[1], fw[x][1]>> \in tokenPairs
    BY <1>5, <2>1, Zenon DEF PerTokenStateHasPair
  <2>3. erc721Map[x[1]] = <<x[1], fw[x][1]>> /\ erc721Map[x[1]] # None
    BY <1>5, <2>2, AbsentFacts DEF PairMapsAgree, RegistryTypeOK, Pairs
  <2>. QED
    BY <1>3, <1>4, <2>1, <2>2, <2>3
<1>. DEFINE d == Rebase(b, c)
<1>9. /\ DOMAIN d \subseteq NFTUIDs /\ d \in [DOMAIN d -> TokenUIDs] /\ Injective(d)
      /\ \A y \in DOMAIN d : y[1] = p[2] /\ d[y][1] = c
  <2>1. /\ DOMAIN d = DOMAIN b /\ DOMAIN b \subseteq NFTUIDs
        /\ d \in [DOMAIN b -> TokenUIDs] /\ Injective(d)
        /\ \A y \in DOMAIN b : y[1] = p[2] /\ d[y][1] = c
    BY RebaseFacts
  <2>. HIDE DEF d
  <2>. QED
    BY <2>1, Zenon
<1>. HIDE DEF fw, rv, d
<1>10. /\ nftOwner' \in [NFTUIDs -> Holders \cup {None}]
       /\ ercOwner' \in [TokenUIDs -> Users \cup {Module, None}]
       /\ forward' \in [TokenUIDs -> NFTUIDs \cup {None}]
       /\ reverse' \in [NFTUIDs -> TokenUIDs \cup {None}]
       /\ BindingBijection' /\ BoundNftExists' /\ CirculatingNftIsBacked'
       /\ \A x \in TokenUIDs : forward'[x] # None =>
             \/ x[1] = c /\ forward'[x][1] = p[2]
             \/ fw[x] # None /\ forward'[x] = fw[x]
  <2>1. \A x \in TokenUIDs : fw[x] # None /\ code'[x[1]] = "live" => code[x[1]] = "live"
    BY <1>4, <1>5, <1>8, Zenon DEF AssetsTypeOK, NativeTypeOK
  <2>2. ConvertCosmos2Evm(u, d, r, fw, rv)
    BY <1>1, Zenon DEF d
  <2>3. /\ \A x \in TokenUIDs : fw[x] \in {None, forward[x]}
        /\ \A y \in NFTUIDs : rv[y] \in {None, reverse[y]}
    BY <1>6, Zenon
  <2>. QED
    BY <1>3, <1>6, <1>9, <2>1, <2>2, <2>3, Cosmos2EvmStep
<1>11. refund' \in [RefundKeys -> Users \cup {None}]
  BY <1>4, <1>5, Zenon DEF PurgeRefund, RegistryTypeOK
<1>12. TypeOK'
  BY <1>2, <1>3, <1>4, <1>5, <1>10, <1>11, Zenon
     DEF TypeOK, AssetsTypeOK, NativeTypeOK, RegistryTypeOK
<1>13. PairMapsAgree'
  <2>1. \A o \in tokenPairs : o # p => o \in Pairs /\ o[1] # p[1] /\ o[2] # p[2] /\ o[1] # c
    BY <1>4, <1>5, <1>7, AbsentFacts, PairFacts DEF PairMapsAgree, RegistryTypeOK
  <2>2. erc721Map'[c] = q /\ erc721Map'[p[1]] = None /\ classMap'[p[2]] = q
    BY <1>3, <1>4, <1>5, <1>7, Zenon DEF RegistryTypeOK
  <2>3. /\ \A e \in Contracts : e # c /\ e # p[1] => erc721Map'[e] = erc721Map[e]
        /\ \A k \in Classes : k # p[2] => classMap'[k] = classMap[k]
    BY <1>4, <1>5, Zenon DEF RegistryTypeOK
  <2>4. ASSUME NEW o \in tokenPairs' PROVE erc721Map'[o[1]] = o /\ classMap'[o[2]] = o
    <3>1. CASE o = q
      BY <2>2, <3>1, Zenon
    <3>2. CASE o # q
      <4>1. o \in tokenPairs /\ o # p
        BY <1>4, <3>2, Zenon
      <4>2. o[1] \in Contracts /\ o[2] \in Classes
        BY <2>1, <4>1, PairFacts, Zenon
      <4>. QED
        BY <1>5, <2>1, <2>3, <4>1, <4>2, Zenon DEF PairMapsAgree
    <3>. QED
      BY <3>1, <3>2, Zenon
  <2>5. ASSUME NEW e \in Contracts, erc721Map'[e] # None
        PROVE  erc721Map'[e] \in tokenPairs' /\ erc721Map'[e][1] = e
    <3>1. CASE e = c
      <4>1. q[1] = c /\ q \in tokenPairs'
        BY <1>4, Zenon
      <4>. QED
        BY <2>2, <3>1, <4>1, Zenon
    <3>2. CASE e # c
      <4>1. e # p[1] /\ erc721Map'[e] = erc721Map[e]
        BY <2>2, <2>3, <2>5, <3>2, Zenon
      <4>2. erc721Map[e] \in tokenPairs /\ erc721Map[e][1] = e
        BY <1>5, <2>5, <4>1, Zenon DEF PairMapsAgree
      <4>. QED
        BY <1>4, <4>1, <4>2
    <3>. QED
      BY <3>1, <3>2, Zenon
  <2>6. ASSUME NEW k \in Classes, classMap'[k] # None
        PROVE  classMap'[k] \in tokenPairs' /\ classMap'[k][2] = k
    <3>1. CASE k = p[2]
      <4>1. q[2] = p[2] /\ q \in tokenPairs'
        BY <1>4, Zenon
      <4>. QED
        BY <2>2, <3>1, <4>1, Zenon
    <3>2. CASE k # p[2]
      <4>1. classMap'[k] = classMap[k]
        BY <2>3, <3>2, Zenon
      <4>2. classMap[k] \in tokenPairs /\ classMap[k][2] = k
        BY <1>5, <2>6, <4>1, Zenon DEF PairMapsAgree
      <4>. QED
        BY <1>4, <3>2, <4>1, <4>2
    <3>. QED
      BY <3>1, <3>2, Zenon
  <2>. QED
    BY <2>4, <2>5, <2>6, Zenon DEF PairMapsAgree
<1>14. PerTokenStateHasPair'
  <2>1. ASSUME NEW x \in TokenUIDs, forward'[x] # None
        PROVE  <<x[1], forward'[x][1]>> \in tokenPairs'
    BY <1>4, <1>8, <1>10, <2>1, Zenon
  <2>2. ASSUME NEW k \in RefundKeys, refund'[k] # None PROVE erc721Map'[k[1]] # None
    <3>1. k[1] \in Contracts /\ k[1] # p[1] /\ refund[k] # None
      BY <1>4, <2>2, Zenon DEF PurgeRefund, RefundKeys
    <3>2. erc721Map[k[1]] # None
      BY <1>5, <3>1, Zenon DEF PerTokenStateHasPair
    <3>. QED
      BY <1>4, <1>5, <3>1, <3>2, Zenon DEF RegistryTypeOK
  <2>. QED
    BY <2>1, <2>2, Zenon DEF PerTokenStateHasPair
<1>. QED
  BY <1>10, <1>12, <1>13, <1>14, Zenon DEF IInv

-----------------------------------------------------------------------------
(* ERC721 to native NFT *)

\* RegisterERC721 adds one pair and takes none away.
LEMMA EnsurePairStep ==
    ASSUME IInv, NEW p \in Pairs, NEW restricted \in BOOLEAN, EnsurePairByEVM(p, restricted)
    PROVE  /\ denom' \in [Classes -> Denoms \cup {None}]
           /\ tokenPairs' \in SUBSET Pairs
           /\ erc721Map' \in [Contracts -> Pairs \cup {None}]
           /\ classMap' \in [Classes -> Pairs \cup {None}]
           /\ tokenPairs \subseteq tokenPairs' /\ p \in tokenPairs'
           /\ \A c \in Contracts : erc721Map[c] # None => erc721Map'[c] # None
           /\ erc721Map'[p[1]] # None
           /\ PairMapsAgree'
<1>1. AssetsTypeOK /\ RegistryTypeOK /\ PairMapsAgree
  BY Zenon DEF IInv, TypeOK
<1>2. p = <<p[1], p[2]>> /\ p[1] \in Contracts /\ p[2] \in Classes /\ p # None
  BY AbsentFacts, PairFacts, Zenon
<1>3. CASE RegisterERC721(p[1], p[2], restricted)
  <2>1. /\ erc721Map[p[1]] = None /\ classMap[p[2]] = None
        /\ denom' = [denom EXCEPT ![p[2]] = [creator |-> Module, mintRestricted |-> restricted]]
        /\ tokenPairs' = tokenPairs \cup {p}
        /\ erc721Map' = [erc721Map EXCEPT ![p[1]] = p]
        /\ classMap' = [classMap EXCEPT ![p[2]] = p]
    BY <1>2, <1>3, Zenon DEF RegisterERC721, SetPair
  <2>2. denom' \in [Classes -> Denoms \cup {None}]
    BY <1>1, <1>2, <2>1, Zenon DEF AssetsTypeOK, NativeTypeOK, Denoms, Holders
  <2>3. PairMapsAgree'
    <3>1. \A o \in tokenPairs : o[1] # p[1] /\ o[2] # p[2]
      BY <1>1, <2>1, AbsentFacts, PairFacts DEF PairMapsAgree, RegistryTypeOK
    <3>2. erc721Map'[p[1]] = p /\ classMap'[p[2]] = p
      BY <1>1, <1>2, <2>1, Zenon DEF RegistryTypeOK
    <3>3. /\ \A e \in Contracts : e # p[1] => erc721Map'[e] = erc721Map[e]
          /\ \A k \in Classes : k # p[2] => classMap'[k] = classMap[k]
      BY <1>1, <2>1, Zenon DEF RegistryTypeOK
    <3>4. \A o \in tokenPairs : o[1] \in Contracts /\ o[2] \in Classes
      BY <1>1, PairFacts, Zenon DEF RegistryTypeOK
    <3>5. \A o \in tokenPairs' : erc721Map'[o[1]] = o /\ classMap'[o[2]] = o
      BY <1>1, <2>1, <3>1, <3>2, <3>3, <3>4, Zenon DEF PairMapsAgree
    <3>6. \A e \in Contracts : erc721Map'[e] # None =>
             erc721Map'[e] \in tokenPairs' /\ erc721Map'[e][1] = e
      BY <1>1, <2>1, <3>2, <3>3 DEF PairMapsAgree
    <3>7. \A k \in Classes : classMap'[k] # None =>
             classMap'[k] \in tokenPairs' /\ classMap'[k][2] = k
      BY <1>1, <2>1, <3>2, <3>3 DEF PairMapsAgree
    <3>. QED
      BY <3>5, <3>6, <3>7, Zenon DEF PairMapsAgree
  <2>. QED
    BY <1>1, <1>2, <2>1, <2>2, <2>3, Zenon DEF RegistryTypeOK
<1>4. CASE GetPairByEVM(p[1]) = p /\ UNCHANGED <<denom, tokenPairs, erc721Map, classMap>>
  <2>1. p \in tokenPairs /\ erc721Map[p[1]] = p
    BY <1>2, <1>4, Zenon DEF GetPairByEVM
  <2>. QED
    BY <1>1, <1>2, <1>4, <2>1, Zenon DEF PairMapsAgree, RegistryTypeOK, AssetsTypeOK, NativeTypeOK
<1>. QED
  BY <1>3, <1>4, Zenon DEF EnsurePairByEVM

\* convertEvm2Cosmos, with the NFTs going to dest: None and a deleted binding
\* for a voucher that leaves burned.
LEMMA Evm2CosmosStep ==
    ASSUME IInv,
           NEW u \in Users, NEW p \in Pairs, NEW restricted \in BOOLEAN,
           NEW b \in Batches(p[2], p[1]),
           NEW dest \in Holders \cup {None}, dest = None => IsIBCDenom(p[2]),
           NEW d,
           EnsurePairByEVM(p, restricted),
           Evm2CosmosAllowed(u, p, b, d),
           Evm2CosmosMoves(p, b, dest),
           UNCHANGED <<code, enabled>>,
           IF IsIBCDenom(p[2]) THEN DeleteVoucherBindingKeys(b)
           ELSE /\ Evm2CosmosBindings(b)
                /\ refund' \in [RefundKeys -> Users \cup {None}]
                /\ \A k \in RefundKeys : refund'[k] # refund[k] => k[1] = p[1],
           packets' \in SUBSET Packets, refunding' \in Packets \cup {None}
    PROVE  IInv'
<1>1. /\ AssetsTypeOK /\ RegistryTypeOK /\ enabled \in BOOLEAN
      /\ InverseIndex(forward, reverse) /\ PerTokenStateHasPair /\ BoundNftExists
      /\ CirculatingNftIsBacked
  BY Zenon DEF IInv, TypeOK, BindingBijection
<1>2. /\ denom' \in [Classes -> Denoms \cup {None}]
      /\ tokenPairs' \in SUBSET Pairs
      /\ erc721Map' \in [Contracts -> Pairs \cup {None}]
      /\ classMap' \in [Classes -> Pairs \cup {None}]
      /\ tokenPairs \subseteq tokenPairs' /\ p \in tokenPairs'
      /\ \A c \in Contracts : erc721Map[c] # None => erc721Map'[c] # None
      /\ erc721Map'[p[1]] # None
      /\ PairMapsAgree'
  BY EnsurePairStep, Zenon
<1>3. /\ DOMAIN b \subseteq NFTUIDs /\ b \in [DOMAIN b -> TokenUIDs] /\ Injective(b)
      /\ \A y \in DOMAIN b : y[1] = p[2] /\ b[y][1] = p[1]
  BY BatchFacts, Zenon
<1>4. /\ nftOwner' = [y \in NFTUIDs |-> IF y \in DOMAIN b THEN dest ELSE nftOwner[y]]
      /\ ercOwner' = [x \in TokenUIDs |->
                        IF x \notin TokensOf(b) THEN ercOwner[x]
                        ELSE IF IsIBCDenom(p[2]) THEN None ELSE Module]
  BY Zenon DEF Evm2CosmosMoves
<1>5. AssetsTypeOK'
  BY <1>1, <1>2, <1>4, Zenon DEF AssetsTypeOK, NativeTypeOK, Holders
<1>6. p = <<p[1], p[2]>>
  BY PairFacts, Zenon
<1>7. CASE ~IsIBCDenom(p[2])
  <2>1. /\ forward' = BindForward(forward, b) /\ reverse' = BindReverse(reverse, b)
        /\ NoBindingConflict(forward, reverse, b)
    BY <1>7, Zenon DEF Evm2CosmosBindings, Evm2CosmosAllowed
  <2>2. /\ forward' \in [TokenUIDs -> NFTUIDs \cup {None}]
        /\ reverse' \in [NFTUIDs -> TokenUIDs \cup {None}]
        /\ BindingBijection'
    <3>1. forward \in [TokenUIDs -> NFTUIDs \cup {None}] /\ reverse \in [NFTUIDs -> TokenUIDs \cup {None}]
      BY <1>1, Zenon DEF RegistryTypeOK
    <3>2. InverseIndex(forward, reverse) /\ NoBindingConflict(forward, reverse, b)
      BY <1>1, <2>1, Zenon
    <3>3. /\ BindForward(forward, b) \in [TokenUIDs -> NFTUIDs \cup {None}]
          /\ BindReverse(reverse, b) \in [NFTUIDs -> TokenUIDs \cup {None}]
          /\ InverseIndex(BindForward(forward, b), BindReverse(reverse, b))
      BY <1>3, <3>1, <3>2, BindKeepsInverse, Zenon
    <3>. QED
      BY <2>1, <3>3, Zenon DEF BindingBijection, InverseIndex
  <2>3. \A x \in TokenUIDs :
           /\ x \in TokensOf(b) => forward'[x] \in DOMAIN b /\ b[forward'[x]] = x
           /\ x \notin TokensOf(b) => forward'[x] = forward[x]
    BY <1>3, <2>1, NftForFacts, Zenon DEF BindForward
  <2>4. /\ refund' \in [RefundKeys -> Users \cup {None}]
        /\ \A k \in RefundKeys : refund'[k] # refund[k] => k[1] = p[1]
    BY <1>7, Zenon
  <2>5. TypeOK'
    BY <1>1, <1>2, <1>5, <2>2, <2>4, Zenon DEF TypeOK, RegistryTypeOK
  <2>6. PerTokenStateHasPair'
    <3>1. ASSUME NEW x \in TokenUIDs, forward'[x] # None
          PROVE  <<x[1], forward'[x][1]>> \in tokenPairs'
      <4>1. CASE x \in TokensOf(b)
        BY <1>2, <1>3, <1>6, <2>3, <4>1
      <4>2. CASE x \notin TokensOf(b)
        BY <1>1, <1>2, <2>3, <3>1, <4>2, Zenon DEF PerTokenStateHasPair
      <4>. QED
        BY <4>1, <4>2, Zenon
    <3>2. ASSUME NEW k \in RefundKeys, refund'[k] # None PROVE erc721Map'[k[1]] # None
      <4>1. CASE k[1] = p[1]
        BY <1>2, <4>1, Zenon
      <4>2. CASE k[1] # p[1]
        <5>1. k[1] \in Contracts /\ refund[k] # None
          BY <2>4, <3>2, <4>2, Zenon DEF RefundKeys
        <5>2. erc721Map[k[1]] # None
          BY <1>1, <5>1, Zenon DEF PerTokenStateHasPair
        <5>. QED
          BY <1>2, <5>1, <5>2, Zenon
      <4>. QED
        BY <4>1, <4>2, Zenon
    <3>. QED
      BY <3>1, <3>2, Zenon DEF PerTokenStateHasPair
  <2>7. BoundNftExists'
    <3>1. dest # None
      BY <1>7, Zenon
    <3>2. \A y \in NFTUIDs : reverse'[y] = IF y \in DOMAIN b THEN b[y] ELSE reverse[y]
      BY <2>1, Zenon DEF BindReverse
    <3>3. \A y \in NFTUIDs : nftOwner'[y] = IF y \in DOMAIN b THEN dest ELSE nftOwner[y]
      BY <1>4, Zenon
    <3>. QED
      BY <1>1, <3>1, <3>2, <3>3, Zenon DEF BoundNftExists
  <2>8. CirculatingNftIsBacked'
    <3>. SUFFICES ASSUME NEW x \in TokenUIDs, forward'[x] # None, x[1] \notin Rogue,
                         nftOwner'[forward'[x]] \in Users \cup {Escrow}, code'[x[1]] = "live"
                  PROVE  ercOwner'[x] = Module
      BY Zenon DEF CirculatingNftIsBacked
    <3>1. CASE x \in TokensOf(b)
      BY <1>4, <1>7, <3>1, Zenon
    <3>2. CASE x \notin TokensOf(b)
      <4>1. forward'[x] = forward[x] /\ forward[x] \in NFTUIDs
        BY <1>1, <2>3, <3>2 DEF RegistryTypeOK
      <4>2. forward[x] \notin DOMAIN b
        <5>1. ASSUME forward[x] \in DOMAIN b PROVE FALSE
          <6>1. reverse[forward[x]] = x
            BY <1>1, <4>1, Zenon DEF InverseIndex
          <6>2. b[forward[x]] = x
            BY <2>1, <5>1, <6>1, AbsentFacts, Zenon DEF NoBindingConflict
          <6>. QED
            BY <3>2, <5>1, <6>2, Zenon DEF TokensOf
        <5>. QED
          BY <5>1, Zenon
      <4>3. ercOwner[x] = Module
        BY <1>1, <1>4, <4>1, <4>2, Zenon DEF CirculatingNftIsBacked
      <4>. QED
        BY <1>4, <3>2, <4>3, Zenon
    <3>. QED
      BY <3>1, <3>2, Zenon
  <2>. QED
    BY <1>2, <2>2, <2>5, <2>6, <2>7, <2>8, Zenon DEF IInv
<1>8. CASE IsIBCDenom(p[2])
  <2>1. /\ forward' = [x \in TokenUIDs |-> IF x \in TokensOf(b) THEN None ELSE forward[x]]
        /\ reverse' = [y \in NFTUIDs |-> IF y \in DOMAIN b THEN None ELSE reverse[y]]
        /\ refund' = [k \in RefundKeys |->
                        IF \E y \in DOMAIN b : k \in {b[y], <<b[y][1], y[2]>>}
                          THEN None ELSE refund[k]]
    BY <1>8, Zenon DEF DeleteVoucherBindingKeys
  <2>2. /\ forward' \in [TokenUIDs -> NFTUIDs \cup {None}]
        /\ reverse' \in [NFTUIDs -> TokenUIDs \cup {None}]
        /\ refund' \in [RefundKeys -> Users \cup {None}]
    BY <1>1, <2>1, Zenon DEF RegistryTypeOK
  <2>3. \A x \in TokenUIDs, y \in NFTUIDs :
           forward[x] = y => (x \in TokensOf(b) <=> y \in DOMAIN b)
    <3>. SUFFICES ASSUME NEW x \in TokenUIDs, NEW y \in NFTUIDs, forward[x] = y
                  PROVE  x \in TokensOf(b) <=> y \in DOMAIN b
      BY Zenon
    <3>1. reverse[y] = x /\ x # None /\ y # None
      BY <1>1, AbsentFacts, Zenon DEF InverseIndex
    <3>2. NoMappingConflict(b)
      BY Zenon DEF Evm2CosmosAllowed
    <3>3. ASSUME x \in TokensOf(b) PROVE y \in DOMAIN b
      <4>1. PICK z \in DOMAIN b : b[z] = x
        BY <3>3, Zenon DEF TokensOf
      <4>. QED
        BY <3>1, <3>2, <4>1, Zenon DEF NoMappingConflict
    <3>4. ASSUME y \in DOMAIN b PROVE x \in TokensOf(b)
      <4>1. nftOwner[y] # None
        BY <1>1, <3>1, Zenon DEF BoundNftExists
      <4>2. forward[b[y]] # None
        BY <3>4, <4>1, Zenon DEF Evm2CosmosAllowed
      <4>3. forward[b[y]] = y
        BY <3>2, <3>4, <4>2, Zenon DEF NoMappingConflict
      <4>4. reverse[y] = b[y]
        BY <1>1, <1>3, <3>4, <4>3, Zenon DEF InverseIndex
      <4>. QED
        BY <3>1, <3>4, <4>4, Zenon DEF TokensOf
    <3>. QED
      BY <3>3, <3>4, Zenon
  <2>4. BindingBijection'
    <3>. SUFFICES ASSUME NEW x \in TokenUIDs, NEW y \in NFTUIDs PROVE forward'[x] = y <=> reverse'[y] = x
      BY Zenon DEF BindingBijection, InverseIndex
    <3>1. x # None /\ y # None
      BY AbsentFacts, Zenon
    <3>2. forward[x] = y <=> reverse[y] = x
      BY <1>1, Zenon DEF InverseIndex
    <3>3. forward'[x] = IF x \in TokensOf(b) THEN None ELSE forward[x]
      BY <2>1, Zenon
    <3>4. reverse'[y] = IF y \in DOMAIN b THEN None ELSE reverse[y]
      BY <2>1, Zenon
    <3>5. CASE forward[x] = y
      BY <2>3, <3>1, <3>2, <3>3, <3>4, <3>5, Zenon
    <3>6. CASE forward[x] # y
      BY <3>1, <3>2, <3>3, <3>4, <3>6, Zenon
    <3>. QED
      BY <3>5, <3>6, Zenon
  <2>5. TypeOK'
    BY <1>1, <1>2, <1>5, <2>2, Zenon DEF TypeOK, RegistryTypeOK
  <2>6. PerTokenStateHasPair'
    BY <1>1, <1>2, <2>1, Zenon DEF PerTokenStateHasPair, RefundKeys
  <2>7. BoundNftExists'
    BY <1>1, <1>4, <2>1, Zenon DEF BoundNftExists
  <2>8. CirculatingNftIsBacked'
    <3>. SUFFICES ASSUME NEW x \in TokenUIDs, forward'[x] # None, x[1] \notin Rogue,
                         nftOwner'[forward'[x]] \in Users \cup {Escrow}, code'[x[1]] = "live"
                  PROVE  ercOwner'[x] = Module
      BY Zenon DEF CirculatingNftIsBacked
    <3>1. x \notin TokensOf(b) /\ forward'[x] = forward[x] /\ forward[x] \in NFTUIDs
      BY <1>1, <2>1, Zenon DEF RegistryTypeOK
    <3>2. forward[x] \notin DOMAIN b
      BY <2>3, <3>1, Zenon
    <3>. QED
      BY <1>1, <1>4, <3>1, <3>2, Zenon DEF CirculatingNftIsBacked
  <2>. QED
    BY <1>2, <2>4, <2>5, <2>6, <2>7, <2>8, Zenon DEF IInv
<1>. QED
  BY <1>7, <1>8, Zenon

\* MsgConvertERC721
LEMMA ConvertERC721Step ==
    ASSUME IInv, NEW u \in Users, NEW p \in Pairs, NEW restricted \in BOOLEAN, NEW r \in Receivers,
           ConvertERC721(u, p, restricted, r), UNCHANGED ibcVars
    PROVE  IInv'
<1>1. PICK b \in Batches(p[2], p[1]) :
         /\ Evm2CosmosAllowed(u, p, b, denom'[p[2]])
         /\ Evm2CosmosMoves(p, b, r)
         /\ IF IsIBCDenom(p[2]) THEN DeleteVoucherBindingKeys(b)
            ELSE Evm2CosmosBindings(b) /\ UNCHANGED refund
  BY Zenon DEF ConvertERC721
<1>2. /\ EnsurePairByEVM(p, restricted) /\ UNCHANGED <<code, enabled>>
      /\ UNCHANGED <<packets, refunding>>
  BY Zenon DEF ConvertERC721, ibcVars
<1>3. /\ packets' \in SUBSET Packets /\ refunding' \in Packets \cup {None}
      /\ refund \in [RefundKeys -> Users \cup {None}]
  BY <1>2, Zenon DEF IInv, TypeOK, RegistryTypeOK
<1>4. r \in Holders \cup {None} /\ r # None
  BY AccountsAssumption, Zenon DEF Receivers, Holders
<1>5. IF IsIBCDenom(p[2]) THEN DeleteVoucherBindingKeys(b)
      ELSE /\ Evm2CosmosBindings(b)
           /\ refund' \in [RefundKeys -> Users \cup {None}]
           /\ \A k \in RefundKeys : refund'[k] # refund[k] => k[1] = p[1]
  BY <1>1, <1>3, Zenon
<1>. QED
  BY <1>1, <1>2, <1>3, <1>4, <1>5, Evm2CosmosStep, Zenon

\* MsgTransferERC721
LEMMA SendERC721Step ==
    ASSUME IInv, Idle, NEW u \in Users, NEW p \in Pairs, NEW restricted \in BOOLEAN,
           NEW burned \in BOOLEAN, SendERC721(u, p, restricted, burned)
    PROVE  IInv'
<1>. DEFINE dest == IF burned THEN None ELSE Escrow
            pkt(b) == [nfts |-> DOMAIN b, convert |-> TRUE, origin |-> u, burned |-> burned]
<1>1. PICK b \in Batches(p[2], p[1]) :
         TransferERC721(u, p, b, dest) /\ packets' = packets \cup {pkt(b)}
  BY Zenon DEF SendERC721
<1>2. /\ EnsurePairByEVM(p, restricted) /\ UNCHANGED <<code, enabled>> /\ UNCHANGED refunding
  BY <1>1, Zenon DEF SendERC721, TransferERC721
<1>3. dest \in Holders \cup {None} /\ (dest = None => IsIBCDenom(p[2]))
  BY <1>1, Zenon DEF TransferERC721, Holders
<1>4. /\ DOMAIN b \subseteq NFTUIDs /\ b \in [DOMAIN b -> TokenUIDs]
      /\ \A y \in DOMAIN b : b[y][1] = p[1]
  BY BatchFacts
<1>5. packets' \in SUBSET Packets /\ refunding' \in Packets \cup {None}
  <2>1. pkt(b) \in Packets
    BY <1>4, Zenon DEF Packets
  <2>. QED
    BY <1>1, <1>2, <2>1, Zenon DEF IInv, TypeOK
<1>6. IF IsIBCDenom(p[2]) THEN DeleteVoucherBindingKeys(b)
      ELSE /\ Evm2CosmosBindings(b)
           /\ refund' \in [RefundKeys -> Users \cup {None}]
           /\ \A k \in RefundKeys : refund'[k] # refund[k] => k[1] = p[1]
  <2>1. CASE IsIBCDenom(p[2])
    BY <1>1, <2>1, Zenon DEF TransferERC721
  <2>2. CASE ~IsIBCDenom(p[2])
    <3>1. Evm2CosmosBindings(b) /\ SetEvmRefundReceiver(b, u)
      BY <1>1, <2>2, Zenon DEF TransferERC721
    <3>2. refund' = [k \in RefundKeys |->
                       IF \E y \in DOMAIN b : k \in {b[y], <<b[y][1], y[2]>>}
                         THEN u ELSE refund[k]]
      BY <3>1, Zenon DEF SetEvmRefundReceiver
    <3>3. refund \in [RefundKeys -> Users \cup {None}]
      BY Zenon DEF IInv, TypeOK, RegistryTypeOK
    <3>. QED
      BY <1>4, <2>2, <3>1, <3>2, <3>3
  <2>. QED
    BY <2>1, <2>2, Zenon
<1>7. Evm2CosmosAllowed(u, p, b, denom'[p[2]]) /\ Evm2CosmosMoves(p, b, dest)
  BY <1>1, Zenon DEF TransferERC721
<1>. HIDE DEF dest
<1>. QED
  BY <1>2, <1>3, <1>5, <1>6, <1>7, Evm2CosmosStep, Zenon

-----------------------------------------------------------------------------
(* The theorems *)

\* Every step of the bridge, of its users and of IBC keeps the invariant.
LEMMA NextIInv == IInv /\ [Next]_vars => IInv'
<1>. SUFFICES ASSUME IInv, [Next]_vars PROVE IInv'
  BY Zenon
<1>1. ASSUME NEW u \in Users, NEW p \in Pairs, NEW named \in {None} \cup Contracts, NEW r \in Receivers,
             ConvertNFT(u, p, named, r), UNCHANGED ibcVars
      PROVE  IInv'
  BY <1>1, ConvertNFTStep, Zenon
<1>2. ASSUME NEW u \in Users, NEW p \in Pairs, NEW r \in Receivers,
             ConvertNFTDeploy(u, p, r), UNCHANGED ibcVars
      PROVE  IInv'
  BY <1>2, ConvertNFTDeployStep, Zenon
<1>3. ASSUME NEW u \in Users, NEW p \in Pairs, NEW named \in {None} \cup Contracts, NEW c \in Contracts,
             NEW r \in Receivers, ConvertNFTRedeploy(u, p, named, c, r), UNCHANGED ibcVars
      PROVE  IInv'
  BY <1>3, ConvertNFTRedeployStep, Zenon
<1>4. ASSUME NEW u \in Users, NEW p \in Pairs, NEW restricted \in BOOLEAN, NEW r \in Receivers,
             ConvertERC721(u, p, restricted, r), UNCHANGED ibcVars
      PROVE  IInv'
  BY <1>4, ConvertERC721Step, Zenon
<1>5. ASSUME Idle, NEW u \in Users, NEW p \in Pairs, NEW restricted \in BOOLEAN, NEW burned \in BOOLEAN,
             SendERC721(u, p, restricted, burned)
      PROVE  IInv'
  BY <1>5, SendERC721Step, Zenon
<1>6. ASSUME NEW enable \in BOOLEAN, NEW hook \in BOOLEAN, UpdateParams(enable, hook),
             UNCHANGED ibcVars
      PROVE  IInv'
  <2>1. /\ enabled' \in BOOLEAN
        /\ UNCHANGED <<denom, nftOwner, code, ercOwner, registryVars, packets, refunding>>
    BY <1>6, Zenon DEF UpdateParams, GetEnableErc721, registryVars, ibcVars
  <2>2. AssetsTypeOK' /\ packets' \in SUBSET Packets /\ refunding' \in Packets \cup {None}
    BY <2>1, Zenon DEF IInv, TypeOK, AssetsTypeOK, NativeTypeOK
  <2>. QED
    BY <2>1, <2>2, AssetStep, Zenon
<1>7. ASSUME UNCHANGED <<evmVars, bridgeVars>>,
             \/ \E u \in Users, cl \in Classes, restricted \in BOOLEAN : IssueDenom(u, cl, restricted)
             \/ \E u \in Users, cl \in Classes, v \in Users : TransferDenom(u, cl, v)
             \/ \E u \in Users, y \in NFTUIDs, v \in Users : MintNFT(u, y, v)
             \/ \E u \in Users, y \in NFTUIDs, v \in Receivers : TransferNFT(u, y, v)
             \/ \E u \in Users, y \in NFTUIDs : BurnNFT(u, y, IsConvertedNFT(y))
      PROVE  IInv'
  BY <1>7, CollectionSteps, Zenon
<1>8. ASSUME UNCHANGED <<nativeVars, bridgeVars>>,
             \/ \E u \in Users, x \in TokenUIDs, v \in Receivers : ErcTransfer(u, x, v)
             \/ \E u \in Users, x \in TokenUIDs : ErcBurn(u, x)
             \/ \E x \in TokenUIDs, v \in Users : ErcMint(x, v)
             \/ \E x \in TokenUIDs, v \in Receivers \cup {None} : ErcReassign(x, v)
             \/ \E c \in Contracts : SelfDestruct(c)
      PROVE  IInv'
  BY <1>8, ContractSteps, Zenon
<1>9. ASSUME Idle,
             \/ \E u \in Users, y \in NFTUIDs, burned \in BOOLEAN : SendNFT(u, y, burned)
             \/ \E pkt \in packets : AcknowledgeSuccess(pkt)
             \/ \E pkt \in packets : FailPacket(pkt)
             \/ \E y \in NFTUIDs, v \in Users : ReceiveNFT(y, v)
      PROVE  IInv'
  BY <1>9, IbcSteps, Zenon
<1>10. ASSUME NEW y \in NFTUIDs, NEW evmFails \in BOOLEAN, RefundPacketToken(y, evmFails)
       PROVE  IInv'
  BY <1>10, RefundStep, Zenon
<1>11. CASE UNCHANGED vars
  <2>1. UNCHANGED <<denom, nftOwner, code, ercOwner>> /\ UNCHANGED <<tokenPairs, erc721Map, classMap>>
        /\ UNCHANGED <<forward, reverse, refund>> /\ UNCHANGED <<enabled, packets, refunding>>
    BY <1>11, Zenon DEF vars
  <2>2. TypeOK'
    BY <2>1, Zenon DEF IInv, TypeOK, AssetsTypeOK, NativeTypeOK, RegistryTypeOK
  <2>3. BindingBijection'
    BY <2>1, Zenon DEF IInv, BindingBijection, InverseIndex
  <2>6. PairMapsAgree'
    BY <2>1, Zenon DEF IInv, PairMapsAgree
  <2>4. PerTokenStateHasPair' /\ BoundNftExists'
    BY <2>1, Zenon DEF IInv, PerTokenStateHasPair, BoundNftExists
  <2>5. CirculatingNftIsBacked'
    BY <2>1, Zenon DEF IInv, CirculatingNftIsBacked
  <2>. QED
    BY <2>2, <2>3, <2>4, <2>5, <2>6, Zenon DEF IInv
<1>. QED
  BY <1>1, <1>2, <1>3, <1>4, <1>5, <1>6, <1>7, <1>8, <1>9, <1>10, <1>11, Zenon DEF Next

\* The inductive invariant holds of every behaviour.
THEOREM Invariance == Spec => []IInv
BY InitIInv, NextIInv, PTL DEF Spec

\* The stores, the ledgers and the packets keep their types.
THEOREM TypeCorrectness == Spec => []TypeOK
<1>1. IInv => TypeOK
  BY Zenon DEF IInv
<1>. QED
  BY <1>1, Invariance, PTL

\* SetNFTPairs and every writer and purge of the UID index keep its two
\* directions inverse, across conversions, redeployments, refunds and
\* voucher settlements, for any number of classes, contracts and ids.
THEOREM BindingsAreOneToOne == Spec => []BindingBijection
<1>1. IInv => BindingBijection
  BY Zenon DEF IInv
<1>. QED
  BY <1>1, Invariance, PTL

\* RegisterNFT, RegisterERC721 and PurgeTokenPair keep the pair records and
\* their two lookup maps in agreement.
THEOREM PairsAreOneToOne == Spec => []PairMapsAgree
<1>1. IInv => PairMapsAgree
  BY Zenon DEF IInv
<1>. QED
  BY <1>1, Invariance, PTL

\* Bindings and refund records never outlive the pair they belong to.
THEOREM NoStatelessTokens == Spec => []PerTokenStateHasPair
<1>1. IInv => PerTokenStateHasPair
  BY Zenon DEF IInv
<1>. QED
  BY <1>1, Invariance, PTL

\* The burn guards keep the NFT of every binding in existence.
THEOREM BindingsHaveNfts == Spec => []BoundNftExists
<1>1. IInv => BoundNftExists
  BY Zenon DEF IInv
<1>. QED
  BY <1>1, Invariance, PTL

\* A bound NFT circulates only while the module holds its ERC721 in escrow,
\* whatever users, other chains, refunds and redeployments do.
THEOREM CirculatingNftsAreBacked == Spec => []CirculatingNftIsBacked
<1>1. IInv => CirculatingNftIsBacked
  BY Zenon DEF IInv
<1>. QED
  BY <1>1, Invariance, PTL

-----------------------------------------------------------------------------
(* Genesis *)

\* The lookup maps InitGenesis rebuilds from the exported pairs are the maps of
\* the store.
LEMMA ImportedMaps ==
    ASSUME RegistryTypeOK, PairMapsAgree
    PROVE  /\ [c \in Contracts |-> PairWith(tokenPairs, 1, c)] = erc721Map
           /\ [cl \in Classes |-> PairWith(tokenPairs, 2, cl)] = classMap
<1>1. ASSUME NEW c \in Contracts PROVE PairWith(tokenPairs, 1, c) = erc721Map[c]
  <2>1. CASE \E p \in tokenPairs : p[1] = c
    <3>1. PairWith(tokenPairs, 1, c) \in tokenPairs /\ PairWith(tokenPairs, 1, c)[1] = c
      BY <2>1, Zenon DEF PairWith
    <3>. QED
      BY <3>1, Zenon DEF PairMapsAgree
  <2>2. CASE ~\E p \in tokenPairs : p[1] = c
    BY <2>2, Zenon DEF PairWith, PairMapsAgree
  <2>. QED
    BY <2>1, <2>2, Zenon
<1>2. ASSUME NEW cl \in Classes PROVE PairWith(tokenPairs, 2, cl) = classMap[cl]
  <2>1. CASE \E p \in tokenPairs : p[2] = cl
    <3>1. PairWith(tokenPairs, 2, cl) \in tokenPairs /\ PairWith(tokenPairs, 2, cl)[2] = cl
      BY <2>1, Zenon DEF PairWith
    <3>. QED
      BY <3>1, Zenon DEF PairMapsAgree
  <2>2. CASE ~\E p \in tokenPairs : p[2] = cl
    BY <2>2, Zenon DEF PairWith, PairMapsAgree
  <2>. QED
    BY <2>1, <2>2, Zenon
<1>. QED
  BY <1>1, <1>2, Zenon DEF RegistryTypeOK

\* Every binding of the store is exported: the index is a bijection and no
\* binding is without its pair.
LEMMA ExportedBindings ==
    ASSUME RegistryTypeOK, BindingBijection, PerTokenStateHasPair
    PROVE  /\ DOMAIN ExportNFTUIDPairs = {y \in NFTUIDs : reverse[y] # None}
           /\ \A y \in DOMAIN ExportNFTUIDPairs :
                /\ ExportNFTUIDPairs[y] = reverse[y]
                /\ reverse[y] \in TokenUIDs
                /\ forward[reverse[y]] = y
                /\ <<reverse[y][1], y[1]>> \in tokenPairs
           /\ Injective(ExportNFTUIDPairs)
<1>1. ASSUME NEW y \in NFTUIDs, reverse[y] # None
      PROVE  /\ reverse[y] \in TokenUIDs
             /\ forward[reverse[y]] = y
             /\ <<reverse[y][1], y[1]>> \in tokenPairs
  <2>1. reverse[y] \in TokenUIDs
    BY <1>1, Zenon DEF RegistryTypeOK
  <2>2. forward[reverse[y]] = y
    BY <2>1, Zenon DEF BindingBijection, InverseIndex
  <2>. QED
    BY <2>1, <2>2, AbsentFacts, Zenon DEF PerTokenStateHasPair
<1>2. DOMAIN ExportNFTUIDPairs = {y \in NFTUIDs : reverse[y] # None}
  BY <1>1, Zenon DEF ExportNFTUIDPairs, UIDBelongsToRegisteredPair
<1>3. \A y \in DOMAIN ExportNFTUIDPairs : ExportNFTUIDPairs[y] = reverse[y]
  BY Zenon DEF ExportNFTUIDPairs
<1>4. ASSUME NEW y \in DOMAIN ExportNFTUIDPairs
      PROVE  /\ ExportNFTUIDPairs[y] = reverse[y]
             /\ reverse[y] \in TokenUIDs
             /\ forward[reverse[y]] = y
             /\ <<reverse[y][1], y[1]>> \in tokenPairs
  <2>1. y \in NFTUIDs /\ reverse[y] # None
    BY <1>2, Zenon
  <2>. QED
    BY <1>1, <1>3, <2>1, Zenon
<1>5. Injective(ExportNFTUIDPairs)
  <2>. SUFFICES ASSUME NEW y \in DOMAIN ExportNFTUIDPairs, NEW z \in DOMAIN ExportNFTUIDPairs,
                       ExportNFTUIDPairs[y] = ExportNFTUIDPairs[z]
                PROVE  y = z
    BY Zenon DEF Injective
  <2>1. reverse[y] = reverse[z]
    BY <1>3, Zenon
  <2>. QED
    BY <1>4, <2>1, Zenon
<1>. QED
  BY <1>2, <1>4, <1>5, Zenon

\* importPerTokenState writes the index of the store again.
LEMMA ImportedIndex ==
    ASSUME RegistryTypeOK, BindingBijection, PerTokenStateHasPair
    PROVE  /\ BindForward([x \in TokenUIDs |-> None], ExportNFTUIDPairs) = forward
           /\ BindReverse([y \in NFTUIDs |-> None], ExportNFTUIDPairs) = reverse
<1>. DEFINE uids == ExportNFTUIDPairs
<1>1. /\ DOMAIN uids = {y \in NFTUIDs : reverse[y] # None}
      /\ \A y \in DOMAIN uids : uids[y] = reverse[y] /\ forward[reverse[y]] = y
      /\ Injective(uids)
  BY ExportedBindings, Zenon
<1>. HIDE DEF uids
<1>2. ASSUME NEW x \in TokenUIDs
      PROVE  (IF x \in TokensOf(uids) THEN NftFor(uids, x) ELSE None) = forward[x]
  <2>1. CASE x \in TokensOf(uids)
    <3>1. NftFor(uids, x) \in DOMAIN uids /\ uids[NftFor(uids, x)] = x
      BY <1>1, <2>1, NftForFacts, Zenon
    <3>. QED
      BY <1>1, <2>1, <3>1, Zenon
  <2>2. CASE x \notin TokensOf(uids)
    <3>1. ASSUME forward[x] # None PROVE FALSE
      <4>1. forward[x] \in NFTUIDs /\ reverse[forward[x]] = x
        BY <3>1 DEF RegistryTypeOK, BindingBijection, InverseIndex
      <4>2. forward[x] \in DOMAIN uids /\ uids[forward[x]] = x
        BY <1>1, <4>1, AbsentFacts, Zenon
      <4>. QED
        BY <2>2, <4>2, Zenon DEF TokensOf
    <3>. QED
      BY <2>2, <3>1, Zenon
  <2>. QED
    BY <2>1, <2>2, Zenon
<1>3. ASSUME NEW y \in NFTUIDs
      PROVE  (IF y \in DOMAIN uids THEN uids[y] ELSE None) = reverse[y]
  BY <1>1, Zenon
<1>4. BindForward([x \in TokenUIDs |-> None], uids) = forward
  BY <1>2, Zenon DEF BindForward, RegistryTypeOK
<1>5. BindReverse([y \in NFTUIDs |-> None], uids) = reverse
  BY <1>3, Zenon DEF BindReverse, RegistryTypeOK
<1>. QED
  BY <1>4, <1>5, Zenon DEF uids

\* Every refund receiver of the store is exported: its contract has a pair.
LEMMA ExportedReceivers ==
    ASSUME RegistryTypeOK, PairMapsAgree, PerTokenStateHasPair
    PROVE  /\ DOMAIN ExportRefundReceivers = {k \in RefundKeys : refund[k] # None}
           /\ \A k \in DOMAIN ExportRefundReceivers : ExportRefundReceivers[k] = refund[k]
           /\ \A k \in DOMAIN ExportRefundReceivers : \E p \in tokenPairs : p[1] = k[1]
<1>1. ASSUME NEW k \in RefundKeys, refund[k] # None
      PROVE  \E p \in tokenPairs : p[1] = k[1]
  <2>1. k[1] \in Contracts /\ erc721Map[k[1]] # None
    BY <1>1, Zenon DEF PerTokenStateHasPair, RefundKeys
  <2>. QED
    BY <2>1, Zenon DEF PairMapsAgree
<1>. QED
  BY <1>1, Zenon DEF ExportRefundReceivers

\* ExportGenesis drops nothing and InitGenesis restores the whole x/erc721
\* store, in every state conversions, redeployments, refunds and settlements
\* can lead to.
THEOREM GenesisIsRestored == Spec => []GenesisRestores
<1>1. IInv => GenesisRestores
  <2>. SUFFICES ASSUME IInv PROVE GenesisRestores
    BY Zenon
  <2>1. RegistryTypeOK /\ BindingBijection /\ PairMapsAgree /\ PerTokenStateHasPair
    BY Zenon DEF IInv, TypeOK
  <2>2. /\ ExportGenesis.pairs = tokenPairs
        /\ ExportGenesis.uids = ExportNFTUIDPairs
        /\ ExportGenesis.receivers = ExportRefundReceivers
    BY Zenon DEF ExportGenesis
  <2>3. ValidateGenesis(ExportGenesis)
    <3>1. \A p, q \in tokenPairs : p[1] = q[1] \/ p[2] = q[2] => p = q
      BY <2>1 DEF PairMapsAgree
    <3>2. \A y, z \in DOMAIN ExportNFTUIDPairs : ExportNFTUIDPairs[y] = ExportNFTUIDPairs[z] => y = z
      BY <2>1, ExportedBindings, Zenon DEF Injective
    <3>3. \A y \in DOMAIN ExportNFTUIDPairs :
             UIDBelongsToRegisteredPair(ExportNFTUIDPairs[y], y, tokenPairs)
      BY <2>1, ExportedBindings, Zenon DEF UIDBelongsToRegisteredPair
    <3>4. \A k \in DOMAIN ExportRefundReceivers : \E p \in tokenPairs : p[1] = k[1]
      BY <2>1, ExportedReceivers, Zenon
    <3>. QED
      BY <2>2, <3>1, <3>2, <3>3, <3>4, Zenon DEF ValidateGenesis
  <2>4. [k \in RefundKeys |-> IF k \in DOMAIN ExportRefundReceivers
                             THEN ExportRefundReceivers[k] ELSE None] = refund
    BY <2>1, ExportedReceivers, Zenon DEF RegistryTypeOK
  <2>5. InitGenesis(ExportGenesis) =
          [tokenPairs |-> tokenPairs, erc721Map |-> erc721Map, classMap |-> classMap,
           forward |-> forward, reverse |-> reverse, refund |-> refund]
    BY <2>1, <2>2, <2>4, ImportedMaps, ImportedIndex, Zenon DEF InitGenesis
  <2>. QED
    BY <2>3, <2>5, Zenon DEF GenesisRestores
<1>. QED
  BY <1>1, Invariance, PTL

-----------------------------------------------------------------------------
(* Tokens, contracts and the refund loop.  HInv is inductive beside IInv.    *)

\* A token with an owner belongs to a contract that has its code.
TokensHaveCode == \A x \in TokenUIDs : ercOwner[x] # None => code[x[1]] = "live"

\* The tokens of x/cw721 are not in this composition.
CwModuleHoldsNothing == \A y \in NFTUIDs : nftOwner[y] # CwModule

\* What the refund loop has still to do is with the module account.
RefundHeld == refunding # None => \A y \in refunding.nfts : nftOwner[y] = Module

HInv == TokensHaveCode /\ CwModuleHoldsNothing /\ RefundHeld

\* What a step may do to the bindings of the index.
DropsWithHalf ==
    \A x \in TokenUIDs :
        forward[x] # None /\ forward'[x] # forward[x]
          => /\ forward'[x] = None
             /\ nftOwner'[forward[x]] = None \/ ercOwner'[x] = None

\* The tokens of the legacy pairs belong to contracts with code.
LEMMA InitHInv == Init => HInv
<1>. SUFFICES ASSUME Init PROVE HInv
  BY Zenon
<1>1. TokensHaveCode
  <2>. SUFFICES ASSUME NEW x \in TokenUIDs, ercOwner[x] # None PROVE code[x[1]] = "live"
    BY Zenon DEF TokensHaveCode
  <2>1. PICK y \in DOMAIN LegacyBinding : LegacyBinding[y] = x
    BY Zenon DEF Init, TokensOf
  <2>2. <<x[1], y[1]>> \in LegacyPairs /\ x[1] \in Contracts
    BY <2>1, Zenon DEF LegacyPairs, TokenUIDs
  <2>. QED
    BY <2>2, Zenon DEF Init
<1>2. CwModuleHoldsNothing
  BY AccountsAssumption, Zenon DEF Init, CwModuleHoldsNothing, Holders
<1>. QED
  BY <1>1, <1>2, Zenon DEF Init, HInv, RefundHeld

\* Messages of x/collection leave tokens and bindings alone.
LEMMA CollectionHeld ==
    ASSUME IInv, HInv, Idle, UNCHANGED <<evmVars, bridgeVars>>,
           \/ \E u \in Users, cl \in Classes, restricted \in BOOLEAN : IssueDenom(u, cl, restricted)
           \/ \E u \in Users, cl \in Classes, v \in Users : TransferDenom(u, cl, v)
           \/ \E u \in Users, y \in NFTUIDs, v \in Users : MintNFT(u, y, v)
           \/ \E u \in Users, y \in NFTUIDs, v \in Receivers : TransferNFT(u, y, v)
           \/ \E u \in Users, y \in NFTUIDs : BurnNFT(u, y, IsConvertedNFT(y))
    PROVE  HInv' /\ DropsWithHalf
<1>1. UNCHANGED <<code, ercOwner, forward, refunding>>
  BY Zenon DEF evmVars, bridgeVars, registryVars, ibcVars
<1>2. nftOwner \in [NFTUIDs -> Holders \cup {None}]
  BY Zenon DEF IInv, TypeOK, AssetsTypeOK, NativeTypeOK
<1>3. CwModuleHoldsNothing'
  BY <1>2, AccountsAssumption, Zenon DEF HInv, CwModuleHoldsNothing, IssueDenom, TransferDenom,
     MintNFT,
     TransferNFT, BurnNFT, Receivers, Holders
<1>. QED
  BY <1>1, <1>3, Zenon DEF HInv, TokensHaveCode, RefundHeld, Idle, DropsWithHalf

\* ERC721 contracts answer for their tokens while they have code.
LEMMA ContractHeld ==
    ASSUME IInv, HInv, Idle, UNCHANGED <<nativeVars, bridgeVars>>,
           \/ \E u \in Users, x \in TokenUIDs, v \in Receivers : ErcTransfer(u, x, v)
           \/ \E u \in Users, x \in TokenUIDs : ErcBurn(u, x)
           \/ \E x \in TokenUIDs, v \in Users : ErcMint(x, v)
           \/ \E x \in TokenUIDs, v \in Receivers \cup {None} : ErcReassign(x, v)
           \/ \E c \in Contracts : SelfDestruct(c)
    PROVE  HInv' /\ DropsWithHalf
<1>1. UNCHANGED <<nftOwner, forward, refunding>>
  BY Zenon DEF nativeVars, bridgeVars, registryVars, ibcVars
<1>2. /\ ercOwner \in [TokenUIDs -> Users \cup {Module, None}]
      /\ code \in [Contracts -> {"absent", "live", "gone"}]
      /\ \A x \in TokenUIDs : x[1] \in Contracts
  BY Zenon DEF IInv, TypeOK, AssetsTypeOK, TokenUIDs
<1>3. ASSUME NEW x \in TokenUIDs, NEW v, code[x[1]] = "live",
             ercOwner' = [ercOwner EXCEPT ![x] = v], UNCHANGED code
      PROVE  TokensHaveCode'
  BY <1>2, <1>3, Zenon DEF HInv, TokensHaveCode
<1>4. ASSUME NEW c \in Contracts, SelfDestruct(c) PROVE TokensHaveCode'
  BY <1>2, <1>4, Zenon DEF HInv, TokensHaveCode, SelfDestruct
<1>5. TokensHaveCode'
  BY <1>3, <1>4, Zenon DEF ErcTransfer, ErcBurn, ErcMint, ErcReassign
<1>. QED
  BY <1>1, <1>5, Zenon DEF HInv, CwModuleHoldsNothing, RefundHeld, DropsWithHalf

\* ICS-721 steps: FailPacket hands the NFTs of a convert packet to the module.
LEMMA IbcHeld ==
    ASSUME IInv, HInv, Idle,
           \/ \E u \in Users, y \in NFTUIDs, burned \in BOOLEAN : SendNFT(u, y, burned)
           \/ \E pkt \in packets : AcknowledgeSuccess(pkt)
           \/ \E pkt \in packets : FailPacket(pkt)
           \/ \E y \in NFTUIDs, v \in Users : ReceiveNFT(y, v)
    PROVE  HInv' /\ DropsWithHalf
<1>1. UNCHANGED <<code, ercOwner, forward>>
  BY Zenon DEF SendNFT, AcknowledgeSuccess, FailPacket, ReceiveNFT, registryVars, bridgeVars,
     convertVars
<1>2. nftOwner \in [NFTUIDs -> Holders \cup {None}] /\ packets \in SUBSET Packets
  BY Zenon DEF IInv, TypeOK, AssetsTypeOK, NativeTypeOK
<1>3. CwModuleHoldsNothing' /\ RefundHeld'
  <2>1. CASE \E u \in Users, y \in NFTUIDs, burned \in BOOLEAN : SendNFT(u, y, burned)
    BY <1>2, <2>1, AccountsAssumption, Zenon
       DEF HInv, CwModuleHoldsNothing, RefundHeld, Idle, SendNFT, Holders
  <2>2. CASE \E pkt \in packets : AcknowledgeSuccess(pkt)
    BY <2>2, Zenon DEF HInv, CwModuleHoldsNothing, RefundHeld, Idle, AcknowledgeSuccess, convertVars
  <2>3. CASE \E pkt \in packets : FailPacket(pkt)
    <3>1. PICK pkt \in packets : FailPacket(pkt)
      BY <2>3, Zenon
    <3>2. pkt.nfts \subseteq NFTUIDs /\ pkt.origin \in Users
      BY <1>2, Zenon DEF Packets
    <3>3. nftOwner' = [y \in NFTUIDs |-> IF y \notin pkt.nfts THEN nftOwner[y]
                                         ELSE IF pkt.convert THEN Module ELSE pkt.origin]
          /\ refunding' = IF pkt.convert THEN pkt ELSE None
      BY <3>1, Zenon DEF FailPacket
    <3>. QED
      BY <3>2, <3>3, AccountsAssumption, Zenon DEF HInv, CwModuleHoldsNothing, RefundHeld
  <2>4. CASE \E y \in NFTUIDs, v \in Users : ReceiveNFT(y, v)
    BY <1>2, <2>4, AccountsAssumption, Zenon
       DEF HInv, CwModuleHoldsNothing, RefundHeld, Idle, ReceiveNFT, bridgeVars, ibcVars
  <2>. QED
    BY <2>1, <2>2, <2>3, <2>4, Zenon
<1>. QED
  BY <1>1, <1>3, Zenon DEF HInv, TokensHaveCode, DropsWithHalf

\* A turn of the refund loop burns the NFT of the binding it drops.
LEMMA RefundHeldStep ==
    ASSUME IInv, HInv, NEW y \in NFTUIDs, NEW evmFails \in BOOLEAN, RefundPacketToken(y, evmFails)
    PROVE  HInv' /\ DropsWithHalf
<1>1. AssetsTypeOK /\ RegistryTypeOK /\ refunding \in Packets /\ y \in refunding.nfts
  BY Zenon DEF IInv, TypeOK, RefundPacketToken
<1>2. nftOwner[y] = Module /\ \A z \in refunding.nfts : nftOwner[z] = Module
  BY <1>1, Zenon DEF HInv, RefundHeld, RefundPacketToken
<1>3. refunding' # None => refunding'.nfts = refunding.nfts \ {y}
  BY <1>1, Zenon DEF RefundPacketToken, Packets
<1>4. CASE RefundSkipped(y, evmFails)
  <2>1. UNCHANGED <<nftOwner, code, ercOwner, forward>>
    BY <1>4, Zenon DEF RefundPacketToken, RefundToken, convertVars
  <2>. QED
    BY <1>2, <1>3, <2>1, Zenon DEF HInv, TokensHaveCode, CwModuleHoldsNothing, RefundHeld,
       DropsWithHalf
<1>5. CASE ~RefundSkipped(y, evmFails)
  <2>. DEFINE x == reverse[y]
              r == GetEvmRefundReceiver(x, y)
  <2>1. x \in TokenUIDs /\ forward[x] = y /\ ercOwner[x] # None
    BY <1>1, <1>5, Zenon DEF RefundSkipped, RegistryTypeOK, IInv, BindingBijection, InverseIndex
  <2>2. /\ ercOwner' = [ercOwner EXCEPT ![x] = IF ercOwner[x] = Module THEN r ELSE ercOwner[x]]
        /\ forward' = [forward EXCEPT ![x] = None]
        /\ nftOwner' = [nftOwner EXCEPT ![y] = None]
        /\ UNCHANGED code
    BY <1>1, <1>2, <1>5, <2>1, Zenon DEF RefundPacketToken, RefundToken, RefundUnbind, RefundBurn,
       AssetsTypeOK, NativeTypeOK
  <2>. HIDE DEF x, r
  <2>3. TokensHaveCode'
    BY <1>1, <2>1, <2>2, Zenon DEF AssetsTypeOK, HInv, TokensHaveCode
  <2>4. CwModuleHoldsNothing' /\ RefundHeld'
    BY <1>1, <1>2, <1>3, <2>2, AccountsAssumption, Zenon
       DEF AssetsTypeOK, NativeTypeOK, HInv, CwModuleHoldsNothing, RefundHeld, Packets, Holders
  <2>5. DropsWithHalf
    BY <1>1, <2>1, <2>2, Zenon DEF RegistryTypeOK, AssetsTypeOK, NativeTypeOK, DropsWithHalf
  <2>. QED
    BY <2>3, <2>4, <2>5, Zenon DEF HInv
<1>. QED
  BY <1>4, <1>5, Zenon

\* convertCosmos2Evm hands out tokens of a contract with code and keeps the
\* bindings of the index it starts from.
LEMMA Cosmos2EvmHeld ==
    ASSUME IInv, HInv, Idle, UNCHANGED refunding,
           NEW u \in Users, NEW c \in Contracts, NEW r \in Receivers,
           NEW b, DOMAIN b \subseteq NFTUIDs, b \in [DOMAIN b -> TokenUIDs], Injective(b),
           \A y \in DOMAIN b : b[y][1] = c,
           NEW fw, NEW rv, ConvertCosmos2Evm(u, b, r, fw, rv),
           code'[c] = "live", \A d \in Contracts : code[d] = "live" => code'[d] = "live"
    PROVE  /\ HInv'
           /\ \A x \in TokenUIDs :
                /\ fw[x] # None => forward'[x] = fw[x]
                /\ x[1] # c => forward'[x] = fw[x] /\ ercOwner'[x] = ercOwner[x]
<1>1. /\ NoBindingConflict(fw, rv, b) /\ forward' = BindForward(fw, b)
      /\ nftOwner' = [y \in NFTUIDs |-> IF y \in DOMAIN b THEN Module ELSE nftOwner[y]]
      /\ ercOwner' = [x \in TokenUIDs |-> IF x \in TokensOf(b) THEN r ELSE ercOwner[x]]
  BY Zenon DEF ConvertCosmos2Evm
<1>2. \A x \in TokensOf(b) : x[1] = c
  BY Zenon DEF TokensOf
<1>3. TokensHaveCode'
  BY <1>1, <1>2, Zenon DEF HInv, TokensHaveCode, TokenUIDs
<1>4. CwModuleHoldsNothing' /\ RefundHeld'
  BY <1>1, AccountsAssumption, Zenon DEF HInv, CwModuleHoldsNothing, RefundHeld, Idle
<1>5. ASSUME NEW x \in TokenUIDs, fw[x] # None PROVE forward'[x] = fw[x]
  <2>1. CASE x \in TokensOf(b)
    <3>1. NftFor(b, x) \in DOMAIN b /\ b[NftFor(b, x)] = x
      BY <2>1, NftForFacts, Zenon
    <3>2. fw[x] = NftFor(b, x)
      BY <1>1, <1>5, <3>1, Zenon DEF NoBindingConflict
    <3>. QED
      BY <1>1, <2>1, <3>2, Zenon DEF BindForward
  <2>2. CASE x \notin TokensOf(b)
    BY <1>1, <2>2, Zenon DEF BindForward
  <2>. QED
    BY <2>1, <2>2, Zenon
<1>6. ASSUME NEW x \in TokenUIDs, x[1] # c PROVE forward'[x] = fw[x] /\ ercOwner'[x] = ercOwner[x]
  BY <1>1, <1>2, <1>6, Zenon DEF BindForward
<1>. QED
  BY <1>3, <1>4, <1>5, <1>6, Zenon DEF HInv

\* MsgConvertNFT, with the contract of the pair or a newly deployed one.
LEMMA ConvertNFTHeld ==
    ASSUME IInv, HInv, Idle, NEW u \in Users, NEW p \in Pairs, NEW named, NEW r \in Receivers,
           ConvertNFT(u, p, named, r) \/ ConvertNFTDeploy(u, p, r), UNCHANGED ibcVars
    PROVE  HInv' /\ DropsWithHalf
<1>1. PICK b \in Batches(p[2], p[1]) : ConvertCosmos2Evm(u, b, r, forward, reverse)
  BY Zenon DEF ConvertNFT, ConvertNFTDeploy
<1>2. p[1] \in Contracts /\ code \in [Contracts -> {"absent", "live", "gone"}] /\ UNCHANGED refunding
  BY PairFacts, Zenon DEF IInv, TypeOK, AssetsTypeOK, ibcVars
<1>3. code'[p[1]] = "live" /\ \A d \in Contracts : code[d] = "live" => code'[d] = "live"
  BY <1>2, Zenon DEF ConvertNFT, LostCode, ConvertNFTDeploy, DeployERC721Contract
<1>4. /\ DOMAIN b \subseteq NFTUIDs /\ b \in [DOMAIN b -> TokenUIDs] /\ Injective(b)
      /\ \A y \in DOMAIN b : y[1] = p[2] /\ b[y][1] = p[1]
  BY BatchFacts, Zenon
<1>5. HInv' /\ \A x \in TokenUIDs : forward[x] # None => forward'[x] = forward[x]
  BY <1>1, <1>2, <1>3, <1>4, Cosmos2EvmHeld
<1>. QED
  BY <1>5, Zenon DEF DropsWithHalf

\* A redeployment drops the bindings of a contract that lost its tokens.
LEMMA ConvertNFTRedeployHeld ==
    ASSUME IInv, HInv, Idle, NEW u \in Users, NEW p \in Pairs, NEW named, NEW c \in Contracts,
           NEW r \in Receivers, ConvertNFTRedeploy(u, p, named, c, r), UNCHANGED ibcVars
    PROVE  HInv' /\ DropsWithHalf
<1>. DEFINE fw == PurgeForward(forward, reverse, p)
            rv == PurgeReverse(forward, reverse, p)
<1>1. PICK b \in Batches(p[2], p[1]) : ConvertCosmos2Evm(u, Rebase(b, c), r, fw, rv)
  BY Zenon DEF ConvertNFTRedeploy
<1>2. /\ p \in tokenPairs /\ erc721Map[c] = None /\ erc721Map[p[1]] # None
      /\ code[p[1]] # "live" /\ code' = [code EXCEPT ![c] = "live"] /\ UNCHANGED refunding
  BY AbsentFacts, Zenon DEF ConvertNFTRedeploy, GetPairByClass, ReplacePair, DeployERC721Contract,
     LostCode,
     ibcVars
<1>3. /\ code \in [Contracts -> {"absent", "live", "gone"}]
      /\ \A x \in TokenUIDs : x[1] \in Contracts
  BY Zenon DEF IInv, TypeOK, AssetsTypeOK, TokenUIDs
<1>4. \A x \in TokenUIDs : fw[x] = IF x[1] = p[1] THEN None ELSE forward[x]
  BY <1>2, PurgeFacts, Zenon
<1>. HIDE DEF fw, rv
<1>5. code'[c] = "live" /\ \A e \in Contracts : code[e] = "live" => code'[e] = "live"
  BY <1>2, <1>3, Zenon
<1>6. /\ HInv'
      /\ \A x \in TokenUIDs :
           /\ fw[x] # None => forward'[x] = fw[x]
           /\ x[1] # c => forward'[x] = fw[x] /\ ercOwner'[x] = ercOwner[x]
  <2>. DEFINE d == Rebase(b, c)
  <2>1. /\ DOMAIN d = DOMAIN b /\ DOMAIN b \subseteq NFTUIDs
        /\ d \in [DOMAIN b -> TokenUIDs] /\ Injective(d)
        /\ \A y \in DOMAIN b : y[1] = p[2] /\ d[y][1] = c
    BY RebaseFacts
  <2>2. ConvertCosmos2Evm(u, d, r, fw, rv) /\ UNCHANGED refunding
    BY <1>1, <1>2, Zenon
  <2>. HIDE DEF d
  <2>3. /\ DOMAIN d \subseteq NFTUIDs /\ d \in [DOMAIN d -> TokenUIDs] /\ Injective(d)
        /\ \A y \in DOMAIN d : d[y][1] = c
    BY <2>1, Zenon
  <2>. QED
    BY <1>5, <2>2, <2>3, Cosmos2EvmHeld
<1>7. ASSUME NEW x \in TokenUIDs, forward[x] # None, forward'[x] # forward[x]
      PROVE  forward'[x] = None /\ ercOwner'[x] = None
  <2>1. x[1] = p[1] /\ p[1] # c
    BY <1>2, <1>4, <1>6, <1>7, Zenon
  <2>2. ercOwner[x] = None
    BY <1>2, <2>1, Zenon DEF HInv, TokensHaveCode
  <2>. QED
    BY <1>4, <1>6, <2>1, <2>2, Zenon
<1>. QED
  BY <1>6, <1>7, Zenon DEF DropsWithHalf

\* convertEvm2Cosmos: the binding of a voucher goes with its token, any other
\* stays.
LEMMA Evm2CosmosHeld ==
    ASSUME IInv, HInv, Idle, UNCHANGED <<code, refunding>>,
           NEW u \in Users, NEW p \in Pairs, NEW b \in Batches(p[2], p[1]), NEW d,
           NEW dest \in Users \cup {Module, Escrow, None},
           Evm2CosmosAllowed(u, p, b, d), Evm2CosmosMoves(p, b, dest),
           IF IsIBCDenom(p[2]) THEN DeleteVoucherBindingKeys(b) ELSE Evm2CosmosBindings(b)
    PROVE  HInv' /\ DropsWithHalf
<1>1. /\ DOMAIN b \subseteq NFTUIDs /\ b \in [DOMAIN b -> TokenUIDs] /\ Injective(b)
      /\ \A y \in DOMAIN b : y[1] = p[2] /\ b[y][1] = p[1]
  BY BatchFacts, Zenon
<1>2. /\ nftOwner' = [y \in NFTUIDs |-> IF y \in DOMAIN b THEN dest ELSE nftOwner[y]]
      /\ ercOwner' = [x \in TokenUIDs |->
                        IF x \notin TokensOf(b) THEN ercOwner[x]
                        ELSE IF IsIBCDenom(p[2]) THEN None ELSE Module]
      /\ code[p[1]] = "live"
  BY Zenon DEF Evm2CosmosMoves, Evm2CosmosAllowed
<1>3. TokensHaveCode'
  <2>1. \A x \in TokensOf(b) : x[1] = p[1]
    BY <1>1 DEF TokensOf
  <2>. QED
    BY <1>2, <2>1, Zenon DEF HInv, TokensHaveCode
<1>4. CwModuleHoldsNothing' /\ RefundHeld'
  BY <1>2, AccountsAssumption, Zenon DEF HInv, CwModuleHoldsNothing, RefundHeld, Idle, Holders
<1>5. CASE IsIBCDenom(p[2])
  <2>1. forward' = [x \in TokenUIDs |-> IF x \in TokensOf(b) THEN None ELSE forward[x]]
    BY <1>5, Zenon DEF DeleteVoucherBindingKeys
  <2>. QED
    BY <1>2, <1>3, <1>4, <1>5, <2>1, Zenon DEF HInv, DropsWithHalf
<1>6. CASE ~IsIBCDenom(p[2])
  <2>1. forward' = BindForward(forward, b) /\ NoBindingConflict(forward, reverse, b)
    BY <1>6, Zenon DEF Evm2CosmosBindings, Evm2CosmosAllowed
  <2>2. ASSUME NEW x \in TokenUIDs, forward[x] # None PROVE forward'[x] = forward[x]
    <3>1. CASE x \in TokensOf(b)
      <4>1. NftFor(b, x) \in DOMAIN b /\ b[NftFor(b, x)] = x
        BY <1>1, <3>1, NftForFacts, Zenon
      <4>2. forward[x] = NftFor(b, x)
        BY <2>1, <2>2, <4>1, Zenon DEF NoBindingConflict
      <4>. QED
        BY <2>1, <3>1, <4>2, Zenon DEF BindForward
    <3>2. CASE x \notin TokensOf(b)
      BY <2>1, <3>2, Zenon DEF BindForward
    <3>. QED
      BY <3>1, <3>2, Zenon
  <2>. QED
    BY <1>3, <1>4, <2>2, Zenon DEF HInv, DropsWithHalf
<1>. QED
  BY <1>5, <1>6, Zenon

\* Every step keeps the tokens with their contracts and drops a binding only
\* with one of its halves.
LEMMA NextHeld == IInv /\ HInv /\ [Next]_vars => HInv' /\ (DropsWithHalf \/ UNCHANGED vars)
<1>. SUFFICES ASSUME IInv, HInv, [Next]_vars PROVE HInv' /\ (DropsWithHalf \/ UNCHANGED vars)
  BY Zenon
<1>1. ASSUME Idle, NEW u \in Users, NEW p \in Pairs, NEW named, NEW r \in Receivers,
             ConvertNFT(u, p, named, r) \/ ConvertNFTDeploy(u, p, r), UNCHANGED ibcVars
      PROVE  HInv' /\ DropsWithHalf
  BY <1>1, ConvertNFTHeld, Zenon
<1>2. ASSUME Idle, NEW u \in Users, NEW p \in Pairs, NEW named, NEW c \in Contracts, NEW r \in Receivers,
             ConvertNFTRedeploy(u, p, named, c, r), UNCHANGED ibcVars
      PROVE  HInv' /\ DropsWithHalf
  BY <1>2, ConvertNFTRedeployHeld, Zenon
<1>3. ASSUME Idle, NEW u \in Users, NEW p \in Pairs, NEW restricted \in BOOLEAN, NEW r \in Receivers,
             ConvertERC721(u, p, restricted, r), UNCHANGED ibcVars
      PROVE  HInv' /\ DropsWithHalf
  <2>1. PICK b \in Batches(p[2], p[1]) :
           /\ Evm2CosmosAllowed(u, p, b, denom'[p[2]])
           /\ Evm2CosmosMoves(p, b, r)
           /\ IF IsIBCDenom(p[2]) THEN DeleteVoucherBindingKeys(b) ELSE Evm2CosmosBindings(b)
    BY <1>3, Zenon DEF ConvertERC721
  <2>2. UNCHANGED <<code, refunding>> /\ r \in Users \cup {Module, Escrow, None}
    BY <1>3, Zenon DEF ConvertERC721, ibcVars, Receivers
  <2>. QED
    BY <1>3, <2>1, <2>2, Evm2CosmosHeld, Zenon
<1>4. ASSUME Idle, NEW u \in Users, NEW p \in Pairs, NEW restricted \in BOOLEAN, NEW burned \in BOOLEAN,
             SendERC721(u, p, restricted, burned)
      PROVE  HInv' /\ DropsWithHalf
  <2>. DEFINE dest == IF burned THEN None ELSE Escrow
  <2>1. PICK b \in Batches(p[2], p[1]) : TransferERC721(u, p, b, dest)
    BY <1>4, Zenon DEF SendERC721
  <2>2. /\ Evm2CosmosAllowed(u, p, b, denom'[p[2]])
        /\ Evm2CosmosMoves(p, b, dest)
        /\ IF IsIBCDenom(p[2]) THEN DeleteVoucherBindingKeys(b) ELSE Evm2CosmosBindings(b)
        /\ UNCHANGED <<code, refunding>> /\ dest \in Users \cup {Module, Escrow, None}
    BY <1>4, <2>1, Zenon DEF SendERC721, TransferERC721
  <2>. HIDE DEF dest
  <2>. QED
    BY <1>4, <2>2, Evm2CosmosHeld, Zenon
<1>5. ASSUME Idle, NEW enable \in BOOLEAN, NEW hook \in BOOLEAN, UpdateParams(enable, hook),
             UNCHANGED ibcVars
      PROVE  HInv' /\ DropsWithHalf
  BY <1>5, Zenon DEF UpdateParams, ibcVars, HInv, TokensHaveCode, CwModuleHoldsNothing, RefundHeld,
     DropsWithHalf
<1>6. ASSUME NEW y \in NFTUIDs, NEW evmFails \in BOOLEAN, RefundPacketToken(y, evmFails)
      PROVE  HInv' /\ DropsWithHalf
  BY <1>6, RefundHeldStep, Zenon
<1>7. CASE UNCHANGED vars
  BY <1>7, Zenon DEF vars, HInv, TokensHaveCode, CwModuleHoldsNothing, RefundHeld
<1>. QED
  BY <1>1, <1>2, <1>3, <1>4, <1>5, <1>6, <1>7, CollectionHeld, ContractHeld, IbcHeld, Zenon DEF Next

\* HInv holds of every behaviour.
THEOREM TokensStayWithTheirContracts == Spec => []HInv
BY InitHInv, NextHeld, Invariance, PTL DEF Spec

\* A user who holds the ERC721 of a bound NFT can always take it back through
\* ConvertERC721: the module holds the NFT, the pair is found and no binding
\* check refuses the pair of ids.
THEOREM HoldersCanConvertBack == Spec => []HolderCanConvertBack
<1>1. IInv /\ HInv => HolderCanConvertBack
  <2>. SUFFICES ASSUME IInv, HInv, NEW x \in TokenUIDs, NEW u \in Users,
                       forward[x] # None, x[1] \notin Rogue, ercOwner[x] = u
                PROVE  LET y == forward[x]
                           p == <<x[1], y[1]>>
                       IN  /\ GetPairByEVM(x[1]) = p
                           /\ Evm2CosmosAllowed(u, p, [z \in {y} |-> x], denom[y[1]])
    BY Zenon DEF HolderCanConvertBack
  <2>. DEFINE y == forward[x]
              p == <<x[1], y[1]>>
              b == [z \in {y} |-> x]
  <2>1. /\ y \in NFTUIDs /\ reverse[y] = x /\ x # None
    BY AbsentFacts DEF IInv, TypeOK, RegistryTypeOK, BindingBijection, InverseIndex
  <2>2. p \in tokenPairs /\ erc721Map[x[1]] = p
    BY Zenon DEF IInv, PerTokenStateHasPair, PairMapsAgree
  <2>3. code[x[1]] = "live"
    BY AccountsAssumption, Zenon DEF HInv, TokensHaveCode, Holders
  <2>4. nftOwner[y] = Module
    <3>1. nftOwner[y] \in Holders \ {CwModule}
      BY <2>1, Zenon DEF IInv, TypeOK, AssetsTypeOK, NativeTypeOK, BoundNftExists, HInv,
         CwModuleHoldsNothing
    <3>2. nftOwner[y] \notin Users \cup {Escrow}
      BY <2>3, AccountsAssumption, Zenon DEF IInv, CirculatingNftIsBacked
    <3>. QED
      BY <3>1, <3>2, Zenon DEF Holders
  <2>5. DOMAIN b = {y} /\ b[y] = x
    BY Zenon
  <2>. HIDE DEF b, y
  <2>6. GetPairByEVM(x[1]) = p
    BY <2>2, Zenon DEF GetPairByEVM
  <2>7. Evm2CosmosAllowed(u, p, b, denom[y[1]])
    BY <2>1, <2>3, <2>4, <2>5, Zenon DEF y, Evm2CosmosAllowed, NoMappingConflict, NoBindingConflict
  <2>. QED
    BY <2>6, <2>7, Zenon DEF y, b
<1>. QED
  BY <1>1, Invariance, TokensStayWithTheirContracts, PTL

\* No conversion, redeployment, refund or settlement redirects a binding, and
\* none drops it while both of its halves exist.
THEOREM BindingsGoWithTheirHalves == Spec => BindingDroppedWithItsHalf
<1>1. IInv /\ HInv /\ [Next]_vars
        => [\A x \in TokenUIDs :
              forward[x] # None /\ forward'[x] # forward[x]
                => /\ forward'[x] = None
                   /\ nftOwner'[forward[x]] = None \/ ercOwner'[x] = None]_vars
  BY NextHeld, Zenon DEF DropsWithHalf
<1>. QED
  BY <1>1, Invariance, TokensStayWithTheirContracts, PTL DEF Spec, BindingDroppedWithItsHalf

-----------------------------------------------------------------------------
(* Packets in flight and their refund records.  FInv is inductive beside     *)
(* IInv and HInv when native ids and token ids are kept apart.               *)

\* An NFT that left in escrow stays there while its packet is in flight.
PacketsInEscrow ==
    \A pkt \in packets : ~pkt.burned => \A y \in pkt.nfts : nftOwner[y] = Escrow

\* No NFT is in escrow for two packets.
PacketsDisjoint ==
    \A pkt, other \in packets :
        ~pkt.burned /\ ~other.burned /\ pkt # other => pkt.nfts \cap other.nfts = {}

\* The refund record of a bound NFT names the sender of the packet it is in.
SenderRecorded(pkt) ==
    \A y \in pkt.nfts : reverse[y] # None => refund[<<reverse[y][1], y[2]>>] = pkt.origin

RefundsRecorded ==
    /\ \A pkt \in packets : pkt.convert /\ ~pkt.burned => SenderRecorded(pkt)
    /\ refunding # None => SenderRecorded(refunding)

FInv == PacketsInEscrow /\ PacketsDisjoint /\ RefundsRecorded

\* Nothing happens to an NFT in escrow, except that a purge may drop its
\* binding; while the binding lasts, so does the refund record.
EscrowUntouched(y) ==
    /\ nftOwner'[y] = Escrow
    /\ reverse'[y] # None =>
         /\ reverse'[y] = reverse[y]
         /\ refund'[<<reverse[y][1], y[2]>>] = refund[<<reverse[y][1], y[2]>>]

\* A step that sends and fails no packet.
LEMMA QuietStep ==
    ASSUME FInv, Idle, refunding' = None, packets' \subseteq packets,
           \A y \in NFTUIDs : nftOwner[y] = Escrow /\ InFlight(y) => EscrowUntouched(y),
           packets \in SUBSET Packets
    PROVE  FInv'
<1>1. \A pkt \in packets : pkt.nfts \subseteq NFTUIDs /\ \A y \in pkt.nfts : InFlight(y)
  BY Zenon DEF Packets, InFlight
<1>2. \A pkt \in packets : ~pkt.burned => \A y \in pkt.nfts : EscrowUntouched(y)
  BY <1>1, Zenon DEF FInv, PacketsInEscrow
<1>. QED
  BY <1>2, ZenonT(40) DEF FInv, PacketsInEscrow, PacketsDisjoint, RefundsRecorded, SenderRecorded,
     EscrowUntouched

\* A step that sends one packet of NFTs that were not in escrow.
LEMMA SendStep ==
    ASSUME FInv, Idle, refunding' = None, NEW pkt \in Packets, packets' = packets \cup {pkt},
           packets \in SUBSET Packets,
           \A y \in NFTUIDs : nftOwner[y] = Escrow => EscrowUntouched(y),
           \A y \in pkt.nfts : nftOwner[y] # Escrow,
           ~pkt.burned => \A y \in pkt.nfts : nftOwner'[y] = Escrow,
           pkt.convert /\ ~pkt.burned => SenderRecorded(pkt)'
    PROVE  FInv'
<1>1. \A q \in packets : q.nfts \subseteq NFTUIDs
  BY Zenon DEF Packets
<1>2. \A q \in packets : ~q.burned => \A y \in q.nfts : nftOwner[y] = Escrow /\ EscrowUntouched(y)
  BY <1>1, Zenon DEF FInv, PacketsInEscrow
<1>3. PacketsInEscrow'
  BY <1>2, Zenon DEF PacketsInEscrow, EscrowUntouched
<1>4. PacketsDisjoint'
  BY <1>2, Zenon DEF FInv, PacketsDisjoint
<1>5. RefundsRecorded'
  <2>1. ASSUME NEW q \in packets, q.convert, ~q.burned PROVE SenderRecorded(q)'
    <3>1. SenderRecorded(q) /\ \A y \in q.nfts : EscrowUntouched(y)
      BY <1>2, <2>1, Zenon DEF FInv, RefundsRecorded
    <3>. QED
      BY <3>1, Zenon DEF SenderRecorded, EscrowUntouched
  <2>. QED
    BY <2>1, Zenon DEF RefundsRecorded
<1>. QED
  BY <1>3, <1>4, <1>5, Zenon DEF FInv

\* A binding's refund key is its own: no other NFT of the index has it.
LEMMA RefundKeyOwn ==
    ASSUME IInv, NftIds \cap TokenIds = {},
           NEW y \in NFTUIDs, reverse[y] # None,
           NEW z \in NFTUIDs, NEW x \in TokenUIDs, erc721Map[x[1]] \in {None, <<x[1], z[1]>>}, z # y
    PROVE  /\ reverse[y] \in TokenUIDs
           /\ <<reverse[y][1], y[2]>> \in RefundKeys
           /\ <<reverse[y][1], y[2]>> # x
           /\ <<reverse[y][1], y[2]>> # <<x[1], z[2]>>
<1>1. reverse[y] \in TokenUIDs /\ forward[reverse[y]] = y
  BY DEF IInv, TypeOK, RegistryTypeOK, BindingBijection, InverseIndex
<1>2. <<reverse[y][1], y[1]>> \in tokenPairs
  BY <1>1, AbsentFacts, Zenon DEF IInv, PerTokenStateHasPair
<1>3. <<reverse[y][1], y[2]>> \in RefundKeys
  BY <1>1, Zenon DEF RefundKeys, TokenUIDs, NFTUIDs
<1>4. y[2] \in NftIds /\ x[2] \in TokenIds
  BY Zenon DEF NFTUIDs, TokenUIDs
<1>5. <<reverse[y][1], y[2]>> # x
  BY <1>4
<1>6. <<reverse[y][1], y[2]>> # <<x[1], z[2]>>
  <2>. SUFFICES ASSUME reverse[y][1] = x[1], y[2] = z[2] PROVE FALSE
    BY Zenon
  <2>1. erc721Map[x[1]] = <<x[1], y[1]>> /\ <<x[1], y[1]>> # None
    BY <1>2, AbsentFacts DEF IInv, PairMapsAgree, TypeOK, RegistryTypeOK
  <2>2. y[1] = z[1]
    BY <2>1
  <2>. QED
    BY <2>2 DEF NFTUIDs
<1>. QED
  BY <1>1, <1>3, <1>5, <1>6, Zenon

\* Messages of x/collection and of contracts, and plain ICS-721 steps.
LEMMA LedgerFlight ==
    ASSUME IInv, HInv, FInv, Idle,
           \/ /\ UNCHANGED <<evmVars, bridgeVars>>
              /\ \/ \E u \in Users, cl \in Classes, restricted \in BOOLEAN : IssueDenom(u, cl, restricted)
                 \/ \E u \in Users, cl \in Classes, v \in Users : TransferDenom(u, cl, v)
                 \/ \E u \in Users, y \in NFTUIDs, v \in Users : MintNFT(u, y, v)
                 \/ \E u \in Users, y \in NFTUIDs, v \in Receivers : TransferNFT(u, y, v)
                 \/ \E u \in Users, y \in NFTUIDs : BurnNFT(u, y, IsConvertedNFT(y))
           \/ UNCHANGED <<nativeVars, bridgeVars>>
           \/ \E pkt \in packets : AcknowledgeSuccess(pkt)
           \/ \E y \in NFTUIDs, v \in Users : ReceiveNFT(y, v)
    PROVE  FInv'
<1>1. nftOwner \in [NFTUIDs -> Holders \cup {None}] /\ packets \in SUBSET Packets
  BY Zenon DEF IInv, TypeOK, AssetsTypeOK, NativeTypeOK
<1>2. UNCHANGED <<reverse, refund>> /\ packets' \subseteq packets /\ refunding' = None
  BY Zenon DEF bridgeVars, registryVars, ibcVars, AcknowledgeSuccess, convertVars, ReceiveNFT, Idle
<1>3. \A y \in NFTUIDs : nftOwner[y] = Escrow /\ InFlight(y) => nftOwner'[y] = Escrow
  BY <1>1, AccountsAssumption, Zenon DEF IssueDenom, TransferDenom, MintNFT, TransferNFT, BurnNFT,
     ReceiveNFT,
     AcknowledgeSuccess, nativeVars, convertVars, Holders
<1>4. \A y \in NFTUIDs : nftOwner[y] = Escrow /\ InFlight(y) => EscrowUntouched(y)
  BY <1>2, <1>3, Zenon DEF EscrowUntouched
<1>. QED
  BY <1>1, <1>2, <1>4, QuietStep, Zenon

\* A plain nft-transfer.
LEMMA SendNFTFlight ==
    ASSUME IInv, HInv, FInv, Idle, NEW u \in Users, NEW y \in NFTUIDs, NEW burned \in BOOLEAN,
           SendNFT(u, y, burned)
    PROVE  FInv'
<1>. DEFINE pkt == [nfts |-> {y}, convert |-> FALSE, origin |-> u, burned |-> burned]
<1>1. nftOwner \in [NFTUIDs -> Holders \cup {None}] /\ packets \in SUBSET Packets
  BY Zenon DEF IInv, TypeOK, AssetsTypeOK, NativeTypeOK
<1>2. /\ nftOwner[y] = u /\ packets' = packets \cup {pkt} /\ refunding' = None
      /\ nftOwner' = [nftOwner EXCEPT ![y] = IF burned THEN None ELSE Escrow]
      /\ UNCHANGED <<reverse, refund>>
  BY Zenon DEF SendNFT, registryVars, Idle
<1>3. pkt \in Packets /\ pkt.nfts = {y} /\ ~pkt.convert /\ pkt.burned = burned
  BY Zenon DEF Packets
<1>. HIDE DEF pkt
<1>4. \A z \in NFTUIDs : nftOwner[z] = Escrow => EscrowUntouched(z)
  BY <1>1, <1>2, AccountsAssumption, Zenon DEF EscrowUntouched
<1>5. \A z \in pkt.nfts : nftOwner[z] # Escrow
  BY <1>2, <1>3, AccountsAssumption, Zenon
<1>6. ~pkt.burned => \A z \in pkt.nfts : nftOwner'[z] = Escrow
  BY <1>1, <1>2, <1>3, Zenon
<1>. QED
  BY <1>1, <1>2, <1>3, <1>4, <1>5, <1>6, SendStep, Zenon

\* An error acknowledgement or a timeout: the loop starts with the records of
\* the packet.
LEMMA FailPacketFlight ==
    ASSUME IInv, HInv, FInv, Idle, NEW pkt \in packets, FailPacket(pkt)
    PROVE  FInv'
<1>1. /\ nftOwner' = [y \in NFTUIDs |-> IF y \notin pkt.nfts THEN nftOwner[y]
                                       ELSE IF pkt.convert THEN Module ELSE pkt.origin]
      /\ packets' = packets \ {pkt}
      /\ refunding' = IF pkt.convert THEN pkt ELSE None
      /\ UNCHANGED <<reverse, refund>>
      /\ \A y \in pkt.nfts : nftOwner[y] = IF pkt.burned THEN None ELSE Escrow
  BY Zenon DEF FailPacket, registryVars
<1>2. packets \in SUBSET Packets /\ pkt \in Packets /\ pkt.nfts \subseteq NFTUIDs /\ pkt.burned \in BOOLEAN
  BY Zenon DEF IInv, TypeOK, Packets
<1>3. PacketsInEscrow'
  <2>. SUFFICES ASSUME NEW q \in packets, q # pkt, ~q.burned, NEW y \in q.nfts
                PROVE  nftOwner'[y] = Escrow
    BY <1>1, Zenon DEF PacketsInEscrow
  <2>1. nftOwner[y] = Escrow /\ y \in NFTUIDs
    BY <1>2, Zenon DEF FInv, PacketsInEscrow, Packets
  <2>2. y \notin pkt.nfts
    <3>1. CASE pkt.burned
      BY <1>1, <2>1, <3>1, AccountsAssumption, Zenon DEF Holders
    <3>2. CASE ~pkt.burned
      BY <3>2, Zenon DEF FInv, PacketsDisjoint
    <3>. QED
      BY <3>1, <3>2, Zenon
  <2>. QED
    BY <1>1, <2>1, <2>2, Zenon
<1>4. PacketsDisjoint'
  BY <1>1, Zenon DEF FInv, PacketsDisjoint
<1>5. RefundsRecorded'
  <2>1. ASSUME pkt.convert PROVE SenderRecorded(pkt)
    <3>1. CASE pkt.burned
      <4>1. \A y \in pkt.nfts : reverse[y] = None
        BY <1>1, <1>2, <3>1, Zenon DEF IInv, BoundNftExists
      <4>. QED
        BY <4>1, Zenon DEF SenderRecorded
    <3>2. CASE ~pkt.burned
      BY <2>1, <3>2, Zenon DEF FInv, RefundsRecorded
    <3>. QED
      BY <3>1, <3>2, Zenon
  <2>. QED
    BY <1>1, <2>1, Zenon DEF FInv, RefundsRecorded, SenderRecorded
<1>. QED
  BY <1>3, <1>4, <1>5, Zenon DEF FInv

\* A turn of the refund loop deletes the records of its own token alone.
LEMMA RefundFlight ==
    ASSUME IInv, HInv, FInv, NftIds \cap TokenIds = {},
           NEW y \in NFTUIDs, NEW evmFails \in BOOLEAN, RefundPacketToken(y, evmFails)
    PROVE  FInv'
<1>1. AssetsTypeOK /\ RegistryTypeOK /\ refunding \in Packets /\ y \in refunding.nfts
      /\ packets \in SUBSET Packets /\ UNCHANGED packets
  BY Zenon DEF IInv, TypeOK, RefundPacketToken
<1>2. \A z \in refunding.nfts : nftOwner[z] = Module /\ z \in NFTUIDs
  BY <1>1, Zenon DEF HInv, RefundHeld, RefundPacketToken, Packets
<1>3. refunding' # None => refunding'.nfts = refunding.nfts \ {y} /\ refunding'.origin = refunding.origin
  BY <1>1, Zenon DEF RefundPacketToken, Packets
<1>4. refunding # None
  BY Zenon DEF RefundPacketToken
<1>5. \A z \in NFTUIDs : z # y =>
         /\ nftOwner'[z] = nftOwner[z] /\ reverse'[z] = reverse[z]
         /\ reverse[z] # None => refund'[<<reverse[z][1], z[2]>>] = refund[<<reverse[z][1], z[2]>>]
  <2>1. CASE RefundSkipped(y, evmFails)
    BY <2>1, Zenon DEF RefundPacketToken, RefundToken, convertVars
  <2>2. CASE ~RefundSkipped(y, evmFails)
    <3>. DEFINE x == reverse[y]
    <3>1. x \in TokenUIDs /\ forward[x] = y /\ erc721Map[x[1]] = <<x[1], y[1]>>
      <4>1. x \in TokenUIDs /\ forward[x] = y /\ y # None
        <5>1. x \in TokenUIDs
          BY <1>1, <2>2, Zenon DEF RefundSkipped, RegistryTypeOK
        <5>2. forward[x] = y
          BY <5>1, Zenon DEF IInv, BindingBijection, InverseIndex
        <5>. QED
          BY <5>1, <5>2, AbsentFacts, Zenon
      <4>2. <<x[1], y[1]>> \in tokenPairs
        BY <4>1, Zenon DEF IInv, PerTokenStateHasPair
      <4>. QED
        BY <4>1, <4>2, Zenon DEF IInv, PairMapsAgree
    <3>2. /\ refund' = [refund EXCEPT ![<<x[1], y[2]>>] = None, ![x] = None]
          /\ reverse' = [reverse EXCEPT ![y] = None]
          /\ nftOwner' = [nftOwner EXCEPT ![y] = IF @ = Module /\ ~FALSE THEN None ELSE @]
      BY <2>2, Zenon DEF RefundPacketToken, RefundToken, RefundUnbind, RefundBurn
    <3>. HIDE DEF x
    <3>3. \A z \in NFTUIDs : z # y => nftOwner'[z] = nftOwner[z] /\ reverse'[z] = reverse[z]
      BY <1>1, <3>2, Zenon DEF AssetsTypeOK, NativeTypeOK, RegistryTypeOK
    <3>4. ASSUME NEW z \in NFTUIDs, z # y, reverse[z] # None
          PROVE  refund'[<<reverse[z][1], z[2]>>] = refund[<<reverse[z][1], z[2]>>]
      <4>1. /\ <<reverse[z][1], z[2]>> \in RefundKeys
            /\ <<reverse[z][1], z[2]>> # x /\ <<reverse[z][1], z[2]>> # <<x[1], y[2]>>
        BY <3>1, <3>4, RefundKeyOwn, Zenon
      <4>. QED
        BY <1>1, <3>2, <4>1, Zenon DEF RegistryTypeOK
    <3>. QED
      BY <3>3, <3>4, Zenon
  <2>. QED
    BY <2>1, <2>2, Zenon
<1>6. \A q \in packets : ~q.burned => \A z \in q.nfts : z \in NFTUIDs /\ z # y /\ nftOwner[z] = Escrow
  BY <1>1, <1>2, AccountsAssumption, Zenon DEF FInv, PacketsInEscrow, Packets
<1>7. PacketsInEscrow' /\ PacketsDisjoint'
  BY <1>1, <1>5, <1>6, Zenon DEF FInv, PacketsInEscrow, PacketsDisjoint
<1>8. RefundsRecorded'
  <2>1. ASSUME NEW q \in packets, q.convert, ~q.burned PROVE SenderRecorded(q)'
    BY <1>5, <1>6, <2>1, Zenon DEF FInv, RefundsRecorded, SenderRecorded
  <2>2. ASSUME refunding' # None PROVE SenderRecorded(refunding)'
    <3>1. SenderRecorded(refunding)
      BY <1>4, Zenon DEF FInv, RefundsRecorded
    <3>2. \A z \in refunding'.nfts : z \in refunding.nfts /\ z # y /\ z \in NFTUIDs
      BY <1>2, <1>3, <2>2, Zenon
    <3>3. refunding'.origin = refunding.origin
      BY <1>3, <2>2, Zenon
    <3>. QED
      BY <1>5, <3>1, <3>2, <3>3, Zenon DEF SenderRecorded
  <2>. QED
    BY <1>1, <2>1, <2>2, Zenon DEF RefundsRecorded
<1>. QED
  BY <1>7, <1>8, Zenon DEF FInv

\* MsgConvertNFT without a purge.
LEMMA ConvertNFTFlight ==
    ASSUME IInv, HInv, FInv, Idle, NEW u \in Users, NEW p \in Pairs, NEW named, NEW r \in Receivers,
           ConvertNFT(u, p, named, r) \/ ConvertNFTDeploy(u, p, r), UNCHANGED ibcVars
    PROVE  FInv'
<1>1. PICK b \in Batches(p[2], p[1]) : ConvertCosmos2Evm(u, b, r, forward, reverse)
  BY Zenon DEF ConvertNFT, ConvertNFTDeploy
<1>2. UNCHANGED <<refund, packets>> /\ refunding' = None /\ packets \in SUBSET Packets
  BY Zenon DEF ConvertNFT, ConvertNFTDeploy, ibcVars, Idle, IInv, TypeOK
<1>3. /\ \A y \in DOMAIN b : nftOwner[y] = u
      /\ nftOwner' = [y \in NFTUIDs |-> IF y \in DOMAIN b THEN Module ELSE nftOwner[y]]
      /\ reverse' = [y \in NFTUIDs |-> IF y \in DOMAIN b THEN b[y] ELSE reverse[y]]
  BY <1>1, Zenon DEF ConvertCosmos2Evm, BindReverse
<1>4. \A y \in NFTUIDs : nftOwner[y] = Escrow => EscrowUntouched(y)
  BY <1>2, <1>3, AccountsAssumption, Zenon DEF EscrowUntouched
<1>. QED
  BY <1>2, <1>4, QuietStep, Zenon

\* A redeployment purges bindings and refund records of one pair together.
LEMMA ConvertNFTRedeployFlight ==
    ASSUME IInv, HInv, FInv, Idle, NEW u \in Users, NEW p \in Pairs, NEW named, NEW c \in Contracts,
           NEW r \in Receivers, ConvertNFTRedeploy(u, p, named, c, r), UNCHANGED ibcVars
    PROVE  FInv'
<1>. DEFINE fw == PurgeForward(forward, reverse, p)
            rv == PurgeReverse(forward, reverse, p)
<1>1. PICK b \in Batches(p[2], p[1]) : ConvertCosmos2Evm(u, Rebase(b, c), r, fw, rv)
  BY Zenon DEF ConvertNFTRedeploy
<1>2. p \in tokenPairs /\ refund' = PurgeRefund(p) /\ packets' = packets /\ refunding' = None
      /\ packets \in SUBSET Packets
  BY AbsentFacts, Zenon DEF ConvertNFTRedeploy, GetPairByClass, ibcVars, Idle, IInv, TypeOK
<1>3. \A y \in NFTUIDs : rv[y] = IF y[1] = p[2] THEN None ELSE reverse[y]
  BY <1>2, PurgeFacts, Zenon
<1>4. DOMAIN Rebase(b, c) = DOMAIN b
  BY Zenon DEF Rebase
<1>5. /\ \A y \in DOMAIN b : nftOwner[y] = u
      /\ nftOwner' = [y \in NFTUIDs |-> IF y \in DOMAIN b THEN Module ELSE nftOwner[y]]
      /\ \A y \in NFTUIDs : y \notin DOMAIN b => reverse'[y] = rv[y]
  BY <1>1, <1>4, Zenon DEF ConvertCosmos2Evm, BindReverse
<1>. HIDE DEF fw, rv
<1>6. ASSUME NEW y \in NFTUIDs, nftOwner[y] = Escrow PROVE EscrowUntouched(y)
  <2>1. y \notin DOMAIN b /\ nftOwner'[y] = Escrow /\ reverse'[y] = rv[y]
    BY <1>5, <1>6, AccountsAssumption, Zenon
  <2>2. ASSUME reverse'[y] # None
        PROVE  /\ reverse'[y] = reverse[y]
               /\ refund'[<<reverse[y][1], y[2]>>] = refund[<<reverse[y][1], y[2]>>]
    <3>1. y[1] # p[2] /\ reverse'[y] = reverse[y] /\ reverse[y] # None
      BY <1>3, <2>1, <2>2, Zenon
    <3>2. reverse[y] \in TokenUIDs /\ forward[reverse[y]] = y
      BY <3>1 DEF IInv, TypeOK, RegistryTypeOK, BindingBijection, InverseIndex
    <3>3. <<reverse[y][1], y[1]>> \in tokenPairs
      BY <3>2, AbsentFacts, Zenon DEF IInv, PerTokenStateHasPair
    <3>4. reverse[y][1] # p[1]
      <4>1. erc721Map[p[1]] = p /\ erc721Map[reverse[y][1]] = <<reverse[y][1], y[1]>>
        BY <1>2, <3>3, Zenon DEF IInv, PairMapsAgree
      <4>2. ASSUME reverse[y][1] = p[1] PROVE FALSE
        <5>1. p = <<reverse[y][1], y[1]>>
          BY <4>1, <4>2, Zenon
        <5>2. p[2] = y[1]
          BY <5>1, Zenon DEF Pairs
        <5>. QED
          BY <3>1, <5>2, Zenon
      <4>. QED
        BY <4>2, Zenon
    <3>5. <<reverse[y][1], y[2]>> \in RefundKeys
      BY <3>2, Zenon DEF RefundKeys, TokenUIDs, NFTUIDs
    <3>. QED
      BY <1>2, <3>1, <3>4, <3>5, Zenon DEF PurgeRefund
  <2>. QED
    BY <2>1, <2>2, Zenon DEF EscrowUntouched
<1>. QED
  BY <1>2, <1>6, QuietStep, Zenon

\* convertEvm2Cosmos writes and deletes the refund records of its own batch.
LEMMA Evm2CosmosFlight ==
    ASSUME IInv, NftIds \cap TokenIds = {},
           NEW u \in Users, NEW p \in Pairs, NEW restricted \in BOOLEAN,
           NEW b \in Batches(p[2], p[1]), NEW d, NEW dest,
           EnsurePairByEVM(p, restricted), Evm2CosmosAllowed(u, p, b, d), Evm2CosmosMoves(p, b, dest),
           \/ DeleteVoucherBindingKeys(b)
           \/ Evm2CosmosBindings(b) /\ UNCHANGED refund
           \/ Evm2CosmosBindings(b) /\ SetEvmRefundReceiver(b, u)
    PROVE  /\ \A y \in NFTUIDs : nftOwner[y] = Escrow => EscrowUntouched(y)
           /\ \A y \in DOMAIN b : nftOwner[y] # Escrow
<1>1. /\ DOMAIN b \subseteq NFTUIDs /\ b \in [DOMAIN b -> TokenUIDs]
      /\ \A y \in DOMAIN b : y[1] = p[2] /\ b[y][1] = p[1]
  BY BatchFacts, Zenon
<1>2. \A y \in DOMAIN b : nftOwner[y] # Escrow
  BY AccountsAssumption, Zenon DEF Evm2CosmosAllowed, Holders
<1>3. erc721Map[p[1]] \in {None, <<p[1], p[2]>>}
  <2>1. p = <<p[1], p[2]>> /\ p # None
    BY PairFacts, AbsentFacts, Zenon
  <2>. QED
    BY <2>1, Zenon DEF EnsurePairByEVM, RegisterERC721, GetPairByEVM
<1>4. /\ \A y \in NFTUIDs : y \notin DOMAIN b => nftOwner'[y] = nftOwner[y] /\ reverse'[y] = reverse[y]
      /\ \A k \in RefundKeys :
            (\A z \in DOMAIN b : k \notin {b[z], <<b[z][1], z[2]>>}) => refund'[k] = refund[k]
  BY Zenon DEF Evm2CosmosMoves, DeleteVoucherBindingKeys, Evm2CosmosBindings, BindReverse,
     SetEvmRefundReceiver
<1>5. ASSUME NEW y \in NFTUIDs, nftOwner[y] = Escrow PROVE EscrowUntouched(y)
  <2>1. y \notin DOMAIN b
    BY <1>2, <1>5, Zenon
  <2>2. ASSUME reverse[y] # None
        PROVE  refund'[<<reverse[y][1], y[2]>>] = refund[<<reverse[y][1], y[2]>>]
    <3>. DEFINE k == <<reverse[y][1], y[2]>>
    <3>1. ASSUME NEW z \in DOMAIN b PROVE k \in RefundKeys /\ k \notin {b[z], <<b[z][1], z[2]>>}
      <4>1. /\ z \in NFTUIDs /\ b[z] \in TokenUIDs /\ z # y
            /\ erc721Map[b[z][1]] \in {None, <<b[z][1], z[1]>>}
        BY <1>1, <1>3, <2>1, Zenon
      <4>. QED
        BY <2>2, <4>1, RefundKeyOwn, Zenon
    <3>2. k \in RefundKeys
      <4>1. reverse[y] \in TokenUIDs
        BY <2>2, Zenon DEF IInv, TypeOK, RegistryTypeOK
      <4>. QED
        BY <4>1, Zenon DEF RefundKeys, TokenUIDs, NFTUIDs
    <3>. HIDE DEF k
    <3>3. refund'[k] = refund[k]
      BY <1>4, <3>1, <3>2, Zenon
    <3>. QED
      BY <3>3, Zenon DEF k
  <2>. QED
    BY <1>4, <1>5, <2>1, <2>2, Zenon DEF EscrowUntouched
<1>. QED
  BY <1>2, <1>5, Zenon

\* MsgConvertERC721
LEMMA ConvertERC721Flight ==
    ASSUME IInv, HInv, FInv, Idle, NftIds \cap TokenIds = {},
           NEW u \in Users, NEW p \in Pairs, NEW restricted \in BOOLEAN, NEW r \in Receivers,
           ConvertERC721(u, p, restricted, r), UNCHANGED ibcVars
    PROVE  FInv'
<1>1. PICK b \in Batches(p[2], p[1]) :
         /\ Evm2CosmosAllowed(u, p, b, denom'[p[2]])
         /\ Evm2CosmosMoves(p, b, r)
         /\ DeleteVoucherBindingKeys(b) \/ (Evm2CosmosBindings(b) /\ UNCHANGED refund)
  BY Zenon DEF ConvertERC721
<1>2. EnsurePairByEVM(p, restricted) /\ packets' = packets /\ refunding' = None
      /\ packets \in SUBSET Packets
  BY Zenon DEF ConvertERC721, ibcVars, Idle, IInv, TypeOK
<1>3. \A y \in NFTUIDs : nftOwner[y] = Escrow => EscrowUntouched(y)
  BY <1>1, <1>2, Evm2CosmosFlight, Zenon
<1>. QED
  BY <1>2, <1>3, QuietStep, Zenon

\* MsgTransferERC721: the packet leaves with its sender on record.
LEMMA SendERC721Flight ==
    ASSUME IInv, HInv, FInv, Idle, NftIds \cap TokenIds = {},
           NEW u \in Users, NEW p \in Pairs, NEW restricted \in BOOLEAN,
           NEW burned \in BOOLEAN, SendERC721(u, p, restricted, burned)
    PROVE  FInv'
<1>. DEFINE dest == IF burned THEN None ELSE Escrow
            pkt(b) == [nfts |-> DOMAIN b, convert |-> TRUE, origin |-> u, burned |-> burned]
<1>1. PICK b \in Batches(p[2], p[1]) :
         TransferERC721(u, p, b, dest) /\ packets' = packets \cup {pkt(b)}
  BY Zenon DEF SendERC721
<1>2. EnsurePairByEVM(p, restricted) /\ refunding' = None /\ packets \in SUBSET Packets
  BY Zenon DEF SendERC721, Idle, IInv, TypeOK
<1>3. /\ DOMAIN b \subseteq NFTUIDs /\ b \in [DOMAIN b -> TokenUIDs]
      /\ \A y \in DOMAIN b : y[1] = p[2] /\ b[y][1] = p[1]
  BY BatchFacts, Zenon
<1>4. /\ Evm2CosmosAllowed(u, p, b, denom'[p[2]])
      /\ Evm2CosmosMoves(p, b, dest)
      /\ \/ DeleteVoucherBindingKeys(b)
         \/ Evm2CosmosBindings(b) /\ SetEvmRefundReceiver(b, u)
  BY <1>1, Zenon DEF TransferERC721
<1>5. /\ \A y \in NFTUIDs : nftOwner[y] = Escrow => EscrowUntouched(y)
      /\ \A y \in DOMAIN b : nftOwner[y] # Escrow
  <2>. HIDE DEF dest
  <2>. QED
    BY <1>2, <1>4, Evm2CosmosFlight, Zenon
<1>6. /\ pkt(b) \in Packets /\ pkt(b).nfts = DOMAIN b /\ pkt(b).burned = burned
      /\ pkt(b).origin = u
  BY <1>3, Zenon DEF Packets
<1>7. ~burned => \A y \in DOMAIN b : nftOwner'[y] = Escrow
  BY <1>3, <1>4, Zenon DEF Evm2CosmosMoves
<1>8. \A y \in DOMAIN b : reverse'[y] # None => refund'[<<reverse'[y][1], y[2]>>] = u
  <2>. SUFFICES ASSUME NEW y \in DOMAIN b, reverse'[y] # None
                PROVE  refund'[<<reverse'[y][1], y[2]>>] = u
    BY Zenon
  <2>1. CASE DeleteVoucherBindingKeys(b)
    BY <1>3, <2>1, Zenon DEF DeleteVoucherBindingKeys
  <2>2. CASE Evm2CosmosBindings(b) /\ SetEvmRefundReceiver(b, u)
    <3>1. reverse'[y] = b[y] /\ y \in NFTUIDs /\ b[y] \in TokenUIDs
      BY <1>3, <2>2, Zenon DEF Evm2CosmosBindings, BindReverse
    <3>2. <<b[y][1], y[2]>> \in RefundKeys
      BY <3>1, Zenon DEF RefundKeys, TokenUIDs, NFTUIDs
    <3>. QED
      BY <2>2, <3>1, <3>2, Zenon DEF SetEvmRefundReceiver
  <2>. QED
    BY <1>4, <2>1, <2>2, Zenon
<1>9. SenderRecorded(pkt(b))'
  BY <1>6, <1>8, Zenon DEF SenderRecorded
<1>10. packets' = packets \cup {pkt(b)}
  BY <1>1, Zenon
<1>. HIDE DEF pkt
<1>. QED
  BY <1>2, <1>5, <1>6, <1>7, <1>9, <1>10, SendStep, Zenon

\* With ids kept apart, every step keeps the refund records of the packets in
\* flight.
LEMMA NextFInv ==
    ASSUME NftIds \cap TokenIds = {}
    PROVE  IInv /\ HInv /\ FInv /\ [Next]_vars => FInv'
<1>. SUFFICES ASSUME IInv, HInv, FInv, [Next]_vars PROVE FInv'
  BY Zenon
<1>1. ASSUME Idle, NEW u \in Users, NEW p \in Pairs, NEW named, NEW r \in Receivers,
             ConvertNFT(u, p, named, r) \/ ConvertNFTDeploy(u, p, r), UNCHANGED ibcVars
      PROVE  FInv'
  BY <1>1, ConvertNFTFlight, Zenon
<1>2. ASSUME Idle, NEW u \in Users, NEW p \in Pairs, NEW named, NEW c \in Contracts, NEW r \in Receivers,
             ConvertNFTRedeploy(u, p, named, c, r), UNCHANGED ibcVars
      PROVE  FInv'
  BY <1>2, ConvertNFTRedeployFlight, Zenon
<1>3. ASSUME Idle, NEW u \in Users, NEW p \in Pairs, NEW restricted \in BOOLEAN, NEW r \in Receivers,
             ConvertERC721(u, p, restricted, r), UNCHANGED ibcVars
      PROVE  FInv'
  BY <1>3, ConvertERC721Flight, Zenon
<1>4. ASSUME Idle, NEW u \in Users, NEW p \in Pairs, NEW restricted \in BOOLEAN, NEW burned \in BOOLEAN,
             SendERC721(u, p, restricted, burned)
      PROVE  FInv'
  BY <1>4, SendERC721Flight, Zenon
<1>5. ASSUME Idle, UNCHANGED <<nftOwner, reverse, refund, packets, refunding>>
      PROVE  FInv'
  BY <1>5, Zenon DEF FInv, PacketsInEscrow, PacketsDisjoint, RefundsRecorded, SenderRecorded
<1>6. ASSUME Idle, NEW enable \in BOOLEAN, NEW hook \in BOOLEAN, UpdateParams(enable, hook),
             UNCHANGED ibcVars
      PROVE  FInv'
  BY <1>5, <1>6, Zenon DEF UpdateParams, ibcVars
<1>7. ASSUME NEW y \in NFTUIDs, NEW evmFails \in BOOLEAN, RefundPacketToken(y, evmFails)
      PROVE  FInv'
  BY <1>7, RefundFlight, Zenon
<1>8. CASE UNCHANGED vars
  BY <1>8, Zenon DEF vars, FInv, PacketsInEscrow, PacketsDisjoint, RefundsRecorded, SenderRecorded
<1>. QED
  BY <1>1, <1>2, <1>3, <1>4, <1>6, <1>7, <1>8, LedgerFlight, SendNFTFlight, FailPacketFlight, Zenon
     DEF Next

\* FInv holds of every behaviour.
THEOREM SendersStayOnRecord ==
    ASSUME NftIds \cap TokenIds = {}
    PROVE  Spec => []FInv
<1>1. Init => FInv
  BY Zenon DEF Init, FInv, PacketsInEscrow, PacketsDisjoint, RefundsRecorded
<1>. QED
  BY <1>1, NextFInv, Invariance, TokensStayWithTheirContracts, PTL DEF Spec

\* As long as no native id is also a token id, RefundPacketToken pays the
\* ERC721 of a failed transfer to nobody but the sender of that transfer, and
\* burns the NFT that travelled in the same step.
THEOREM RefundsPayTheSender ==
    ASSUME NftIds \cap TokenIds = {}
    PROVE  Spec => RefundPaysTheSender
<1>. DEFINE Paid == \A x \in TokenUIDs :
                      refunding # None /\ ercOwner'[x] # ercOwner[x]
                        => /\ ercOwner'[x] = refunding.origin
                           /\ nftOwner'[forward[x]] = None
<1>1. IInv /\ HInv /\ FInv /\ [Next]_vars => [Paid]_vars
  <2>. SUFFICES ASSUME IInv, HInv, FInv, Next, NEW x \in TokenUIDs,
                       refunding # None, ercOwner'[x] # ercOwner[x]
                PROVE  ercOwner'[x] = refunding.origin /\ nftOwner'[forward[x]] = None
    BY Zenon
  <2>1. PICK y \in NFTUIDs, evmFails \in BOOLEAN : RefundPacketToken(y, evmFails)
    BY Zenon DEF Next, Idle
  <2>2. AssetsTypeOK /\ RegistryTypeOK /\ refunding \in Packets /\ y \in refunding.nfts
        /\ nftOwner[y] = Module
    BY <2>1, Zenon DEF IInv, TypeOK, RefundPacketToken, HInv, RefundHeld
  <2>3. ~RefundSkipped(y, evmFails)
    BY <2>1, Zenon DEF RefundPacketToken, RefundToken, convertVars
  <2>4. reverse[y] \in TokenUIDs /\ forward[reverse[y]] = y /\ reverse[y] # None
    <3>1. reverse[y] \in TokenUIDs /\ reverse[y] # None
      BY <2>2, <2>3, Zenon DEF RefundSkipped, RegistryTypeOK
    <3>. QED
      BY <3>1, Zenon DEF IInv, BindingBijection, InverseIndex
  <2>5. /\ ercOwner' = [ercOwner EXCEPT ![reverse[y]] =
                          IF @ = Module THEN GetEvmRefundReceiver(reverse[y], y) ELSE @]
        /\ nftOwner' = [nftOwner EXCEPT ![y] = IF @ = Module /\ ~FALSE THEN None ELSE @]
    BY <2>1, <2>3, Zenon DEF RefundPacketToken, RefundToken, RefundBurn
  <2>6. x = reverse[y] /\ ercOwner'[x] = GetEvmRefundReceiver(reverse[y], y)
    BY <2>2, <2>4, <2>5, Zenon DEF AssetsTypeOK
  <2>7. refund[<<reverse[y][1], y[2]>>] = refunding.origin /\ refunding.origin # None
    BY <2>2, <2>4, AccountsAssumption, Zenon
       DEF FInv, RefundsRecorded, SenderRecorded, Packets, Holders
  <2>. QED
    BY <2>2, <2>4, <2>5, <2>6, <2>7, Zenon DEF GetEvmRefundReceiver, AssetsTypeOK, NativeTypeOK
<1>. QED
  BY <1>1, Invariance, TokensStayWithTheirContracts, SendersStayOnRecord, PTL
     DEF Spec, RefundPaysTheSender

=============================================================================
