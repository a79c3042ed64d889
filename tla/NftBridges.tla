----------------------------- MODULE NftBridges -----------------------------
(***************************************************************************)
(* Both bridges on one native ledger.  Nothing keeps an NFT from being     *)
(* bound in x/erc721 and in x/cw721 at once: each module looks only at its *)
(* own store, and x/collection's burn guard at both (convertedNFTChecker). *)
(*                                                                         *)
(* With Contracts = {} this is x/cw721 alone with x/evmibc and ICS-721.    *)
(* A step is a transaction; the refund loop of a failed convert packet     *)
(* takes one step per token, as in Erc721Bridge, where the parts of        *)
(* x/erc721 left out here (legacy voucher pairs, lost contracts) are.      *)
(***************************************************************************)
EXTENDS Erc721Convert, Cw721Convert, Sequences

CONSTANTS
    MaxPackets,  \* bound on the packets in flight at once
    Channels,    \* the ICS-721 channels of this chain, each with its port
    ClassPath    \* the class id a packet carries, cut at the slashes: a voucher's
                 \* trace (the hops, a channel each, and the base class), or the
                 \* id of a class of this chain, which may hold slashes too

\* A trace starts with the channel the voucher came by.  An id of this chain
\* never does: idString admits no hyphen, and an "uptick-" id no slash.
ASSUME PathAssumption ==
    /\ None \notin Classes
    /\ \A cl \in Classes : Len(ClassPath[cl]) \in Nat \ {0}
    /\ \A cl \in VoucherClasses : Len(ClassPath[cl]) > 1 /\ ClassPath[cl][1] \in Channels
    /\ \A cl \in Classes \ VoucherClasses :
          Len(ClassPath[cl]) > 1 => ClassPath[cl][1] \notin Channels
    /\ \A cl, k \in VoucherClasses : ClassPath[cl] = ClassPath[k] => cl = k
    /\ \A cl, k \in Classes \ VoucherClasses : ClassPath[cl] = ClassPath[k] => cl = k

VARIABLES
    packets,     \* ICS-721 packets sent and neither acknowledged nor timed out
    refunding    \* the convert packet whose refund loop is running, or None

ercVars == <<code, ercOwner, tokenPairs, erc721Map, classMap, forward, reverse, refund, enabled>>
ibcVars == <<packets, refunding>>
vars == <<denom, nftOwner, code, ercOwner, tokenPairs, erc721Map, classMap, forward,
          reverse, refund, enabled, cwLive, cwOwner, cwTokenPairs, cw721Map, cwClassMap,
          cwForward, cwReverse, cwRefund, cwParams, packets, refunding>>

\* OutboundConvertKind: a packet of a module account with that module's memo
\* is a convert packet; a user's packet never is.
Kinds == {"none", "erc721", "cw721"}

Packets == [nfts : SUBSET NFTUIDs, kind : Kinds, origin : Users, channel : Channels]

TypeOK ==
    /\ AssetsTypeOK
    /\ RegistryTypeOK
    /\ CwTypeOK
    /\ enabled \in BOOLEAN
    /\ packets \in SUBSET Packets
    /\ refunding \in Packets \cup {None}

Idle == refunding = None

CanSend == Cardinality(packets) < MaxPackets

\* Mutated form: only the x/erc721 index is asked.
ConvertedInErc721(y) == IsConvertedNFT(y)

\* convertedNFTChecker: bound in either module.
ConvertedNFT(y) == IsConvertedNFT(y) \/ IsCwConvertedNFT(y)

(***************************************************************************)
(* ICS-721 and the refund path                                             *)
(***************************************************************************)

\* A voucher sent through the channel it came by goes home: it is burned, and
\* so refused while a module binds it.  Any other NFT is escrowed.
GoesHome(cl, ch) == IsIBCDenom(cl) /\ ClassPath[cl][1] = ch

SendNFT(u, y, ch) ==
    /\ nftOwner[y] = u
    /\ GoesHome(y[1], ch) => ~ConvertedNFT(y)
    /\ CanSend
    /\ nftOwner' = [nftOwner EXCEPT ![y] = IF GoesHome(y[1], ch) THEN None ELSE Escrow]
    /\ packets' = packets \cup {[nfts |-> {y}, kind |-> "none", origin |-> u, channel |-> ch]}
    /\ UNCHANGED <<denom, ercVars, cwVars, refunding>>

\* TransferERC721 unbinds a voucher before it travels, so that it may go home
\* unless x/cw721 binds it as well.
SendERC721(u, p, restricted, ch) ==
    /\ enabled
    /\ CanSend
    /\ EnsurePairByEVM(p, restricted)
    /\ \E b \in Batches(p[2], p[1]) :
          /\ GoesHome(p[2], ch) => \A y \in DOMAIN b : ~IsCwConvertedNFT(y)
          /\ TransferERC721(u, p, b, IF GoesHome(p[2], ch) THEN None ELSE Escrow)
          /\ packets' = packets \cup
               {[nfts |-> DOMAIN b, kind |-> "erc721", origin |-> u, channel |-> ch]}
    /\ UNCHANGED <<cwVars, refunding>>

\* TransferCW721 leaves the binding in place: a voucher cannot go home.
SendCW721(u, p, ch) ==
    /\ CanSend
    /\ ~GoesHome(p[2], ch)
    /\ \E b \in Batches(p[2], p[1]) :
          /\ TransferCW721(u, p, b)
          /\ packets' = packets \cup
               {[nfts |-> DOMAIN b, kind |-> "cw721", origin |-> u, channel |-> ch]}
    /\ UNCHANGED <<ercVars, refunding>>

AcknowledgeSuccess(pkt) ==
    /\ packets' = packets \ {pkt}
    /\ UNCHANGED <<nativeVars, ercVars, cwVars, refunding>>

\* Who ICS-721 gives the NFTs of a failed packet back to: x/evmibc names the
\* module account for a convert packet.
RefundSender(pkt) ==
    CASE pkt.kind = "erc721" -> Module
      [] pkt.kind = "cw721" -> CwModule
      [] OTHER -> pkt.origin

\* The class of this chain with exactly this id, and the voucher class ibc/<hash>
\* of a trace; None when there is no such class.
ClassWithId(path) ==
    LET own == {cl \in Classes : ~IsIBCDenom(cl) /\ denom[cl] # None /\ ClassPath[cl] = path}
    IN  IF own = {} THEN None ELSE CHOOSE cl \in own : TRUE

VoucherOf(path) ==
    LET ibc == {cl \in VoucherClasses : ClassPath[cl] = path}
    IN  IF ibc = {} THEN None ELSE CHOOSE cl \in ibc : TRUE

\* Mutated form: an id with slashes is taken for a trace (ParseClassTrace).
RefundClassByShape(path, ch) ==
    IF Len(path) = 1 THEN ClassWithId(path) ELSE VoucherOf(path)

\* getRefundClassId: a bare id is a class of this chain, an id with the prefix of
\* the packet's own channel is the voucher's, and any other is looked up first.
GetRefundClassId(path, ch) ==
    CASE Len(path) = 1 -> ClassWithId(path)
      [] Len(path) > 1 /\ path[1] = ch -> VoucherOf(path)
      [] OTHER -> IF ClassWithId(path) # None THEN ClassWithId(path) ELSE VoucherOf(path)

RefundTokens(pkt) ==
    {<<GetRefundClassId(ClassPath[y[1]], pkt.channel), y[2]>> : y \in pkt.nfts}

\* An error acknowledgement or a timeout: the NFT side first, then the
\* module's RefundPacketToken, which finds no pair in a class that is not there.
FailPacket(pkt) ==
    /\ \A y \in pkt.nfts :
          nftOwner[y] = IF GoesHome(y[1], pkt.channel) THEN None ELSE Escrow
    /\ nftOwner' = [y \in NFTUIDs |->
                      IF y \in pkt.nfts THEN RefundSender(pkt) ELSE nftOwner[y]]
    /\ packets' = packets \ {pkt}
    /\ refunding' = IF pkt.kind = "none" \/ RefundTokens(pkt) \cap NFTUIDs = {} THEN None
                    ELSE [pkt EXCEPT !.nfts = RefundTokens(pkt)]
    /\ UNCHANGED <<denom, ercVars, cwVars>>

RefundPacketToken(y, callFails) ==
    /\ refunding # None
    /\ y \in refunding.nfts
    /\ \/ /\ refunding.kind = "erc721"
          /\ RefundToken(y, callFails, IsCwConvertedNFT(y))
          /\ UNCHANGED cwVars
       \/ /\ refunding.kind = "cw721"
          /\ CwRefundToken(y, callFails, IsConvertedNFT(y))
          /\ UNCHANGED ercVars
    /\ refunding' = IF refunding.nfts = {y} THEN None
                    ELSE [refunding EXCEPT !.nfts = @ \ {y}]
    /\ UNCHANGED packets

\* An NFT that left comes back: out of escrow, or as a voucher minted anew.
ReceiveNFT(y, v) ==
    /\ ~\E pkt \in packets : y \in pkt.nfts
    /\ \/ nftOwner[y] = Escrow
       \/ IsIBCDenom(y[1]) /\ nftOwner[y] = None
    /\ nftOwner' = [nftOwner EXCEPT ![y] = v]
    /\ UNCHANGED <<denom, ercVars, cwVars, ibcVars>>

(***************************************************************************)
(* Specification                                                           *)
(***************************************************************************)

Init ==
    /\ denom = [cl \in Classes |->
                  IF IsIBCDenom(cl) THEN [creator |-> Collection, mintRestricted |-> FALSE]
                  ELSE None]
    /\ nftOwner = [y \in NFTUIDs |-> None]
    /\ code = [c \in Contracts |-> IF c \in External THEN "live" ELSE "absent"]
    /\ ercOwner = [x \in TokenUIDs |-> None]
    /\ tokenPairs = {}
    /\ erc721Map = [c \in Contracts |-> None]
    /\ classMap = [cl \in Classes |-> None]
    /\ forward = [x \in TokenUIDs |-> None]
    /\ reverse = [y \in NFTUIDs |-> None]
    /\ refund = [k \in RefundKeys |-> None]
    /\ enabled = TRUE
    /\ CwInit
    /\ packets = {}
    /\ refunding = None

CollectionStep ==
    \/ \E u \in Users, cl \in Classes, restricted \in BOOLEAN : IssueDenom(u, cl, restricted)
    \/ \E u \in Users, y \in NFTUIDs, v \in Users : MintNFT(u, y, v)
    \/ \E u \in Users, y \in NFTUIDs, v \in Users \cup {Module, CwModule} : TransferNFT(u, y, v)
    \/ \E u \in Users, y \in NFTUIDs : BurnNFT(u, y, ConvertedNFT(y))

EvmStep ==
    \/ \E u \in Users, x \in TokenUIDs, v \in Receivers : ErcTransfer(u, x, v)
    \/ \E u \in Users, x \in TokenUIDs : ErcBurn(u, x)
    \/ \E x \in TokenUIDs, v \in Users : ErcMint(x, v)

WasmStep ==
    \/ \E u \in Users, x \in CwTokenUIDs, v \in CwReceivers : CwTransfer(u, x, v)
    \/ \E u \in Users, x \in CwTokenUIDs : CwBurn(u, x)
    \/ \E x \in CwTokenUIDs, v \in Users : CwMint(x, v)
    \/ \E x \in CwTokenUIDs, v \in CwReceivers \cup {None} : CwReassign(x, v)

Erc721Step ==
    \/ \E u \in Users, p \in Pairs, named \in {None} \cup Contracts, r \in Receivers :
          ConvertNFT(u, p, named, r)
    \/ \E u \in Users, p \in Pairs, r \in Receivers : ConvertNFTDeploy(u, p, r)
    \/ \E u \in Users, p \in Pairs, restricted \in BOOLEAN, r \in Receivers :
          ConvertERC721(u, p, restricted, r)

Cw721Step ==
    \/ \E u \in Users, p \in CwPairs, named \in {None} \cup CwContracts, r \in CwReceivers :
          CwConvertNFT(u, p, named, r)
    \/ \E u \in Users, p \in CwPairs, r \in CwReceivers : CwConvertNFTDeploy(u, p, r)
    \/ \E u \in Users, p \in CwPairs, r \in CwReceivers : ConvertCW721(u, p, r)

Next ==
    \/ Idle /\ CollectionStep /\ UNCHANGED <<ercVars, cwVars, ibcVars>>
    \/ Idle /\ EvmStep
       /\ UNCHANGED <<nativeVars, registryVars, enabled, cwVars, ibcVars>>
    \/ Idle /\ WasmStep /\ UNCHANGED <<nativeVars, ercVars, cwStoreVars, ibcVars>>
    \/ Idle /\ Erc721Step /\ UNCHANGED <<cwVars, ibcVars>>
    \/ Idle /\ Cw721Step /\ UNCHANGED <<ercVars, ibcVars>>
    \/ \E e \in BOOLEAN, c \in BOOLEAN :
          Idle /\ CwUpdateParams(e, c) /\ UNCHANGED <<nativeVars, ercVars, ibcVars>>
    \/ \E u \in Users, y \in NFTUIDs, ch \in Channels : Idle /\ SendNFT(u, y, ch)
    \/ \E u \in Users, p \in Pairs, restricted \in BOOLEAN, ch \in Channels :
          Idle /\ SendERC721(u, p, restricted, ch)
    \/ \E u \in Users, p \in CwPairs, ch \in Channels : Idle /\ SendCW721(u, p, ch)
    \/ \E pkt \in packets : Idle /\ AcknowledgeSuccess(pkt)
    \/ \E pkt \in packets : Idle /\ FailPacket(pkt)
    \/ \E y \in NFTUIDs, v \in Users : Idle /\ ReceiveNFT(y, v)
    \/ \E y \in NFTUIDs, callFails \in BOOLEAN : RefundPacketToken(y, callFails)

Spec == Init /\ [][Next]_vars

(***************************************************************************)
(* Properties                                                              *)
(***************************************************************************)

\* x/cw721 starts from its own export where it was: InitGenesis accepts it,
\* and the index both SetNFTPairs keep a bijection, the two lookup maps and the
\* refund receivers come back as they were.
CwGenesisRestores ==
    /\ CwValidateGenesis(CwExportGenesis)
    /\ CwInitGenesis(CwExportGenesis) =
         [tokenPairs |-> cwTokenPairs, cw721Map |-> cw721Map, classMap |-> cwClassMap,
          forward |-> cwForward, reverse |-> cwReverse, refund |-> cwRefund]

\* The tokens that stand for NFT y outside the module accounts.
CirculatingErc(y) ==
    {x \in TokenUIDs : forward[x] = y /\ x[1] \notin Rogue /\ ercOwner[x] \in Users}

CirculatingCw(y) ==
    {x \in CwTokenUIDs : cwForward[x] = y /\ x[1] \notin CwRogue /\ cwOwner[x] \in Users}

\* The halves of the asset y that circulate: its ERC721, its CW721, and the NFT.
Circulating(y) ==
    ({"erc721"} \X CirculatingErc(y)) \cup ({"cw721"} \X CirculatingCw(y))
      \cup {h \in {<<"nft", y>>} : nftOwner[y] \in Users \cup {Escrow}}

\* One asset, one circulating half, across both modules: the NFT itself, its
\* ERC721 and its CW721 never circulate together, however the conversions of
\* the two modules are mixed.
OneHalfCirculates ==
    \A y \in NFTUIDs : \A h, k \in Circulating(y) : h = k

\* Whoever holds the CW721 of a bound NFT can convert it back.
CwHolderCanConvertBack ==
    \A x \in CwTokenUIDs, u \in Users :
        /\ cwForward[x] # None
        /\ x[1] \notin CwRogue
        /\ cwOwner[x] = u
        => LET y == cwForward[x]
           IN  /\ CwPairByCW721(x[1]) = <<x[1], y[1]>>
               /\ Wasm2CosmosAllowed(u, [z \in {y} |-> x], denom[y[1]])

\* A CW721 binding is never redirected; it goes only in a refund, and a token
\* of a conforming contract is then back with the sender of the transfer.
CwBindingDroppedByRefund ==
    [][\A x \in CwTokenUIDs :
          cwForward[x] # None /\ cwForward'[x] # cwForward[x]
            => /\ cwForward'[x] = None
               /\ refunding # None
               /\ x[1] \notin CwRogue => cwOwner'[x] = refunding.origin]_vars

\* While a module binds an NFT, the NFT exists.
BoundNftExists ==
    \A y \in NFTUIDs : reverse[y] # None \/ cwReverse[y] # None => nftOwner[y] # None

\* The refund of a failed convert packet looks for the NFTs where they are:
\* getRefundClassId turns the id the packet carried back into the class the
\* NFTs left from, whichever channel they took and whatever the id looks like.
RefundFindsTheClass ==
    \A pkt \in packets : pkt.kind # "none" => RefundTokens(pkt) = pkt.nfts

\* "It reverses the conversion: returns the CW721 to its original owner,
\* cleans up token pair mappings, and burns the native NFT returned to the
\* module account" (RefundPacketToken of x/cw721): once a token has been paid
\* out, the NFT that travelled is gone.
CwRefundBurnsTheNft ==
    [][\A x \in CwTokenUIDs :
          refunding # None /\ cwOwner'[x] # cwOwner[x] => nftOwner'[cwForward[x]] = None]_vars

=============================================================================
