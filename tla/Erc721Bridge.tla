---------------------------- MODULE Erc721Bridge ----------------------------
(***************************************************************************)
(* The bridge as a whole: the x/erc721 handlers of Erc721Convert, the      *)
(* x/evmibc middleware and keeper that drive its refunds, the ICS-721      *)
(* application below them (external; modelled from how x/evmibc and        *)
(* x/internft use it) and the users and contracts around it.               *)
(*                                                                         *)
(* A step is a transaction, except for the refund of a failed transfer:    *)
(* its loop over the packet's tokens takes one step per token (refunding   *)
(* is the packet with the tokens still to do), and nothing else happens    *)
(* until the loop is over.                                                 *)
(***************************************************************************)
EXTENDS Erc721Convert

CONSTANTS
    LegacyBinding, \* NFT UID |-> token UID of the voucher bindings the v0.5.0
                   \* settlement kept: their ERC721 is held by a contract account
    MaxPackets     \* bound on the packets in flight at once

\* A settled voucher pair: module-deployed contract, one class per contract.
ASSUME LegacyAssumption ==
    /\ DOMAIN LegacyBinding \subseteq VoucherClasses \X NftIds
    /\ LegacyBinding \in [DOMAIN LegacyBinding -> (Contracts \ External) \X TokenIds]
    /\ Injective(LegacyBinding)
    /\ \A y, z \in DOMAIN LegacyBinding :
          y[1] = z[1] <=> LegacyBinding[y][1] = LegacyBinding[z][1]
    /\ MaxPackets \in Nat

VARIABLES
    packets,       \* ICS-721 packets sent and neither acknowledged nor timed out
    refunding      \* the convert packet whose refund loop is running, or None

vars == <<denom, nftOwner, code, ercOwner, tokenPairs, erc721Map, classMap,
          forward, reverse, refund, enabled, packets, refunding>>

ibcVars == <<packets, refunding>>

\* What a step outside x/erc721 and IBC leaves alone.
bridgeVars == <<registryVars, enabled, ibcVars>>

\* convert: sent by the module account with the ERC721 memo, on behalf of
\* origin; burned: the NFT was burned and not escrowed when it left.
Packets == [nfts : SUBSET NFTUIDs, convert : BOOLEAN, origin : Users, burned : BOOLEAN]

TypeOK ==
    /\ AssetsTypeOK
    /\ RegistryTypeOK
    /\ enabled \in BOOLEAN
    /\ packets \in SUBSET Packets
    /\ refunding \in Packets \cup {None}

Idle == refunding = None

(***************************************************************************)
(* ICS-721 and the refund path                                             *)
(***************************************************************************)

CanSend == Cardinality(packets) < MaxPackets

\* A plain nft-transfer of one NFT by its owner.  Burning goes through
\* x/internft, which refuses a converted NFT.
SendNFT(u, y, burned) ==
    /\ nftOwner[y] = u
    /\ burned => IsIBCDenom(y[1]) /\ ~IsConvertedNFT(y)
    /\ CanSend
    /\ nftOwner' = [nftOwner EXCEPT ![y] = IF burned THEN None ELSE Escrow]
    /\ packets' = packets \cup
         {[nfts |-> {y}, convert |-> FALSE, origin |-> u, burned |-> burned]}
    /\ UNCHANGED <<denom, code, ercOwner, registryVars, enabled, refunding>>

\* MsgTransferERC721 and the packet it sends.
SendERC721(u, p, restricted, burned) ==
    /\ enabled
    /\ CanSend
    /\ EnsurePairByEVM(p, restricted)
    /\ \E b \in Batches(p[2], p[1]) :
          /\ TransferERC721(u, p, b, IF burned THEN None ELSE Escrow)
          /\ packets' = packets \cup
               {[nfts |-> DOMAIN b, convert |-> TRUE, origin |-> u, burned |-> burned]}
    /\ UNCHANGED refunding

\* A success acknowledgement changes nothing on this chain: the refund
\* receiver stays recorded.
AcknowledgeSuccess(pkt) ==
    /\ packets' = packets \ {pkt}
    /\ UNCHANGED <<convertVars, refunding>>

\* An error acknowledgement or a timeout.  ICS-721 gives the NFTs back to the
\* packet's sender; for a convert packet that is the module account, and
\* x/evmibc calls RefundPacketToken next.
FailPacket(pkt) ==
    /\ \A y \in pkt.nfts : nftOwner[y] = IF pkt.burned THEN None ELSE Escrow
    /\ nftOwner' = [y \in NFTUIDs |->
                      IF y \notin pkt.nfts THEN nftOwner[y]
                      ELSE IF pkt.convert THEN Module ELSE pkt.origin]
    /\ packets' = packets \ {pkt}
    /\ refunding' = IF pkt.convert THEN pkt ELSE None
    /\ UNCHANGED <<denom, code, ercOwner, registryVars, enabled>>

\* One turn of RefundPacketToken's loop.
RefundPacketToken(y, evmFails) ==
    /\ refunding # None
    /\ y \in refunding.nfts
    /\ RefundToken(y, evmFails, FALSE)
    /\ refunding' = IF refunding.nfts = {y} THEN None
                    ELSE [refunding EXCEPT !.nfts = @ \ {y}]
    /\ UNCHANGED packets

\* An NFT that left comes back: out of escrow, or as a voucher minted anew.
InFlight(y) == \E pkt \in packets : y \in pkt.nfts

ReceiveNFT(y, v) ==
    /\ ~InFlight(y)
    /\ \/ nftOwner[y] = Escrow
       \/ IsIBCDenom(y[1]) /\ nftOwner[y] = None
    /\ nftOwner' = [nftOwner EXCEPT ![y] = v]
    /\ UNCHANGED <<denom, code, ercOwner, bridgeVars>>

(***************************************************************************)
(* Specification                                                           *)
(***************************************************************************)

LegacyPairs == {<<LegacyBinding[y][1], y[1]>> : y \in DOMAIN LegacyBinding}

Init ==
    /\ denom = [cl \in Classes |->
                  IF IsIBCDenom(cl) THEN [creator |-> Collection, mintRestricted |-> FALSE]
                  ELSE None]
    /\ nftOwner = [y \in NFTUIDs |-> IF y \in DOMAIN LegacyBinding THEN Module ELSE None]
    /\ code = [c \in Contracts |->
                 IF c \in External \/ \E p \in LegacyPairs : p[1] = c THEN "live" ELSE "absent"]
    /\ ercOwner \in [TokenUIDs -> Users \cup {None}]
    /\ \A x \in TokenUIDs : ercOwner[x] # None <=> x \in TokensOf(LegacyBinding)
    /\ tokenPairs = LegacyPairs
    /\ erc721Map = [c \in Contracts |-> PairWith(LegacyPairs, 1, c)]
    /\ classMap = [cl \in Classes |-> PairWith(LegacyPairs, 2, cl)]
    /\ forward = BindForward([x \in TokenUIDs |-> None], LegacyBinding)
    /\ reverse = BindReverse([y \in NFTUIDs |-> None], LegacyBinding)
    /\ refund = [k \in RefundKeys |-> None]
    /\ enabled = TRUE
    /\ packets = {}
    /\ refunding = None

Next ==
    \/ \E u \in Users, p \in Pairs, named \in {None} \cup Contracts, r \in Receivers :
          Idle /\ ConvertNFT(u, p, named, r) /\ UNCHANGED ibcVars
    \/ \E u \in Users, p \in Pairs, r \in Receivers :
          Idle /\ ConvertNFTDeploy(u, p, r) /\ UNCHANGED ibcVars
    \/ \E u \in Users, p \in Pairs, named \in {None} \cup Contracts, c \in Contracts, r \in Receivers :
          Idle /\ ConvertNFTRedeploy(u, p, named, c, r) /\ UNCHANGED ibcVars
    \/ \E u \in Users, p \in Pairs, restricted \in BOOLEAN, r \in Receivers :
          Idle /\ ConvertERC721(u, p, restricted, r) /\ UNCHANGED ibcVars
    \/ \E u \in Users, p \in Pairs, restricted \in BOOLEAN, burned \in BOOLEAN :
          Idle /\ SendERC721(u, p, restricted, burned)
    \/ \E enable, hook \in BOOLEAN :
          Idle /\ UpdateParams(enable, hook) /\ UNCHANGED ibcVars
    \/ \E u \in Users, cl \in Classes, restricted \in BOOLEAN :
          Idle /\ IssueDenom(u, cl, restricted) /\ UNCHANGED <<evmVars, bridgeVars>>
    \/ \E u \in Users, cl \in Classes, v \in Users :
          Idle /\ TransferDenom(u, cl, v) /\ UNCHANGED <<evmVars, bridgeVars>>
    \/ \E u \in Users, y \in NFTUIDs, v \in Users :
          Idle /\ MintNFT(u, y, v) /\ UNCHANGED <<evmVars, bridgeVars>>
    \/ \E u \in Users, y \in NFTUIDs, v \in Receivers :
          Idle /\ TransferNFT(u, y, v) /\ UNCHANGED <<evmVars, bridgeVars>>
    \/ \E u \in Users, y \in NFTUIDs :
          Idle /\ BurnNFT(u, y, IsConvertedNFT(y)) /\ UNCHANGED <<evmVars, bridgeVars>>
    \/ \E u \in Users, x \in TokenUIDs, v \in Receivers :
          Idle /\ ErcTransfer(u, x, v) /\ UNCHANGED <<nativeVars, bridgeVars>>
    \/ \E u \in Users, x \in TokenUIDs : Idle /\ ErcBurn(u, x) /\ UNCHANGED <<nativeVars, bridgeVars>>
    \/ \E x \in TokenUIDs, v \in Users : Idle /\ ErcMint(x, v) /\ UNCHANGED <<nativeVars, bridgeVars>>
    \/ \E x \in TokenUIDs, v \in Receivers \cup {None} :
          Idle /\ ErcReassign(x, v) /\ UNCHANGED <<nativeVars, bridgeVars>>
    \/ \E c \in Contracts : Idle /\ SelfDestruct(c) /\ UNCHANGED <<nativeVars, bridgeVars>>
    \/ \E u \in Users, y \in NFTUIDs, burned \in BOOLEAN : Idle /\ SendNFT(u, y, burned)
    \/ \E pkt \in packets : Idle /\ AcknowledgeSuccess(pkt)
    \/ \E pkt \in packets : Idle /\ FailPacket(pkt)
    \/ \E y \in NFTUIDs, v \in Users : Idle /\ ReceiveNFT(y, v)
    \/ \E y \in NFTUIDs, evmFails \in BOOLEAN : RefundPacketToken(y, evmFails)

Spec == Init /\ [][Next]_vars

(***************************************************************************)
(* Properties                                                              *)
(***************************************************************************)

\* The two directions of the UID index are inverse to each other:
\* SetNFTPairs promises forward[x] = y <=> reverse[y] = x, and every writer
\* and purge keeps it.
BindingBijection == InverseIndex(forward, reverse)

\* The pair records and their two lookup maps describe the same one-to-one
\* relation between contracts and classes.
PairMapsAgree ==
    /\ \A p \in tokenPairs : erc721Map[p[1]] = p /\ classMap[p[2]] = p
    /\ \A c \in Contracts : erc721Map[c] # None => erc721Map[c] \in tokenPairs /\ erc721Map[c][1] = c
    /\ \A cl \in Classes : classMap[cl] # None => classMap[cl] \in tokenPairs /\ classMap[cl][2] = cl

\* Per-token state never outlives its pair: a binding joins a token of a
\* registered contract to an NFT of that pair's class, and a refund record
\* belongs to a registered contract.
PerTokenStateHasPair ==
    /\ \A x \in TokenUIDs : forward[x] # None => <<x[1], forward[x][1]>> \in tokenPairs
    /\ \A k \in RefundKeys : refund[k] # None => erc721Map[k[1]] # None

\* InitGenesis accepts what ExportGenesis writes and restores the store from
\* it: no conversion, purge or refund leaves a record that the export has to
\* drop, so a chain started from its own export is where it was.
GenesisRestores ==
    /\ ValidateGenesis(ExportGenesis)
    /\ InitGenesis(ExportGenesis) =
         [tokenPairs |-> tokenPairs, erc721Map |-> erc721Map, classMap |-> classMap,
          forward |-> forward, reverse |-> reverse, refund |-> refund]

\* The burn guards of x/collection and x/internft and the order of the refund
\* keep the NFT of every binding in existence.
BoundNftExists ==
    \A y \in NFTUIDs : reverse[y] # None => nftOwner[y] # None

\* One asset, one circulating half: while a bound NFT is with a user or on
\* another chain, the module holds its ERC721 (unless the contract is gone).
CirculatingNftIsBacked ==
    \A x \in TokenUIDs :
        /\ forward[x] # None
        /\ x[1] \notin Rogue
        /\ nftOwner[forward[x]] \in Users \cup {Escrow}
        => ercOwner[x] = Module \/ code[x[1]] # "live"

\* And the other way: while a user holds the ERC721 of a bound NFT, the module
\* holds the NFT, so that ConvertERC721 would accept the holder's token.
HolderCanConvertBack ==
    \A x \in TokenUIDs, u \in Users :
        /\ forward[x] # None
        /\ x[1] \notin Rogue
        /\ ercOwner[x] = u
        => LET y == forward[x]
               p == <<x[1], y[1]>>
           IN  /\ GetPairByEVM(x[1]) = p
               /\ Evm2CosmosAllowed(u, p, [z \in {y} |-> x], denom[y[1]])

\* A binding is never redirected, and it is dropped only together with one of
\* its halves: the NFT burned, or the ERC721 burned or lost with its contract.
BindingDroppedWithItsHalf ==
    [][\A x \in TokenUIDs :
          forward[x] # None /\ forward'[x] # forward[x]
            => /\ forward'[x] = None
               /\ nftOwner'[forward[x]] = None \/ ercOwner'[x] = None]_vars

\* What a refund pays out, it pays to the sender of the failed transfer, and
\* the NFT that travelled is gone when the ERC721 is back: no half is
\* paid out while the other still circulates.
RefundPaysTheSender ==
    [][\A x \in TokenUIDs :
          refunding # None /\ ercOwner'[x] # ercOwner[x]
            => /\ ercOwner'[x] = refunding.origin
               /\ nftOwner'[forward[x]] = None]_vars

\* "If the acknowledgement failed, then the sender is refunded their tokens"
\* (x/evmibc/keeper/ibc_hook.go): when a token of a failed transfer has been
\* processed, its sender holds one half, or the binding is kept.
FailedTransferRefundsSender ==
    [][\A y \in NFTUIDs :
          RefundPacketToken(y, FALSE)
            => \/ nftOwner'[y] = refunding.origin
               \/ reverse[y] # None /\ ercOwner'[reverse[y]] = refunding.origin
               \/ reverse'[y] # None]_vars

=============================================================================
