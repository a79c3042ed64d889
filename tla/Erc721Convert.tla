--------------------------- MODULE Erc721Convert ----------------------------
(***************************************************************************)
(* The x/erc721 message handlers and the per-token refund of a failed IBC  *)
(* transfer.                                                               *)
(*                                                                         *)
(* A handler that returns an error has all of its writes rolled back by    *)
(* the SDK, so only accepted messages are steps; the conjuncts of a        *)
(* handler are the checks it makes on its way.  The caller chooses the ids *)
(* of both sides: an omitted id is derived by the handler, and the derived *)
(* id is one of the choices.                                               *)
(***************************************************************************)
EXTENDS Erc721Registry

VARIABLES
    enabled    \* Params.EnableErc721, as GetParams reads it

convertVars == <<denom, nftOwner, code, ercOwner, tokenPairs, erc721Map,
                 classMap, forward, reverse, refund, enabled>>

\* The account that receives a converted token is the caller's choice; the
\* module account itself is not refused.
Receivers == Users \cup {Module}

(***************************************************************************)
(* MsgConvertNFT: native NFT to ERC721                                     *)
(***************************************************************************)

\* GetContractAddressAndTokenIds for a registered class: a bound NFT keeps
\* its token, a bound token keeps its NFT, and the contract the caller names
\* is the pair's.  With none named it is the one a bound NFT of the batch
\* records, else the one spelled in the class id.
GetContractAddressAndTokenIds(p, b, named) ==
    /\ \A y \in DOMAIN b : reverse[y] \in {None, b[y]}
    /\ named \in {None, p[1]}
    /\ named = None => \/ \E y \in DOMAIN b : reverse[y] # None
                       \/ p[2] = DerivedClass[p[1]]
    /\ \A y \in DOMAIN b : forward[b[y]] \in {None, y}

\* convertCosmos2Evm: the sender's NFTs go to the module account; a token
\* without a binding is minted, a bound one is released from the module.
ConvertCosmos2Evm(u, b, receiver, fw, rv) ==
    /\ \A y \in DOMAIN b :
          /\ nftOwner[y] = u
          /\ \/ fw[b[y]] = None /\ ercOwner[b[y]] = None
             \/ fw[b[y]] = y /\ ercOwner[b[y]] = Module
    /\ NoBindingConflict(fw, rv, b)
    /\ nftOwner' = [y \in NFTUIDs |-> IF y \in DOMAIN b THEN Module ELSE nftOwner[y]]
    /\ ercOwner' = [x \in TokenUIDs |-> IF x \in TokensOf(b) THEN receiver ELSE ercOwner[x]]
    /\ forward' = BindForward(fw, b)
    /\ reverse' = BindReverse(rv, b)

\* acc == nil || !acc.HasCodeHash()
LostCode(c) == code[c] # "live"

ConvertNFT(u, p, named, receiver) ==
    /\ enabled
    /\ GetPairByClass(p[2]) = p
    /\ erc721Map[p[1]] # None
    /\ ~LostCode(p[1])
    /\ \E b \in Batches(p[2], p[1]) :
          /\ GetContractAddressAndTokenIds(p, b, named)
          /\ ConvertCosmos2Evm(u, b, receiver, forward, reverse)
    /\ UNCHANGED <<denom, code, tokenPairs, erc721Map, classMap, refund, enabled>>

\* DeployERC721Contract: a fresh address, for a class that exists.
DeployERC721Contract(c, cl) ==
    /\ denom[cl] # None
    /\ c \notin External
    /\ code[c] = "absent"
    /\ code' = [code EXCEPT ![c] = "live"]

\* A class without a pair gets a contract of its own; the contract the
\* caller names is ignored.
ConvertNFTDeploy(u, p, receiver) ==
    /\ enabled
    /\ GetPairByClass(p[2]) = None
    /\ DeployERC721Contract(p[1], p[2])
    /\ RegisterNFT(p[1], p[2])
    /\ \E b \in Batches(p[2], p[1]) :
          ConvertCosmos2Evm(u, b, receiver, forward, reverse)
    /\ UNCHANGED <<denom, refund, enabled>>

\* pairContractRedeployable
PairContractRedeployable(cl) == cl \notin DerivedClasses

Rebase(b, c) == [y \in DOMAIN b |-> <<c, b[y][2]>>]

\* Mutated form: the purge leaves the lookup key of the old contract.
ReplacePairKeepsMap(p, c) ==
    /\ tokenPairs' = (tokenPairs \ {p}) \cup {<<c, p[2]>>}
    /\ erc721Map' = [erc721Map EXCEPT ![c] = <<c, p[2]>>]
    /\ classMap' = [classMap EXCEPT ![p[2]] = <<c, p[2]>>]

\* PurgeTokenPair's pair keys, then RegisterNFT for the new contract.
ReplacePair(p, c) ==
    /\ ~IsIBCDenom(p[2])
    /\ erc721Map[c] = None
    /\ tokenPairs' = (tokenPairs \ {p}) \cup {<<c, p[2]>>}
    /\ erc721Map' = [erc721Map EXCEPT ![p[1]] = None, ![c] = <<c, p[2]>>]
    /\ classMap' = [classMap EXCEPT ![p[2]] = <<c, p[2]>>]

\* A pair p whose contract lost its code is purged, and the conversion goes
\* on with a contract deployed at c.
ConvertNFTRedeploy(u, p, named, c, receiver) ==
    /\ enabled
    /\ GetPairByClass(p[2]) = p
    /\ erc721Map[p[1]] # None
    /\ LostCode(p[1])
    /\ PairContractRedeployable(p[2])
    /\ DeployERC721Contract(c, p[2])
    /\ ReplacePair(p, c)
    /\ refund' = PurgeRefund(p)
    /\ \E b \in Batches(p[2], p[1]) :
          /\ GetContractAddressAndTokenIds(p, b, named)
          /\ ConvertCosmos2Evm(u, Rebase(b, c), receiver,
                               PurgeForward(forward, reverse, p),
                               PurgeReverse(forward, reverse, p))
    /\ UNCHANGED <<denom, enabled>>

(***************************************************************************)
(* MsgConvertERC721 and MsgTransferERC721: ERC721 to native NFT            *)
(***************************************************************************)

\* GetClassIDAndNFTID and validateNoMappingConflict.
NoMappingConflict(b) ==
    \A y \in DOMAIN b :
        /\ forward[b[y]] \in {None, y}
        /\ forward[b[y]] = y => reverse[y] \in {None, b[y]}

\* The checks of ConvertERC721 and convertEvm2Cosmos, given the class record
\* d that holds once the pair is registered.
Evm2CosmosAllowed(u, p, b, d) ==
    /\ NoMappingConflict(b)
    /\ code[p[1]] = "live"
    /\ \A y \in DOMAIN b :
          /\ ercOwner[b[y]] = u
          /\ IF forward[b[y]] = None
               THEN MayMint(d, Module) /\ nftOwner[y] = None
               ELSE nftOwner[y] = Module
    /\ ~IsIBCDenom(p[2]) => NoBindingConflict(forward, reverse, b)

\* Mutated form: the sender keeps the ERC721.
Evm2CosmosMovesNoEscrow(p, b, dest) ==
    /\ nftOwner' = [y \in NFTUIDs |-> IF y \in DOMAIN b THEN dest ELSE nftOwner[y]]
    /\ UNCHANGED ercOwner

\* Mutated form: the token of a class that is no voucher is burned as well.
Evm2CosmosMovesBurns(p, b, dest) ==
    /\ nftOwner' = [y \in NFTUIDs |-> IF y \in DOMAIN b THEN dest ELSE nftOwner[y]]
    /\ ercOwner' = [x \in TokenUIDs |-> IF x \in TokensOf(b) THEN None ELSE ercOwner[x]]

\* A voucher's token is burned, any other is escrowed by the module; the
\* NFT ends with dest.
Evm2CosmosMoves(p, b, dest) ==
    /\ nftOwner' = [y \in NFTUIDs |-> IF y \in DOMAIN b THEN dest ELSE nftOwner[y]]
    /\ ercOwner' = [x \in TokenUIDs |->
                      IF x \notin TokensOf(b) THEN ercOwner[x]
                      ELSE IF IsIBCDenom(p[2]) THEN None ELSE Module]

Evm2CosmosBindings(b) ==
    /\ forward' = BindForward(forward, b)
    /\ reverse' = BindReverse(reverse, b)

\* An unregistered contract is registered on the way.
EnsurePairByEVM(p, restricted) ==
    \/ /\ RegisterERC721(p[1], p[2], restricted)
    \/ /\ GetPairByEVM(p[1]) = p
       /\ UNCHANGED <<denom, tokenPairs, erc721Map, classMap>>

ConvertERC721(u, p, restricted, receiver) ==
    /\ enabled
    /\ EnsurePairByEVM(p, restricted)
    /\ \E b \in Batches(p[2], p[1]) :
          /\ Evm2CosmosAllowed(u, p, b, denom'[p[2]])
          /\ Evm2CosmosMoves(p, b, receiver)
          /\ IF IsIBCDenom(p[2]) THEN DeleteVoucherBindingKeys(b)
             ELSE Evm2CosmosBindings(b) /\ UNCHANGED refund
    /\ UNCHANGED <<code, enabled>>

\* TransferERC721 converts to the module account and sends the NFT on with
\* ICS-721 from there: dest is Escrow when the class leaves its origin, None
\* when a voucher goes back to the chain it came from.
TransferERC721(u, p, b, dest) ==
    /\ Evm2CosmosAllowed(u, p, b, denom'[p[2]])
    /\ dest = None => IsIBCDenom(p[2])
    /\ Evm2CosmosMoves(p, b, dest)
    /\ IF IsIBCDenom(p[2]) THEN DeleteVoucherBindingKeys(b)
       ELSE Evm2CosmosBindings(b) /\ SetEvmRefundReceiver(b, u)
    /\ UNCHANGED <<code, enabled>>

(***************************************************************************)
(* RefundPacketToken, one token.  evmFails: the EVM calls of this token    *)
(* fail for a reason of their own (gas, a reverting receiver).             *)
(***************************************************************************)

RefundSkipped(y, evmFails) ==
    LET x == reverse[y]
    IN  \/ x = None                                  \* erc721_pair_not_found
        \/ nftOwner[y] = None                        \* nft_already_gone
        \/ ercOwner[x] = None \/ evmFails            \* erc721_owner_query_failed,
                                                     \* erc721_transfer_failed
        \/ /\ ercOwner[x] = Module                   \* erc721_refund_receiver_missing
           /\ GetEvmRefundReceiver(x, y) = None

\* Mutated form: only the reverse half of the binding is deleted.
RefundUnbindKeepsForward(x, y) ==
    /\ refund' = [refund EXCEPT ![<<x[1], y[2]>>] = None, ![x] = None]
    /\ reverse' = [reverse EXCEPT ![y] = None]
    /\ UNCHANGED forward

RefundUnbind(x, y) ==
    /\ refund' = [refund EXCEPT ![<<x[1], y[2]>>] = None, ![x] = None]
    /\ reverse' = [reverse EXCEPT ![y] = None]
    /\ forward' = [forward EXCEPT ![x] = None]

\* Mutated form: the NFT is not burned.
RefundBurnForgotten(y, refused) == UNCHANGED nftOwner

RefundBurn(y, refused) ==
    nftOwner' = [nftOwner EXCEPT ![y] = IF @ = Module /\ ~refused THEN None ELSE @]

\* The module's ERC721 goes to the recorded receiver, then the bindings and
\* the refund records go, then the NFT the module holds is burned.  The burn
\* is refused while another module binds the NFT; the loop goes on.
RefundToken(y, evmFails, refused) ==
    LET x == reverse[y]
    IN  IF RefundSkipped(y, evmFails)
          THEN UNCHANGED convertVars
          ELSE /\ ercOwner' = [ercOwner EXCEPT ![x] =
                                 IF @ = Module THEN GetEvmRefundReceiver(x, y) ELSE @]
               /\ RefundUnbind(x, y)
               /\ RefundBurn(y, refused)
               /\ UNCHANGED <<denom, code, tokenPairs, erc721Map, classMap, enabled>>

\* SetParams: the encoding holds the flags that are TRUE and no others.
StoredParams(enable, hook) ==
    {f \in {"EnableErc721", "EnableEVMHook"} :
        IF f = "EnableErc721" THEN enable ELSE hook}

\* GetParams: an empty encoding reads as DefaultParams, in which both flags
\* are TRUE.
GetEnableErc721(bz) == bz = {} \/ "EnableErc721" \in bz

\* MsgUpdateParams
UpdateParams(enable, hook) ==
    /\ enabled' = GetEnableErc721(StoredParams(enable, hook))
    /\ UNCHANGED <<denom, nftOwner, code, ercOwner, tokenPairs, erc721Map,
                   classMap, forward, reverse, refund>>

=============================================================================
