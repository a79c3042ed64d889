---------------------------- MODULE Cw721Convert ----------------------------
(***************************************************************************)
(* x/cw721: the CosmWasm ledger of CW721 tokens, the module's store, its   *)
(* message handlers and the per-token refund of a failed IBC transfer.     *)
(*                                                                         *)
(* The module mirrors x/erc721 with fewer parts: no voucher branch (no     *)
(* voucher class was ever bound here), no purge and redeployment (a        *)
(* CosmWasm contract cannot lose its code), refund receivers kept under    *)
(* the CW721 id only.  As there, only accepted messages are steps.         *)
(*                                                                         *)
(* In ConvertNFT's list of NFTs a bound one hands its saved token id down  *)
(* to an unbound one behind it, and the message is refused; with the       *)
(* unbound ones first it is accepted.  The sender orders the list, so a    *)
(* batch without order loses nothing.                                      *)
(***************************************************************************)
EXTENDS NativeNfts

CONSTANTS
    CwContracts,     \* addresses that can hold a CW721 contract
    CwExternal,      \* contracts instantiated by users
    CwRogue,         \* external contracts that reassign tokens at will
    CwDerivedClass   \* contract |-> its class id "uptick-<address>"

CwTokenUIDs == CwContracts \X TokenIds

CwPairs == CwContracts \X Classes

ASSUME CwAssumption ==
    /\ CwExternal \subseteq CwContracts
    /\ CwRogue \subseteq CwExternal
    /\ CwDerivedClass \in [CwContracts -> DerivedClasses]
    /\ \A c, d \in CwContracts : CwDerivedClass[c] = CwDerivedClass[d] => c = d
    /\ None \notin CwTokenUIDs
    /\ None \notin CwPairs

VARIABLES
    cwLive,       \* the contracts that have been instantiated
    cwOwner,      \* owner of each CW721 token; None = all_nft_info fails
    cwTokenPairs, \* KeyPrefixTokenPair: the pairs <<contract, class>>
    cw721Map,     \* KeyPrefixTokenPairByCW721: contract |-> pair id
    cwClassMap,   \* KeyPrefixTokenPairByClass: class |-> pair id
    cwForward,    \* KeyPrefixNFTUIDPairByTokenUID: token UID |-> NFT UID
    cwReverse,    \* KeyPrefixNFTUIDPairByNFTUID: NFT UID |-> token UID
    cwRefund,     \* KeyPrefixCwAddressByContractTokenId
    cwParams      \* EnableCw721, and whether a wasm code id is stored

wasmVars == <<cwLive, cwOwner>>
cwPairVars == <<cwTokenPairs, cw721Map, cwClassMap>>
cwIndexVars == <<cwForward, cwReverse, cwRefund>>
cwStoreVars == <<cwTokenPairs, cw721Map, cwClassMap, cwForward, cwReverse, cwRefund, cwParams>>
cwVars == <<wasmVars, cwStoreVars>>

CwTypeOK ==
    /\ cwLive \in SUBSET CwContracts
    /\ cwOwner \in [CwTokenUIDs -> Users \cup {CwModule, None}]
    /\ cwTokenPairs \in SUBSET CwPairs
    /\ cw721Map \in [CwContracts -> CwPairs \cup {None}]
    /\ cwClassMap \in [Classes -> CwPairs \cup {None}]
    /\ cwForward \in [CwTokenUIDs -> NFTUIDs \cup {None}]
    /\ cwReverse \in [NFTUIDs -> CwTokenUIDs \cup {None}]
    /\ cwRefund \in [CwTokenUIDs -> Users \cup {None}]
    /\ cwParams \in [enabled : BOOLEAN, codeID : BOOLEAN]

CwInit ==
    /\ cwLive = CwExternal
    /\ cwOwner = [x \in CwTokenUIDs |-> None]
    /\ cwTokenPairs = {}
    /\ cw721Map = [c \in CwContracts |-> None]
    /\ cwClassMap = [cl \in Classes |-> None]
    /\ cwForward = [x \in CwTokenUIDs |-> None]
    /\ cwReverse = [y \in NFTUIDs |-> None]
    /\ cwRefund = [x \in CwTokenUIDs |-> None]
    /\ cwParams = [enabled |-> TRUE, codeID |-> FALSE]

CwReceivers == Users \cup {CwModule}

(***************************************************************************)
(* CW721 contracts.  The module is the only minter of those it             *)
(* instantiates.                                                           *)
(***************************************************************************)

CwTransfer(u, x, v) ==
    /\ cwOwner[x] = u
    /\ cwOwner' = [cwOwner EXCEPT ![x] = v]
    /\ UNCHANGED cwLive

CwMint(x, v) ==
    /\ x[1] \in CwExternal
    /\ cwOwner[x] = None
    /\ cwOwner' = [cwOwner EXCEPT ![x] = v]
    /\ UNCHANGED cwLive

CwBurn(u, x) ==
    /\ cwOwner[x] = u
    /\ cwOwner' = [cwOwner EXCEPT ![x] = None]
    /\ UNCHANGED cwLive

CwReassign(x, v) ==
    /\ x[1] \in CwRogue
    /\ cwOwner' = [cwOwner EXCEPT ![x] = v]
    /\ UNCHANGED cwLive

(***************************************************************************)
(* The store                                                               *)
(***************************************************************************)

\* The cross-module checker's x/cw721 half.
IsCwConvertedNFT(y) == cwReverse[y] # None

CwGetTokenPair(id) == IF id \in cwTokenPairs THEN id ELSE None

CwPairByClass(cl) == CwGetTokenPair(cwClassMap[cl])

CwPairByCW721(c) == CwGetTokenPair(cw721Map[c])

\* IsClassRegistered and IsCW721Registered, of either half of a pair.
CwIsRegistered(p) == cwClassMap[p[2]] # None \/ cw721Map[p[1]] # None

CwSetPair(p) ==
    /\ cwTokenPairs' = cwTokenPairs \cup {p}
    /\ cw721Map' = [cw721Map EXCEPT ![p[1]] = p]
    /\ cwClassMap' = [cwClassMap EXCEPT ![p[2]] = p]

\* RegisterNFT: an "ibc/" class is refused, and so is a class or a contract
\* that already has a pair.
CwRegisterNFT(p) ==
    /\ ~IsIBCDenom(p[2])
    /\ ~CwIsRegistered(p)
    /\ CwSetPair(p)

\* RegisterCW721 with CreateNFTClass: the class derived from the contract,
\* created here by the module and open to every minter.
RegisterCW721(p) ==
    /\ ~CwIsRegistered(p)
    /\ p[2] = CwDerivedClass[p[1]]
    /\ p[1] \in cwLive                   \* QueryCW721
    /\ denom[p[2]] = None
    /\ denom' = [denom EXCEPT ![p[2]] = [creator |-> CwModule, mintRestricted |-> FALSE]]
    /\ CwSetPair(p)

\* SetNFTPairs refuses a token or an NFT bound to anything else.
CwSetNFTPairs(b) ==
    /\ \A y \in DOMAIN b : cwForward[b[y]] \in {None, y} /\ cwReverse[y] \in {None, b[y]}
    /\ cwForward' = [x \in CwTokenUIDs |-> IF x \in TokensOf(b) THEN NftFor(b, x) ELSE cwForward[x]]
    /\ cwReverse' = [y \in NFTUIDs |-> IF y \in DOMAIN b THEN b[y] ELSE cwReverse[y]]

(***************************************************************************)
(* MsgConvertNFT: native NFT to CW721                                      *)
(***************************************************************************)

\* GetContractAddressAndTokenIds for a registered class.
CwContractAndTokenIds(p, b, named) ==
    /\ \A y \in DOMAIN b : cwReverse[y] \in {None, b[y]}
    /\ named \in {None, p[1]}
    /\ named = None => \/ \E y \in DOMAIN b : cwReverse[y] # None
                       \/ p[2] = CwDerivedClass[p[1]]
    /\ \A y \in DOMAIN b : cwForward[b[y]] \in {None, y}

\* MintCw721 of a token without a binding, TransferCw721 of a bound one.
MintOrTransferCw721(b, receiver) ==
    /\ \A x \in TokensOf(b) : cwOwner[x] = IF cwForward[x] = None THEN None ELSE CwModule
    /\ cwOwner' = [x \in CwTokenUIDs |-> IF x \in TokensOf(b) THEN receiver ELSE cwOwner[x]]

\* convertCosmos2Wasm: the sender's NFTs go to the module account; a token
\* without a binding is minted, a bound one is released from the module.
ConvertCosmos2Wasm(u, b, receiver) ==
    /\ \A y \in DOMAIN b : nftOwner[y] = u
    /\ nftOwner' = [y \in NFTUIDs |-> IF y \in DOMAIN b THEN CwModule ELSE nftOwner[y]]
    /\ MintOrTransferCw721(b, receiver)
    /\ CwSetNFTPairs(b)

CwConvertNFT(u, p, named, receiver) ==
    /\ cwParams.enabled
    /\ CwPairByClass(p[2]) = p
    /\ \E b \in Batches(p[2], p[1]) :
          /\ CwContractAndTokenIds(p, b, named)
          /\ ConvertCosmos2Wasm(u, b, receiver)
    /\ UNCHANGED <<denom, cwLive, cwPairVars, cwRefund, cwParams>>

\* A class without a pair: the caller may name no contract; one is
\* instantiated from the stored wasm code.
CwConvertNFTDeploy(u, p, receiver) ==
    /\ cwParams.enabled
    /\ CwPairByClass(p[2]) = None
    /\ cwParams.codeID
    /\ denom[p[2]] # None
    /\ p[1] \notin cwLive
    /\ cwLive' = cwLive \cup {p[1]}
    /\ CwRegisterNFT(p)
    /\ \E b \in Batches(p[2], p[1]) : ConvertCosmos2Wasm(u, b, receiver)
    /\ UNCHANGED <<denom, cwRefund, cwParams>>

(***************************************************************************)
(* MsgConvertCW721 and MsgTransferCW721: CW721 to native NFT               *)
(***************************************************************************)

EnsurePairByCW721(p) ==
    \/ RegisterCW721(p)
    \/ /\ CwPairByCW721(p[1]) = p
       /\ UNCHANGED <<denom, cwPairVars>>

\* GetClassIDAndNFTID and the checks of convertWasm2Cosmos, given the class
\* record d that holds once the pair is registered.
Wasm2CosmosAllowed(u, b, d) ==
    \A y \in DOMAIN b :
        /\ cwForward[b[y]] \in {None, y}
        /\ cwOwner[b[y]] = u
        /\ IF cwForward[b[y]] = None
             THEN MayMint(d, CwModule) /\ nftOwner[y] = None
             ELSE nftOwner[y] = CwModule

\* Mutated form: the CW721 token is not taken from the sender.
ConvertWasm2CosmosTakesNothing(u, p, b, dest) ==
    /\ Wasm2CosmosAllowed(u, b, denom'[p[2]])
    /\ nftOwner' = [y \in NFTUIDs |-> IF y \in DOMAIN b THEN dest ELSE nftOwner[y]]
    /\ CwSetNFTPairs(b)
    /\ UNCHANGED cwOwner

\* convertWasm2Cosmos: the module escrows the tokens, the NFTs go to dest.
ConvertWasm2Cosmos(u, p, b, dest) ==
    /\ Wasm2CosmosAllowed(u, b, denom'[p[2]])
    /\ nftOwner' = [y \in NFTUIDs |-> IF y \in DOMAIN b THEN dest ELSE nftOwner[y]]
    /\ cwOwner' = [x \in CwTokenUIDs |-> IF x \in TokensOf(b) THEN CwModule ELSE cwOwner[x]]
    /\ CwSetNFTPairs(b)

ConvertCW721(u, p, receiver) ==
    /\ cwParams.enabled
    /\ EnsurePairByCW721(p)
    /\ \E b \in Batches(p[2], p[1]) : ConvertWasm2Cosmos(u, p, b, receiver)
    /\ UNCHANGED <<cwLive, cwRefund, cwParams>>

\* Mutated form: the first sender of a token stays recorded.
SetCwAddressOnce(b, u) ==
    cwRefund' = [x \in CwTokenUIDs |->
                   IF x \in TokensOf(b) /\ cwRefund[x] = None THEN u ELSE cwRefund[x]]

SetCwAddressByContractTokenId(b, u) ==
    cwRefund' = [x \in CwTokenUIDs |-> IF x \in TokensOf(b) THEN u ELSE cwRefund[x]]

\* TransferCW721 converts to the module account, sends the NFTs on with
\* ICS-721 from there and records the sender for a refund.
TransferCW721(u, p, b) ==
    /\ cwParams.enabled
    /\ EnsurePairByCW721(p)
    /\ ConvertWasm2Cosmos(u, p, b, Escrow)
    /\ SetCwAddressByContractTokenId(b, u)
    /\ UNCHANGED <<cwLive, cwParams>>

(***************************************************************************)
(* RefundPacketToken, one token.  wasmFails: the contract calls of this    *)
(* token fail for a reason of their own.  refused: x/collection refuses    *)
(* the burn because another module binds the NFT.                          *)
(***************************************************************************)

\* moduleOwnsCW721 of the owner the contract answers, in any spelling.
ModuleOwnsCW721(x) == cwOwner[x] = CwModule

CwRefundSkipped(y, wasmFails) ==
    LET x == cwReverse[y]
    IN  \/ x = None                                  \* cw721_pair_not_found
        \/ cwOwner[x] = None \/ wasmFails            \* cw721_owner_query_failed,
                                                     \* cw721_transfer_failed
        \/ ModuleOwnsCW721(x) /\ cwRefund[x] = None  \* cw721_refund_receiver_missing

\* Mutated form: the reverse entry survives the refund.
CwRefundUnbindHalf(x, y) ==
    /\ cwRefund' = [cwRefund EXCEPT ![x] = None]
    /\ cwForward' = [cwForward EXCEPT ![x] = None]
    /\ UNCHANGED cwReverse

CwRefundUnbind(x, y) ==
    /\ cwRefund' = [cwRefund EXCEPT ![x] = None]
    /\ cwForward' = [cwForward EXCEPT ![x] = None]
    /\ cwReverse' = [cwReverse EXCEPT ![y] = None]

\* Mutated form: the NFT is not burned.
CwRefundBurnForgotten(y, refused) == UNCHANGED nftOwner

CwRefundBurn(y, refused) ==
    nftOwner' = [nftOwner EXCEPT ![y] = IF @ = CwModule /\ ~refused THEN None ELSE @]

\* A token the module does not own is not paid out, but its binding goes all
\* the same (owner_is_not_module_account).
CwRefundToken(y, wasmFails, refused) ==
    LET x == cwReverse[y]
    IN  IF CwRefundSkipped(y, wasmFails)
          THEN UNCHANGED <<nativeVars, cwVars>>
          ELSE /\ cwOwner' = [cwOwner EXCEPT ![x] = IF ModuleOwnsCW721(x) THEN cwRefund[x] ELSE @]
               /\ CwRefundUnbind(x, y)
               /\ CwRefundBurn(y, refused)
               /\ UNCHANGED <<denom, cwLive, cwPairVars, cwParams>>

\* SetParams: a wasm code id, once stored, is never taken back.
CwUpdateParams(enable, code) ==
    /\ cwParams' = [enabled |-> enable, codeID |-> cwParams.codeID \/ code]
    /\ UNCHANGED <<wasmVars, cwPairVars, cwIndexVars>>

(***************************************************************************)
(* Genesis, as in Erc721Registry                                           *)
(***************************************************************************)

CwUIDBelongsToRegisteredPair(x, y, P) == <<x[1], y[1]>> \in P

CwExportNFTUIDPairs ==
    [y \in {y \in NFTUIDs : /\ cwReverse[y] # None
                            /\ cwForward[cwReverse[y]] = y
                            /\ CwUIDBelongsToRegisteredPair(cwReverse[y], y, cwTokenPairs)}
       |-> cwReverse[y]]

CwExportRefundReceivers ==
    [x \in {x \in CwTokenUIDs : cwRefund[x] # None /\ \E p \in cwTokenPairs : p[1] = x[1]}
       |-> cwRefund[x]]

CwExportGenesis ==
    [pairs |-> cwTokenPairs, uids |-> CwExportNFTUIDPairs, receivers |-> CwExportRefundReceivers]

CwValidateGenesis(g) ==
    /\ \A p, q \in g.pairs : p[1] = q[1] \/ p[2] = q[2] => p = q
    /\ \A y, z \in DOMAIN g.uids : g.uids[y] = g.uids[z] => y = z
    /\ \A y \in DOMAIN g.uids : CwUIDBelongsToRegisteredPair(g.uids[y], y, g.pairs)
    /\ \A x \in DOMAIN g.receivers : \E p \in g.pairs : p[1] = x[1]

CwPairWith(P, i, k) == IF \E p \in P : p[i] = k THEN CHOOSE p \in P : p[i] = k ELSE None

CwInitGenesis(g) ==
    [tokenPairs |-> g.pairs,
     cw721Map   |-> [c \in CwContracts |-> CwPairWith(g.pairs, 1, c)],
     classMap   |-> [cl \in Classes |-> CwPairWith(g.pairs, 2, cl)],
     forward    |-> [x \in CwTokenUIDs |-> IF x \in TokensOf(g.uids) THEN NftFor(g.uids, x) ELSE None],
     reverse    |-> [y \in NFTUIDs |-> IF y \in DOMAIN g.uids THEN g.uids[y] ELSE None],
     refund     |-> [x \in CwTokenUIDs |-> IF x \in DOMAIN g.receivers THEN g.receivers[x] ELSE None]]

=============================================================================
