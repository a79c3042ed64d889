--------------------------- MODULE Erc721Registry ---------------------------
(***************************************************************************)
(* The x/erc721 store: the token pairs with their two lookup maps, the     *)
(* per-token UID index in both directions, and the IBC refund receivers.   *)
(*                                                                         *)
(* Keys are canonical here (one spelling per token id and per address);    *)
(* the historical spellings are the subject of module UidIndex.            *)
(*                                                                         *)
(* The writers are given as functions of the index they start from, so     *)
(* that a handler can purge a pair and bind tokens in one step.            *)
(***************************************************************************)
EXTENDS Erc721Assets

VARIABLES
    tokenPairs,   \* KeyPrefixTokenPair: the pairs <<contract, class>>
    erc721Map,    \* KeyPrefixTokenPairByERC721: contract |-> pair id
    classMap,     \* KeyPrefixTokenPairByClass: class |-> pair id
    forward,      \* KeyPrefixNFTUIDPairByTokenUID: token UID |-> NFT UID
    reverse,      \* KeyPrefixNFTUIDPairByNFTUID: NFT UID |-> token UID
    refund        \* KeyPrefixEvmAddressByContractTokenId

pairVars == <<tokenPairs, erc721Map, classMap>>
indexVars == <<forward, reverse, refund>>
registryVars == <<tokenPairs, erc721Map, classMap, forward, reverse, refund>>

\* A pair's id is a hash of its contract and class; the pair stands for it.
Pairs == Contracts \X Classes

\* A refund receiver is stored under <contract><id>, where the id is either a
\* native or an ERC721 token id: the two share one key space.
RefundKeys == Contracts \X (NftIds \cup TokenIds)

RegistryTypeOK ==
    /\ tokenPairs \in SUBSET Pairs
    /\ erc721Map \in [Contracts -> Pairs \cup {None}]
    /\ classMap \in [Classes -> Pairs \cup {None}]
    /\ forward \in [TokenUIDs -> NFTUIDs \cup {None}]
    /\ reverse \in [NFTUIDs -> TokenUIDs \cup {None}]
    /\ refund \in [RefundKeys -> Users \cup {None}]

\* The cross-module checker's x/erc721 half.
IsConvertedNFT(y) == reverse[y] # None

(***************************************************************************)
(* Token pairs                                                             *)
(***************************************************************************)

GetPairByClass(cl) == IF classMap[cl] \in tokenPairs THEN classMap[cl] ELSE None

GetPairByEVM(c) == IF erc721Map[c] \in tokenPairs THEN erc721Map[c] ELSE None

SetPair(p) ==
    /\ tokenPairs' = tokenPairs \cup {p}
    /\ erc721Map' = [erc721Map EXCEPT ![p[1]] = p]
    /\ classMap' = [classMap EXCEPT ![p[2]] = p]

\* Mutated form: the contract lookup map is not written.
RegisterNFTWithoutContractMap(c, cl) ==
    /\ ~IsIBCDenom(cl)
    /\ classMap[cl] = None
    /\ tokenPairs' = tokenPairs \cup {<<c, cl>>}
    /\ classMap' = [classMap EXCEPT ![cl] = <<c, cl>>]
    /\ UNCHANGED erc721Map

\* RegisterNFT: an "ibc/" class is refused, and so is a class or a contract
\* that already has a pair.
RegisterNFT(c, cl) ==
    /\ ~IsIBCDenom(cl)
    /\ classMap[cl] = None
    /\ erc721Map[c] = None
    /\ SetPair(<<c, cl>>)

\* RegisterERC721 with CreateNFTClass: the class is the one derived from the
\* contract; neither the pair nor the native class may exist yet.  The class
\* takes its restriction flags from the contract and the module as creator.
RegisterERC721(c, cl, restricted) ==
    /\ erc721Map[c] = None
    /\ cl = DerivedClass[c]
    /\ code[c] = "live"                  \* QueryERC721
    /\ classMap[cl] = None
    /\ denom[cl] = None
    /\ denom' = [denom EXCEPT ![cl] = [creator |-> Module, mintRestricted |-> restricted]]
    /\ SetPair(<<c, cl>>)

(***************************************************************************)
(* The UID index                                                           *)
(***************************************************************************)

\* What SetNFTPairs promises of the two directions together.
InverseIndex(fw, rv) == \A x \in TokenUIDs, y \in NFTUIDs : fw[x] = y <=> rv[y] = x

\* SetNFTPairs refuses a token or an NFT bound to anything else.
NoBindingConflict(fw, rv, b) ==
    \A y \in DOMAIN b : fw[b[y]] \in {None, y} /\ rv[y] \in {None, b[y]}

BindForward(fw, b) ==
    [x \in TokenUIDs |-> IF x \in TokensOf(b) THEN NftFor(b, x) ELSE fw[x]]

BindReverse(rv, b) ==
    [y \in NFTUIDs |-> IF y \in DOMAIN b THEN b[y] ELSE rv[y]]

\* deleteVoucherBindingKeys, for every token of a batch.
DeleteVoucherBindingKeys(b) ==
    /\ forward' = [x \in TokenUIDs |-> IF x \in TokensOf(b) THEN None ELSE forward[x]]
    /\ reverse' = [y \in NFTUIDs |-> IF y \in DOMAIN b THEN None ELSE reverse[y]]
    /\ refund' = [k \in RefundKeys |->
                    IF \E y \in DOMAIN b : k \in {b[y], <<b[y][1], y[2]>>}
                      THEN None ELSE refund[k]]

\* DeletePairPerTokenState.  First the forward keys of the contract go, each
\* with the reverse key it names; then the remaining reverse keys of the
\* class, each with the forward key it names.
PurgeReverseByContract(fw, rv, c) ==
    [y \in NFTUIDs |-> IF \E x \in TokenUIDs : x[1] = c /\ fw[x] = y THEN None ELSE rv[y]]

PurgeForward(fw, rv, p) ==
    LET rest == PurgeReverseByContract(fw, rv, p[1])
    IN  [x \in TokenUIDs |->
           IF x[1] = p[1] \/ \E y \in NFTUIDs : y[1] = p[2] /\ rest[y] = x
             THEN None ELSE fw[x]]

PurgeReverse(fw, rv, p) ==
    LET rest == PurgeReverseByContract(fw, rv, p[1])
    IN  [y \in NFTUIDs |-> IF y[1] = p[2] THEN None ELSE rest[y]]

PurgeRefund(p) == [k \in RefundKeys |-> IF k[1] = p[1] THEN None ELSE refund[k]]

(***************************************************************************)
(* IBC refund receivers                                                    *)
(***************************************************************************)

\* Mutated form: an earlier record is kept.
SetEvmRefundReceiverOnce(b, sender) ==
    refund' = [k \in RefundKeys |->
                 IF refund[k] = None /\ \E y \in DOMAIN b : k \in {b[y], <<b[y][1], y[2]>>}
                   THEN sender ELSE refund[k]]

\* SetEvmRefundReceiver records the sender under every native id and every
\* ERC721 id of the batch.
SetEvmRefundReceiver(b, sender) ==
    refund' = [k \in RefundKeys |->
                 IF \E y \in DOMAIN b : k \in {b[y], <<b[y][1], y[2]>>}
                   THEN sender ELSE refund[k]]

\* GetEvmRefundReceiver looks under the native id first.
GetEvmRefundReceiver(x, y) ==
    IF refund[<<x[1], y[2]>>] # None THEN refund[<<x[1], y[2]>>] ELSE refund[x]

(***************************************************************************)
(* Genesis: what ExportGenesis writes and InitGenesis makes of it          *)
(***************************************************************************)

\* UIDBelongsToRegisteredPair, which both sides ask.
UIDBelongsToRegisteredPair(x, y, P) == <<x[1], y[1]>> \in P

\* ExportNFTUIDPairsWithReport: a binding both directions agree on.
ExportNFTUIDPairs ==
    [y \in {y \in NFTUIDs : /\ reverse[y] # None
                            /\ forward[reverse[y]] = y
                            /\ UIDBelongsToRegisteredPair(reverse[y], y, tokenPairs)}
       |-> reverse[y]]

\* ExportRefundReceiversWithReport: the key must start with the address of a
\* registered contract (splitContractTokenKey).
ExportRefundReceivers ==
    [k \in {k \in RefundKeys : refund[k] # None /\ \E p \in tokenPairs : p[1] = k[1]}
       |-> refund[k]]

ExportGenesis ==
    [pairs |-> tokenPairs, uids |-> ExportNFTUIDPairs, receivers |-> ExportRefundReceivers]

\* GenesisState.Validate with ValidateGenesisPairs.
ValidateGenesis(g) ==
    /\ \A p, q \in g.pairs : p[1] = q[1] \/ p[2] = q[2] => p = q
    /\ \A y, z \in DOMAIN g.uids : g.uids[y] = g.uids[z] => y = z
    /\ \A y \in DOMAIN g.uids : UIDBelongsToRegisteredPair(g.uids[y], y, g.pairs)
    /\ \A k \in DOMAIN g.receivers : \E p \in g.pairs : p[1] = k[1]

PairWith(P, i, k) == IF \E p \in P : p[i] = k THEN CHOOSE p \in P : p[i] = k ELSE None

\* The store InitGenesis writes: the pairs with both maps, then
\* importPerTokenState.
InitGenesis(g) ==
    [tokenPairs |-> g.pairs,
     erc721Map  |-> [c \in Contracts |-> PairWith(g.pairs, 1, c)],
     classMap   |-> [cl \in Classes |-> PairWith(g.pairs, 2, cl)],
     forward    |-> BindForward([x \in TokenUIDs |-> None], g.uids),
     reverse    |-> BindReverse([y \in NFTUIDs |-> None], g.uids),
     refund     |-> [k \in RefundKeys |-> IF k \in DOMAIN g.receivers THEN g.receivers[k] ELSE None]]

=============================================================================
