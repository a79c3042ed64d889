------------------------- MODULE VoucherSettlement --------------------------
(***************************************************************************)
(* SettleIBCVoucherPairs, the pass of the v0.5.0 upgrade over the pairs of *)
(* "ibc/" classes that the earlier releases left behind.  One step settles *)
(* one binding in a cache context of its own; the last binding of a pair   *)
(* decides whether the pair goes.  Only the upgrade handler runs, so       *)
(* nothing happens between the steps.                                      *)
(*                                                                         *)
(* The store comes from the earlier releases: a binding may be in any      *)
(* state of the (ERC owner x native owner) matrix, but no two vouchers     *)
(* name one token.                                                         *)
(***************************************************************************)
EXTENDS Erc721Registry

CONSTANTS
    CodeHolders,   \* the users that are contracts: an account with code
    Permissive     \* contracts whose ownerOf answers zero for a missing token

ASSUME SettlementAssumption ==
    /\ CodeHolders \subseteq Users
    /\ Permissive \subseteq Contracts

VARIABLES
    todo,      \* the bindings of the pair at hand the loop has still to visit
    pair,      \* the voucher pair the loop is at, or None
    left,      \* the voucher pairs still to visit
    kept,      \* the NFTs whose binding this pass has kept
    pass,      \* 0 before the first pass, then the number of the pass
    fault      \* per NFT, the EVM call of its settlement that fails, if any

vars == <<denom, nftOwner, code, ercOwner, tokenPairs, erc721Map, classMap,
          forward, reverse, refund, todo, pair, left, kept, pass, fault>>

TypeOK ==
    /\ AssetsTypeOK
    /\ RegistryTypeOK
    /\ todo \in SUBSET NFTUIDs
    /\ pair \in Pairs \cup {None}
    /\ left \in SUBSET Pairs
    /\ kept \in SUBSET NFTUIDs
    /\ pass \in 0..2
    /\ fault \in [NFTUIDs -> {"none", "query", "write"}]

(***************************************************************************)
(* settleVoucherBinding                                                    *)
(***************************************************************************)

\* QueryERC721TokenOwner fails: the call itself does, the contract is gone,
\* or it reverts for a token it does not know.
OwnerQueryFails(y) ==
  LET x == reverse[y] IN
    \/ fault[y] = "query"
    \/ code[x[1]] # "live"
    \/ ercOwner[x] = None /\ x[1] \notin Permissive

\* The (ERC owner x native owner) matrix.
Classify(y) ==
    LET x == reverse[y]
    IN  CASE OwnerQueryFails(y) -> "kept"
          [] ercOwner[x] \in CodeHolders -> "kept"
          [] ercOwner[x] \in Users /\ nftOwner[y] = Module -> "wrapped"
          [] ercOwner[x] = Module /\ nftOwner[y] = None -> "orphan"
          [] nftOwner[y] = None -> "stale"
          [] OTHER -> "kept"

\* Mutated form: the voucher stays with the module account.
SettleWrappedForgetsNft(y) ==
    LET x == reverse[y]
    IN  /\ ercOwner' = [ercOwner EXCEPT ![x] = None]
        /\ DeleteVoucherBindingKeys([z \in {y} |-> x])
        /\ UNCHANGED nftOwner

\* settleWrapped: the ERC721 is burned and its holder gets the voucher.
SettleWrapped(y) ==
    LET x == reverse[y]
    IN  /\ ercOwner' = [ercOwner EXCEPT ![x] = None]
        /\ nftOwner' = [nftOwner EXCEPT ![y] = ercOwner[x]]
        /\ DeleteVoucherBindingKeys([z \in {y} |-> x])

\* Mutated form: the binding of the burned token stays.
SettleOrphanKeepsBinding(y) ==
    /\ ercOwner' = [ercOwner EXCEPT ![reverse[y]] = None]
    /\ UNCHANGED <<nftOwner, forward, reverse, refund>>

\* settleOrphan: the module's ERC721 is burned.
SettleOrphan(y) ==
    LET x == reverse[y]
    IN  /\ ercOwner' = [ercOwner EXCEPT ![x] = None]
        /\ DeleteVoucherBindingKeys([z \in {y} |-> x])
        /\ UNCHANGED nftOwner

\* deleteBinding alone.
SettleStale(y) ==
    /\ DeleteVoucherBindingKeys([z \in {y} |-> reverse[y]])
    /\ UNCHANGED <<ercOwner, nftOwner>>

KeepBinding == UNCHANGED <<ercOwner, nftOwner, forward, reverse, refund>>

\* A burn or transfer that fails rolls the binding back.
Outcome(y) ==
    IF Classify(y) \in {"wrapped", "orphan"} /\ fault[y] = "write" THEN "kept" ELSE Classify(y)

\* One binding.
SettleVoucherBinding(y) ==
    /\ pair # None
    /\ y \in todo
    /\ \/ Outcome(y) = "wrapped" /\ SettleWrapped(y)
       \/ Outcome(y) = "orphan" /\ SettleOrphan(y)
       \/ Outcome(y) = "stale" /\ SettleStale(y)
       \/ Outcome(y) = "kept" /\ KeepBinding
    /\ todo' = todo \ {y}
    /\ kept' = IF Outcome(y) = "kept" THEN kept \cup {y} ELSE kept
    /\ UNCHANGED <<denom, code, tokenPairs, erc721Map, classMap, pair, left, pass, fault>>

(***************************************************************************)
(* SettleIBCVoucherPairs                                                   *)
(***************************************************************************)

VoucherPairs == {p \in tokenPairs : IsIBCDenom(p[2])}

BindingsOf(cl) == {y \in NFTUIDs : y[1] = cl /\ reverse[y] # None}

\* The bindings are collected from the reverse index before the pair loop.
StartPass ==
    /\ pair = None
    /\ left = {}
    /\ pass < 2
    /\ pass' = pass + 1
    /\ left' = VoucherPairs
    /\ kept' = {}
    /\ UNCHANGED <<assetVars, registryVars, todo, pair, fault>>

NextPair(p) ==
    /\ pair = None
    /\ p \in left
    /\ pair' = p
    /\ todo' = BindingsOf(p[2])
    /\ left' = left \ {p}
    /\ UNCHANGED <<assetVars, registryVars, kept, pass, fault>>

\* Mutated form: the pair record itself stays.
PurgeTokenPairKeepsRecord(p) ==
    /\ forward' = PurgeForward(forward, reverse, p)
    /\ reverse' = PurgeReverse(forward, reverse, p)
    /\ refund' = PurgeRefund(p)
    /\ erc721Map' = [erc721Map EXCEPT ![p[1]] = None]
    /\ classMap' = [classMap EXCEPT ![p[2]] = None]
    /\ UNCHANGED tokenPairs

PurgeTokenPair(p) ==
    /\ forward' = PurgeForward(forward, reverse, p)
    /\ reverse' = PurgeReverse(forward, reverse, p)
    /\ refund' = PurgeRefund(p)
    /\ tokenPairs' = tokenPairs \ {p}
    /\ erc721Map' = [erc721Map EXCEPT ![p[1]] = None]
    /\ classMap' = [classMap EXCEPT ![p[2]] = None]

\* Every binding of the pair was cleared (vacuously, for an empty shell).
AllCleared(p) == \A y \in kept : y[1] # p[2]

FinishPair ==
    /\ pair # None
    /\ todo = {}
    /\ IF AllCleared(pair) THEN PurgeTokenPair(pair) ELSE UNCHANGED registryVars
    /\ pair' = None
    /\ UNCHANGED <<assetVars, todo, left, kept, pass, fault>>

(***************************************************************************)
(* The store the pass finds                                                *)
(***************************************************************************)

\* Every voucher class has at most one pair, every contract one class.
LegacyPairSets ==
    {P \in SUBSET (Contracts \X Classes) :
       \A p, q \in P : p # q => p[1] # q[1] /\ p[2] # q[2]}

\* The reverse index names tokens of the pair's contract.  The forward index
\* is its inverse.
LegacyIndex ==
    /\ \A y \in NFTUIDs : reverse[y] # None => <<reverse[y][1], y[1]>> \in tokenPairs
    /\ InverseIndex(forward, reverse)

Init ==
    /\ denom = [cl \in Classes |-> [creator |-> Collection, mintRestricted |-> FALSE]]
    /\ code \in [Contracts -> {"live", "gone"}]
    /\ tokenPairs \in LegacyPairSets
    /\ erc721Map = [c \in Contracts |-> PairWith(tokenPairs, 1, c)]
    /\ classMap = [cl \in Classes |-> PairWith(tokenPairs, 2, cl)]
    /\ reverse \in [NFTUIDs -> TokenUIDs \cup {None}]
    /\ forward \in [TokenUIDs -> NFTUIDs \cup {None}]
    /\ LegacyIndex
    /\ nftOwner \in [NFTUIDs -> Holders \cup {None}]
    /\ ercOwner \in [TokenUIDs -> Users \cup {Module, None}]
    /\ \A y \in NFTUIDs : reverse[y] = None => nftOwner[y] = None
    /\ \A x \in TokenUIDs : forward[x] = None \/ code[x[1]] = "gone" => ercOwner[x] = None
    /\ \E r \in Users \cup {None} :
          refund = [k \in RefundKeys |-> IF erc721Map[k[1]] # None THEN r ELSE None]
    /\ todo = {} /\ pair = None /\ left = {} /\ kept = {} /\ pass = 0
    /\ fault \in [NFTUIDs -> {"none", "query", "write"}]
    /\ \A y \in NFTUIDs : reverse[y] = None => fault[y] = "none"

Done == pass = 2 /\ pair = None /\ left = {} /\ UNCHANGED vars

Next ==
    \/ StartPass
    \/ \E p \in left : NextPair(p)
    \/ \E y \in todo : SettleVoucherBinding(y)
    \/ FinishPair
    \/ Done

Spec == Init /\ [][Next]_vars

(***************************************************************************)
(* Properties                                                              *)
(***************************************************************************)

\* Who can dispose of a bound voucher: its owner or, while the module account
\* has it, the owner of its token.
Holder(y) ==
    IF nftOwner[y] = Module /\ reverse[y] # None THEN ercOwner[reverse[y]] ELSE nftOwner[y]

\* No binding costs anybody a voucher: settled, cleared or kept, and whatever
\* EVM call fails, each voucher has the holder it had.
SettlementConserves == [][\A y \in NFTUIDs : Holder(y)' = Holder(y)]_vars

\* The pair goes with its last binding and not before: a binding always has
\* its pair, and after a pass a voucher pair still has a binding.
PairGoesWithLastBinding ==
    /\ \A y \in NFTUIDs : reverse[y] # None => <<reverse[y][1], y[1]>> \in tokenPairs
    /\ pass > 0 /\ pair = None /\ left = {} => \A p \in VoucherPairs : BindingsOf(p[2]) # {}

\* The pass is idempotent: run again with the same EVM answers it changes
\* neither the store nor the ledgers.
SecondPassChangesNothing ==
    [][pass = 2 => UNCHANGED <<denom, nftOwner, code, ercOwner, tokenPairs, erc721Map,
                               classMap, forward, reverse, refund>>]_vars

=============================================================================
