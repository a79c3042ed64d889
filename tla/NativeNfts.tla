----------------------------- MODULE NativeNfts -----------------------------
(***************************************************************************)
(* The native NFT ledger and the identifiers both bridges share.           *)
(*                                                                         *)
(* denom and nftOwner are the classes and tokens of cosmossdk.io/x/nft as  *)
(* x/collection reads and writes them.  x/erc721 and x/cw721 move NFTs     *)
(* through the same x/collection messages as users do.                     *)
(*                                                                         *)
(* Metadata (names, URIs, data) is abstracted away: no property of the     *)
(* bridges depends on it.                                                  *)
(***************************************************************************)
EXTENDS Naturals, FiniteSets

CONSTANTS
    Users,           \* user accounts
    Module,          \* the x/erc721 module account
    CwModule,        \* the x/cw721 module account
    Escrow,          \* the ICS-721 escrow accounts
    Collection,      \* the x/collection module account, creator of vouchers
    None,            \* no owner, no record
    NativeClasses,   \* classes issued with MsgIssueDenom
    VoucherClasses,  \* ICS-721 voucher classes, "ibc/<hash>"
    DerivedClasses,  \* class ids derived from a contract, "uptick-<address>"
    NftIds,          \* native token ids
    TokenIds,        \* token ids of contracts
    MaxBatch         \* maxERC721BatchSize and maxCW721BatchSize

Classes == NativeClasses \cup VoucherClasses \cup DerivedClasses

\* The NFT UID "<nftId>,<classId>".
NFTUIDs == Classes \X NftIds

Holders == Users \cup {Module, CwModule, Escrow}

Denoms == [creator : Holders \cup {Collection}, mintRestricted : BOOLEAN]

(***************************************************************************)
(* What the code relies on: accounts are distinct, the absent value is     *)
(* none of the identifiers, and the "uptick-" and "ibc/" prefixes separate *)
(* the three kinds of class (ValidateIssueDenomID reserves both).          *)
(***************************************************************************)
ASSUME AccountsAssumption ==
    /\ Module \notin Users
    /\ CwModule \notin Users \cup {Module}
    /\ Escrow \notin Users \cup {Module, CwModule}
    /\ Collection \notin Holders
    /\ None \notin Holders \cup {Collection}

ASSUME NativeAssumption ==
    /\ NativeClasses \cap VoucherClasses = {}
    /\ DerivedClasses \cap (NativeClasses \cup VoucherClasses) = {}
    /\ None \notin NFTUIDs
    /\ None \notin Denoms
    /\ MaxBatch \in Nat \ {0}

VARIABLES
    denom,      \* x/nft class records: creator and the mint restriction
    nftOwner    \* x/nft owner of each native NFT; None = not minted

nativeVars == <<denom, nftOwner>>

NativeTypeOK ==
    /\ denom \in [Classes -> Denoms \cup {None}]
    /\ nftOwner \in [NFTUIDs -> Holders \cup {None}]

IsIBCDenom(cl) == cl \in VoucherClasses

(***************************************************************************)
(* x/collection                                                            *)
(***************************************************************************)

\* MintNFT's restriction: a mint-restricted class only takes its creator.
MayMint(d, who) ==
    /\ d # None
    /\ d.mintRestricted => d.creator = who

IssueDenom(u, cl, restricted) ==
    /\ cl \in NativeClasses              \* ValidateIssueDenomID
    /\ denom[cl] = None
    /\ denom' = [denom EXCEPT ![cl] = [creator |-> u, mintRestricted |-> restricted]]
    /\ UNCHANGED nftOwner

TransferDenom(u, cl, v) ==
    /\ denom[cl] # None
    /\ denom[cl].creator = u
    /\ denom' = [denom EXCEPT ![cl].creator = v]
    /\ UNCHANGED nftOwner

MintNFT(u, y, receiver) ==
    /\ MayMint(denom[y[1]], u)
    /\ nftOwner[y] = None
    /\ nftOwner' = [nftOwner EXCEPT ![y] = receiver]
    /\ UNCHANGED denom

TransferNFT(u, y, v) ==
    /\ nftOwner[y] = u
    /\ nftOwner' = [nftOwner EXCEPT ![y] = v]
    /\ UNCHANGED denom

\* Mutated form: the converted-NFT guard is not consulted.
BurnNFTUnguarded(u, y, isConverted) ==
    /\ nftOwner[y] = u
    /\ nftOwner' = [nftOwner EXCEPT ![y] = None]
    /\ UNCHANGED denom

\* The guard is the ConvertedNFTChecker wired in by app/keepers.
BurnNFT(u, y, isConverted) ==
    /\ nftOwner[y] = u
    /\ ~isConverted
    /\ nftOwner' = [nftOwner EXCEPT ![y] = None]
    /\ UNCHANGED denom

(***************************************************************************)
(* Batches.  A message pairs native ids with token ids of one class and    *)
(* one contract.  A list that repeats an id never succeeds (the first      *)
(* occurrence moves the asset away from the sender or mints it), so a      *)
(* batch is an injective function from NFT UIDs to token UIDs.             *)
(***************************************************************************)

Injective(b) == \A y, z \in DOMAIN b : b[y] = b[z] => y = z

Batches(cl, c) ==
    UNION {{b \in [D -> {c} \X TokenIds] : Injective(b)} :
             D \in {D \in SUBSET ({cl} \X NftIds) : Cardinality(D) \in 1..MaxBatch}}

TokensOf(b) == {b[y] : y \in DOMAIN b}

NftFor(b, x) == CHOOSE y \in DOMAIN b : b[y] = x

=============================================================================
