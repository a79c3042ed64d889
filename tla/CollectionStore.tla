-------------------------- MODULE CollectionStore ---------------------------
(***************************************************************************)
(* x/collection with its metadata: what NativeNfts leaves out.             *)
(*                                                                         *)
(* A class record carries a metadata blob (creator, restrictions, schema   *)
(* and data) and an NFT an optional one.  Users reach the store through    *)
(* messages, the bridges through the same message server, but without      *)
(* ValidateBasic, and nft-transfer through x/internft, past both.  Older   *)
(* releases left records without a blob, with one that cannot be decoded   *)
(* and with one above the present bounds.  A chain can be exported and     *)
(* started again from the genesis file.                                    *)
(***************************************************************************)
EXTENDS Naturals, FiniteSets

CONSTANTS
    Users, Module, Escrow, Collection, None,
    NativeClasses, VoucherClasses, DerivedClasses, NftIds,
    SupplyMod,       \* 2^64, the width of x/nft's supply counter
    MaxClasses       \* bound: classes that exist at a time

ASSUME SupplyAssumption ==
    /\ IsFiniteSet(NftIds)
    /\ SupplyMod \in Nat
    /\ SupplyMod > Cardinality(NftIds)
    /\ MaxClasses \in Nat \ {0}

VARIABLES
    class,    \* x/nft class records
    nft,      \* x/nft tokens with their owners
    supply,   \* x/nft's counter of each class
    bound     \* NFTs the ConvertedNFTChecker reports

vars == <<class, nft, supply, bound>>

Classes == NativeClasses \cup VoucherClasses \cup DerivedClasses
NFTUIDs == Classes \X NftIds
Holders == Users \cup {Module, Escrow}

\* One field stands for schema and data; "long" exceeds the denom bounds.
Blobs == {"absent", "undecodable", "long", "short"}

ClassRecords ==
    [creator : Users \cup {Module, Collection, None}, mintRestricted : BOOLEAN,
     updateRestricted : BOOLEAN, blob : Blobs]

\* "odd" is a URI that ValidateTokenURI refuses ("data:", "ar:", too long).
Uris == {"", "plain", "odd"}

\* Name and data of an NFT; the first two are a record without metadata and
\* one that does not decode.
Metas == {"nil", "undecodable", "", "m"}

Nfts == [owner : Holders, uri : Uris, meta : Metas]

\* Accounts are distinct, and no record is the absent value.
ASSUME RecordsAssumption ==
    /\ Module \notin Users
    /\ Escrow \notin Users \cup {Module}
    /\ None \notin Holders \cup {Collection}
    /\ None \notin ClassRecords
    /\ None \notin [creator : Users \cup {Module, Collection, None}, mintRestricted : BOOLEAN]
    /\ None \notin Nfts

(***************************************************************************)
(* x/nft (external): Mint and Burn keep the counter, without a check.      *)
(***************************************************************************)

Held(N, cl) == Cardinality({n \in NftIds : N[<<cl, n>>] # None})

NkMint(y, token) ==
    /\ class[y[1]] # None
    /\ nft[y] = None
    /\ nft' = [nft EXCEPT ![y] = token]
    /\ supply' = [supply EXCEPT ![y[1]] = (@ + 1) % SupplyMod]

NkBurn(y) ==
    /\ nft' = [nft EXCEPT ![y] = None]
    /\ supply' = [supply EXCEPT ![y[1]] = (@ + SupplyMod - 1) % SupplyMod]

(***************************************************************************)
(* Optional fields of a message                                            *)
(***************************************************************************)

\* What a field asks for: keep the value, clear it, or set it.
DoNotModify == "[do-not-modify]"
RemoveField == "[remove]"

Modified(target) == target \notin {DoNotModify, ""}

Modify(origin, target) ==
    IF ~Modified(target) THEN origin ELSE IF target = RemoveField THEN "" ELSE target

\* A user's URI passes ValidateBasic; a bridge hands on what the contract of a
\* derived class answers.
UriFields(who, cl) ==
    {DoNotModify, "plain"} \cup (IF who \in Users THEN {RemoveField} ELSE {})
                           \cup (IF who = Module /\ cl \in DerivedClasses THEN {"odd"} ELSE {})

MetaFields == {DoNotModify, RemoveField, "m"}

\* GetNFT: missing and undecodable metadata read as empty.
ReadMeta(meta) == IF meta \in {"nil", "undecodable"} THEN "" ELSE meta

Edited(token, uri, meta) ==
    [token EXCEPT !.uri = Modify(@, uri),
                  !.meta = IF Modified(meta) THEN Modify(ReadMeta(@), meta) ELSE @]

(***************************************************************************)
(* Messages                                                                *)
(***************************************************************************)

\* Room for another class, within the bound.
NewClass(cl) ==
    /\ class[cl] = None
    /\ Cardinality({k \in Classes : class[k] # None}) < MaxClasses

\* SaveDenom, which every class of this chain goes through.
SaveDenom(cl, creator, mintR, updateR) ==
    /\ NewClass(cl)
    /\ class' = [class EXCEPT ![cl] = [creator |-> creator, mintRestricted |-> mintR,
                                       updateRestricted |-> updateR, blob |-> "short"]]

\* The ids a user may issue: not "uptick-", "ibc/" or an address.
ValidateIssueDenomID(cl) == cl \in NativeClasses

\* GetDenomInfo: the record, or an error when it does not decode.
Readable(cl) == class[cl] # None /\ class[cl].blob # "undecodable"

IssueDenom(u, cl, mintR, updateR) ==
    /\ ValidateIssueDenomID(cl)
    /\ SaveDenom(cl, u, mintR, updateR)
    /\ UNCHANGED <<nft, supply, bound>>

\* CreateNFTClass of the bridges; the restrictions are the contract's.
CreateNFTClass(cl, mintR, updateR) ==
    /\ cl \in DerivedClasses
    /\ SaveDenom(cl, Module, mintR, updateR)
    /\ UNCHANGED <<nft, supply, bound>>

TransferDenom(u, cl, v) ==
    /\ Readable(cl)
    /\ class[cl].creator = u
    /\ class' = [class EXCEPT ![cl].creator = v]
    /\ UNCHANGED <<nft, supply, bound>>

MintNFT(u, y, token) ==
    /\ Readable(y[1])
    /\ class[y[1]].mintRestricted => class[y[1]].creator = u
    /\ NkMint(y, token)
    /\ UNCHANGED <<class, bound>>

EditNFT(u, y, uri, meta) ==
    /\ Readable(y[1])
    /\ ~class[y[1]].updateRestricted
    /\ nft[y] # None
    /\ nft[y].owner = u
    /\ Modified(meta) => nft[y].meta # "undecodable"
    /\ nft' = [nft EXCEPT ![y] = Edited(@, uri, meta)]
    /\ UNCHANGED <<class, supply, bound>>

\* A field counts as a change only if its value differs from the stored one.
ChangesToken(token, uri, meta) ==
    \/ Modified(uri) /\ uri # token.uri
    \/ Modified(meta) /\ meta # token.meta

\* Mutated form: only a change of the URI is refused.
TransferNFTUriChecked(u, y, uri, meta, v) ==
    /\ nft[y] # None
    /\ nft[y].owner = u
    /\ Readable(y[1])
    /\ Modified(meta) => nft[y].meta # "undecodable"
    /\ ChangesToken(nft[y], uri, DoNotModify) => ~class[y[1]].updateRestricted
    /\ nft' = [nft EXCEPT ![y] = [(IF ChangesToken(@, uri, meta) THEN Edited(@, uri, meta) ELSE @)
                                    EXCEPT !.owner = v]]
    /\ UNCHANGED <<class, supply, bound>>

TransferNFT(u, y, uri, meta, v) ==
    /\ nft[y] # None
    /\ nft[y].owner = u
    /\ Readable(y[1])
    /\ Modified(meta) => nft[y].meta # "undecodable"
    /\ ChangesToken(nft[y], uri, meta) => ~class[y[1]].updateRestricted
    /\ nft' = [nft EXCEPT ![y] = [(IF ChangesToken(@, uri, meta) THEN Edited(@, uri, meta) ELSE @)
                                    EXCEPT !.owner = v]]
    /\ UNCHANGED <<class, supply, bound>>

BurnNFT(u, y) ==
    /\ nft[y] # None
    /\ nft[y].owner = u
    /\ y \notin bound
    /\ NkBurn(y)
    /\ UNCHANGED <<class, bound>>

(***************************************************************************)
(* x/internft, called by nft-transfer                                      *)
(***************************************************************************)

\* CreateOrUpdateClass and Mint, for a voucher that arrives.  The packet's class
\* data name creator and restrictions, or the defaults apply; Build refuses
\* data above the bounds.  The URI is taken as it is.
ReceiveVoucher(y, token, creator, mintR, updateR) ==
    /\ y[1] \in VoucherClasses
    /\ class[y[1]] # None \/ NewClass(y[1])
    /\ nft[y] = None
    /\ class' = [class EXCEPT ![y[1]] = [creator |-> creator, mintRestricted |-> mintR,
                                         updateRestricted |-> updateR, blob |-> "short"]]
    /\ nft' = [nft EXCEPT ![y] = token]
    /\ supply' = [supply EXCEPT ![y[1]] = (@ + 1) % SupplyMod]
    /\ UNCHANGED bound

\* The BuildMetadata of a class and of a token: a record without metadata is
\* encoded with the defaults, one that does not decode is an error.
ClassEncodes(cl) == class[cl].blob # "undecodable"

TokenEncodes(y) == nft[y].meta # "undecodable"

\* GetClass and GetNFT answer "not found" for what cannot be encoded.
Sendable(y) ==
    /\ nft[y] # None
    /\ nft[y].owner \in Users
    /\ TokenEncodes(y)
    /\ ClassEncodes(y[1])

\* Transfer into escrow.
EscrowNFT(y) ==
    /\ Sendable(y)
    /\ nft' = [nft EXCEPT ![y].owner = Escrow]
    /\ UNCHANGED <<class, supply, bound>>

\* Transfer out of escrow, with the packet's token data if it has any: the
\* restriction of the class is not consulted.
UnescrowNFT(y, v, meta) ==
    /\ nft[y] # None
    /\ nft[y].owner = Escrow
    /\ nft' = [nft EXCEPT ![y].owner = v, ![y].meta = IF meta = DoNotModify THEN @ ELSE meta]
    /\ UNCHANGED <<class, supply, bound>>

\* Mutated form: Burn without the converted-NFT guard.
InterBurnUnguarded(y) ==
    /\ y[1] \in VoucherClasses
    /\ Sendable(y)
    /\ NkBurn(y)
    /\ UNCHANGED <<class, bound>>

\* Burn, for a voucher that goes home.
InterBurn(y) ==
    /\ y[1] \in VoucherClasses
    /\ Sendable(y)
    /\ y \notin bound
    /\ NkBurn(y)
    /\ UNCHANGED <<class, bound>>

\* Mint, when the packet of a burnt voucher fails.
RefundVoucher(y, token) ==
    /\ y[1] \in VoucherClasses
    /\ NkMint(y, token)
    /\ UNCHANGED <<class, bound>>

\* The bridges bind and release NFTs (Erc721Bridge, Cw721Convert).
Rebind(y) ==
    /\ nft[y] # None
    /\ bound' = (bound \ {y}) \cup ({y} \ bound)
    /\ UNCHANGED <<class, nft, supply>>

(***************************************************************************)
(* Genesis                                                                 *)
(***************************************************************************)

\* denomFromClass, and what GetDenomInfo makes of a missing blob.
DenomFromClass ==
    [creator |-> None, mintRestricted |-> FALSE, updateRestricted |-> FALSE, blob |-> "short"]

\* Mutated form: the blob goes out as it is.
Unclamped(r) == r

ClampDenomMetadataBounds(r) == [r EXCEPT !.blob = "short"]

ValidateDenomMetadataBounds(r) == r.blob # "long"

\* GetDenomInfo, denomFromClass where it fails, and the clamp.
ExportDenom(cl) ==
    IF class[cl].blob \in {"absent", "undecodable"}
    THEN DenomFromClass ELSE ClampDenomMetadataBounds(class[cl])

ExportNFT(y) == [nft[y] EXCEPT !.meta = ReadMeta(@)]

\* The issues an export reports for a class.
ExportIssues(cl) ==
    {i \in {"class_metadata_missing", "class_metadata_undecodable",
            "class_metadata_too_large", "supply_mismatch"} :
        \/ i = "class_metadata_missing" /\ class[cl].blob = "absent"
        \/ i = "class_metadata_undecodable" /\ class[cl].blob = "undecodable"
        \/ i = "class_metadata_too_large" /\ class[cl].blob = "long"
        \/ i = "supply_mismatch" /\ supply[cl] # Held(nft, cl)}

\* The genesis state: the classes and the NFTs each of them lists.
ExportGenesis ==
    [denoms |-> [cl \in Classes |-> IF class[cl] = None THEN None ELSE ExportDenom(cl)],
     nfts |-> [y \in NFTUIDs |-> IF nft[y] = None THEN None ELSE ExportNFT(y)]]

ValidateGenesis(g) ==
    /\ \A cl \in Classes : g.denoms[cl] # None => ValidateDenomMetadataBounds(g.denoms[cl])
    /\ \A y \in NFTUIDs : g.nfts[y] # None => g.nfts[y].uri # "odd"

\* A chain stopped, exported and started from the file.  InitGenesis panics on
\* an invalid one; the counter is not in the file.
Restart ==
    /\ ValidateGenesis(ExportGenesis)
    /\ class' = ExportGenesis.denoms
    /\ nft' = ExportGenesis.nfts
    /\ supply' = [cl \in Classes |-> Held(nft', cl)]
    /\ UNCHANGED bound

(***************************************************************************)
(* The store                                                               *)
(***************************************************************************)

\* What earlier releases left: one class without a blob, with a damaged one or
\* with a voucher's long one, its NFTs in the hands of users, and a counter
\* that may have diverged.
LegacyClasses(cl) ==
    [creator : {None}, mintRestricted : {FALSE}, updateRestricted : {FALSE},
     blob : {"absent", "undecodable"}]
    \cup (IF cl \in VoucherClasses
          THEN [creator : {Collection}, mintRestricted : {TRUE}, updateRestricted : BOOLEAN,
                blob : {"long"}]
          ELSE {})

LegacyNfts == [owner : Users, uri : {"plain"}, meta : {"nil", "undecodable", "m"}]

Init ==
    /\ \/ class = [cl \in Classes |-> None]
       \/ \E cl \in NativeClasses \cup VoucherClasses : \E d \in LegacyClasses(cl) :
             class = [k \in Classes |-> IF k = cl THEN d ELSE None]
    /\ \E N \in [NftIds -> LegacyNfts \cup {None}] :
          nft = [y \in NFTUIDs |-> IF class[y[1]] = None THEN None ELSE N[y[2]]]
    /\ \E diverged \in BOOLEAN :
          supply = [cl \in Classes |-> IF diverged THEN 0 ELSE Held(nft, cl)]
    /\ bound = {}

\* Messages of users, and of the bridges through the message server.  (No NFT
\* starts with an empty URI: an edit removes it.)
UserMessage ==
    \E u \in Users :
        \/ \E cl \in NativeClasses, mintR, updateR \in BOOLEAN : IssueDenom(u, cl, mintR, updateR)
        \/ \E cl \in Classes, v \in Users : TransferDenom(u, cl, v)
        \/ \E y \in NFTUIDs : \E v \in Users, meta \in {"", "m"} :
              MintNFT(u, y, [owner |-> v, uri |-> "plain", meta |-> meta])
        \/ \E y \in NFTUIDs : \E uri \in UriFields(u, y[1]), meta \in MetaFields :
              EditNFT(u, y, uri, meta)
        \/ \E y \in NFTUIDs : \E uri \in UriFields(u, y[1]), meta \in MetaFields,
                              v \in Users \cup {Module} : TransferNFT(u, y, uri, meta, v)
        \/ \E y \in NFTUIDs : BurnNFT(u, y)

BridgeMessage ==
    \/ \E cl \in DerivedClasses, mintR, updateR \in BOOLEAN : CreateNFTClass(cl, mintR, updateR)
    \/ \E y \in DerivedClasses \X NftIds : \E v \in Users, uri \in {"plain", "odd"}, meta \in {"", "m"} :
          MintNFT(Module, y, [owner |-> v, uri |-> uri, meta |-> meta])
    \/ \E y \in NFTUIDs : \E uri \in UriFields(Module, y[1]), meta \in MetaFields, v \in Users :
          TransferNFT(Module, y, uri, meta, v)
    \/ \E y \in NFTUIDs : Rebind(y)

NftTransfer ==
    \/ \E y \in NFTUIDs : \E v \in Users, uri \in {"plain", "odd"}, meta \in {"", "m"} :
          \/ RefundVoucher(y, [owner |-> v, uri |-> uri, meta |-> meta])
          \/ \E creator \in Users \cup {Collection}, mintR, updateR \in BOOLEAN :
                ReceiveVoucher(y, [owner |-> v, uri |-> uri, meta |-> meta], creator, mintR, updateR)
    \/ \E y \in NFTUIDs : EscrowNFT(y)
    \/ \E y \in NFTUIDs, v \in Users, meta \in {DoNotModify, "", "m"} : UnescrowNFT(y, v, meta)
    \/ \E y \in NFTUIDs : InterBurn(y)

Next == UserMessage \/ BridgeMessage \/ NftTransfer \/ Restart

Spec == Init /\ [][Next]_vars

(***************************************************************************)
(* Properties                                                              *)
(***************************************************************************)

(* Every class and NFT record, counter and binding has its type.           *)
TypeOK ==
    /\ class \in [Classes -> ClassRecords \cup {None}]
    /\ nft \in [NFTUIDs -> Nfts \cup {None}]
    /\ supply \in [Classes -> 0..SupplyMod - 1]
    /\ bound \in SUBSET {y \in NFTUIDs : nft[y] # None}

(* Whatever history a class has (records of older releases, bridged and    *)
(* received NFTs, edits, earlier restarts), as long as every token URI is  *)
(* one ValidateTokenURI accepts the chain can start from its own export,   *)
(* and a class the export reports no issue for comes back as it was, with  *)
(* the owner, the URI and the readable metadata of every NFT, and with its *)
(* supply (GetCollectionsWithReport, ValidateGenesis, InitGenesis).        *)
ExportRestores ==
    (\A y \in NFTUIDs : nft[y] # None => nft[y].uri # "odd") =>
        /\ ValidateGenesis(ExportGenesis)
        /\ \A cl \in Classes : class[cl] # None /\ ExportIssues(cl) = {} =>
              /\ ExportGenesis.denoms[cl] = class[cl]
              /\ Held(ExportGenesis.nfts, cl) = supply[cl]

(* Under a class that is UpdateRestricted an NFT that is not in escrow     *)
(* keeps its URI and its metadata, through transfers that carry fields,    *)
(* conversions and restarts: "nobody can update the NFT under this denom"  *)
(* (UpdateNFT, TransferOwnership).  An NFT that returns over ICS-721 has   *)
(* the data its packet carries.                                            *)
RestrictedContentKept ==
    [][\A y \in NFTUIDs :
         (/\ nft[y] # None
          /\ nft'[y] # None
          /\ nft[y].owner # Escrow
          /\ class[y[1]].updateRestricted)
         => /\ nft'[y].uri = nft[y].uri
            /\ ReadMeta(nft'[y].meta) = ReadMeta(nft[y].meta)]_vars

(***************************************************************************)
(* The ledger the bridges are modelled on.                                 *)
(***************************************************************************)

LedgerDenom ==
    [cl \in Classes |->
        IF class[cl] = None THEN None
        ELSE [creator |-> class[cl].creator, mintRestricted |-> class[cl].mintRestricted]]

LedgerOwner == [y \in NFTUIDs |-> IF nft[y] = None THEN None ELSE nft[y].owner]

Native ==
    INSTANCE NativeNfts WITH
        CwModule <- "cw721", TokenIds <- {}, MaxBatch <- 1,
        denom <- LedgerDenom, nftOwner <- LedgerOwner

\* A message of NativeNfts about a class or an NFT that changes, with what it
\* becomes as the argument.
NativeMessage ==
    \E u \in Users \cup {Module} :
        \/ \E cl \in {cl \in Classes : class[cl] # class'[cl]} :
              \/ Native!IssueDenom(u, cl, class'[cl].mintRestricted)
              \/ Native!TransferDenom(u, cl, class'[cl].creator)
        \/ \E y \in {y \in NFTUIDs : nft[y] # nft'[y]} :
              \/ \E v \in {LedgerOwner'[y]} \cap (Users \cup {Module}) :
                    Native!MintNFT(u, y, v) \/ Native!TransferNFT(u, y, v)
              \/ Native!BurnNFT(u, y, y \in bound)

\* What nft-transfer and the registration of a contract may do to the ledger:
\* into and out of escrow, vouchers and their classes, a class of a module.
LedgerTransport ==
    /\ \A cl \in Classes : class[cl] # class'[cl] =>
          \/ cl \in VoucherClasses
          \/ class[cl] = None /\ class'[cl].creator = Module
    /\ \A y \in NFTUIDs : nft[y] # nft'[y] =>
          \/ nft[y] = None /\ y[1] \in VoucherClasses
          \/ nft'[y] = None /\ y[1] \in VoucherClasses /\ y \notin bound
          \/ nft[y] # None /\ nft'[y] # None /\ Escrow \in {nft[y].owner, nft'[y].owner}

(* Every step of the store, the legacy records and the restart included,   *)
(* is a message of NativeNfts, a step of nft-transfer that destroys no     *)
(* converted NFT, or leaves the ledger alone: what the bridges' models     *)
(* assume of x/collection and x/internft (MayMint, the burn guard in both  *)
(* RemoveNFT and InterNftKeeper.Burn).                                     *)
ImplementsNativeNfts ==
    [][LedgerTransport \/ NativeMessage]_<<LedgerDenom, LedgerOwner>>
=============================================================================
