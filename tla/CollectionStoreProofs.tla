----------------------- MODULE CollectionStoreProofs ------------------------
(***************************************************************************)
(* Proofs about x/collection: that its store implements the ledger the     *)
(* bridges' models are built on, keeps what a restricted class promises,   *)
(* and comes back from its own export, for every set of classes, NFT ids   *)
(* and users and every width of the supply counter.                        *)
(***************************************************************************)
EXTENDS CollectionStore, FiniteSetTheorems, TLAPS

\* A class record without a readable blob is one of an earlier release, with
\* no creator and no restriction: nobody can take it over.
LegacyBlobs ==
    \A cl \in Classes :
        class[cl] # None /\ class[cl].blob \in {"absent", "undecodable"} =>
            class[cl].creator = None /\ class[cl].mintRestricted = FALSE

CInv == TypeOK /\ LegacyBlobs

-----------------------------------------------------------------------------
(* The operators *)

\* The tokens of a class are fewer than the counter can hold.
LEMMA HeldFacts ==
    ASSUME NEW N, NEW cl
    PROVE  Held(N, cl) \in 0..SupplyMod - 1
<1>. DEFINE H == {n \in NftIds : N[<<cl, n>>] # None}
<1>1. IsFiniteSet(H) /\ Cardinality(H) <= Cardinality(NftIds)
  BY SupplyAssumption, FS_Subset, Zenon
<1>2. Cardinality(H) \in Nat /\ Cardinality(NftIds) \in Nat
  BY <1>1, SupplyAssumption, FS_CardinalityType, Zenon
<1>. HIDE DEF H
<1>3. Cardinality(H) \in 0..SupplyMod - 1
  BY <1>1, <1>2, SupplyAssumption
<1>. QED
  BY <1>3, Zenon DEF H, Held

\* The counter stays within its width.
LEMMA CounterFacts ==
    ASSUME NEW s \in 0..SupplyMod - 1
    PROVE  (s + 1) % SupplyMod \in 0..SupplyMod - 1 /\ (s + SupplyMod - 1) % SupplyMod \in 0..SupplyMod - 1
<1>1. SupplyMod \in Nat /\ SupplyMod > 0
  BY SupplyAssumption, FS_CardinalityType
<1>. QED
  BY <1>1

\* What a message makes of the fields of a token.
LEMMA EditedFacts ==
    ASSUME NEW token \in Nfts, NEW uri \in Uris \cup {DoNotModify, RemoveField},
           NEW m \in {"", "m", DoNotModify, RemoveField}
    PROVE  Edited(token, uri, m) \in Nfts /\ Edited(token, uri, m).owner = token.owner
<1>1. Modify(token.uri, uri) \in Uris
  BY Zenon DEF Modify, Modified, Nfts, Uris, DoNotModify, RemoveField
<1>2. (IF Modified(m) THEN Modify(ReadMeta(token.meta), m) ELSE token.meta) \in Metas
  BY Zenon DEF Modify, Modified, ReadMeta, Nfts, Metas, DoNotModify, RemoveField
<1>. QED
  BY <1>1, <1>2, Zenon DEF Edited, Nfts

\* An exported record has the type of the store's, and is there when it is.
LEMMA ExportFacts ==
    ASSUME CInv
    PROVE  /\ \A cl \in Classes : class[cl] # None =>
                 /\ ExportDenom(cl) \in ClassRecords /\ ExportDenom(cl) # None
                 /\ ExportDenom(cl).blob = "short"
                 /\ ExportDenom(cl).creator = class[cl].creator
                 /\ ExportDenom(cl).mintRestricted = class[cl].mintRestricted
           /\ \A y \in NFTUIDs : nft[y] # None =>
                 /\ ExportNFT(y) \in Nfts /\ ExportNFT(y) # None
                 /\ ExportNFT(y).owner = nft[y].owner /\ ExportNFT(y).uri = nft[y].uri
                 /\ ReadMeta(ExportNFT(y).meta) = ReadMeta(nft[y].meta)
<1>1. ASSUME NEW cl \in Classes, class[cl] # None
      PROVE  /\ ExportDenom(cl) \in ClassRecords /\ ExportDenom(cl) # None
             /\ ExportDenom(cl).blob = "short"
             /\ ExportDenom(cl).creator = class[cl].creator
             /\ ExportDenom(cl).mintRestricted = class[cl].mintRestricted
  <2>1. class[cl] \in ClassRecords
    BY <1>1, Zenon DEF CInv, TypeOK
  <2>2. CASE class[cl].blob \in {"absent", "undecodable"}
    <3>1. ExportDenom(cl) = DenomFromClass
      BY <2>2, Zenon DEF ExportDenom
    <3>2. DenomFromClass \in ClassRecords
      BY Zenon DEF DenomFromClass, ClassRecords, Blobs
    <3>3. class[cl].creator = None /\ class[cl].mintRestricted = FALSE
      BY <1>1, <2>2, Zenon DEF CInv, LegacyBlobs
    <3>4. DenomFromClass.creator = None /\ DenomFromClass.mintRestricted = FALSE
          /\ DenomFromClass.blob = "short"
      BY Zenon DEF DenomFromClass
    <3>. QED
      BY <3>1, <3>2, <3>3, <3>4, RecordsAssumption, Zenon
  <2>3. CASE class[cl].blob \notin {"absent", "undecodable"}
    <3>1. ExportDenom(cl) = [class[cl] EXCEPT !.blob = "short"]
      BY <2>3, Zenon DEF ExportDenom, ClampDenomMetadataBounds
    <3>2. ExportDenom(cl) \in ClassRecords
      BY <2>1, <3>1, Zenon DEF ClassRecords, Blobs
    <3>. QED
      BY <2>1, <3>1, <3>2, RecordsAssumption, Zenon DEF ClassRecords
  <2>. QED
    BY <2>2, <2>3, Zenon
<1>2. ASSUME NEW y \in NFTUIDs, nft[y] # None
      PROVE  /\ ExportNFT(y) \in Nfts /\ ExportNFT(y) # None
             /\ ExportNFT(y).owner = nft[y].owner /\ ExportNFT(y).uri = nft[y].uri
             /\ ReadMeta(ExportNFT(y).meta) = ReadMeta(nft[y].meta)
  <2>1. nft[y] \in Nfts
    BY <1>2, Zenon DEF CInv, TypeOK
  <2>2. ReadMeta(nft[y].meta) \in Metas
    BY <2>1, Zenon DEF ReadMeta, Nfts, Metas
  <2>3. ExportNFT(y) \in Nfts
    BY <2>1, <2>2, Zenon DEF ExportNFT, Nfts
  <2>4. /\ ExportNFT(y).owner = nft[y].owner /\ ExportNFT(y).uri = nft[y].uri
        /\ ExportNFT(y).meta = ReadMeta(nft[y].meta)
    BY <2>1, Zenon DEF ExportNFT, Nfts
  <2>. QED
    BY <2>3, <2>4, RecordsAssumption, Zenon DEF ReadMeta
<1>. QED
  BY <1>1, <1>2, Zenon

-----------------------------------------------------------------------------
(* The inductive invariant *)

\* What the earlier releases left satisfies it.
LEMMA InitCInv == Init => CInv
<1>. SUFFICES ASSUME Init PROVE CInv
  BY Zenon
<1>1. class \in [Classes -> ClassRecords \cup {None}] /\ LegacyBlobs
  <2>1. CASE class = [cl \in Classes |-> None]
    BY <2>1, Zenon DEF LegacyBlobs
  <2>2. ASSUME NEW cl \in NativeClasses \cup VoucherClasses, NEW d \in LegacyClasses(cl),
               class = [k \in Classes |-> IF k = cl THEN d ELSE None]
        PROVE  class \in [Classes -> ClassRecords \cup {None}] /\ LegacyBlobs
    <3>1. /\ d \in ClassRecords
          /\ d.blob \in {"absent", "undecodable"} => d.creator = None /\ d.mintRestricted = FALSE
      BY <2>2, Zenon DEF LegacyClasses, ClassRecords, Blobs
    <3>. QED
      BY <2>2, <3>1, Zenon DEF LegacyBlobs
  <2>. QED
    BY <2>1, <2>2, Zenon DEF Init
<1>2. nft \in [NFTUIDs -> Nfts \cup {None}]
  <2>1. LegacyNfts \subseteq Nfts
    BY Zenon DEF LegacyNfts, Nfts, Holders, Uris, Metas
  <2>2. PICK N \in [NftIds -> LegacyNfts \cup {None}] :
           nft = [y \in NFTUIDs |-> IF class[y[1]] = None THEN None ELSE N[y[2]]]
    BY Zenon DEF Init
  <2>. QED
    BY <2>1, <2>2, Zenon DEF NFTUIDs
<1>3. supply \in [Classes -> 0..SupplyMod - 1]
  <2>1. 0 \in 0..SupplyMod - 1
    BY SupplyAssumption, FS_CardinalityType
  <2>2. PICK diverged \in BOOLEAN :
           supply = [cl \in Classes |-> IF diverged THEN 0 ELSE Held(nft, cl)]
    BY Zenon DEF Init
  <2>. QED
    BY <2>1, <2>2, HeldFacts, Zenon
<1>. QED
  BY <1>1, <1>2, <1>3, Zenon DEF Init, CInv, TypeOK

\* A class is written.
LEMMA ClassStep ==
    ASSUME CInv, NEW cl \in Classes, NEW r \in ClassRecords,
           r.blob \in {"absent", "undecodable"} => r.creator = None /\ r.mintRestricted = FALSE,
           class' = [class EXCEPT ![cl] = r]
    PROVE  class' \in [Classes -> ClassRecords \cup {None}] /\ LegacyBlobs'
BY Zenon DEF CInv, TypeOK, LegacyBlobs

\* A token is written; only one that no bridge binds may go.
LEMMA NftStep ==
    ASSUME CInv, NEW y \in NFTUIDs, NEW v \in Nfts \cup {None}, nft' = [nft EXCEPT ![y] = v],
           v = None => y \notin bound, bound' = bound
    PROVE  /\ nft' \in [NFTUIDs -> Nfts \cup {None}]
           /\ bound' \in SUBSET {z \in NFTUIDs : nft'[z] # None}
<1>1. nft' \in [NFTUIDs -> Nfts \cup {None}]
  BY Zenon DEF CInv, TypeOK
<1>2. \A z \in NFTUIDs : nft'[z] = IF z = y THEN v ELSE nft[z]
  BY Zenon DEF CInv, TypeOK
<1>3. bound \in SUBSET {z \in NFTUIDs : nft[z] # None}
  BY Zenon DEF CInv, TypeOK
<1>. QED
  BY <1>1, <1>2, <1>3, Zenon

\* x/nft's counter.
LEMMA SupplyStep ==
    ASSUME CInv, NEW cl \in Classes,
           \/ supply' = [supply EXCEPT ![cl] = (@ + 1) % SupplyMod]
           \/ supply' = [supply EXCEPT ![cl] = (@ + SupplyMod - 1) % SupplyMod]
    PROVE  supply' \in [Classes -> 0..SupplyMod - 1]
<1>1. supply \in [Classes -> 0..SupplyMod - 1]
  BY Zenon DEF CInv, TypeOK
<1>2. /\ (supply[cl] + 1) % SupplyMod \in 0..SupplyMod - 1
      /\ (supply[cl] + SupplyMod - 1) % SupplyMod \in 0..SupplyMod - 1
  BY <1>1, CounterFacts, Zenon
<1>3. CASE supply' = [supply EXCEPT ![cl] = (@ + 1) % SupplyMod]
  BY <1>1, <1>2, <1>3, Zenon
<1>4. CASE supply' = [supply EXCEPT ![cl] = (@ + SupplyMod - 1) % SupplyMod]
  BY <1>1, <1>2, <1>4, Zenon
<1>. QED
  BY <1>3, <1>4, Zenon

\* IssueDenom and CreateNFTClass: SaveDenom.
LEMMA SaveDenomStep ==
    ASSUME CInv, NEW cl \in Classes, NEW creator \in Users \cup {Module},
           NEW mintR \in BOOLEAN, NEW updateR \in BOOLEAN,
           SaveDenom(cl, creator, mintR, updateR), UNCHANGED <<nft, supply, bound>>
    PROVE  CInv'
<1>. DEFINE r == [creator |-> creator, mintRestricted |-> mintR,
                  updateRestricted |-> updateR, blob |-> "short"]
<1>1. r \in ClassRecords /\ r.blob = "short"
  BY Zenon DEF ClassRecords, Blobs
<1>2. class' = [class EXCEPT ![cl] = r]
  BY Zenon DEF SaveDenom
<1>. HIDE DEF r
<1>. QED
  BY <1>1, <1>2, ClassStep, Zenon DEF CInv, TypeOK

\* A class changes hands: only one whose creator is a user.
LEMMA TransferDenomStep ==
    ASSUME CInv, NEW u \in Users, NEW v \in Users, NEW cl \in Classes, TransferDenom(u, cl, v)
    PROVE  CInv'
<1>. DEFINE r == [class[cl] EXCEPT !.creator = v]
<1>1. class[cl] \in ClassRecords /\ class[cl].creator = u /\ class[cl] # None
  BY Zenon DEF TransferDenom, Readable, CInv, TypeOK
<1>2. r \in ClassRecords /\ r.blob = class[cl].blob
  BY <1>1, Zenon DEF ClassRecords
<1>3. class[cl].blob \notin {"absent", "undecodable"}
  BY <1>1, RecordsAssumption, Zenon DEF CInv, LegacyBlobs, Holders
<1>4. class' = [class EXCEPT ![cl] = r]
  BY Zenon DEF TransferDenom
<1>. HIDE DEF r
<1>5. class' \in [Classes -> ClassRecords \cup {None}] /\ LegacyBlobs'
  BY <1>2, <1>3, <1>4, ClassStep, Zenon
<1>. QED
  BY <1>5, Zenon DEF TransferDenom, CInv, TypeOK

\* A token moves or is written with its class and the counter left alone.
LEMMA TokenStep ==
    ASSUME CInv, NEW y \in NFTUIDs, NEW v \in Nfts, nft' = [nft EXCEPT ![y] = v],
           UNCHANGED <<class, supply, bound>>
    PROVE  CInv'
<1>1. v # None
  BY RecordsAssumption, Zenon
<1>. QED
  BY <1>1, NftStep, Zenon DEF CInv, TypeOK, LegacyBlobs

\* NkMint and NkBurn.
LEMMA MintBurnStep ==
    ASSUME CInv, NEW y \in NFTUIDs, NEW v \in Nfts, UNCHANGED <<class, bound>>,
           NkMint(y, v) \/ (NkBurn(y) /\ y \notin bound)
    PROVE  CInv'
<1>1. y[1] \in Classes /\ v # None
  BY RecordsAssumption, Zenon DEF NFTUIDs
<1>2. supply' \in [Classes -> 0..SupplyMod - 1]
  BY <1>1, SupplyStep, Zenon DEF NkMint, NkBurn
<1>3. /\ nft' \in [NFTUIDs -> Nfts \cup {None}]
      /\ bound' \in SUBSET {z \in NFTUIDs : nft'[z] # None}
  <2>1. CASE NkMint(y, v)
    BY <1>1, <2>1, NftStep, Zenon DEF NkMint
  <2>2. CASE NkBurn(y) /\ y \notin bound
    BY <2>2, NftStep, Zenon DEF NkBurn
  <2>. QED
    BY <2>1, <2>2, Zenon
<1>. QED
  BY <1>2, <1>3, Zenon DEF CInv, TypeOK, LegacyBlobs

\* The fields a message carries, and the token it leaves.
LEMMA MessageFields ==
    ASSUME NEW who, NEW cl, NEW uri \in UriFields(who, cl), NEW m \in MetaFields
    PROVE  /\ uri \in Uris \cup {DoNotModify, RemoveField}
           /\ m \in {"", "m", DoNotModify, RemoveField}
BY Zenon DEF UriFields, MetaFields, Uris

\* An edit of the owner.
LEMMA EditStep ==
    ASSUME CInv, NEW u, NEW y \in NFTUIDs, NEW uri \in UriFields(u, y[1]), NEW m \in MetaFields,
           EditNFT(u, y, uri, m)
    PROVE  CInv'
<1>1. nft[y] \in Nfts
  BY Zenon DEF EditNFT, CInv, TypeOK
<1>2. Edited(nft[y], uri, m) \in Nfts
  BY <1>1, MessageFields, EditedFacts, Zenon
<1>3. nft' = [nft EXCEPT ![y] = Edited(nft[y], uri, m)] /\ UNCHANGED <<class, supply, bound>>
  BY Zenon DEF EditNFT
<1>. QED
  BY <1>2, <1>3, TokenStep, Zenon

\* The token a transfer leaves.
Moved(token, uri, m, v) ==
    [(IF ChangesToken(token, uri, m) THEN Edited(token, uri, m) ELSE token) EXCEPT !.owner = v]

\* It is the receiver's, and unless a field differs from the stored one it is
\* otherwise what it was.
LEMMA MovedFacts ==
    ASSUME NEW who, NEW cl, NEW token \in Nfts, NEW uri \in UriFields(who, cl), NEW m \in MetaFields,
           NEW v \in Holders
    PROVE  /\ Moved(token, uri, m, v) \in Nfts
           /\ Moved(token, uri, m, v).owner = v
           /\ ~ChangesToken(token, uri, m) =>
                 /\ Moved(token, uri, m, v).uri = token.uri
                 /\ Moved(token, uri, m, v).meta = token.meta
<1>. DEFINE e == IF ChangesToken(token, uri, m) THEN Edited(token, uri, m) ELSE token
<1>1. e \in Nfts
  BY MessageFields, EditedFacts, Zenon
<1>2. ~ChangesToken(token, uri, m) => e = token
  BY Zenon
<1>3. Moved(token, uri, m, v) = [e EXCEPT !.owner = v]
  BY Zenon DEF Moved
<1>. HIDE DEF e
<1>. QED
  BY <1>1, <1>2, <1>3, Zenon DEF Nfts

\* A transfer with its optional fields.
LEMMA TransferStep ==
    ASSUME CInv, NEW u, NEW y \in NFTUIDs, NEW uri \in UriFields(u, y[1]), NEW m \in MetaFields,
           NEW v \in Users \cup {Module}, TransferNFT(u, y, uri, m, v)
    PROVE  CInv'
<1>1. nft[y] \in Nfts /\ v \in Holders
  BY Zenon DEF TransferNFT, CInv, TypeOK, Holders
<1>2. Moved(nft[y], uri, m, v) \in Nfts
  BY <1>1, MovedFacts, Zenon
<1>3. nft' = [nft EXCEPT ![y] = Moved(nft[y], uri, m, v)] /\ UNCHANGED <<class, supply, bound>>
  BY Zenon DEF TransferNFT, Moved
<1>. QED
  BY <1>2, <1>3, TokenStep, Zenon

\* A received voucher writes its class and mints.
LEMMA ReceiveStep ==
    ASSUME CInv, NEW y \in NFTUIDs, NEW token \in Nfts, NEW creator \in Users \cup {Collection},
           NEW mintR \in BOOLEAN, NEW updateR \in BOOLEAN,
           ReceiveVoucher(y, token, creator, mintR, updateR)
    PROVE  CInv'
<1>. DEFINE r == [creator |-> creator, mintRestricted |-> mintR,
                  updateRestricted |-> updateR, blob |-> "short"]
<1>1. r \in ClassRecords /\ r.blob = "short" /\ y[1] \in Classes /\ token # None
  BY RecordsAssumption, Zenon DEF ClassRecords, Blobs, NFTUIDs
<1>2. class' = [class EXCEPT ![y[1]] = r] /\ nft' = [nft EXCEPT ![y] = token] /\ bound' = bound
  BY Zenon DEF ReceiveVoucher
<1>. HIDE DEF r
<1>3. class' \in [Classes -> ClassRecords \cup {None}] /\ LegacyBlobs'
  BY <1>1, <1>2, ClassStep, Zenon
<1>4. supply' \in [Classes -> 0..SupplyMod - 1]
  BY <1>1, SupplyStep, Zenon DEF ReceiveVoucher
<1>5. /\ nft' \in [NFTUIDs -> Nfts \cup {None}]
      /\ bound' \in SUBSET {z \in NFTUIDs : nft'[z] # None}
  BY <1>1, <1>2, NftStep, Zenon
<1>. QED
  BY <1>3, <1>4, <1>5, Zenon DEF CInv, TypeOK

\* The token of an escrow account with a new owner and the packet's data.
Released(token, v, m) ==
    [token EXCEPT !.owner = v, !.meta = IF m = DoNotModify THEN @ ELSE m]

\* Into and out of escrow.
LEMMA EscrowStep ==
    ASSUME CInv, NEW y \in NFTUIDs, NEW v \in Users, NEW m \in {DoNotModify, "", "m"},
           EscrowNFT(y) \/ UnescrowNFT(y, v, m)
    PROVE  CInv'
<1>1. nft[y] \in Nfts
  BY Zenon DEF EscrowNFT, Sendable, UnescrowNFT, CInv, TypeOK
<1>2. CASE EscrowNFT(y)
  <2>1. [nft[y] EXCEPT !.owner = Escrow] \in Nfts
    BY <1>1, Zenon DEF Nfts, Holders
  <2>2. nft' = [nft EXCEPT ![y] = [nft[y] EXCEPT !.owner = Escrow]] /\ UNCHANGED <<class, supply, bound>>
    BY <1>2, Zenon DEF EscrowNFT
  <2>. QED
    BY <2>1, <2>2, TokenStep, Zenon
<1>3. CASE UnescrowNFT(y, v, m)
  <2>1. Released(nft[y], v, m) \in Nfts
    BY <1>1, Zenon DEF Released, Nfts, Holders, Metas
  <2>2. nft' = [nft EXCEPT ![y] = Released(nft[y], v, m)] /\ UNCHANGED <<class, supply, bound>>
    BY <1>1, <1>3, Zenon DEF UnescrowNFT, Released, CInv, TypeOK, Nfts
  <2>. QED
    BY <2>1, <2>2, TokenStep, Zenon
<1>. QED
  BY <1>2, <1>3, Zenon

\* A restart from the export: every record comes back with its type, and the
\* counter is the number of tokens.
LEMMA RestartStep ==
    ASSUME CInv, Restart
    PROVE  CInv'
<1>1. class' = [cl \in Classes |-> IF class[cl] = None THEN None ELSE ExportDenom(cl)]
  BY Zenon DEF Restart, ExportGenesis
<1>2. nft' = [y \in NFTUIDs |-> IF nft[y] = None THEN None ELSE ExportNFT(y)]
  BY Zenon DEF Restart, ExportGenesis
<1>3. supply' = [cl \in Classes |-> Held(nft', cl)] /\ bound' = bound
  BY Zenon DEF Restart
<1>4. class' \in [Classes -> ClassRecords \cup {None}] /\ LegacyBlobs'
  BY <1>1, ExportFacts, Zenon DEF LegacyBlobs
<1>5. nft' \in [NFTUIDs -> Nfts \cup {None}]
  BY <1>2, ExportFacts, Zenon
<1>6. bound' \in SUBSET {y \in NFTUIDs : nft'[y] # None}
  <2>1. bound \in SUBSET {y \in NFTUIDs : nft[y] # None}
    BY Zenon DEF CInv, TypeOK
  <2>2. \A y \in NFTUIDs : nft[y] # None => nft'[y] # None
    BY <1>2, ExportFacts, Zenon
  <2>. QED
    BY <1>3, <2>1, <2>2, Zenon
<1>7. supply' \in [Classes -> 0..SupplyMod - 1]
  BY <1>3, HeldFacts, Zenon
<1>. QED
  BY <1>4, <1>5, <1>6, <1>7, Zenon DEF CInv, TypeOK

\* Every message, step of nft-transfer and restart keeps the invariant.
LEMMA NextCInv == CInv /\ [Next]_vars => CInv'
<1>. SUFFICES ASSUME CInv, [Next]_vars PROVE CInv'
  BY Zenon
<1>1. ASSUME NEW v \in Users, NEW uri \in {"plain", "odd"}, NEW m \in {"", "m"}
      PROVE  [owner |-> v, uri |-> uri, meta |-> m] \in Nfts
  BY Zenon DEF Nfts, Holders, Uris, Metas
<1>2. CASE UserMessage
  <2>. SUFFICES ASSUME NEW u \in Users,
                       \/ \E cl \in NativeClasses, mintR, updateR \in BOOLEAN : IssueDenom(u, cl, mintR, updateR)
                       \/ \E cl \in Classes, v \in Users : TransferDenom(u, cl, v)
                       \/ \E y \in NFTUIDs : \E v \in Users, m \in {"", "m"} :
                             MintNFT(u, y, [owner |-> v, uri |-> "plain", meta |-> m])
                       \/ \E y \in NFTUIDs : \E uri \in UriFields(u, y[1]), m \in MetaFields :
                             EditNFT(u, y, uri, m)
                       \/ \E y \in NFTUIDs : \E uri \in UriFields(u, y[1]), m \in MetaFields,
                                             v \in Users \cup {Module} : TransferNFT(u, y, uri, m, v)
                       \/ \E y \in NFTUIDs : BurnNFT(u, y)
                PROVE  CInv'
    BY <1>2, Zenon DEF UserMessage
  <2>1. ASSUME NEW cl \in NativeClasses, NEW mintR \in BOOLEAN, NEW updateR \in BOOLEAN,
               IssueDenom(u, cl, mintR, updateR)
        PROVE  CInv'
    BY <2>1, SaveDenomStep, Zenon DEF IssueDenom, Classes
  <2>2. ASSUME NEW y \in NFTUIDs, NEW v \in Users, NEW m \in {"", "m"},
               MintNFT(u, y, [owner |-> v, uri |-> "plain", meta |-> m])
        PROVE  CInv'
    BY <1>1, <2>2, MintBurnStep, Zenon DEF MintNFT
  <2>3. ASSUME NEW y \in NFTUIDs, BurnNFT(u, y) PROVE CInv'
    <3>1. nft[y] \in Nfts
      BY <2>3, Zenon DEF BurnNFT, CInv, TypeOK
    <3>. QED
      BY <2>3, <3>1, MintBurnStep, Zenon DEF BurnNFT
  <2>. QED
    BY <2>1, <2>2, <2>3, TransferDenomStep, EditStep, TransferStep, Zenon
<1>3. CASE BridgeMessage
  <2>1. ASSUME NEW cl \in DerivedClasses, NEW mintR \in BOOLEAN, NEW updateR \in BOOLEAN,
               CreateNFTClass(cl, mintR, updateR)
        PROVE  CInv'
    BY <2>1, SaveDenomStep, Zenon DEF CreateNFTClass, Classes
  <2>2. ASSUME NEW y \in DerivedClasses \X NftIds, NEW v \in Users, NEW uri \in {"plain", "odd"},
               NEW m \in {"", "m"}, MintNFT(Module, y, [owner |-> v, uri |-> uri, meta |-> m])
        PROVE  CInv'
    <3>1. y \in NFTUIDs
      BY Zenon DEF NFTUIDs, Classes
    <3>. QED
      BY <1>1, <2>2, <3>1, MintBurnStep, Zenon DEF MintNFT
  <2>3. ASSUME NEW y \in NFTUIDs, NEW uri \in UriFields(Module, y[1]), NEW m \in MetaFields,
               NEW v \in Users, TransferNFT(Module, y, uri, m, v)
        PROVE  CInv'
    BY <2>3, TransferStep, Zenon
  <2>4. ASSUME NEW y \in NFTUIDs, Rebind(y) PROVE CInv'
    BY <2>4, Zenon DEF Rebind, CInv, TypeOK, LegacyBlobs
  <2>. QED
    BY <1>3, <2>1, <2>2, <2>3, <2>4, Zenon DEF BridgeMessage
<1>4. CASE NftTransfer
  <2>1. ASSUME NEW y \in NFTUIDs, NEW v \in Users, NEW uri \in {"plain", "odd"}, NEW m \in {"", "m"},
               \/ RefundVoucher(y, [owner |-> v, uri |-> uri, meta |-> m])
               \/ \E creator \in Users \cup {Collection}, mintR, updateR \in BOOLEAN :
                    ReceiveVoucher(y, [owner |-> v, uri |-> uri, meta |-> m], creator, mintR, updateR)
        PROVE  CInv'
    <3>. DEFINE token == [owner |-> v, uri |-> uri, meta |-> m]
    <3>1. token \in Nfts
      BY <1>1, Zenon
    <3>. HIDE DEF token
    <3>2. CASE RefundVoucher(y, token)
      BY <3>1, <3>2, MintBurnStep, Zenon DEF RefundVoucher
    <3>3. CASE \E creator \in Users \cup {Collection}, mintR, updateR \in BOOLEAN :
                 ReceiveVoucher(y, token, creator, mintR, updateR)
      BY <3>1, <3>3, ReceiveStep, Zenon
    <3>. QED
      BY <2>1, <3>2, <3>3, Zenon DEF token
  <2>3. ASSUME NEW y \in NFTUIDs, InterBurn(y) PROVE CInv'
    <3>1. nft[y] \in Nfts
      BY <2>3, Zenon DEF InterBurn, Sendable, CInv, TypeOK
    <3>. QED
      BY <2>3, <3>1, MintBurnStep, Zenon DEF InterBurn
  <2>4. ASSUME NEW y \in NFTUIDs, EscrowNFT(y) PROVE CInv'
    <3>1. nft[y] \in Nfts
      BY <2>4, Zenon DEF EscrowNFT, Sendable, CInv, TypeOK
    <3>2. nft[y].owner \in Users
      BY <2>4, Zenon DEF EscrowNFT, Sendable
    <3>. QED
      BY <2>4, <3>2, EscrowStep, Zenon
  <2>5. ASSUME NEW y \in NFTUIDs, NEW v \in Users, NEW m \in {DoNotModify, "", "m"},
               UnescrowNFT(y, v, m)
        PROVE  CInv'
    BY <2>5, EscrowStep, Zenon
  <2>. QED
    BY <1>4, <2>1, <2>3, <2>4, <2>5, ZenonT(40) DEF NftTransfer
<1>5. CASE Restart
  BY <1>5, RestartStep, Zenon
<1>6. CASE UNCHANGED vars
  BY <1>6, Zenon DEF vars, CInv, TypeOK, LegacyBlobs
<1>. QED
  BY <1>2, <1>3, <1>4, <1>5, <1>6, Zenon DEF Next

\* Records, counters and bindings keep their types under every message, packet
\* and restart; no bound NFT is gone, and a class without a readable blob has
\* neither creator nor restriction.
THEOREM StoreInvariant == Spec => []CInv
BY InitCInv, NextCInv, PTL DEF Spec

-----------------------------------------------------------------------------
(* The export *)

\* A chain whose token URIs are acceptable starts from its own export, and a
\* class without a reported issue comes back whole (ExportRestores).
LEMMA ExportLemma == CInv => ExportRestores
<1>. SUFFICES ASSUME CInv, \A y \in NFTUIDs : nft[y] # None => nft[y].uri # "odd"
              PROVE  /\ ValidateGenesis(ExportGenesis)
                     /\ \A cl \in Classes : class[cl] # None /\ ExportIssues(cl) = {} =>
                           /\ ExportGenesis.denoms[cl] = class[cl]
                           /\ Held(ExportGenesis.nfts, cl) = supply[cl]
  BY Zenon DEF ExportRestores
<1>1. ExportGenesis.denoms = [cl \in Classes |-> IF class[cl] = None THEN None ELSE ExportDenom(cl)]
  BY Zenon DEF ExportGenesis
<1>2. ExportGenesis.nfts = [y \in NFTUIDs |-> IF nft[y] = None THEN None ELSE ExportNFT(y)]
  BY Zenon DEF ExportGenesis
<1>3. ValidateGenesis(ExportGenesis)
  <2>1. ASSUME NEW cl \in Classes, ExportGenesis.denoms[cl] # None
        PROVE  ValidateDenomMetadataBounds(ExportGenesis.denoms[cl])
    BY <1>1, <2>1, ExportFacts, Zenon DEF ValidateDenomMetadataBounds
  <2>2. ASSUME NEW y \in NFTUIDs, ExportGenesis.nfts[y] # None
        PROVE  ExportGenesis.nfts[y].uri # "odd"
    BY <1>2, <2>2, ExportFacts
  <2>. QED
    BY <2>1, <2>2, Zenon DEF ValidateGenesis
<1>4. ASSUME NEW cl \in Classes, class[cl] # None, ExportIssues(cl) = {}
      PROVE  ExportGenesis.denoms[cl] = class[cl] /\ Held(ExportGenesis.nfts, cl) = supply[cl]
  <2>1. class[cl] \in ClassRecords
    BY <1>4, Zenon DEF CInv, TypeOK
  <2>2. /\ class[cl].blob # "absent" /\ class[cl].blob # "undecodable" /\ class[cl].blob # "long"
        /\ supply[cl] = Held(nft, cl)
    BY <1>4, Zenon DEF ExportIssues
  <2>3. class[cl].blob = "short"
    BY <2>1, <2>2, Zenon DEF ClassRecords, Blobs
  <2>4. ExportDenom(cl) = class[cl]
    <3>1. ExportDenom(cl) = [class[cl] EXCEPT !.blob = "short"]
      BY <2>3, Zenon DEF ExportDenom, ClampDenomMetadataBounds
    <3>. QED
      BY <2>1, <2>3, <3>1 DEF ClassRecords
  <2>5. \A n \in NftIds : ExportGenesis.nfts[<<cl, n>>] # None <=> nft[<<cl, n>>] # None
    <3>1. \A n \in NftIds : <<cl, n>> \in NFTUIDs
      BY Zenon DEF NFTUIDs
    <3>. QED
      BY <1>2, <3>1, ExportFacts, Zenon
  <2>6. Held(ExportGenesis.nfts, cl) = Held(nft, cl)
    <3>1. {n \in NftIds : ExportGenesis.nfts[<<cl, n>>] # None} = {n \in NftIds : nft[<<cl, n>>] # None}
      BY <2>5, Zenon
    <3>. QED
      BY <3>1, Zenon DEF Held
  <2>. QED
    BY <1>1, <1>4, <2>2, <2>4, <2>6, Zenon
<1>. QED
  BY <1>3, <1>4, Zenon

\* Whatever the store has been through, InitGenesis does not panic on what
\* ExportGenesis wrote unless a token URI is one ValidateTokenURI refuses, and
\* the classes reported clean come back with record, NFTs and supply.
THEOREM ExportsRestore == Spec => []ExportRestores
BY StoreInvariant, ExportLemma, PTL

-----------------------------------------------------------------------------
(* What an update restriction promises *)

\* An NFT outside escrow keeps its content in a step.
ContentKept(y) ==
    (/\ nft[y] # None
     /\ nft'[y] # None
     /\ nft[y].owner # Escrow
     /\ class[y[1]].updateRestricted)
    => /\ nft'[y].uri = nft[y].uri
       /\ ReadMeta(nft'[y].meta) = ReadMeta(nft[y].meta)

\* A message or a packet writes one NFT: the others keep what they had, a
\* minted one had nothing and a burnt one has nothing left.
LEMMA OneNftWritten ==
    ASSUME CInv, NEW y \in NFTUIDs, NEW token, nft' = [nft EXCEPT ![y] = token],
           nft[y] = None \/ token = None \/ ContentKept(y)
    PROVE  \A z \in NFTUIDs : ContentKept(z)
<1>. SUFFICES ASSUME NEW z \in NFTUIDs PROVE ContentKept(z)
  BY Zenon
<1>1. nft \in [NFTUIDs -> Nfts \cup {None}]
  BY Zenon DEF CInv, TypeOK
<1>2. CASE z # y
  BY <1>1, <1>2, Zenon DEF ContentKept
<1>3. CASE z = y
  BY <1>1, <1>3, Zenon DEF ContentKept
<1>. QED
  BY <1>2, <1>3, Zenon

\* Every step keeps the content of the NFTs of a restricted class.
LEMMA NextKeepsContent ==
    ASSUME CInv, [Next]_vars
    PROVE  \A y \in NFTUIDs : ContentKept(y)
<1>1. ASSUME nft' = nft PROVE \A y \in NFTUIDs : ContentKept(y)
  BY <1>1, Zenon DEF ContentKept
<1>2. ASSUME NEW y \in NFTUIDs, NEW token, NkMint(y, token) PROVE \A z \in NFTUIDs : ContentKept(z)
  BY <1>2, OneNftWritten, Zenon DEF NkMint
<1>3. ASSUME NEW y \in NFTUIDs, NkBurn(y) PROVE \A z \in NFTUIDs : ContentKept(z)
  BY <1>3, OneNftWritten, Zenon DEF NkBurn
<1>4. ASSUME NEW u, NEW y \in NFTUIDs, NEW uri, NEW m, EditNFT(u, y, uri, m)
      PROVE  \A z \in NFTUIDs : ContentKept(z)
  <2>1. nft' = [nft EXCEPT ![y] = Edited(nft[y], uri, m)] /\ ContentKept(y)
    BY <1>4, Zenon DEF EditNFT, ContentKept
  <2>. QED
    BY <2>1, OneNftWritten, Zenon
<1>5. ASSUME NEW u, NEW y \in NFTUIDs, NEW uri \in UriFields(u, y[1]), NEW m \in MetaFields,
             NEW v \in Users \cup {Module}, TransferNFT(u, y, uri, m, v)
      PROVE  \A z \in NFTUIDs : ContentKept(z)
  <2>1. nft[y] \in Nfts /\ v \in Holders /\ nft \in [NFTUIDs -> Nfts \cup {None}]
    BY <1>5, Zenon DEF TransferNFT, CInv, TypeOK, Holders
  <2>2. nft' = [nft EXCEPT ![y] = Moved(nft[y], uri, m, v)]
    BY <1>5, Zenon DEF TransferNFT, Moved
  <2>3. class[y[1]].updateRestricted => ~ChangesToken(nft[y], uri, m)
    BY <1>5, Zenon DEF TransferNFT
  <2>4. ~ChangesToken(nft[y], uri, m) =>
          nft'[y].uri = nft[y].uri /\ nft'[y].meta = nft[y].meta
    BY <2>1, <2>2, MovedFacts
  <2>5. ContentKept(y)
    BY <2>3, <2>4, Zenon DEF ContentKept
  <2>. QED
    BY <2>2, <2>5, OneNftWritten, Zenon
<1>6. ASSUME NEW y \in NFTUIDs, EscrowNFT(y) PROVE \A z \in NFTUIDs : ContentKept(z)
  <2>1. nft[y] \in Nfts /\ nft \in [NFTUIDs -> Nfts \cup {None}]
    BY <1>6, Zenon DEF EscrowNFT, Sendable, CInv, TypeOK
  <2>2. nft' = [nft EXCEPT ![y] = [nft[y] EXCEPT !.owner = Escrow]]
    BY <1>6, Zenon DEF EscrowNFT
  <2>3. nft'[y].uri = nft[y].uri /\ nft'[y].meta = nft[y].meta
    BY <2>1, <2>2, Zenon DEF Nfts
  <2>. QED
    BY <2>2, <2>3, OneNftWritten, Zenon DEF ContentKept
<1>7. ASSUME NEW y \in NFTUIDs, NEW v, NEW m, UnescrowNFT(y, v, m)
      PROVE  \A z \in NFTUIDs : ContentKept(z)
  <2>1. nft[y] \in Nfts /\ nft \in [NFTUIDs -> Nfts \cup {None}] /\ nft[y].owner = Escrow
    BY <1>7, Zenon DEF UnescrowNFT, CInv, TypeOK
  <2>2. nft' = [nft EXCEPT ![y] = Released(nft[y], v, m)]
    BY <1>7, <2>1, Zenon DEF UnescrowNFT, Released, Nfts
  <2>. QED
    BY <2>1, <2>2, OneNftWritten, Zenon DEF ContentKept
<1>8. ASSUME NEW y \in NFTUIDs, NEW token, NEW creator, NEW mintR, NEW updateR,
             ReceiveVoucher(y, token, creator, mintR, updateR)
      PROVE  \A z \in NFTUIDs : ContentKept(z)
  BY <1>8, OneNftWritten, Zenon DEF ReceiveVoucher
<1>9. ASSUME Restart PROVE \A y \in NFTUIDs : ContentKept(y)
  <2>1. nft' = [y \in NFTUIDs |-> IF nft[y] = None THEN None ELSE ExportNFT(y)]
    BY <1>9, Zenon DEF Restart, ExportGenesis
  <2>. QED
    BY <2>1, ExportFacts, Zenon DEF ContentKept
<1>10. CASE UserMessage
  BY <1>1, <1>2, <1>3, <1>4, <1>5, <1>10, Zenon
     DEF UserMessage, IssueDenom, TransferDenom, MintNFT, BurnNFT
<1>11. CASE BridgeMessage
  <2>1. DerivedClasses \X NftIds \subseteq NFTUIDs
    BY Zenon DEF NFTUIDs, Classes
  <2>. QED
    BY <1>1, <1>2, <1>5, <1>11, <2>1, Zenon DEF BridgeMessage, CreateNFTClass, MintNFT, Rebind
<1>12. CASE NftTransfer
  BY <1>2, <1>3, <1>6, <1>7, <1>8, <1>12, Zenon DEF NftTransfer, RefundVoucher, InterBurn
<1>13. CASE UNCHANGED vars
  BY <1>1, <1>13, Zenon DEF vars
<1>. QED
  BY <1>9, <1>10, <1>11, <1>12, <1>13, Zenon DEF Next

\* "Nobody can update the NFT under this denom", whatever it goes through
\* outside escrow.
THEOREM RestrictedContentIsKept == Spec => RestrictedContentKept
<1>1. CInv /\ [Next]_vars =>
        [\A y \in NFTUIDs :
           (/\ nft[y] # None
            /\ nft'[y] # None
            /\ nft[y].owner # Escrow
            /\ class[y[1]].updateRestricted)
           => /\ nft'[y].uri = nft[y].uri
              /\ ReadMeta(nft'[y].meta) = ReadMeta(nft[y].meta)]_vars
  BY NextKeepsContent, Zenon DEF ContentKept
<1>. QED
  BY <1>1, StoreInvariant, PTL DEF Spec, RestrictedContentKept

-----------------------------------------------------------------------------
(* The ledger of the bridges' models *)

\* The ledger's view of a class record.
DenomOf(r) == [creator |-> r.creator, mintRestricted |-> r.mintRestricted]

\* A record that is there is there in the ledger.
LEMMA LedgerValues ==
    ASSUME CInv
    PROVE  /\ \A cl \in Classes : class[cl] = None => LedgerDenom[cl] = None
           /\ \A cl \in Classes : class[cl] # None =>
                 LedgerDenom[cl] = DenomOf(class[cl]) /\ LedgerDenom[cl] # None
           /\ \A y \in NFTUIDs : nft[y] = None => LedgerOwner[y] = None
           /\ \A y \in NFTUIDs : nft[y] # None => LedgerOwner[y] = nft[y].owner
<1>1. ASSUME NEW r \in ClassRecords PROVE DenomOf(r) # None
  <2>1. DenomOf(r) \in [creator : Users \cup {Module, Collection, None}, mintRestricted : BOOLEAN]
    BY Zenon DEF DenomOf, ClassRecords
  <2>. QED
    BY <2>1, RecordsAssumption, Zenon
<1>2. \A cl \in Classes : class[cl] # None => class[cl] \in ClassRecords
  BY Zenon DEF CInv, TypeOK
<1>. QED
  BY <1>1, <1>2, Zenon DEF LedgerDenom, LedgerOwner, DenomOf

\* A class record written is a ledger record written.
LEMMA LedgerClassWritten ==
    ASSUME CInv, NEW cl \in Classes, NEW r \in ClassRecords, class' = [class EXCEPT ![cl] = r]
    PROVE  LedgerDenom' = [LedgerDenom EXCEPT ![cl] = DenomOf(r)]
<1>1. class \in [Classes -> ClassRecords \cup {None}] /\ r # None
  BY RecordsAssumption, Zenon DEF CInv, TypeOK
<1>2. \A k \in Classes : class'[k] = IF k = cl THEN r ELSE class[k]
  BY <1>1, Zenon
<1>. QED
  BY <1>1, <1>2, Zenon DEF LedgerDenom, DenomOf

\* A token written, or burnt, is its owner written.
LEMMA LedgerNftWritten ==
    ASSUME CInv, NEW y \in NFTUIDs, NEW token \in Nfts \cup {None}, nft' = [nft EXCEPT ![y] = token]
    PROVE  LedgerOwner' = [LedgerOwner EXCEPT ![y] = IF token = None THEN None ELSE token.owner]
<1>1. nft \in [NFTUIDs -> Nfts \cup {None}]
  BY Zenon DEF CInv, TypeOK
<1>2. \A z \in NFTUIDs : nft'[z] = IF z = y THEN token ELSE nft[z]
  BY <1>1, Zenon
<1>. DEFINE o == IF token = None THEN None ELSE token.owner
<1>3. LedgerOwner' = [z \in NFTUIDs |-> IF nft'[z] = None THEN None ELSE nft'[z].owner]
  BY Zenon DEF LedgerOwner
<1>4. LedgerOwner' = [z \in NFTUIDs |-> IF z = y THEN o ELSE LedgerOwner[z]]
  BY <1>2, <1>3 DEF LedgerOwner
<1>5. DOMAIN LedgerOwner = NFTUIDs
  BY Zenon DEF LedgerOwner
<1>. HIDE DEF o
<1>6. LedgerOwner' = [LedgerOwner EXCEPT ![y] = o]
  <2>. DEFINE L == LedgerOwner
  <2>1. DOMAIN L = NFTUIDs /\ LedgerOwner' = [z \in NFTUIDs |-> IF z = y THEN o ELSE L[z]]
    BY <1>4, <1>5, Zenon
  <2>2. L = [z \in NFTUIDs |-> L[z]]
    BY Zenon DEF LedgerOwner
  <2>. HIDE DEF L
  <2>3. [L EXCEPT ![y] = o] = [z \in NFTUIDs |-> IF z = y THEN o ELSE L[z]]
    BY <2>1, <2>2, Zenon
  <2>. QED
    BY <2>1, <2>3, Zenon DEF L
<1>. QED
  BY <1>6, Zenon DEF o

\* What a step may do to the ledger.
LedgerStep ==
    \/ LedgerTransport
    \/ NativeMessage
    \/ LedgerDenom' = LedgerDenom /\ LedgerOwner' = LedgerOwner

\* The ledger is a view of the records.
LEMMA LedgerUnchanged ==
    /\ class' = class => LedgerDenom' = LedgerDenom
    /\ nft' = nft => LedgerOwner' = LedgerOwner
BY Zenon DEF LedgerDenom, LedgerOwner

\* Issuing a denom and handing it over.
LEMMA LedgerDenomMessages ==
    ASSUME CInv, NEW u \in Users, NEW cl \in Classes
    PROVE  /\ \A mintR, updateR \in BOOLEAN : IssueDenom(u, cl, mintR, updateR) => LedgerStep
           /\ \A v \in Users : TransferDenom(u, cl, v) => LedgerStep
<1>1. ASSUME NEW mintR \in BOOLEAN, NEW updateR \in BOOLEAN, IssueDenom(u, cl, mintR, updateR)
      PROVE  LedgerStep
  <2>. DEFINE r == [creator |-> u, mintRestricted |-> mintR, updateRestricted |-> updateR,
                    blob |-> "short"]
  <2>1. r \in ClassRecords /\ DenomOf(r) = [creator |-> u, mintRestricted |-> mintR]
        /\ r.mintRestricted = mintR
    BY Zenon DEF ClassRecords, Blobs, DenomOf
  <2>2. class' = [class EXCEPT ![cl] = r] /\ class[cl] = None /\ nft' = nft /\ cl \in NativeClasses
    BY <1>1, Zenon DEF IssueDenom, SaveDenom, NewClass, ValidateIssueDenomID
  <2>. HIDE DEF r
  <2>3. class'[cl] = r /\ class'[cl] # class[cl]
    BY <2>1, <2>2, RecordsAssumption, Zenon DEF CInv, TypeOK
  <2>4. LedgerDenom[cl] = None /\ LedgerDenom' = [LedgerDenom EXCEPT ![cl] = DenomOf(r)]
        /\ LedgerOwner' = LedgerOwner
    BY <2>1, <2>2, LedgerValues, LedgerClassWritten, LedgerUnchanged, Zenon
  <2>5. Native!IssueDenom(u, cl, class'[cl].mintRestricted)
    BY <2>1, <2>2, <2>3, <2>4, Zenon DEF Native!IssueDenom
  <2>. QED
    BY <2>3, <2>5, Zenon DEF LedgerStep, NativeMessage
<1>2. ASSUME NEW v \in Users, TransferDenom(u, cl, v)
      PROVE  LedgerStep
  <2>. DEFINE r == [class[cl] EXCEPT !.creator = v]
  <2>1. class[cl] # None /\ class[cl] \in ClassRecords /\ class[cl].creator = u
    BY <1>2, Zenon DEF TransferDenom, Readable, CInv, TypeOK
  <2>2. r \in ClassRecords /\ r.creator = v /\ r.mintRestricted = class[cl].mintRestricted
    BY <2>1, Zenon DEF ClassRecords
  <2>3. class' = [class EXCEPT ![cl] = r] /\ nft' = nft
    BY <1>2, Zenon DEF TransferDenom
  <2>. HIDE DEF r
  <2>4. class'[cl] = r
    BY <2>3, Zenon DEF CInv, TypeOK
  <2>5. LedgerDenom[cl] = DenomOf(class[cl]) /\ LedgerDenom[cl] # None
        /\ LedgerDenom' = [LedgerDenom EXCEPT ![cl] = DenomOf(r)] /\ LedgerOwner' = LedgerOwner
    BY <2>1, <2>2, <2>3, LedgerValues, LedgerClassWritten, LedgerUnchanged, Zenon
  <2>6. DenomOf(r) = [DenomOf(class[cl]) EXCEPT !.creator = v] /\ DenomOf(class[cl]).creator = u
    BY <2>1, <2>2 DEF DenomOf
  <2>7. Native!TransferDenom(u, cl, class'[cl].creator)
    BY <2>2, <2>4, <2>5, <2>6, Zenon DEF Native!TransferDenom
  <2>8. CASE r = class[cl]
    <3>1. class' = class
      BY <2>3, <2>8, Zenon DEF CInv, TypeOK
    <3>. QED
      BY <2>3, <3>1, LedgerUnchanged, Zenon DEF LedgerStep
  <2>9. CASE r # class[cl]
    BY <2>4, <2>7, <2>9, Zenon DEF LedgerStep, NativeMessage
  <2>. QED
    BY <2>8, <2>9, Zenon
<1>. QED
  BY <1>1, <1>2, Zenon

\* Minting, editing, transferring and burning, by a user or by a bridge.
LEMMA LedgerNftMessages ==
    ASSUME CInv, NEW u \in Users \cup {Module}, NEW y \in NFTUIDs
    PROVE  /\ \A token \in Nfts : token.owner \in Users /\ MintNFT(u, y, token) => LedgerStep
           /\ \A uri \in UriFields(u, y[1]), m \in MetaFields : EditNFT(u, y, uri, m) => LedgerStep
           /\ \A uri \in UriFields(u, y[1]), m \in MetaFields, v \in Users \cup {Module} :
                 TransferNFT(u, y, uri, m, v) => LedgerStep
           /\ BurnNFT(u, y) => LedgerStep
<1>. y[1] \in Classes
  BY Zenon DEF NFTUIDs
<1>1. ASSUME NEW token \in Nfts, token.owner \in Users, MintNFT(u, y, token)
      PROVE  LedgerStep
  <2>1. /\ nft[y] = None /\ class[y[1]] # None /\ class' = class /\ token # None
        /\ nft' = [nft EXCEPT ![y] = token]
    BY <1>1, RecordsAssumption, Zenon DEF MintNFT, NkMint
  <2>2. LedgerOwner[y] = None /\ LedgerOwner' = [LedgerOwner EXCEPT ![y] = token.owner]
        /\ LedgerDenom' = LedgerDenom
    <3>1. LedgerOwner[y] = None
      BY <2>1, LedgerValues, Zenon
    <3>2. LedgerOwner' = [LedgerOwner EXCEPT ![y] = token.owner]
      BY <2>1, LedgerNftWritten, Zenon
    <3>3. LedgerDenom' = LedgerDenom
      BY <2>1, LedgerUnchanged, Zenon
    <3>. QED
      BY <3>1, <3>2, <3>3, Zenon
  <2>3. Native!MayMint(LedgerDenom[y[1]], u)
    <3>1. LedgerDenom[y[1]] = DenomOf(class[y[1]]) /\ LedgerDenom[y[1]] # None
      BY <2>1, LedgerValues, Zenon
    <3>2. /\ DenomOf(class[y[1]]).mintRestricted = class[y[1]].mintRestricted
          /\ DenomOf(class[y[1]]).creator = class[y[1]].creator
      BY Zenon DEF DenomOf
    <3>3. class[y[1]].mintRestricted => class[y[1]].creator = u
      BY <1>1, Zenon DEF MintNFT
    <3>. QED
      BY <3>1, <3>2, <3>3, Zenon DEF Native!MayMint
  <2>4. Native!MintNFT(u, y, token.owner)
    BY <2>2, <2>3, Zenon DEF Native!MintNFT
  <2>5. nft'[y] # nft[y] /\ LedgerOwner'[y] = token.owner
    BY <2>1, <2>2, Zenon DEF CInv, TypeOK, LedgerOwner
  <2>. QED
    BY <1>1, <2>4, <2>5, Zenon DEF LedgerStep, NativeMessage
<1>2. ASSUME NEW uri \in UriFields(u, y[1]), NEW m \in MetaFields, EditNFT(u, y, uri, m)
      PROVE  LedgerStep
  <2>1. nft[y] \in Nfts /\ nft[y] # None /\ class' = class
    BY <1>2, Zenon DEF EditNFT, CInv, TypeOK
  <2>2. Edited(nft[y], uri, m) \in Nfts /\ Edited(nft[y], uri, m).owner = nft[y].owner
    BY <2>1, MessageFields, EditedFacts, Zenon
  <2>3. nft' = [nft EXCEPT ![y] = Edited(nft[y], uri, m)]
    BY <1>2, Zenon DEF EditNFT
  <2>4. LedgerOwner' = [LedgerOwner EXCEPT ![y] = nft[y].owner]
    BY <2>2, <2>3, LedgerNftWritten, RecordsAssumption, Zenon
  <2>5. LedgerOwner' = LedgerOwner
    BY <2>1, <2>4, LedgerValues, ZenonT(40) DEF LedgerOwner
  <2>. QED
    BY <2>1, <2>5, LedgerUnchanged, Zenon DEF LedgerStep
<1>3. ASSUME NEW uri \in UriFields(u, y[1]), NEW m \in MetaFields, NEW v \in Users \cup {Module},
             TransferNFT(u, y, uri, m, v)
      PROVE  LedgerStep
  <2>1. nft[y] \in Nfts /\ nft[y] # None /\ class' = class /\ v \in Holders /\ nft[y].owner = u
    BY <1>3, Zenon DEF TransferNFT, CInv, TypeOK, Holders
  <2>. DEFINE t == Moved(nft[y], uri, m, v)
  <2>2. t \in Nfts /\ t.owner = v
    BY <2>1, MovedFacts
  <2>3. nft' = [nft EXCEPT ![y] = t]
    BY <1>3, Zenon DEF TransferNFT, Moved
  <2>. HIDE DEF t
  <2>4. LedgerOwner[y] = u /\ LedgerOwner' = [LedgerOwner EXCEPT ![y] = v] /\ LedgerDenom' = LedgerDenom
    <3>1. LedgerOwner[y] = u
      BY <2>1, LedgerValues, Zenon
    <3>2. LedgerOwner' = [LedgerOwner EXCEPT ![y] = v]
      BY <2>2, <2>3, LedgerNftWritten, RecordsAssumption, Zenon
    <3>3. LedgerDenom' = LedgerDenom
      BY <2>1, LedgerUnchanged, Zenon
    <3>. QED
      BY <3>1, <3>2, <3>3, Zenon
  <2>5. Native!TransferNFT(u, y, v)
    BY <2>4, Zenon DEF Native!TransferNFT
  <2>6. LedgerOwner'[y] = v /\ nft'[y] = t
    BY <2>3, <2>4, Zenon DEF CInv, TypeOK, LedgerOwner
  <2>7. CASE t = nft[y]
    <3>1. nft' = nft
      BY <2>3, <2>7, Zenon DEF CInv, TypeOK
    <3>. QED
      BY <2>1, <3>1, LedgerUnchanged, Zenon DEF LedgerStep
  <2>8. CASE t # nft[y]
    BY <2>5, <2>6, <2>8, Zenon DEF LedgerStep, NativeMessage
  <2>. QED
    BY <2>7, <2>8, Zenon
<1>4. ASSUME BurnNFT(u, y) PROVE LedgerStep
  <2>1. /\ nft[y] # None /\ nft[y].owner = u /\ y \notin bound /\ class' = class
        /\ nft' = [nft EXCEPT ![y] = None]
    BY <1>4, Zenon DEF BurnNFT, NkBurn
  <2>2. LedgerOwner[y] = u /\ LedgerOwner' = [LedgerOwner EXCEPT ![y] = None]
        /\ LedgerDenom' = LedgerDenom
    BY <2>1, LedgerValues, LedgerNftWritten, LedgerUnchanged, Zenon
  <2>3. Native!BurnNFT(u, y, y \in bound)
    BY <2>1, <2>2, Zenon DEF Native!BurnNFT
  <2>4. nft'[y] # nft[y]
    BY <2>1, Zenon DEF CInv, TypeOK
  <2>. QED
    BY <2>3, <2>4, Zenon DEF LedgerStep, NativeMessage
<1>. QED
  BY <1>1, <1>2, <1>3, <1>4, Zenon

\* Vouchers and escrow are transport.
LEMMA LedgerTransports ==
    ASSUME CInv, NEW y \in NFTUIDs
    PROVE  /\ \A token : RefundVoucher(y, token) => LedgerStep
           /\ \A token, creator, mintR, updateR :
                 ReceiveVoucher(y, token, creator, mintR, updateR) => LedgerStep
           /\ InterBurn(y) => LedgerStep
           /\ EscrowNFT(y) => LedgerStep
           /\ \A v \in Users, m \in {DoNotModify, "", "m"} : UnescrowNFT(y, v, m) => LedgerStep
<1>. USE DEF LedgerStep
<1>1. /\ class \in [Classes -> ClassRecords \cup {None}]
      /\ nft \in [NFTUIDs -> Nfts \cup {None}]
  BY Zenon DEF CInv, TypeOK
<1>2. ASSUME NEW token, RefundVoucher(y, token) PROVE LedgerTransport
  BY <1>1, <1>2, Zenon DEF RefundVoucher, NkMint, LedgerTransport
<1>3. ASSUME NEW token, NEW creator, NEW mintR, NEW updateR,
             ReceiveVoucher(y, token, creator, mintR, updateR)
      PROVE  LedgerTransport
  <2>1. PICK r : class' = [class EXCEPT ![y[1]] = r]
    BY <1>3, Zenon DEF ReceiveVoucher
  <2>2. y[1] \in VoucherClasses /\ nft[y] = None /\ nft' = [nft EXCEPT ![y] = token]
    BY <1>3, Zenon DEF ReceiveVoucher
  <2>. QED
    BY <1>1, <2>1, <2>2, Zenon DEF LedgerTransport
<1>4. ASSUME InterBurn(y) PROVE LedgerTransport
  BY <1>1, <1>4, Zenon DEF InterBurn, NkBurn, LedgerTransport
<1>5. ASSUME EscrowNFT(y) PROVE LedgerTransport
  <2>1. nft[y] # None /\ nft[y] \in Nfts /\ class' = class
    BY <1>1, <1>5, Zenon DEF EscrowNFT, Sendable
  <2>. DEFINE t == [nft[y] EXCEPT !.owner = Escrow]
  <2>2. t \in Nfts /\ t.owner = Escrow
    BY <2>1, Zenon DEF Nfts, Holders
  <2>3. nft' = [nft EXCEPT ![y] = t]
    BY <1>5, Zenon DEF EscrowNFT
  <2>. HIDE DEF t
  <2>. QED
    BY <1>1, <2>1, <2>2, <2>3, RecordsAssumption, Zenon DEF LedgerTransport
<1>6. ASSUME NEW v \in Users, NEW m \in {DoNotModify, "", "m"}, UnescrowNFT(y, v, m)
      PROVE  LedgerTransport
  <2>1. nft[y] # None /\ nft[y] \in Nfts /\ nft[y].owner = Escrow /\ class' = class
    BY <1>1, <1>6, Zenon DEF UnescrowNFT
  <2>2. nft' = [nft EXCEPT ![y] = Released(nft[y], v, m)]
    BY <1>1, <1>6, <2>1, Zenon DEF UnescrowNFT, Released, Nfts
  <2>3. Released(nft[y], v, m) \in Nfts
    BY <2>1, Zenon DEF Released, Nfts, Holders, Metas
  <2>. QED
    BY <1>1, <2>1, <2>2, <2>3, RecordsAssumption, Zenon DEF LedgerTransport
<1>. QED
  BY <1>2, <1>3, <1>4, <1>5, <1>6, Zenon

\* The genesis file carries the whole ledger: a restart is not seen there.
LEMMA LedgerSurvivesRestart ==
    ASSUME CInv, Restart
    PROVE  LedgerStep
<1>1. class' = [cl \in Classes |-> IF class[cl] = None THEN None ELSE ExportDenom(cl)]
  BY Zenon DEF Restart, ExportGenesis
<1>2. nft' = [y \in NFTUIDs |-> IF nft[y] = None THEN None ELSE ExportNFT(y)]
  BY Zenon DEF Restart, ExportGenesis
<1>3. \A cl \in Classes : /\ class'[cl] = None <=> class[cl] = None
                          /\ class[cl] # None =>
                                /\ class'[cl].creator = class[cl].creator
                                /\ class'[cl].mintRestricted = class[cl].mintRestricted
  BY <1>1, ExportFacts, Zenon
<1>4. \A y \in NFTUIDs : /\ nft'[y] = None <=> nft[y] = None
                         /\ nft[y] # None => nft'[y].owner = nft[y].owner
  BY <1>2, ExportFacts, Zenon
<1>5. LedgerDenom' = LedgerDenom
  BY <1>3, Zenon DEF LedgerDenom
<1>6. LedgerOwner' = LedgerOwner
  BY <1>4, Zenon DEF LedgerOwner
<1>. QED
  BY <1>5, <1>6, Zenon DEF LedgerStep

\* Every step of the store is a step of the ledger.
LEMMA NextLedgerStep ==
    ASSUME CInv, [Next]_vars
    PROVE  LedgerStep
<1>1. ASSUME NEW v \in Users, NEW uri \in {"plain", "odd"}, NEW m \in {"", "m"}
      PROVE  /\ [owner |-> v, uri |-> uri, meta |-> m] \in Nfts
             /\ [owner |-> v, uri |-> uri, meta |-> m].owner \in Users
  BY Zenon DEF Nfts, Holders, Uris, Metas
<1>2. CASE UserMessage
  <2>. SUFFICES ASSUME NEW u \in Users,
                       \/ \E cl \in NativeClasses, mintR, updateR \in BOOLEAN : IssueDenom(u, cl, mintR, updateR)
                       \/ \E cl \in Classes, v \in Users : TransferDenom(u, cl, v)
                       \/ \E y \in NFTUIDs : \E v \in Users, m \in {"", "m"} :
                             MintNFT(u, y, [owner |-> v, uri |-> "plain", meta |-> m])
                       \/ \E y \in NFTUIDs : \E uri \in UriFields(u, y[1]), m \in MetaFields :
                             EditNFT(u, y, uri, m)
                       \/ \E y \in NFTUIDs : \E uri \in UriFields(u, y[1]), m \in MetaFields,
                                             v \in Users \cup {Module} : TransferNFT(u, y, uri, m, v)
                       \/ \E y \in NFTUIDs : BurnNFT(u, y)
                PROVE  LedgerStep
    BY <1>2, Zenon DEF UserMessage
  <2>1. ASSUME NEW cl \in NativeClasses, NEW mintR \in BOOLEAN, NEW updateR \in BOOLEAN,
               IssueDenom(u, cl, mintR, updateR)
        PROVE  LedgerStep
    BY <2>1, LedgerDenomMessages, Zenon DEF Classes
  <2>2. ASSUME NEW y \in NFTUIDs, NEW v \in Users, NEW m \in {"", "m"},
               MintNFT(u, y, [owner |-> v, uri |-> "plain", meta |-> m])
        PROVE  LedgerStep
    BY <1>1, <2>2, LedgerNftMessages, Zenon
  <2>. QED
    BY <2>1, <2>2, LedgerDenomMessages, LedgerNftMessages, Zenon
<1>3. CASE BridgeMessage
  <2>1. ASSUME NEW y \in DerivedClasses \X NftIds, NEW v \in Users, NEW uri \in {"plain", "odd"},
               NEW m \in {"", "m"}, MintNFT(Module, y, [owner |-> v, uri |-> uri, meta |-> m])
        PROVE  LedgerStep
    <3>1. y \in NFTUIDs
      BY Zenon DEF NFTUIDs, Classes
    <3>. QED
      BY <1>1, <2>1, <3>1, LedgerNftMessages, Zenon
  <2>2. ASSUME NEW y \in NFTUIDs, NEW uri \in UriFields(Module, y[1]), NEW m \in MetaFields,
               NEW v \in Users, TransferNFT(Module, y, uri, m, v)
        PROVE  LedgerStep
    BY <2>2, LedgerNftMessages, Zenon
  <2>3. ASSUME NEW y \in NFTUIDs, Rebind(y) PROVE LedgerStep
    BY <2>3, LedgerUnchanged, Zenon DEF Rebind, LedgerStep
  <2>4. ASSUME NEW cl \in DerivedClasses, NEW mintR \in BOOLEAN, NEW updateR \in BOOLEAN,
               CreateNFTClass(cl, mintR, updateR)
        PROVE  LedgerStep
    <3>1. /\ class \in [Classes -> ClassRecords \cup {None}] /\ class[cl] = None /\ nft' = nft
          /\ class' = [class EXCEPT ![cl] = [creator |-> Module, mintRestricted |-> mintR,
                                             updateRestricted |-> updateR, blob |-> "short"]]
      BY <2>4, Zenon DEF CreateNFTClass, SaveDenom, NewClass, CInv, TypeOK
    <3>. QED
      BY <3>1, Zenon DEF LedgerStep, LedgerTransport
  <2>. QED
    BY <1>3, <2>1, <2>2, <2>3, <2>4, Zenon DEF BridgeMessage
<1>4. CASE NftTransfer
  <2>1. ASSUME NEW y \in NFTUIDs, NEW token,
               \/ RefundVoucher(y, token)
               \/ \E creator \in Users \cup {Collection}, mintR, updateR \in BOOLEAN :
                    ReceiveVoucher(y, token, creator, mintR, updateR)
        PROVE  LedgerStep
    BY <2>1, LedgerTransports, Zenon
  <2>2. ASSUME NEW y \in NFTUIDs, EscrowNFT(y) \/ InterBurn(y) PROVE LedgerStep
    BY <2>2, LedgerTransports, Zenon
  <2>3. ASSUME NEW y \in NFTUIDs, NEW v \in Users, NEW m \in {DoNotModify, "", "m"},
               UnescrowNFT(y, v, m)
        PROVE  LedgerStep
    BY <2>3, LedgerTransports, Zenon
  <2>. QED
    BY <1>4, <2>1, <2>2, <2>3, Zenon DEF NftTransfer
<1>5. CASE Restart
  BY <1>5, LedgerSurvivesRestart, Zenon
<1>6. CASE UNCHANGED vars
  BY <1>6, LedgerUnchanged, Zenon DEF vars, LedgerStep
<1>. QED
  BY <1>2, <1>3, <1>4, <1>5, <1>6, Zenon DEF Next

\* x/collection and x/internft implement the ledger the bridges' models are
\* built on: every step is one of its messages, a step of nft-transfer that
\* destroys no converted NFT, or nothing.
THEOREM StoreImplementsTheLedger == Spec => ImplementsNativeNfts
<1>1. CInv /\ [Next]_vars => [LedgerTransport \/ NativeMessage]_<<LedgerDenom, LedgerOwner>>
  BY NextLedgerStep, Zenon DEF LedgerStep
<1>. QED
  BY <1>1, StoreInvariant, PTL DEF Spec, ImplementsNativeNfts

=============================================================================
