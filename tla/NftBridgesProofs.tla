-------------------------- MODULE NftBridgesProofs --------------------------
(***************************************************************************)
(* Proofs that the two bridges keep one half of every NFT in circulation,  *)
(* that x/cw721 gives every holder the way back, restores itself from its  *)
(* export and refunds the sender of a failed transfer, for every set of    *)
(* users, classes, contracts, channels and ids.                            *)
(***************************************************************************)
EXTENDS NftBridges, Erc721RegistryProofs

-----------------------------------------------------------------------------
(* The inductive invariant *)

CwInverseIndex(fw, rv) == \A x \in CwTokenUIDs, y \in NFTUIDs : fw[x] = y <=> rv[y] = x

\* A bound token that its module does not hold has its NFT in the module's
\* custody.  A burned token counts: an external contract may mint it again.
ErcBacked ==
    \A x \in TokenUIDs :
        forward[x] # None /\ x[1] \notin Rogue /\ ercOwner[x] # Module => nftOwner[forward[x]] = Module

CwBacked ==
    \A x \in CwTokenUIDs :
        cwForward[x] # None /\ x[1] \notin CwRogue /\ cwOwner[x] # CwModule
          => nftOwner[cwForward[x]] = CwModule

\* The x/erc721 half: the index is a bijection, only a class of this chain that
\* exists has a pair (no voucher is ever bound), a binding has its pair and its
\* NFT, and what circulates is backed.
ErcHalf ==
    /\ InverseIndex(forward, reverse)
    /\ \A p \in tokenPairs : p[2] \notin VoucherClasses /\ denom[p[2]] # None
    /\ \A x \in TokenUIDs : forward[x] # None => <<x[1], forward[x][1]>> \in tokenPairs
    /\ \A y \in NFTUIDs : reverse[y] # None => nftOwner[y] # None
    /\ ErcBacked

\* The two lookup maps of x/cw721 and its pairs say the same.
CwPairMapsAgree ==
    /\ \A p \in cwTokenPairs : cw721Map[p[1]] = p /\ cwClassMap[p[2]] = p
    /\ \A c \in CwContracts : cw721Map[c] # None => cw721Map[c] \in cwTokenPairs /\ cw721Map[c][1] = c
    /\ \A cl \in Classes : cwClassMap[cl] # None => cwClassMap[cl] \in cwTokenPairs /\ cwClassMap[cl][2] = cl

\* The x/cw721 half, with the lookup maps and the refund receivers.
CwHalf ==
    /\ CwInverseIndex(cwForward, cwReverse)
    /\ CwPairMapsAgree
    /\ \A p \in cwTokenPairs : p[2] \notin VoucherClasses /\ denom[p[2]] # None
    /\ \A x \in CwTokenUIDs : cwForward[x] # None => <<x[1], cwForward[x][1]>> \in cwTokenPairs
    /\ \A x \in CwTokenUIDs : cwRefund[x] # None => cw721Map[x[1]] # None
    /\ \A y \in NFTUIDs : cwReverse[y] # None => nftOwner[y] # None
    /\ CwBacked

BInv == TypeOK /\ ErcHalf /\ CwHalf

\* pkt carries y away from its origin: ICS-721 holds y for it.
Escrows(pkt, y) == y \in pkt.nfts /\ ~GoesHome(y[1], pkt.channel)

InEscrow == \A pkt \in packets, y \in NFTUIDs : Escrows(pkt, y) => nftOwner[y] = Escrow

OnePacketEach ==
    \A pkt, q \in packets, y \in NFTUIDs : Escrows(pkt, y) /\ Escrows(q, y) => pkt = q

\* The NFTs of a convert packet are of a class of this chain that exists.
ConvertsOwnClass ==
    \A pkt \in packets : pkt.kind # "none" =>
        \A y \in pkt.nfts : y[1] \notin VoucherClasses /\ denom[y[1]] # None

\* The receiver that x/cw721 has on record for the tokens of a packet is the
\* sender of that packet.
SenderRecorded(pkt) ==
    pkt.kind = "cw721" =>
        \A y \in pkt.nfts : cwReverse[y] # None => cwRefund[cwReverse[y]] = pkt.origin

\* While the refund loop of x/cw721 runs, the module has the NFTs it has still
\* to burn and the tokens it has still to pay out.
RefundHeld ==
    refunding # None /\ refunding.kind = "cw721" =>
        \A y \in refunding.nfts :
            /\ nftOwner[y] = CwModule
            /\ cwReverse[y] # None /\ cwReverse[y][1] \notin CwRogue => cwOwner[cwReverse[y]] = CwModule

FInv ==
    /\ InEscrow
    /\ OnePacketEach
    /\ ConvertsOwnClass
    /\ \A pkt \in packets : SenderRecorded(pkt)
    /\ refunding # None => SenderRecorded(refunding)
    /\ RefundHeld

-----------------------------------------------------------------------------
(* Identifiers, batches and the index writer of x/cw721 *)

\* No key of the x/cw721 store and no pair is the absent value.
LEMMA CwAbsentFacts == None \notin NFTUIDs /\ None \notin CwTokenUIDs /\ None \notin CwPairs
BY CwAssumption, NativeAssumption, Zenon

\* The accounts that the properties tell apart are different.
LEMMA AccountFacts ==
    /\ Module # CwModule /\ Module # Escrow /\ CwModule # Escrow
    /\ Module # None /\ CwModule # None /\ Escrow # None
    /\ \A u \in Users : u # Module /\ u # CwModule /\ u # Escrow /\ u # None
BY AccountsAssumption, Zenon DEF Holders

\* A pair is its contract and its class.
LEMMA CwPairFacts ==
    ASSUME NEW p \in CwPairs
    PROVE  p = <<p[1], p[2]>> /\ p[1] \in CwContracts /\ p[2] \in Classes
BY DEF CwPairs

\* A batch is an injective function from NFTs of the class to tokens of the
\* contract.
LEMMA CwBatchFacts ==
    ASSUME NEW p \in CwPairs, NEW b \in Batches(p[2], p[1])
    PROVE  /\ DOMAIN b \subseteq NFTUIDs
           /\ b \in [DOMAIN b -> CwTokenUIDs]
           /\ Injective(b)
           /\ \A y \in DOMAIN b : y[1] = p[2] /\ b[y][1] = p[1]
<1>1. PICK D \in SUBSET ({p[2]} \X NftIds) : b \in [D -> {p[1]} \X TokenIds] /\ Injective(b)
  BY Zenon DEF Batches
<1>2. DOMAIN b = D
  BY <1>1, Zenon
<1>3. p[1] \in CwContracts /\ p[2] \in Classes
  BY CwPairFacts, Zenon
<1>4. D \subseteq NFTUIDs
  BY <1>1, <1>3, Zenon DEF NFTUIDs
<1>5. {p[1]} \X TokenIds \subseteq CwTokenUIDs
  BY <1>3, Zenon DEF CwTokenUIDs
<1>. QED
  BY <1>1, <1>2, <1>4, <1>5

\* A batch that SetNFTPairs of x/cw721 accepts and writes.
CwBatch(b) ==
    /\ DOMAIN b \subseteq NFTUIDs
    /\ b \in [DOMAIN b -> CwTokenUIDs]
    /\ Injective(b)
    /\ CwSetNFTPairs(b)

\* What SetNFTPairs leaves: the tokens of the batch name its NFTs, the other
\* entries stay, and no token or NFT of the batch was bound to anything else.
LEMMA CwSetFacts ==
    ASSUME NEW b, CwBatch(b),
           cwForward \in [CwTokenUIDs -> NFTUIDs \cup {None}],
           cwReverse \in [NFTUIDs -> CwTokenUIDs \cup {None}]
    PROVE  /\ cwForward' \in [CwTokenUIDs -> NFTUIDs \cup {None}]
           /\ cwReverse' \in [NFTUIDs -> CwTokenUIDs \cup {None}]
           /\ \A y \in DOMAIN b : /\ b[y] \in TokensOf(b) /\ cwForward'[b[y]] = y /\ cwReverse'[y] = b[y]
                                  /\ cwForward[b[y]] \in {None, y} /\ cwReverse[y] \in {None, b[y]}
           /\ \A x \in CwTokenUIDs : x \in TokensOf(b) =>
                 cwForward'[x] \in DOMAIN b /\ b[cwForward'[x]] = x
           /\ \A x \in CwTokenUIDs : x \notin TokensOf(b) => cwForward'[x] = cwForward[x]
           /\ \A y \in NFTUIDs : y \notin DOMAIN b => cwReverse'[y] = cwReverse[y]
<1>1. /\ DOMAIN b \subseteq NFTUIDs /\ b \in [DOMAIN b -> CwTokenUIDs] /\ Injective(b)
      /\ \A y \in DOMAIN b : cwForward[b[y]] \in {None, y} /\ cwReverse[y] \in {None, b[y]}
      /\ cwForward' = [x \in CwTokenUIDs |-> IF x \in TokensOf(b) THEN NftFor(b, x) ELSE cwForward[x]]
      /\ cwReverse' = [y \in NFTUIDs |-> IF y \in DOMAIN b THEN b[y] ELSE cwReverse[y]]
  BY Zenon DEF CwBatch, CwSetNFTPairs
<1>2. \A x \in TokensOf(b) : NftFor(b, x) \in DOMAIN b /\ b[NftFor(b, x)] = x
  BY <1>1, NftForFacts, Zenon
<1>3. \A y \in DOMAIN b : b[y] \in TokensOf(b) /\ NftFor(b, b[y]) = y
  BY <1>1, NftForOfToken, Zenon
<1>4. cwForward' \in [CwTokenUIDs -> NFTUIDs \cup {None}]
  BY <1>1, <1>2, Zenon
<1>5. cwReverse' \in [NFTUIDs -> CwTokenUIDs \cup {None}]
  BY <1>1, Zenon
<1>6. \A y \in DOMAIN b : b[y] \in CwTokenUIDs /\ y \in NFTUIDs
  BY <1>1, Zenon
<1>7. \A y \in DOMAIN b : cwForward'[b[y]] = y /\ cwReverse'[y] = b[y]
  BY <1>1, <1>3, <1>6, Zenon
<1>8. \A x \in CwTokenUIDs : x \in TokensOf(b) => cwForward'[x] = NftFor(b, x)
  BY <1>1, Zenon
<1>9. /\ \A x \in CwTokenUIDs : x \notin TokensOf(b) => cwForward'[x] = cwForward[x]
      /\ \A y \in NFTUIDs : y \notin DOMAIN b => cwReverse'[y] = cwReverse[y]
  BY <1>1, Zenon
<1>. QED
  BY <1>1, <1>2, <1>3, <1>4, <1>5, <1>7, <1>8, <1>9, Zenon

\* SetNFTPairs keeps the two directions inverse.
LEMMA CwSetKeepsInverse ==
    ASSUME NEW b, CwBatch(b),
           cwForward \in [CwTokenUIDs -> NFTUIDs \cup {None}],
           cwReverse \in [NFTUIDs -> CwTokenUIDs \cup {None}],
           CwInverseIndex(cwForward, cwReverse)
    PROVE  CwInverseIndex(cwForward', cwReverse')
<1>. SUFFICES ASSUME NEW x \in CwTokenUIDs, NEW y \in NFTUIDs
              PROVE  cwForward'[x] = y <=> cwReverse'[y] = x
  BY Zenon DEF CwInverseIndex
<1>1. /\ \A z \in DOMAIN b : /\ b[z] \in TokensOf(b) /\ cwForward'[b[z]] = z /\ cwReverse'[z] = b[z]
                             /\ cwForward[b[z]] \in {None, z} /\ cwReverse[z] \in {None, b[z]}
      /\ x \in TokensOf(b) => cwForward'[x] \in DOMAIN b /\ b[cwForward'[x]] = x
      /\ x \notin TokensOf(b) => cwForward'[x] = cwForward[x]
      /\ y \notin DOMAIN b => cwReverse'[y] = cwReverse[y]
  BY CwSetFacts, Zenon
<1>2. cwForward[x] = y <=> cwReverse[y] = x
  BY Zenon DEF CwInverseIndex
<1>3. x # None /\ y # None
  BY CwAbsentFacts, Zenon
<1>4. CASE x \in TokensOf(b)
  <2>1. PICK z \in DOMAIN b : b[z] = x /\ cwForward'[x] = z
    BY <1>1, <1>4, Zenon
  <2>2. cwForward[x] \in {None, z} /\ cwReverse'[z] = x
    BY <1>1, <2>1, Zenon
  <2>3. CASE y \in DOMAIN b
    BY <1>1, <2>1, <2>2, <2>3
  <2>4. CASE y \notin DOMAIN b
    BY <1>1, <1>2, <1>3, <2>1, <2>2, <2>4, Zenon
  <2>. QED
    BY <2>3, <2>4, Zenon
<1>5. CASE x \notin TokensOf(b)
  <2>1. cwForward'[x] = cwForward[x]
    BY <1>1, <1>5, Zenon
  <2>2. CASE y \in DOMAIN b
    <3>1. cwReverse'[y] = b[y] /\ b[y] # x /\ cwReverse[y] \in {None, b[y]}
      BY <1>1, <1>5, <2>2, Zenon
    <3>. QED
      BY <1>2, <1>3, <2>1, <3>1, Zenon
  <2>3. CASE y \notin DOMAIN b
    BY <1>1, <1>2, <2>1, <2>3, Zenon
  <2>. QED
    BY <2>2, <2>3, Zenon
<1>. QED
  BY <1>4, <1>5, Zenon

-----------------------------------------------------------------------------
(* Initial states *)

\* The genesis state is good.
LEMMA InitInv == Init => BInv /\ FInv
<1>. SUFFICES ASSUME Init PROVE BInv /\ FInv
  BY Zenon
<1>1. AssetsTypeOK
  BY Zenon DEF Init, AssetsTypeOK, NativeTypeOK, Denoms, Holders, IsIBCDenom
<1>2. RegistryTypeOK
  BY Zenon DEF Init, RegistryTypeOK
<1>3. CwTypeOK
  BY CwAssumption, Zenon DEF Init, CwInit, CwTypeOK
<1>4. TypeOK
  BY <1>1, <1>2, <1>3, Zenon DEF Init, TypeOK
<1>5. ErcHalf
  BY AbsentFacts, Zenon DEF Init, ErcHalf, InverseIndex, ErcBacked
<1>6. CwHalf
  BY CwAbsentFacts, Zenon DEF Init, CwInit, CwHalf, CwInverseIndex, CwPairMapsAgree, CwBacked
<1>7. FInv
  BY Zenon DEF Init, FInv, InEscrow, OnePacketEach, ConvertsOwnClass, RefundHeld
<1>. QED
  BY <1>4, <1>5, <1>6, <1>7, Zenon DEF BInv

-----------------------------------------------------------------------------
(* Each half under a step that leaves its store alone *)

DenomKept == \A cl \in Classes : denom[cl] # None => denom'[cl] # None

\* NFTs in a module's custody stay, and a bound NFT does not leave the ledger.
ErcCustodyKept ==
    \A y \in NFTUIDs : nftOwner'[y] # nftOwner[y] =>
        nftOwner[y] # Module /\ (nftOwner'[y] = None => reverse[y] = None)

CwCustodyKept ==
    \A y \in NFTUIDs : nftOwner'[y] # nftOwner[y] =>
        nftOwner[y] # CwModule /\ (nftOwner'[y] = None => cwReverse[y] = None)

\* The x/erc721 half survives what happens outside its store when nobody takes
\* an NFT or a token out of the module's hands.
LEMMA ErcQuiet ==
    ASSUME BInv, UNCHANGED registryVars, DenomKept, ErcCustodyKept,
           \A x \in TokenUIDs : ercOwner'[x] # ercOwner[x] => ercOwner[x] # Module
    PROVE  ErcHalf'
<1>1. RegistryTypeOK /\ ErcHalf
  BY Zenon DEF BInv, TypeOK
<1>2. UNCHANGED <<tokenPairs, forward, reverse>>
  BY Zenon DEF registryVars
<1>3. InverseIndex(forward, reverse)'
  BY <1>1, <1>2, ZenonT(40) DEF ErcHalf, InverseIndex
<1>4. \A p \in tokenPairs' : p[2] \notin VoucherClasses /\ denom'[p[2]] # None
  <2>1. \A p \in tokenPairs : p[2] \in Classes
    BY <1>1, PairFacts, Zenon DEF RegistryTypeOK
  <2>. QED
    BY <1>1, <1>2, <2>1, Zenon DEF ErcHalf, DenomKept
<1>5. \A x \in TokenUIDs : forward'[x] # None => <<x[1], forward'[x][1]>> \in tokenPairs'
  BY <1>1, <1>2, Zenon DEF ErcHalf
<1>6. \A y \in NFTUIDs : reverse'[y] # None => nftOwner'[y] # None
  BY <1>1, <1>2, Zenon DEF ErcHalf, ErcCustodyKept
<1>7. ErcBacked'
  <2>. SUFFICES ASSUME NEW x \in TokenUIDs, forward'[x] # None, x[1] \notin Rogue, ercOwner'[x] # Module
                PROVE  nftOwner'[forward'[x]] = Module
    BY Zenon DEF ErcBacked
  <2>1. forward'[x] = forward[x] /\ forward[x] \in NFTUIDs
    BY <1>1, <1>2, Zenon DEF RegistryTypeOK
  <2>2. ercOwner[x] # Module
    BY Zenon
  <2>3. nftOwner[forward[x]] = Module
    BY <1>1, <2>1, <2>2, Zenon DEF ErcHalf, ErcBacked
  <2>. QED
    BY <2>1, <2>3, Zenon DEF ErcCustodyKept
<1>. QED
  BY <1>3, <1>4, <1>5, <1>6, <1>7, Zenon DEF ErcHalf

\* And so does the x/cw721 half.
LEMMA CwQuiet ==
    ASSUME BInv, UNCHANGED <<cwTokenPairs, cw721Map, cwClassMap, cwForward, cwReverse, cwRefund>>,
           DenomKept, CwCustodyKept,
           \A x \in CwTokenUIDs : cwOwner'[x] # cwOwner[x] => cwOwner[x] # CwModule \/ x[1] \in CwRogue
    PROVE  CwHalf'
<1>1. CwTypeOK /\ CwHalf
  BY Zenon DEF BInv, TypeOK
<1>2. CwInverseIndex(cwForward, cwReverse)' /\ CwPairMapsAgree'
  BY <1>1 DEF CwHalf, CwInverseIndex, CwPairMapsAgree
<1>3. \A p \in cwTokenPairs' : p[2] \notin VoucherClasses /\ denom'[p[2]] # None
  <2>1. \A p \in cwTokenPairs : p[2] \in Classes
    BY <1>1, CwPairFacts, Zenon DEF CwTypeOK
  <2>. QED
    BY <1>1, <2>1, Zenon DEF CwHalf, DenomKept
<1>4. /\ \A x \in CwTokenUIDs : cwForward'[x] # None => <<x[1], cwForward'[x][1]>> \in cwTokenPairs'
      /\ \A x \in CwTokenUIDs : cwRefund'[x] # None => cw721Map'[x[1]] # None
  BY <1>1, Zenon DEF CwHalf
<1>5. \A y \in NFTUIDs : cwReverse'[y] # None => nftOwner'[y] # None
  BY <1>1, Zenon DEF CwHalf, CwCustodyKept
<1>6. CwBacked'
  <2>. SUFFICES ASSUME NEW x \in CwTokenUIDs, cwForward'[x] # None, x[1] \notin CwRogue,
                       cwOwner'[x] # CwModule
                PROVE  nftOwner'[cwForward'[x]] = CwModule
    BY Zenon DEF CwBacked
  <2>1. cwForward'[x] = cwForward[x] /\ cwForward[x] \in NFTUIDs
    BY <1>1, Zenon DEF CwTypeOK
  <2>2. cwOwner[x] # CwModule
    BY Zenon
  <2>3. nftOwner[cwForward[x]] = CwModule
    BY <1>1, <2>1, <2>2, Zenon DEF CwHalf, CwBacked
  <2>. QED
    BY <2>1, <2>3, Zenon DEF CwCustodyKept
<1>. QED
  BY <1>2, <1>3, <1>4, <1>5, <1>6, Zenon DEF CwHalf

-----------------------------------------------------------------------------
(* The packets in flight *)

\* Nothing happens to an NFT in escrow, to its binding or to the receiver on
\* record for its token.
Kept(y) ==
    /\ nftOwner'[y] = nftOwner[y]
    /\ cwReverse'[y] = cwReverse[y]
    /\ cwReverse[y] # None => cwRefund'[cwReverse[y]] = cwRefund[cwReverse[y]]

\* What the invariant asks of one packet, after the step.
Carried(q) ==
    /\ \A y \in NFTUIDs : Escrows(q, y) => nftOwner'[y] = Escrow
    /\ q.kind # "none" => \A y \in q.nfts : y[1] \notin VoucherClasses /\ denom'[y[1]] # None
    /\ q.kind = "cw721" =>
          \A y \in q.nfts : cwReverse'[y] # None => cwRefund'[cwReverse'[y]] = q.origin

\* A packet whose NFTs are left alone stays good.
LEMMA StaysCarried ==
    ASSUME BInv, FInv, DenomKept, NEW q \in packets,
           \A y \in NFTUIDs : Escrows(q, y) => Kept(y)
    PROVE  Carried(q)
<1>1. q \in Packets
  BY Zenon DEF BInv, TypeOK
<1>2. q.nfts \subseteq NFTUIDs
  BY <1>1, Zenon DEF Packets
<1>3. \A y \in NFTUIDs : Escrows(q, y) => nftOwner'[y] = Escrow
  BY Zenon DEF FInv, InEscrow, Kept
<1>4. ASSUME q.kind # "none"
      PROVE  \A y \in q.nfts : y[1] \notin VoucherClasses /\ denom[y[1]] # None /\ y[1] \in Classes
  BY <1>2, <1>4, Zenon DEF FInv, ConvertsOwnClass, NFTUIDs
<1>5. q.kind # "none" => \A y \in q.nfts : y[1] \notin VoucherClasses /\ denom'[y[1]] # None
  BY <1>4, Zenon DEF DenomKept
<1>6. ASSUME q.kind = "cw721", NEW y \in q.nfts, cwReverse'[y] # None
      PROVE  cwRefund'[cwReverse'[y]] = q.origin
  <2>1. y \in NFTUIDs /\ Escrows(q, y)
    BY <1>2, <1>4, <1>6, Zenon DEF Escrows, GoesHome, IsIBCDenom
  <2>2. Kept(y)
    BY <2>1, Zenon
  <2>3. cwReverse[y] # None /\ cwRefund'[cwReverse'[y]] = cwRefund[cwReverse[y]]
    BY <1>6, <2>2, Zenon DEF Kept
  <2>. QED
    BY <1>6, <2>3, Zenon DEF FInv, SenderRecorded
<1>. QED
  BY <1>3, <1>5, <1>6, Zenon DEF Carried

\* With every packet and the refund that runs good, the whole invariant holds.
LEMMA FlightDone ==
    ASSUME packets' \in SUBSET Packets, \A q \in packets' : Carried(q), OnePacketEach',
           refunding' # None => SenderRecorded(refunding)' /\ RefundHeld'
    PROVE  FInv'
<1>1. InEscrow'
  BY Zenon DEF InEscrow, Carried, Escrows, GoesHome
<1>2. ConvertsOwnClass'
  BY Zenon DEF ConvertsOwnClass, Carried
<1>3. (\A pkt \in packets : SenderRecorded(pkt))'
  BY Zenon DEF SenderRecorded, Carried
<1>4. RefundHeld' /\ (refunding # None => SenderRecorded(refunding))'
  <2>1. CASE refunding' = None
    BY <2>1, Zenon DEF RefundHeld
  <2>. QED
    BY <2>1, Zenon
<1>. QED
  BY <1>1, <1>2, <1>3, <1>4, Zenon DEF FInv

\* A step that sends nothing and leaves escrowed NFTs alone.
LEMMA FlightQuiet ==
    ASSUME BInv, FInv, DenomKept, packets' \subseteq packets, refunding' = None,
           \A q \in packets', y \in NFTUIDs : Escrows(q, y) => Kept(y)
    PROVE  FInv'
<1>1. packets' \in SUBSET Packets
  BY Zenon DEF BInv, TypeOK
<1>2. \A q \in packets' : Carried(q)
  BY StaysCarried, Zenon
<1>3. OnePacketEach'
  BY Zenon DEF FInv, OnePacketEach, Escrows, GoesHome
<1>. QED
  BY <1>1, <1>2, <1>3, FlightDone, Zenon

\* A step that sends pkt with NFTs that were not in escrow.
LEMMA FlightSend ==
    ASSUME BInv, FInv, DenomKept, NEW pkt \in Packets,
           packets' = packets \cup {pkt}, refunding' = None, Carried(pkt),
           \A y \in pkt.nfts : nftOwner[y] # Escrow,
           \A y \in NFTUIDs : nftOwner[y] = Escrow => Kept(y)
    PROVE  FInv'
<1>1. packets' \in SUBSET Packets
  BY Zenon DEF BInv, TypeOK
<1>2. ASSUME NEW q \in packets'
      PROVE  Carried(q)
  <2>1. CASE q \in packets
    <3>1. \A y \in NFTUIDs : Escrows(q, y) => nftOwner[y] = Escrow
      BY <2>1, Zenon DEF FInv, InEscrow
    <3>. QED
      BY <2>1, <3>1, StaysCarried, Zenon
  <2>. QED
    BY <2>1, Zenon
<1>3. OnePacketEach'
  <2>. SUFFICES ASSUME NEW q \in packets', NEW r \in packets', NEW y \in NFTUIDs,
                       Escrows(q, y), Escrows(r, y)
                PROVE  q = r
    BY Zenon DEF OnePacketEach, Escrows, GoesHome
  <2>1. ~(pkt \in {q, r} /\ (q \in packets \/ r \in packets))
    <3>1. \A p \in packets : Escrows(p, y) => nftOwner[y] = Escrow
      BY Zenon DEF FInv, InEscrow
    <3>2. Escrows(pkt, y) => nftOwner[y] # Escrow
      BY Zenon DEF Escrows
    <3>. QED
      BY <3>1, <3>2, Zenon
  <2>2. CASE q \in packets /\ r \in packets
    BY <2>2, Zenon DEF FInv, OnePacketEach
  <2>. QED
    BY <2>1, <2>2, Zenon
<1>. QED
  BY <1>1, <1>2, <1>3, FlightDone, Zenon

-----------------------------------------------------------------------------
(* Steps outside both stores *)

cwRegistryVars == <<cwTokenPairs, cw721Map, cwClassMap, cwForward, cwReverse, cwRefund>>

\* Both halves at once.
LEMMA LedgerStep ==
    ASSUME BInv, AssetsTypeOK', CwTypeOK',
           packets' \in SUBSET Packets, refunding' \in Packets \cup {None},
           UNCHANGED <<registryVars, enabled>>, UNCHANGED cwRegistryVars,
           DenomKept, ErcCustodyKept, CwCustodyKept,
           \A x \in TokenUIDs : ercOwner'[x] # ercOwner[x] => ercOwner[x] # Module,
           \A x \in CwTokenUIDs : cwOwner'[x] # cwOwner[x] => cwOwner[x] # CwModule \/ x[1] \in CwRogue
    PROVE  BInv'
<1>1. RegistryTypeOK'
  BY Zenon DEF BInv, TypeOK, RegistryTypeOK, registryVars, Pairs, RefundKeys
<1>2. TypeOK'
  BY <1>1, Zenon DEF BInv, TypeOK
<1>3. ErcHalf'
  BY ErcQuiet, Zenon
<1>4. CwHalf'
  BY CwQuiet, Zenon DEF cwRegistryVars
<1>. QED
  BY <1>2, <1>3, <1>4, Zenon DEF BInv

\* The type of the x/cw721 side depends on its own variables only.
LEMMA CwTypeKept ==
    ASSUME CwTypeOK, UNCHANGED cwVars
    PROVE  CwTypeOK'
BY Zenon DEF CwTypeOK, cwVars, wasmVars, cwStoreVars, CwPairs, CwTokenUIDs, NFTUIDs, Classes

\* A move of NFTs that no module holds: from owners outside the module accounts,
\* off the ledger only when unbound.
FreeMove ==
    \A y \in NFTUIDs : nftOwner'[y] # nftOwner[y] =>
        /\ nftOwner[y] \notin {Module, CwModule}
        /\ nftOwner'[y] = None => reverse[y] = None /\ cwReverse[y] = None

\* A step of the native ledger alone.
LEMMA NativeStep ==
    ASSUME BInv, NativeTypeOK', UNCHANGED <<ercVars, cwVars>>, DenomKept, FreeMove,
           packets' \in SUBSET Packets, refunding' \in Packets \cup {None}
    PROVE  BInv'
<1>1. AssetsTypeOK' /\ CwTypeOK'
  BY CwTypeKept, Zenon DEF BInv, TypeOK, AssetsTypeOK, ercVars
<1>2. UNCHANGED <<registryVars, enabled>> /\ UNCHANGED cwRegistryVars /\ UNCHANGED <<ercOwner, cwOwner>>
  BY Zenon DEF ercVars, registryVars, cwVars, wasmVars, cwStoreVars, cwRegistryVars
<1>3. ErcCustodyKept /\ CwCustodyKept
  BY Zenon DEF FreeMove, ErcCustodyKept, CwCustodyKept
<1>. QED
  BY <1>1, <1>2, <1>3, LedgerStep, Zenon

\* x/collection messages.
LEMMA CollectionSteps ==
    ASSUME BInv, FInv, Idle, CollectionStep, UNCHANGED <<ercVars, cwVars, ibcVars>>
    PROVE  BInv' /\ FInv'
<1>1. NativeTypeOK /\ ErcHalf /\ CwHalf /\ packets \in SUBSET Packets /\ refunding \in Packets \cup {None}
  BY Zenon DEF BInv, TypeOK, AssetsTypeOK
<1>2. packets' = packets /\ refunding' = None /\ UNCHANGED <<cwReverse, cwRefund>>
  BY Zenon DEF ibcVars, Idle, cwVars, cwStoreVars
<1>3. ASSUME NativeTypeOK', DenomKept, FreeMove,
             \A y \in NFTUIDs : nftOwner[y] = Escrow => nftOwner'[y] = Escrow
      PROVE  BInv' /\ FInv'
  <2>1. BInv'
    BY <1>1, <1>2, <1>3, NativeStep, Zenon
  <2>2. \A q \in packets', y \in NFTUIDs : Escrows(q, y) => Kept(y)
    BY <1>2, <1>3, Zenon DEF FInv, InEscrow, Kept
  <2>. QED
    BY <1>2, <1>3, <2>1, <2>2, FlightQuiet, Zenon
<1>4. CASE \E u \in Users, cl \in Classes, restricted \in BOOLEAN : IssueDenom(u, cl, restricted)
  <2>1. PICK u \in Users, cl \in Classes, restricted \in BOOLEAN : IssueDenom(u, cl, restricted)
    BY <1>4, Zenon
  <2>2. [creator |-> u, mintRestricted |-> restricted] \in Denoms
    BY Zenon DEF Denoms, Holders
  <2>3. NativeTypeOK' /\ DenomKept
    BY <1>1, <2>1, <2>2, Zenon DEF IssueDenom, NativeTypeOK, DenomKept
  <2>4. UNCHANGED nftOwner
    BY <2>1, Zenon DEF IssueDenom
  <2>. QED
    BY <1>3, <2>3, <2>4, Zenon DEF FreeMove
<1>5. ASSUME NEW y \in NFTUIDs, NEW v \in Holders \cup {None}, UNCHANGED denom,
             nftOwner' = [nftOwner EXCEPT ![y] = v],
             nftOwner[y] \notin {Module, CwModule, Escrow},
             v = None => reverse[y] = None /\ cwReverse[y] = None
      PROVE  BInv' /\ FInv'
  <2>1. NativeTypeOK' /\ DenomKept
    BY <1>1, <1>5, Zenon DEF NativeTypeOK, DenomKept
  <2>2. \A z \in NFTUIDs : nftOwner'[z] = IF z = y THEN v ELSE nftOwner[z]
    BY <1>1, <1>5, Zenon DEF NativeTypeOK
  <2>3. FreeMove /\ \A z \in NFTUIDs : nftOwner[z] = Escrow => nftOwner'[z] = Escrow
    BY <1>5, <2>2, Zenon DEF FreeMove
  <2>. QED
    BY <1>3, <2>1, <2>3, Zenon
<1>6. CASE \E u \in Users, y \in NFTUIDs, v \in Users : MintNFT(u, y, v)
  BY <1>5, <1>6, AccountFacts, Zenon DEF MintNFT, Holders
<1>7. CASE \E u \in Users, y \in NFTUIDs, v \in Users \cup {Module, CwModule} : TransferNFT(u, y, v)
  BY <1>5, <1>7, AccountFacts, Zenon DEF TransferNFT, Holders
<1>8. CASE \E u \in Users, y \in NFTUIDs : BurnNFT(u, y, ConvertedNFT(y))
  BY <1>5, <1>8, AccountFacts, Zenon DEF BurnNFT, ConvertedNFT, IsConvertedNFT, IsCwConvertedNFT
<1>. QED
  BY <1>4, <1>6, <1>7, <1>8, Zenon DEF CollectionStep

\* The contracts of both machines, and the parameters of x/cw721.
LEMMA ContractSteps ==
    ASSUME BInv, FInv, Idle,
           \/ EvmStep /\ UNCHANGED <<nativeVars, registryVars, enabled, cwVars, ibcVars>>
           \/ WasmStep /\ UNCHANGED <<nativeVars, ercVars, cwStoreVars, ibcVars>>
           \/ \E e \in BOOLEAN, c \in BOOLEAN :
                 CwUpdateParams(e, c) /\ UNCHANGED <<nativeVars, ercVars, ibcVars>>
    PROVE  BInv' /\ FInv'
<1>1. AssetsTypeOK /\ CwTypeOK /\ packets \in SUBSET Packets /\ refunding \in Packets \cup {None}
  BY Zenon DEF BInv, TypeOK
<1>2. UNCHANGED <<denom, nftOwner>> /\ packets' = packets /\ refunding' = None
      /\ UNCHANGED <<registryVars, enabled>> /\ UNCHANGED cwRegistryVars
  BY Zenon DEF nativeVars, ibcVars, Idle, ercVars, registryVars, cwVars, cwStoreVars,
     cwRegistryVars,
         CwUpdateParams, cwPairVars, cwIndexVars
<1>3. FInv'
  <2>1. DenomKept /\ \A y \in NFTUIDs : Kept(y)
    BY <1>2, Zenon DEF DenomKept, Kept, cwRegistryVars
  <2>. QED
    BY <1>2, <2>1, FlightQuiet, Zenon
<1>4. ASSUME AssetsTypeOK', CwTypeOK',
             \A x \in TokenUIDs : ercOwner'[x] # ercOwner[x] => ercOwner[x] # Module,
             \A x \in CwTokenUIDs : cwOwner'[x] # cwOwner[x] => cwOwner[x] # CwModule \/ x[1] \in CwRogue
      PROVE  BInv'
  <2>1. DenomKept /\ ErcCustodyKept /\ CwCustodyKept
    BY <1>2, Zenon DEF DenomKept, ErcCustodyKept, CwCustodyKept
  <2>. QED
    BY <1>1, <1>2, <1>4, <2>1, LedgerStep, Zenon
<1>5. ASSUME EvmStep, UNCHANGED cwVars
      PROVE  BInv'
  <2>1. ASSUME NEW x \in TokenUIDs, NEW v \in Users \cup {Module, None}, UNCHANGED code,
               ercOwner[x] # Module, ercOwner' = [ercOwner EXCEPT ![x] = v]
        PROVE  BInv'
    <3>1. AssetsTypeOK'
      BY <1>1, <1>2, <2>1, Zenon DEF AssetsTypeOK, NativeTypeOK
    <3>2. \A z \in TokenUIDs : ercOwner'[z] # ercOwner[z] => ercOwner[z] # Module
      BY <1>1, <2>1, Zenon DEF AssetsTypeOK
    <3>3. CwTypeOK' /\ UNCHANGED cwOwner
      BY <1>1, <1>5, CwTypeKept, Zenon DEF cwVars, wasmVars
    <3>. QED
      BY <1>4, <3>1, <3>2, <3>3, Zenon
  <2>2. CASE \E u \in Users, x \in TokenUIDs, v \in Receivers : ErcTransfer(u, x, v)
    BY <2>1, <2>2, AccountFacts, Zenon DEF ErcTransfer, Receivers
  <2>3. CASE \E u \in Users, x \in TokenUIDs : ErcBurn(u, x)
    BY <2>1, <2>3, AccountFacts, Zenon DEF ErcBurn
  <2>4. CASE \E x \in TokenUIDs, v \in Users : ErcMint(x, v)
    BY <2>1, <2>4, AccountFacts, Zenon DEF ErcMint
  <2>. QED
    BY <1>5, <2>2, <2>3, <2>4, Zenon DEF EvmStep
<1>6. ASSUME WasmStep, UNCHANGED <<ercVars, cwStoreVars>>
      PROVE  BInv'
  <2>1. ASSUME NEW x \in CwTokenUIDs, NEW v \in Users \cup {CwModule, None}, UNCHANGED cwLive,
               cwOwner[x] # CwModule \/ x[1] \in CwRogue, cwOwner' = [cwOwner EXCEPT ![x] = v]
        PROVE  BInv'
    <3>1. CwTypeOK'
      BY <1>1, <1>6, <2>1, Zenon DEF CwTypeOK, cwStoreVars
    <3>2. \A z \in CwTokenUIDs : cwOwner'[z] # cwOwner[z] => cwOwner[z] # CwModule \/ z[1] \in CwRogue
      BY <1>1, <2>1, Zenon DEF CwTypeOK
    <3>3. AssetsTypeOK' /\ UNCHANGED ercOwner
      BY <1>1, <1>2, <1>6, Zenon DEF AssetsTypeOK, NativeTypeOK, ercVars
    <3>. QED
      BY <1>4, <3>1, <3>2, <3>3, Zenon
  <2>2. CASE \E u \in Users, x \in CwTokenUIDs, v \in CwReceivers : CwTransfer(u, x, v)
    BY <2>1, <2>2, AccountFacts, Zenon DEF CwTransfer, CwReceivers
  <2>3. CASE \E u \in Users, x \in CwTokenUIDs : CwBurn(u, x)
    BY <2>1, <2>3, AccountFacts, Zenon DEF CwBurn
  <2>4. CASE \E x \in CwTokenUIDs, v \in Users : CwMint(x, v)
    BY <2>1, <2>4, AccountFacts, Zenon DEF CwMint
  <2>5. CASE \E x \in CwTokenUIDs, v \in CwReceivers \cup {None} : CwReassign(x, v)
    BY <2>1, <2>5, Zenon DEF CwReassign, CwReceivers
  <2>. QED
    BY <1>6, <2>2, <2>3, <2>4, <2>5, Zenon DEF WasmStep
<1>7. ASSUME NEW e \in BOOLEAN, NEW c \in BOOLEAN, CwUpdateParams(e, c), UNCHANGED ercVars
      PROVE  BInv'
  <2>1. cwParams' \in [enabled : BOOLEAN, codeID : BOOLEAN]
    <3>1. (cwParams.codeID \/ c) \in BOOLEAN
      BY ZenonT(30)
    <3>. QED
      BY <1>7, <3>1, Zenon DEF CwUpdateParams
  <2>2. UNCHANGED <<cwLive, cwOwner, cwRegistryVars>>
    BY <1>7, <1>2, Zenon DEF CwUpdateParams, wasmVars
  <2>3. CwTypeOK'
    BY <1>1, <2>1, <2>2, Zenon DEF CwTypeOK, cwRegistryVars
  <2>4. AssetsTypeOK' /\ UNCHANGED ercOwner
    BY <1>1, <1>2, <1>7, Zenon DEF AssetsTypeOK, NativeTypeOK, ercVars
  <2>. QED
    BY <1>4, <2>2, <2>3, <2>4, Zenon
<1>. QED
  BY <1>3, <1>5, <1>6, <1>7, Zenon

-----------------------------------------------------------------------------
(* ICS-721 *)

\* The id of a class of this chain leads getRefundClassId back to that class.
LEMMA OwnClassIsFound ==
    ASSUME NEW cl \in Classes \ VoucherClasses, denom[cl] # None, NEW ch \in Channels
    PROVE  GetRefundClassId(ClassPath[cl], ch) = cl
<1>. DEFINE path == ClassPath[cl]
            own == {k \in Classes : ~IsIBCDenom(k) /\ denom[k] # None /\ ClassPath[k] = path}
<1>1. own = {cl}
  BY PathAssumption, Zenon DEF IsIBCDenom
<1>2. ClassWithId(path) = cl /\ cl # None
  <2>. HIDE DEF path
  <2>1. ClassWithId(path) = IF own = {} THEN None ELSE CHOOSE k \in own : TRUE
    BY Zenon DEF ClassWithId, path
  <2>2. (CHOOSE k \in own : TRUE) \in own
    BY <1>1, Zenon
  <2>. QED
    BY <1>1, <2>1, <2>2, PathAssumption, Zenon
<1>3. Len(path) = 1 \/ Len(path) > 1
  <2>1. Len(path) \in Nat \ {0}
    BY PathAssumption, Zenon
  <2>2. \A n \in Nat \ {0} : n = 1 \/ n > 1
    OBVIOUS
  <2>. QED
    BY <2>1, <2>2, Zenon
<1>4. Len(path) > 1 => path[1] # ch
  BY PathAssumption, Zenon
<1>. HIDE DEF path
<1>5. CASE Len(path) = 1
  BY <1>2, <1>5 DEF GetRefundClassId, path
<1>6. CASE Len(path) > 1
  <2>1. GetRefundClassId(path, ch) = IF ClassWithId(path) # None THEN ClassWithId(path) ELSE VoucherOf(path)
    BY <1>4, <1>6 DEF GetRefundClassId
  <2>. QED
    BY <1>2, <2>1, Zenon DEF path
<1>. QED
  BY <1>3, <1>5, <1>6, Zenon

\* So the refund of a convert packet is about the NFTs that left.
LEMMA RefundTokensAreTheNfts ==
    ASSUME BInv, FInv, NEW pkt \in packets, pkt.kind # "none"
    PROVE  RefundTokens(pkt) = pkt.nfts
<1>1. pkt \in Packets
  BY Zenon DEF BInv, TypeOK
<1>2. pkt.nfts \subseteq NFTUIDs /\ pkt.channel \in Channels
  BY <1>1, Zenon DEF Packets
<1>3. ASSUME NEW y \in pkt.nfts
      PROVE  <<GetRefundClassId(ClassPath[y[1]], pkt.channel), y[2]>> = y
  <2>1. y[1] \in Classes \ VoucherClasses /\ denom[y[1]] # None /\ y = <<y[1], y[2]>>
    BY <1>2, <1>3 DEF FInv, ConvertsOwnClass, NFTUIDs
  <2>2. GetRefundClassId(ClassPath[y[1]], pkt.channel) = y[1]
    BY <1>2, <2>1, OwnClassIsFound, Zenon
  <2>. QED
    BY <2>1, <2>2, Zenon
<1>. QED
  BY <1>3, Zenon DEF RefundTokens

\* A user's transfer.
LEMMA SendStep ==
    ASSUME BInv, FInv, Idle, NEW u \in Users, NEW y \in NFTUIDs, NEW ch \in Channels, SendNFT(u, y, ch)
    PROVE  BInv' /\ FInv'
<1>. DEFINE pkt == [nfts |-> {y}, kind |-> "none", origin |-> u, channel |-> ch]
            v == IF GoesHome(y[1], ch) THEN None ELSE Escrow
<1>1. NativeTypeOK /\ packets \in SUBSET Packets /\ refunding \in Packets \cup {None}
  BY Zenon DEF BInv, TypeOK, AssetsTypeOK
<1>2. /\ nftOwner[y] = u
      /\ v = None => reverse[y] = None /\ cwReverse[y] = None
      /\ nftOwner' = [nftOwner EXCEPT ![y] = v]
      /\ packets' = packets \cup {pkt}
      /\ UNCHANGED <<denom, ercVars, cwVars>> /\ refunding' = None
  BY AccountFacts, Zenon DEF SendNFT, Idle, ConvertedNFT, IsConvertedNFT, IsCwConvertedNFT
<1>3. pkt \in Packets
  BY Zenon DEF Packets, Kinds
<1>4. v \in Holders \cup {None}
  BY Zenon DEF Holders
<1>5. pkt.kind = "none" /\ pkt.nfts = {y} /\ (Escrows(pkt, y) => v = Escrow)
  BY Zenon DEF Escrows
<1>. HIDE DEF pkt, v
<1>6. \A z \in NFTUIDs : nftOwner'[z] = IF z = y THEN v ELSE nftOwner[z]
  BY <1>1, <1>2, Zenon DEF NativeTypeOK
<1>7. NativeTypeOK' /\ DenomKept
  BY <1>1, <1>2, <1>4, Zenon DEF NativeTypeOK, DenomKept
<1>8. FreeMove
  BY <1>2, <1>6, AccountFacts, Zenon DEF FreeMove
<1>9. BInv'
  <2>1. packets' \in SUBSET Packets /\ refunding' \in Packets \cup {None}
    BY <1>1, <1>2, <1>3, Zenon
  <2>. QED
    BY <1>2, <1>7, <1>8, <2>1, NativeStep, Zenon
<1>10. FInv'
  <2>1. \A z \in NFTUIDs : nftOwner[z] = Escrow => Kept(z)
    BY <1>2, <1>6, AccountFacts, Zenon DEF Kept, cwVars, cwStoreVars
  <2>2. Carried(pkt)
    BY <1>5, <1>6, Zenon DEF Carried, Escrows
  <2>3. \A z \in pkt.nfts : nftOwner[z] # Escrow
    BY <1>2, <1>5, AccountFacts, Zenon
  <2>. QED
    BY <1>2, <1>3, <1>7, <2>1, <2>2, <2>3, FlightSend, Zenon
<1>. QED
  BY <1>9, <1>10, Zenon

\* Acknowledgements and arrivals.
LEMMA AckAndReceiveSteps ==
    ASSUME BInv, FInv, Idle,
           \/ \E pkt \in packets : AcknowledgeSuccess(pkt)
           \/ \E y \in NFTUIDs, v \in Users : ReceiveNFT(y, v)
    PROVE  BInv' /\ FInv'
<1>1. NativeTypeOK /\ ErcHalf /\ CwHalf /\ packets \in SUBSET Packets /\ refunding \in Packets \cup {None}
  BY Zenon DEF BInv, TypeOK, AssetsTypeOK
<1>2. CASE \E pkt \in packets : AcknowledgeSuccess(pkt)
  <2>1. packets' \subseteq packets /\ refunding' = None
        /\ UNCHANGED <<denom, nftOwner>> /\ UNCHANGED <<ercVars, cwVars>>
    BY <1>2, Zenon DEF AcknowledgeSuccess, Idle, nativeVars
  <2>2. NativeTypeOK' /\ DenomKept /\ FreeMove
    BY <1>1, <2>1, Zenon DEF NativeTypeOK, DenomKept, FreeMove
  <2>3. \A y \in NFTUIDs : Kept(y)
    BY <2>1, Zenon DEF Kept, cwVars, cwStoreVars
  <2>4. packets' \in SUBSET Packets /\ refunding' \in Packets \cup {None}
    BY <1>1, <2>1, Zenon
  <2>. QED
    BY <2>1, <2>2, <2>3, <2>4, NativeStep, FlightQuiet, Zenon
<1>3. CASE \E y \in NFTUIDs, v \in Users : ReceiveNFT(y, v)
  <2>1. PICK y \in NFTUIDs, v \in Users : ReceiveNFT(y, v)
    BY <1>3, Zenon
  <2>2. /\ \A pkt \in packets : y \notin pkt.nfts
        /\ nftOwner[y] \in {Escrow, None}
        /\ nftOwner' = [nftOwner EXCEPT ![y] = v]
        /\ packets' = packets /\ refunding' = None
        /\ UNCHANGED denom /\ UNCHANGED <<ercVars, cwVars>>
    BY <2>1, Zenon DEF ReceiveNFT, Idle, ibcVars
  <2>3. \A z \in NFTUIDs : nftOwner'[z] = IF z = y THEN v ELSE nftOwner[z]
    BY <1>1, <2>2, Zenon DEF NativeTypeOK
  <2>4. NativeTypeOK' /\ DenomKept
    BY <1>1, <2>2, Zenon DEF NativeTypeOK, DenomKept, Holders
  <2>5. FreeMove
    BY <2>2, <2>3, AccountFacts, Zenon DEF FreeMove
  <2>6. \A q \in packets', z \in NFTUIDs : Escrows(q, z) => Kept(z)
    BY <2>2, <2>3, Zenon DEF Escrows, Kept, cwVars, cwStoreVars
  <2>7. packets' \in SUBSET Packets /\ refunding' \in Packets \cup {None}
    BY <1>1, <2>2, Zenon
  <2>8. BInv'
    BY <2>2, <2>4, <2>5, <2>7, NativeStep, Zenon
  <2>. QED
    BY <2>2, <2>4, <2>6, <2>8, FlightQuiet, Zenon
<1>. QED
  BY <1>2, <1>3, Zenon

\* An error acknowledgement or a timeout.
LEMMA FailStep ==
    ASSUME BInv, FInv, Idle, NEW pkt \in packets, FailPacket(pkt)
    PROVE  BInv' /\ FInv'
<1>1. NativeTypeOK /\ CwTypeOK /\ CwHalf /\ packets \in SUBSET Packets /\ pkt \in Packets
  BY Zenon DEF BInv, TypeOK, AssetsTypeOK
<1>2. pkt.nfts \subseteq NFTUIDs /\ pkt.origin \in Users /\ RefundSender(pkt) \in Holders
  BY <1>1, Zenon DEF Packets, RefundSender, Holders
<1>3. /\ \A y \in pkt.nfts : nftOwner[y] = IF GoesHome(y[1], pkt.channel) THEN None ELSE Escrow
      /\ nftOwner' = [y \in NFTUIDs |-> IF y \in pkt.nfts THEN RefundSender(pkt) ELSE nftOwner[y]]
      /\ packets' = packets \ {pkt}
      /\ UNCHANGED denom /\ UNCHANGED <<ercVars, cwVars>>
  BY Zenon DEF FailPacket
<1>4. refunding' = None \/ (refunding' = pkt /\ pkt.kind # "none")
  <2>1. CASE pkt.kind = "none"
    BY <2>1, Zenon DEF FailPacket
  <2>2. CASE pkt.kind # "none"
    <3>1. RefundTokens(pkt) = pkt.nfts
      BY <2>2, RefundTokensAreTheNfts, Zenon
    <3>2. [pkt EXCEPT !.nfts = pkt.nfts] = pkt
      BY <1>1, Zenon DEF Packets
    <3>. QED
      BY <2>2, <3>1, <3>2, Zenon DEF FailPacket
  <2>. QED
    BY <2>1, <2>2, Zenon
<1>5. \A y \in NFTUIDs : nftOwner'[y] = IF y \in pkt.nfts THEN RefundSender(pkt) ELSE nftOwner[y]
  BY <1>3, Zenon
<1>6. NativeTypeOK' /\ DenomKept
  BY <1>1, <1>2, <1>3, Zenon DEF NativeTypeOK, DenomKept
<1>7. FreeMove
  BY <1>2, <1>3, <1>5, AccountsAssumption, AccountFacts, Zenon DEF FreeMove
<1>8. BInv'
  <2>1. packets' \in SUBSET Packets /\ refunding' \in Packets \cup {None}
    BY <1>1, <1>3, <1>4, Zenon
  <2>. QED
    BY <1>3, <1>6, <1>7, <2>1, NativeStep, Zenon
<1>9. UNCHANGED <<cwForward, cwReverse, cwRefund, cwOwner>>
  BY <1>3, Zenon DEF cwVars, cwStoreVars, wasmVars
<1>10. ASSUME NEW q \in packets'
       PROVE  Carried(q)
  <2>1. ASSUME NEW y \in NFTUIDs, Escrows(q, y)
        PROVE  Kept(y)
    <3>1. q \in packets /\ q # pkt /\ nftOwner[y] = Escrow
      BY <1>3, <2>1, Zenon DEF FInv, InEscrow
    <3>2. y \notin pkt.nfts
      BY <1>3, <2>1, <3>1, AccountFacts, Zenon DEF FInv, OnePacketEach, Escrows
    <3>. QED
      BY <1>5, <1>9, <3>2, Zenon DEF Kept
  <2>. QED
    BY <1>3, <1>6, <2>1, StaysCarried, Zenon
<1>11. OnePacketEach'
  BY <1>3, Zenon DEF FInv, OnePacketEach, Escrows, GoesHome
<1>12. ASSUME refunding' # None
       PROVE  SenderRecorded(refunding)' /\ RefundHeld'
  <2>1. refunding' = pkt /\ pkt.kind # "none"
    BY <1>4, <1>12, Zenon
  <2>2. SenderRecorded(refunding)'
    BY <1>9, <2>1, Zenon DEF FInv, SenderRecorded
  <2>3. ASSUME pkt.kind = "cw721", NEW y \in pkt.nfts
        PROVE  /\ nftOwner'[y] = CwModule
               /\ cwReverse[y] # None /\ cwReverse[y][1] \notin CwRogue => cwOwner[cwReverse[y]] = CwModule
    <3>1. y \in NFTUIDs /\ nftOwner'[y] = CwModule
      BY <1>2, <1>5, <2>3, Zenon DEF RefundSender
    <3>2. nftOwner[y] # CwModule
      BY <1>3, <2>3, AccountFacts, Zenon
    <3>3. cwReverse[y] # None => cwReverse[y] \in CwTokenUIDs /\ cwForward[cwReverse[y]] = y /\ y # None
      BY <1>1, <3>1, CwAbsentFacts DEF CwTypeOK, CwHalf, CwInverseIndex
    <3>. QED
      BY <1>1, <3>1, <3>2, <3>3, Zenon DEF CwHalf, CwBacked
  <2>4. RefundHeld'
    BY <1>9, <2>1, <2>3, Zenon DEF RefundHeld
  <2>. QED
    BY <2>2, <2>4, Zenon
<1>13. packets' \in SUBSET Packets
  BY <1>1, <1>3, Zenon
<1>14. FInv'
  BY <1>10, <1>11, <1>12, <1>13, FlightDone, Zenon
<1>. QED
  BY <1>8, <1>14, Zenon

-----------------------------------------------------------------------------
(* The refund loop *)

\* The token x of a turn of x/erc721 that is not skipped is bound to y, and the
\* turn takes its binding away.
LEMMA ErcRefundTurn ==
    ASSUME BInv, NEW y \in NFTUIDs, NEW fails \in BOOLEAN,
           RefundToken(y, fails, IsCwConvertedNFT(y)), UNCHANGED cwVars
    PROVE  /\ AssetsTypeOK' /\ RegistryTypeOK' /\ ErcHalf' /\ CwHalf'
           /\ UNCHANGED denom /\ enabled' = enabled
           /\ \A z \in NFTUIDs : nftOwner'[z] # nftOwner[z] => z = y /\ nftOwner[z] = Module
<1>1. AssetsTypeOK /\ RegistryTypeOK /\ ErcHalf /\ CwHalf
  BY Zenon DEF BInv, TypeOK
<1>2. UNCHANGED cwRegistryVars /\ UNCHANGED cwOwner
  BY Zenon DEF cwRegistryVars, cwVars, cwStoreVars, wasmVars
<1>3. CASE RefundSkipped(y, fails)
  <2>1. UNCHANGED convertVars
    BY <1>3, Zenon DEF RefundToken
  <2>2. UNCHANGED <<denom, nftOwner, code, ercOwner, enabled>> /\ UNCHANGED registryVars
    BY <2>1, Zenon DEF convertVars, registryVars
  <2>3. AssetsTypeOK' /\ RegistryTypeOK'
    BY <1>1, <2>2, Zenon DEF AssetsTypeOK, NativeTypeOK, RegistryTypeOK, registryVars
  <2>4. DenomKept /\ ErcCustodyKept /\ CwCustodyKept
    BY <2>2, Zenon DEF DenomKept, ErcCustodyKept, CwCustodyKept
  <2>5. ErcHalf' /\ CwHalf'
    BY <1>2, <2>2, <2>4, ErcQuiet, CwQuiet, Zenon DEF cwRegistryVars
  <2>. QED
    BY <2>2, <2>3, <2>5, Zenon
<1>4. CASE ~RefundSkipped(y, fails)
  <2>. DEFINE x == reverse[y]
              r == GetEvmRefundReceiver(x, y)
              refused == IsCwConvertedNFT(y)
  <2>1. x \in TokenUIDs /\ forward[x] = y
    BY <1>1, <1>4 DEF RefundSkipped, RegistryTypeOK, ErcHalf, InverseIndex
  <2>2. <<x[1], y[2]>> \in RefundKeys /\ x \in RefundKeys
    BY <2>1, Zenon DEF RefundKeys, TokenUIDs, NFTUIDs
  <2>3. ercOwner[x] = Module => r \in Users
    BY <1>1, <1>4, <2>2, Zenon DEF RefundSkipped, GetEvmRefundReceiver, RegistryTypeOK
  <2>4. /\ ercOwner' = [ercOwner EXCEPT ![x] = IF ercOwner[x] = Module THEN r ELSE ercOwner[x]]
        /\ refund' = [refund EXCEPT ![<<x[1], y[2]>>] = None, ![x] = None]
        /\ reverse' = [reverse EXCEPT ![y] = None]
        /\ forward' = [forward EXCEPT ![x] = None]
        /\ nftOwner' = [nftOwner EXCEPT ![y] = IF nftOwner[y] = Module /\ ~refused THEN None ELSE nftOwner[y]]
        /\ UNCHANGED <<denom, code, tokenPairs, erc721Map, classMap, enabled>>
    BY <1>1, <1>4, <2>1, Zenon DEF RefundToken, RefundUnbind, RefundBurn, AssetsTypeOK, NativeTypeOK
  <2>5. refused <=> cwReverse[y] # None
    BY Zenon DEF IsCwConvertedNFT
  <2>. HIDE DEF x, r, refused
  <2>6. /\ \A t \in TokenUIDs : forward'[t] = IF t = x THEN None ELSE forward[t]
        /\ \A t \in TokenUIDs : t # x => ercOwner'[t] = ercOwner[t]
        /\ \A z \in NFTUIDs : reverse'[z] = IF z = y THEN None ELSE reverse[z]
        /\ \A z \in NFTUIDs : nftOwner'[z] # nftOwner[z] => z = y /\ nftOwner[z] = Module /\ cwReverse[z] = None
    BY <1>1, <2>1, <2>4, <2>5, Zenon DEF RegistryTypeOK, AssetsTypeOK, NativeTypeOK
  <2>7. AssetsTypeOK'
    BY <1>1, <2>1, <2>3, <2>4, Zenon DEF AssetsTypeOK, NativeTypeOK
  <2>8. RegistryTypeOK'
    BY <1>1, <2>1, <2>2, <2>4, Zenon DEF RegistryTypeOK
  <2>9. ErcHalf'
    <3>1. InverseIndex(forward, reverse)'
      <4>. SUFFICES ASSUME NEW t \in TokenUIDs, NEW z \in NFTUIDs
                    PROVE  forward'[t] = z <=> reverse'[z] = t
        BY Zenon DEF InverseIndex
      <4>1. (forward[t] = z <=> reverse[z] = t) /\ (forward[x] = z <=> reverse[z] = x)
        BY <1>1, <2>1, Zenon DEF ErcHalf, InverseIndex
      <4>. QED
        BY <2>1, <2>6, <4>1, AbsentFacts
    <3>2. \A t \in TokenUIDs : forward'[t] # None =>
             t # x /\ forward'[t] = forward[t] /\ forward[t] \in NFTUIDs /\ forward[t] # y
      BY <1>1, <2>1, <2>6 DEF RegistryTypeOK, ErcHalf, InverseIndex
    <3>3. \A p \in tokenPairs' : p[2] \notin VoucherClasses /\ denom'[p[2]] # None
      BY <1>1, <2>4, Zenon DEF ErcHalf
    <3>4. \A t \in TokenUIDs : forward'[t] # None => <<t[1], forward'[t][1]>> \in tokenPairs'
      BY <1>1, <2>4, <3>2 DEF ErcHalf
    <3>5. \A z \in NFTUIDs : reverse'[z] # None => nftOwner'[z] # None
      BY <1>1, <2>6, Zenon DEF ErcHalf
    <3>6. ErcBacked'
      BY <1>1, <2>6, <3>2 DEF ErcHalf, ErcBacked
    <3>. QED
      BY <3>1, <3>3, <3>4, <3>5, <3>6, Zenon DEF ErcHalf
  <2>10. DenomKept /\ CwCustodyKept
    BY <2>4, <2>6, AccountFacts, Zenon DEF DenomKept, CwCustodyKept
  <2>11. CwHalf'
    BY <1>2, <2>10, CwQuiet, Zenon DEF cwRegistryVars
  <2>. QED
    BY <2>4, <2>6, <2>7, <2>8, <2>9, <2>11, Zenon
<1>. QED
  BY <1>3, <1>4, Zenon

\* What a turn of x/cw721 that is not skipped does with the token x it is about.
LEMMA CwTurnFacts ==
    ASSUME BInv, NEW y \in NFTUIDs, NEW fails \in BOOLEAN, NEW refused \in BOOLEAN,
           CwRefundToken(y, fails, refused), ~CwRefundSkipped(y, fails), NEW x, x = cwReverse[y]
    PROVE  /\ x \in CwTokenUIDs /\ cwForward[x] = y
           /\ cwOwner' = [cwOwner EXCEPT ![x] = IF cwOwner[x] = CwModule THEN cwRefund[x] ELSE cwOwner[x]]
           /\ cwOwner[x] = CwModule => cwRefund[x] \in Users
           /\ cwRefund' = [cwRefund EXCEPT ![x] = None]
           /\ cwForward' = [cwForward EXCEPT ![x] = None]
           /\ cwReverse' = [cwReverse EXCEPT ![y] = None]
           /\ nftOwner' = [nftOwner EXCEPT ![y] = IF nftOwner[y] = CwModule /\ ~refused THEN None ELSE nftOwner[y]]
           /\ UNCHANGED <<denom, cwLive, cwTokenPairs, cw721Map, cwClassMap, cwParams>>
<1>1. AssetsTypeOK /\ CwTypeOK /\ CwHalf
  BY Zenon DEF BInv, TypeOK
<1>2. x \in CwTokenUIDs /\ cwForward[x] = y
  BY <1>1 DEF CwRefundSkipped, CwTypeOK, CwHalf, CwInverseIndex
<1>3. cwOwner[x] = CwModule => cwRefund[x] \in Users
  BY <1>1, <1>2, Zenon DEF CwRefundSkipped, ModuleOwnsCW721, CwTypeOK
<1>4. /\ cwOwner' = [cwOwner EXCEPT ![x] = IF cwOwner[x] = CwModule THEN cwRefund[x] ELSE cwOwner[x]]
      /\ cwRefund' = [cwRefund EXCEPT ![x] = None]
      /\ cwForward' = [cwForward EXCEPT ![x] = None]
      /\ cwReverse' = [cwReverse EXCEPT ![y] = None]
  BY <1>1, <1>2, Zenon DEF CwRefundToken, CwRefundUnbind, ModuleOwnsCW721, CwTypeOK
<1>5. nftOwner' = [nftOwner EXCEPT ![y] = IF nftOwner[y] = CwModule /\ ~refused THEN None ELSE nftOwner[y]]
  BY <1>1, Zenon DEF CwRefundToken, CwRefundBurn, AssetsTypeOK, NativeTypeOK
<1>6. UNCHANGED <<denom, cwLive, cwTokenPairs, cw721Map, cwClassMap, cwParams>>
  BY Zenon DEF CwRefundToken, cwPairVars
<1>. QED
  BY <1>2, <1>3, <1>4, <1>5, <1>6, Zenon

\* The two halves after a turn of x/cw721.
LEMMA CwRefundTurn ==
    ASSUME BInv, NEW y \in NFTUIDs, NEW fails \in BOOLEAN,
           CwRefundToken(y, fails, IsConvertedNFT(y)), UNCHANGED ercVars
    PROVE  NativeTypeOK' /\ CwTypeOK' /\ ErcHalf' /\ CwHalf' /\ UNCHANGED denom
<1>1. AssetsTypeOK /\ NativeTypeOK /\ CwTypeOK /\ ErcHalf /\ CwHalf
  BY Zenon DEF BInv, TypeOK, AssetsTypeOK
<1>2. UNCHANGED registryVars /\ UNCHANGED ercOwner
  BY Zenon DEF ercVars, registryVars
<1>3. CASE CwRefundSkipped(y, fails)
  <2>1. UNCHANGED <<denom, nftOwner, cwVars>>
    BY <1>3, Zenon DEF CwRefundToken, nativeVars
  <2>2. UNCHANGED cwRegistryVars /\ UNCHANGED cwOwner
    BY <2>1, Zenon DEF cwRegistryVars, cwVars, cwStoreVars, wasmVars
  <2>3. NativeTypeOK' /\ CwTypeOK'
    BY <1>1, <2>1, CwTypeKept, Zenon DEF NativeTypeOK
  <2>4. DenomKept /\ ErcCustodyKept /\ CwCustodyKept
    BY <2>1, Zenon DEF DenomKept, ErcCustodyKept, CwCustodyKept
  <2>. QED
    BY <1>2, <2>1, <2>2, <2>3, <2>4, ErcQuiet, CwQuiet, Zenon DEF cwRegistryVars
<1>4. CASE ~CwRefundSkipped(y, fails)
  <2>. DEFINE refused == IsConvertedNFT(y)
  <2>1. PICK x : x = cwReverse[y]
    BY Zenon
  <2>2. refused \in BOOLEAN /\ (refused <=> reverse[y] # None)
    BY Zenon DEF IsConvertedNFT
  <2>. HIDE DEF refused
  <2>3. /\ x \in CwTokenUIDs /\ cwForward[x] = y
        /\ cwOwner' = [cwOwner EXCEPT ![x] = IF cwOwner[x] = CwModule THEN cwRefund[x] ELSE cwOwner[x]]
        /\ cwOwner[x] = CwModule => cwRefund[x] \in Users
        /\ cwRefund' = [cwRefund EXCEPT ![x] = None]
        /\ cwForward' = [cwForward EXCEPT ![x] = None]
        /\ cwReverse' = [cwReverse EXCEPT ![y] = None]
        /\ nftOwner' = [nftOwner EXCEPT ![y] = IF nftOwner[y] = CwModule /\ ~refused THEN None ELSE nftOwner[y]]
        /\ UNCHANGED <<denom, cwLive, cwTokenPairs, cw721Map, cwClassMap, cwParams>>
    BY <1>4, <2>1, <2>2, CwTurnFacts DEF refused
  <2>4. NativeTypeOK' /\ CwTypeOK'
    BY <1>1, <2>3, Zenon DEF NativeTypeOK, CwTypeOK
  <2>5. /\ \A t \in CwTokenUIDs : cwForward'[t] = IF t = x THEN None ELSE cwForward[t]
        /\ \A t \in CwTokenUIDs : cwRefund'[t] = IF t = x THEN None ELSE cwRefund[t]
        /\ \A t \in CwTokenUIDs : t # x => cwOwner'[t] = cwOwner[t]
        /\ \A z \in NFTUIDs : cwReverse'[z] = IF z = y THEN None ELSE cwReverse[z]
    BY <1>1, <2>3, Zenon DEF CwTypeOK
  <2>6. \A z \in NFTUIDs : nftOwner'[z] # nftOwner[z] => z = y /\ nftOwner[z] = CwModule /\ reverse[z] = None
    BY <1>1, <2>2, <2>3, Zenon DEF NativeTypeOK
  <2>7. DenomKept /\ ErcCustodyKept
    BY <2>3, <2>6, AccountFacts, Zenon DEF DenomKept, ErcCustodyKept
  <2>8. ErcHalf'
    BY <1>2, <2>7, ErcQuiet, Zenon
  <2>9. CwHalf'
    <3>1. CwInverseIndex(cwForward, cwReverse)'
      <4>. SUFFICES ASSUME NEW t \in CwTokenUIDs, NEW z \in NFTUIDs
                    PROVE  cwForward'[t] = z <=> cwReverse'[z] = t
        BY Zenon DEF CwInverseIndex
      <4>1. (cwForward[t] = z <=> cwReverse[z] = t) /\ (cwForward[x] = z <=> cwReverse[z] = x)
        BY <1>1, <2>3, Zenon DEF CwHalf, CwInverseIndex
      <4>. QED
        BY <2>3, <2>5, <4>1, CwAbsentFacts
    <3>2. \A t \in CwTokenUIDs : cwForward'[t] # None =>
             t # x /\ cwForward'[t] = cwForward[t] /\ cwForward[t] \in NFTUIDs /\ cwForward[t] # y
      <4>. SUFFICES ASSUME NEW t \in CwTokenUIDs, cwForward'[t] # None
                    PROVE  t # x /\ cwForward'[t] = cwForward[t] /\ cwForward[t] \in NFTUIDs /\ cwForward[t] # y
        BY Zenon
      <4>1. t # x /\ cwForward'[t] = cwForward[t] /\ cwForward[t] \in NFTUIDs
        BY <1>1, <2>5, Zenon DEF CwTypeOK
      <4>2. (cwForward[t] = y => cwReverse[y] = t) /\ cwReverse[y] = x
        BY <1>1, <2>1, Zenon DEF CwHalf, CwInverseIndex
      <4>. QED
        BY <4>1, <4>2, Zenon
    <3>3. /\ CwPairMapsAgree'
          /\ \A p \in cwTokenPairs' : p[2] \notin VoucherClasses /\ denom'[p[2]] # None
      BY <1>1, <2>3, Zenon DEF CwHalf, CwPairMapsAgree
    <3>4. \A t \in CwTokenUIDs : cwForward'[t] # None => <<t[1], cwForward'[t][1]>> \in cwTokenPairs'
      BY <1>1, <2>3, <3>2 DEF CwHalf
    <3>5. \A t \in CwTokenUIDs : cwRefund'[t] # None => cw721Map'[t[1]] # None
      BY <1>1, <2>3, <2>5 DEF CwHalf
    <3>6. \A z \in NFTUIDs : cwReverse'[z] # None => nftOwner'[z] # None
      BY <1>1, <2>5, <2>6, Zenon DEF CwHalf
    <3>7. CwBacked'
      BY <1>1, <2>5, <2>6, <3>2 DEF CwHalf, CwBacked
    <3>. QED
      BY <3>1, <3>3, <3>4, <3>5, <3>6, <3>7, Zenon DEF CwHalf
  <2>. QED
    BY <2>3, <2>4, <2>8, <2>9, Zenon
<1>. QED
  BY <1>3, <1>4, Zenon

\* A turn of x/cw721 touches the NFT it is about, its token and nothing else.
LEMMA CwTurnKeepsOthers ==
    ASSUME BInv, NEW y \in NFTUIDs, NEW fails \in BOOLEAN, NEW refused \in BOOLEAN,
           CwRefundToken(y, fails, refused), NEW z \in NFTUIDs, z # y
    PROVE  Kept(z) /\ (cwReverse[z] # None => cwOwner'[cwReverse[z]] = cwOwner[cwReverse[z]])
<1>1. NativeTypeOK /\ CwTypeOK /\ CwHalf
  BY Zenon DEF BInv, TypeOK, AssetsTypeOK
<1>2. CASE CwRefundSkipped(y, fails)
  BY <1>2, Zenon DEF CwRefundToken, nativeVars, cwVars, cwStoreVars, wasmVars, Kept
<1>3. CASE ~CwRefundSkipped(y, fails)
  <2>1. PICK x : x = cwReverse[y]
    BY Zenon
  <2>2. /\ x \in CwTokenUIDs /\ cwForward[x] = y
        /\ cwOwner' = [cwOwner EXCEPT ![x] = IF cwOwner[x] = CwModule THEN cwRefund[x] ELSE cwOwner[x]]
        /\ cwRefund' = [cwRefund EXCEPT ![x] = None]
        /\ cwReverse' = [cwReverse EXCEPT ![y] = None]
        /\ nftOwner' = [nftOwner EXCEPT ![y] = IF nftOwner[y] = CwModule /\ ~refused THEN None ELSE nftOwner[y]]
    BY <1>3, <2>1, CwTurnFacts
  <2>3. nftOwner'[z] = nftOwner[z] /\ cwReverse'[z] = cwReverse[z]
    BY <1>1, <2>2, Zenon DEF NativeTypeOK, CwTypeOK
  <2>4. cwReverse[z] # None => cwReverse[z] \in CwTokenUIDs /\ cwReverse[z] # x
    BY <1>1, <2>2 DEF CwTypeOK, CwHalf, CwInverseIndex
  <2>5. ASSUME cwReverse[z] # None
        PROVE  cwRefund'[cwReverse[z]] = cwRefund[cwReverse[z]] /\ cwOwner'[cwReverse[z]] = cwOwner[cwReverse[z]]
    BY <1>1, <2>2, <2>4, <2>5, Zenon DEF CwTypeOK
  <2>. QED
    BY <2>3, <2>5, Zenon DEF Kept
<1>. QED
  BY <1>2, <1>3, Zenon

\* One turn of the refund loop of either module.
LEMMA RefundSteps ==
    ASSUME BInv, FInv, NEW y \in NFTUIDs, NEW fails \in BOOLEAN, RefundPacketToken(y, fails)
    PROVE  BInv' /\ FInv'
<1>1. NativeTypeOK /\ AssetsTypeOK /\ RegistryTypeOK /\ CwTypeOK /\ enabled \in BOOLEAN
      /\ packets \in SUBSET Packets
  BY Zenon DEF BInv, TypeOK, AssetsTypeOK
<1>2. refunding \in Packets /\ y \in refunding.nfts /\ packets' = packets
  BY Zenon DEF BInv, TypeOK, RefundPacketToken
<1>3. \/ refunding' = None
      \/ /\ refunding' \in Packets /\ refunding'.kind = refunding.kind
         /\ refunding'.origin = refunding.origin /\ refunding'.nfts = refunding.nfts \ {y}
  BY <1>2, Zenon DEF RefundPacketToken, Packets
<1>4. ASSUME DenomKept, \A z \in NFTUIDs : nftOwner[z] = Escrow => Kept(z)
      PROVE  \A q \in packets' : Carried(q)
  <2>. SUFFICES ASSUME NEW q \in packets PROVE Carried(q)
    BY <1>2, Zenon
  <2>1. \A z \in NFTUIDs : Escrows(q, z) => Kept(z)
    BY <1>4, Zenon DEF FInv, InEscrow
  <2>. QED
    BY <1>4, <2>1, StaysCarried, Zenon
<1>5. OnePacketEach'
  BY <1>2, Zenon DEF FInv, OnePacketEach, Escrows, GoesHome
<1>6. ASSUME refunding.kind = "erc721", RefundToken(y, fails, IsCwConvertedNFT(y)), UNCHANGED cwVars
      PROVE  BInv' /\ FInv'
  <2>1. /\ AssetsTypeOK' /\ RegistryTypeOK' /\ ErcHalf' /\ CwHalf'
        /\ UNCHANGED denom /\ enabled' = enabled
        /\ \A z \in NFTUIDs : nftOwner'[z] # nftOwner[z] => z = y /\ nftOwner[z] = Module
    BY <1>6, ErcRefundTurn, Zenon
  <2>2. BInv'
    BY <1>1, <1>2, <1>3, <1>6, <2>1, CwTypeKept, Zenon DEF BInv, TypeOK
  <2>3. DenomKept /\ \A z \in NFTUIDs : nftOwner[z] = Escrow => Kept(z)
    BY <1>6, <2>1, AccountFacts, Zenon DEF DenomKept, Kept, cwVars, cwStoreVars
  <2>4. ASSUME refunding' # None
        PROVE  SenderRecorded(refunding)' /\ RefundHeld'
    BY <1>3, <1>6, <2>4, Zenon DEF SenderRecorded, RefundHeld
  <2>. QED
    BY <1>1, <1>2, <1>4, <1>5, <2>2, <2>3, <2>4, FlightDone, Zenon
<1>7. ASSUME refunding.kind = "cw721", CwRefundToken(y, fails, IsConvertedNFT(y)), UNCHANGED ercVars
      PROVE  BInv' /\ FInv'
  <2>1. NativeTypeOK' /\ CwTypeOK' /\ ErcHalf' /\ CwHalf' /\ UNCHANGED denom
    BY <1>7, CwRefundTurn, Zenon
  <2>2. AssetsTypeOK' /\ RegistryTypeOK' /\ enabled' \in BOOLEAN
    BY <1>1, <1>7, <2>1, Zenon DEF ercVars, AssetsTypeOK, RegistryTypeOK
  <2>3. BInv'
    BY <1>1, <1>2, <1>3, <2>1, <2>2, Zenon DEF BInv, TypeOK
  <2>4. nftOwner[y] = CwModule
    BY <1>2, <1>7, Zenon DEF FInv, RefundHeld, RefundPacketToken
  <2>5. \A z \in NFTUIDs : z # y =>
           Kept(z) /\ (cwReverse[z] # None => cwOwner'[cwReverse[z]] = cwOwner[cwReverse[z]])
    <3>1. IsConvertedNFT(y) \in BOOLEAN
      BY Zenon DEF IsConvertedNFT
    <3>. QED
      BY <1>7, <3>1, CwTurnKeepsOthers, Zenon
  <2>6. DenomKept /\ \A z \in NFTUIDs : nftOwner[z] = Escrow => Kept(z)
    BY <2>1, <2>4, <2>5, AccountFacts, Zenon DEF DenomKept
  <2>7. ASSUME refunding' # None
        PROVE  SenderRecorded(refunding)' /\ RefundHeld'
    <3>1. /\ refunding'.kind = "cw721" /\ refunding'.origin = refunding.origin
          /\ refunding'.nfts = refunding.nfts \ {y} /\ refunding.nfts \subseteq NFTUIDs
      BY <1>2, <1>3, <1>7, <2>7, Zenon DEF Packets
    <3>2. refunding # None
      BY Zenon DEF RefundPacketToken
    <3>3. ASSUME NEW z \in refunding.nfts \ {y}
          PROVE  /\ cwReverse'[z] # None => cwRefund'[cwReverse'[z]] = refunding.origin
                 /\ nftOwner'[z] = CwModule
                 /\ cwReverse'[z] # None /\ cwReverse'[z][1] \notin CwRogue => cwOwner'[cwReverse'[z]] = CwModule
      <4>1. Kept(z) /\ (cwReverse[z] # None => cwOwner'[cwReverse[z]] = cwOwner[cwReverse[z]])
        BY <2>5, <3>1, Zenon
      <4>2. /\ cwReverse[z] # None => cwRefund[cwReverse[z]] = refunding.origin
            /\ nftOwner[z] = CwModule
            /\ cwReverse[z] # None /\ cwReverse[z][1] \notin CwRogue => cwOwner[cwReverse[z]] = CwModule
        BY <1>7, <3>2, Zenon DEF FInv, SenderRecorded, RefundHeld
      <4>. QED
        BY <4>1, <4>2, Zenon DEF Kept
    <3>4. SenderRecorded(refunding)'
      BY <3>1, <3>3, Zenon DEF SenderRecorded
    <3>5. RefundHeld'
      BY <3>1, <3>3, Zenon DEF RefundHeld
    <3>. QED
      BY <3>4, <3>5, Zenon
  <2>. QED
    BY <1>1, <1>2, <1>4, <1>5, <2>3, <2>6, <2>7, FlightDone, Zenon
<1>. QED
  BY <1>6, <1>7, Zenon DEF RefundPacketToken

-----------------------------------------------------------------------------
(* Conversions with x/erc721 *)

\* A batch of a pair p is bound, its NFTs and tokens move, and no others: the
\* x/erc721 half holds when every token the module lets go of leaves its NFT.
LEMMA ErcBound ==
    ASSUME BInv, NEW p \in Pairs, NEW b \in Batches(p[2], p[1]),
           NoBindingConflict(forward, reverse, b),
           forward' = BindForward(forward, b), reverse' = BindReverse(reverse, b),
           DenomKept, p[2] \notin VoucherClasses, denom'[p[2]] # None,
           tokenPairs \subseteq tokenPairs', p \in tokenPairs', tokenPairs' \subseteq tokenPairs \cup {p},
           \A y \in NFTUIDs : y \notin DOMAIN b => nftOwner'[y] = nftOwner[y],
           \A x \in TokenUIDs : x \notin TokensOf(b) => ercOwner'[x] = ercOwner[x],
           \A y \in DOMAIN b : nftOwner'[y] # None /\ (ercOwner'[b[y]] # Module => nftOwner'[y] = Module)
    PROVE  /\ forward' \in [TokenUIDs -> NFTUIDs \cup {None}]
           /\ reverse' \in [NFTUIDs -> TokenUIDs \cup {None}]
           /\ ErcHalf'
<1>1. RegistryTypeOK /\ ErcHalf
  BY Zenon DEF BInv, TypeOK
<1>2. /\ DOMAIN b \subseteq NFTUIDs /\ b \in [DOMAIN b -> TokenUIDs] /\ Injective(b)
      /\ \A y \in DOMAIN b : y[1] = p[2] /\ b[y][1] = p[1]
  BY BatchFacts, Zenon
<1>3. /\ forward' \in [TokenUIDs -> NFTUIDs \cup {None}]
      /\ reverse' \in [NFTUIDs -> TokenUIDs \cup {None}]
      /\ InverseIndex(forward', reverse')
  BY <1>1, <1>2, BindKeepsInverse, Zenon DEF RegistryTypeOK, ErcHalf
<1>4. ASSUME NEW x \in TokenUIDs, forward'[x] # None
      PROVE  \/ forward'[x] \in DOMAIN b /\ b[forward'[x]] = x
             \/ /\ x \notin TokensOf(b) /\ forward'[x] = forward[x]
                /\ forward[x] \in NFTUIDs /\ forward[x] \notin DOMAIN b
  <2>1. CASE x \in TokensOf(b)
    <3>1. forward'[x] = NftFor(b, x)
      BY <2>1, Zenon DEF BindForward
    <3>. QED
      BY <1>2, <2>1, <3>1, NftForFacts
  <2>2. CASE x \notin TokensOf(b)
    <3>1. forward'[x] = forward[x] /\ forward[x] \in NFTUIDs
      BY <1>1, <1>4, <2>2 DEF BindForward, RegistryTypeOK
    <3>2. reverse[forward[x]] = x
      BY <1>1, <3>1, Zenon DEF ErcHalf, InverseIndex
    <3>3. \A y \in DOMAIN b : b[y] # x /\ reverse[y] \in {None, b[y]}
      BY <2>2 DEF NoBindingConflict, TokensOf
    <3>. QED
      BY <2>2, <3>1, <3>2, <3>3, AbsentFacts
  <2>. QED
    BY <2>1, <2>2, Zenon
<1>5. \A q \in tokenPairs' : q[2] \notin VoucherClasses /\ denom'[q[2]] # None
  <2>1. \A q \in tokenPairs : q[2] \in Classes
    BY <1>1, PairFacts, Zenon DEF RegistryTypeOK
  <2>. QED
    BY <1>1, <2>1, Zenon DEF ErcHalf, DenomKept
<1>6. ASSUME NEW x \in TokenUIDs, forward'[x] # None
      PROVE  <<x[1], forward'[x][1]>> \in tokenPairs'
  <2>1. CASE forward'[x] \in DOMAIN b /\ b[forward'[x]] = x
    <3>1. forward'[x][1] = p[2] /\ x[1] = p[1]
      BY <1>2, <2>1
    <3>. QED
      BY <3>1, PairFacts
  <2>2. CASE forward'[x] = forward[x]
    BY <1>1, <1>6, <2>2, Zenon DEF ErcHalf
  <2>. QED
    BY <1>4, <1>6, <2>1, <2>2, Zenon
<1>7. ASSUME NEW y \in NFTUIDs, reverse'[y] # None
      PROVE  nftOwner'[y] # None
  <2>1. CASE y \in DOMAIN b
    BY <2>1, Zenon
  <2>2. CASE y \notin DOMAIN b
    BY <1>1, <1>7, <2>2, Zenon DEF BindReverse, ErcHalf
  <2>. QED
    BY <2>1, <2>2, Zenon
<1>8. ErcBacked'
  <2>. SUFFICES ASSUME NEW x \in TokenUIDs, forward'[x] # None, x[1] \notin Rogue, ercOwner'[x] # Module
                PROVE  nftOwner'[forward'[x]] = Module
    BY Zenon DEF ErcBacked
  <2>1. CASE forward'[x] \in DOMAIN b /\ b[forward'[x]] = x
    BY <2>1, Zenon
  <2>2. CASE x \notin TokensOf(b) /\ forward'[x] = forward[x] /\ forward[x] \in NFTUIDs
             /\ forward[x] \notin DOMAIN b
    <3>1. nftOwner[forward[x]] = Module
      BY <1>1, <2>2, Zenon DEF ErcHalf, ErcBacked
    <3>. QED
      BY <2>2, <3>1, Zenon
  <2>. QED
    BY <1>4, <2>1, <2>2, Zenon
<1>. QED
  BY <1>3, <1>5, <1>6, <1>7, <1>8, Zenon DEF ErcHalf

\* What a conversion may move away from its owner, seen from x/cw721 and from
\* the packets in flight: nothing x/cw721 holds and nothing in escrow.
ErcMove == \A y \in NFTUIDs : nftOwner'[y] # nftOwner[y] =>
    nftOwner[y] \notin {CwModule, Escrow} /\ nftOwner'[y] # None

\* The rest of the invariant after a step of x/erc721 that sends nothing.
LEMMA ErcConverted ==
    ASSUME BInv, ErcHalf', AssetsTypeOK', RegistryTypeOK', enabled' \in BOOLEAN,
           UNCHANGED cwVars, DenomKept, ErcMove
    PROVE  /\ CwHalf' /\ CwTypeOK'
           /\ \A y \in NFTUIDs : nftOwner[y] = Escrow => Kept(y)
<1>1. UNCHANGED cwRegistryVars /\ UNCHANGED cwOwner
  BY Zenon DEF cwRegistryVars, cwVars, cwStoreVars, wasmVars
<1>2. CwCustodyKept
  BY Zenon DEF ErcMove, CwCustodyKept
<1>3. CwHalf'
  BY <1>1, <1>2, CwQuiet, Zenon DEF cwRegistryVars
<1>4. CwTypeOK'
  BY CwTypeKept, Zenon DEF BInv, TypeOK
<1>5. \A y \in NFTUIDs : nftOwner[y] = Escrow => Kept(y)
  BY <1>1, Zenon DEF ErcMove, Kept, cwRegistryVars
<1>. QED
  BY <1>3, <1>4, <1>5, Zenon

\* convertCosmos2Evm, for a pair that is there or is registered on the way.
LEMMA Cosmos2EvmStep ==
    ASSUME BInv, FInv, Idle, NEW u \in Users, NEW p \in Pairs, NEW r \in Receivers,
           NEW b \in Batches(p[2], p[1]), ConvertCosmos2Evm(u, b, r, forward, reverse),
           p[2] \notin VoucherClasses, denom[p[2]] # None,
           tokenPairs' = tokenPairs \cup {p},
           erc721Map' \in [Contracts -> Pairs \cup {None}], classMap' \in [Classes -> Pairs \cup {None}],
           code' \in [Contracts -> {"absent", "live", "gone"}],
           UNCHANGED <<denom, refund, enabled>>, UNCHANGED <<cwVars, ibcVars>>
    PROVE  BInv' /\ FInv'
<1>1. AssetsTypeOK /\ NativeTypeOK /\ RegistryTypeOK /\ enabled \in BOOLEAN
      /\ packets \in SUBSET Packets /\ refunding \in Packets \cup {None}
  BY Zenon DEF BInv, TypeOK, AssetsTypeOK
<1>2. DOMAIN b \subseteq NFTUIDs /\ b \in [DOMAIN b -> TokenUIDs]
  BY BatchFacts, Zenon
<1>3. /\ \A y \in DOMAIN b : nftOwner[y] = u
      /\ NoBindingConflict(forward, reverse, b)
      /\ nftOwner' = [y \in NFTUIDs |-> IF y \in DOMAIN b THEN Module ELSE nftOwner[y]]
      /\ ercOwner' = [x \in TokenUIDs |-> IF x \in TokensOf(b) THEN r ELSE ercOwner[x]]
      /\ forward' = BindForward(forward, b) /\ reverse' = BindReverse(reverse, b)
  BY Zenon DEF ConvertCosmos2Evm
<1>4. AssetsTypeOK'
  BY <1>1, <1>3, Zenon DEF AssetsTypeOK, NativeTypeOK, Holders, Receivers
<1>5. DenomKept
  BY Zenon DEF DenomKept
<1>6. /\ forward' \in [TokenUIDs -> NFTUIDs \cup {None}] /\ reverse' \in [NFTUIDs -> TokenUIDs \cup {None}]
      /\ ErcHalf'
  <2>1. \A y \in NFTUIDs : y \notin DOMAIN b => nftOwner'[y] = nftOwner[y]
    BY <1>3, Zenon
  <2>2. \A x \in TokenUIDs : x \notin TokensOf(b) => ercOwner'[x] = ercOwner[x]
    BY <1>3, Zenon
  <2>3. \A y \in DOMAIN b : nftOwner'[y] # None /\ (ercOwner'[b[y]] # Module => nftOwner'[y] = Module)
    BY <1>2, <1>3, AccountFacts, Zenon
  <2>. QED
    BY <1>3, <1>5, <2>1, <2>2, <2>3, ErcBound, Zenon
<1>7. RegistryTypeOK'
  BY <1>1, <1>6, Zenon DEF RegistryTypeOK
<1>8. ErcMove
  BY <1>3, AccountFacts, Zenon DEF ErcMove
<1>9. CwHalf' /\ CwTypeOK' /\ \A y \in NFTUIDs : nftOwner[y] = Escrow => Kept(y)
  BY <1>1, <1>4, <1>5, <1>6, <1>7, <1>8, ErcConverted, Zenon
<1>10. BInv'
  BY <1>1, <1>4, <1>6, <1>7, <1>9, Zenon DEF BInv, TypeOK, ibcVars
<1>11. FInv'
  <2>1. \A q \in packets', y \in NFTUIDs : Escrows(q, y) => Kept(y)
    BY <1>9, Zenon DEF FInv, InEscrow, ibcVars
  <2>2. packets' \subseteq packets /\ refunding' = None
    BY Zenon DEF ibcVars, Idle
  <2>. QED
    BY <1>5, <2>1, <2>2, FlightQuiet, Zenon
<1>. QED
  BY <1>10, <1>11, Zenon

\* MsgConvertNFT, with the pair the class has or with a contract of its own.
LEMMA ConvertNFTSteps ==
    ASSUME BInv, FInv, Idle, NEW u \in Users, NEW p \in Pairs, NEW r \in Receivers,
           \/ \E named \in {None} \cup Contracts : ConvertNFT(u, p, named, r)
           \/ ConvertNFTDeploy(u, p, r),
           UNCHANGED <<cwVars, ibcVars>>
    PROVE  BInv' /\ FInv'
<1>1. AssetsTypeOK /\ RegistryTypeOK /\ ErcHalf
  BY Zenon DEF BInv, TypeOK
<1>2. p = <<p[1], p[2]>> /\ p[1] \in Contracts /\ p[2] \in Classes
  BY PairFacts, Zenon
<1>3. ASSUME NEW named, ConvertNFT(u, p, named, r)
      PROVE  BInv' /\ FInv'
  <2>1. /\ GetPairByClass(p[2]) = p
        /\ UNCHANGED <<denom, code, tokenPairs, erc721Map, classMap, refund, enabled>>
    BY <1>3, Zenon DEF ConvertNFT
  <2>2. PICK b \in Batches(p[2], p[1]) : ConvertCosmos2Evm(u, b, r, forward, reverse)
    BY <1>3, Zenon DEF ConvertNFT
  <2>3. p \in tokenPairs
    BY <2>1, AbsentFacts, Zenon DEF GetPairByClass
  <2>4. p[2] \notin VoucherClasses /\ denom[p[2]] # None /\ tokenPairs' = tokenPairs \cup {p}
    BY <1>1, <2>1, <2>3, Zenon DEF ErcHalf
  <2>5. /\ erc721Map' \in [Contracts -> Pairs \cup {None}] /\ classMap' \in [Classes -> Pairs \cup {None}]
        /\ code' \in [Contracts -> {"absent", "live", "gone"}]
    BY <1>1, <2>1, Zenon DEF RegistryTypeOK, AssetsTypeOK
  <2>. QED
    BY <2>1, <2>2, <2>4, <2>5, Cosmos2EvmStep, Zenon
<1>4. ASSUME ConvertNFTDeploy(u, p, r)
      PROVE  BInv' /\ FInv'
  <2>1. /\ DeployERC721Contract(p[1], p[2]) /\ RegisterNFT(p[1], p[2])
        /\ UNCHANGED <<denom, refund, enabled>>
    BY <1>4, Zenon DEF ConvertNFTDeploy
  <2>2. PICK b \in Batches(p[2], p[1]) : ConvertCosmos2Evm(u, b, r, forward, reverse)
    BY <1>4, Zenon DEF ConvertNFTDeploy
  <2>3. p[2] \notin VoucherClasses /\ denom[p[2]] # None /\ tokenPairs' = tokenPairs \cup {p}
    BY <1>2, <2>1, Zenon DEF DeployERC721Contract, RegisterNFT, SetPair, IsIBCDenom
  <2>4. erc721Map' \in [Contracts -> Pairs \cup {None}] /\ classMap' \in [Classes -> Pairs \cup {None}]
    BY <1>1, <1>2, <2>1, Zenon DEF RegistryTypeOK, RegisterNFT, SetPair
  <2>5. code' \in [Contracts -> {"absent", "live", "gone"}]
    BY <1>1, <1>2, <2>1, Zenon DEF AssetsTypeOK, DeployERC721Contract
  <2>. QED
    BY <2>1, <2>2, <2>3, <2>4, <2>5, Cosmos2EvmStep, Zenon
<1>. QED
  BY <1>3, <1>4, Zenon

\* A contract without a pair is registered with the class derived from it.
LEMMA EnsurePairFacts ==
    ASSUME BInv, NEW p \in Pairs, NEW restricted \in BOOLEAN, EnsurePairByEVM(p, restricted)
    PROVE  /\ denom' \in [Classes -> Denoms \cup {None}] /\ DenomKept
           /\ p[2] \notin VoucherClasses /\ denom'[p[2]] # None
           /\ tokenPairs' = tokenPairs \cup {p}
           /\ erc721Map' \in [Contracts -> Pairs \cup {None}] /\ classMap' \in [Classes -> Pairs \cup {None}]
<1>1. NativeTypeOK /\ RegistryTypeOK /\ ErcHalf
  BY Zenon DEF BInv, TypeOK, AssetsTypeOK
<1>2. p = <<p[1], p[2]>> /\ p[1] \in Contracts /\ p[2] \in Classes
  BY PairFacts, Zenon
<1>3. CASE RegisterERC721(p[1], p[2], restricted)
  <2>. DEFINE d == [creator |-> Module, mintRestricted |-> restricted]
  <2>1. d \in Denoms /\ d # None
    BY NativeAssumption DEF Denoms, Holders
  <2>2. /\ denom' = [denom EXCEPT ![p[2]] = d] /\ SetPair(p) /\ p[2] = DerivedClass[p[1]]
    BY <1>2, <1>3, Zenon DEF RegisterERC721
  <2>. HIDE DEF d
  <2>3. denom' \in [Classes -> Denoms \cup {None}] /\ DenomKept /\ denom'[p[2]] # None
    BY <1>1, <1>2, <2>1, <2>2, Zenon DEF NativeTypeOK, DenomKept
  <2>4. p[2] \notin VoucherClasses
    BY <1>2, <2>2, ContractsAssumption, NativeAssumption, Zenon
  <2>5. /\ tokenPairs' = tokenPairs \cup {p}
        /\ erc721Map' \in [Contracts -> Pairs \cup {None}] /\ classMap' \in [Classes -> Pairs \cup {None}]
    BY <1>1, <2>2, Zenon DEF SetPair, RegistryTypeOK
  <2>. QED
    BY <2>3, <2>4, <2>5, Zenon
<1>4. CASE GetPairByEVM(p[1]) = p /\ UNCHANGED <<denom, tokenPairs, erc721Map, classMap>>
  <2>1. p \in tokenPairs
    BY <1>4, AbsentFacts, Zenon DEF GetPairByEVM
  <2>2. p[2] \notin VoucherClasses /\ denom[p[2]] # None
    BY <1>1, <2>1, Zenon DEF ErcHalf
  <2>. QED
    BY <1>1, <1>4, <2>1, <2>2, Zenon DEF NativeTypeOK, RegistryTypeOK, DenomKept
<1>. QED
  BY <1>3, <1>4, Zenon DEF EnsurePairByEVM

\* convertEvm2Cosmos: the module takes the tokens, dest gets the NFTs.
LEMMA Evm2CosmosStep ==
    ASSUME BInv, NEW u \in Users, NEW p \in Pairs, NEW restricted \in BOOLEAN,
           NEW b \in Batches(p[2], p[1]), NEW dest \in Holders,
           EnsurePairByEVM(p, restricted), Evm2CosmosAllowed(u, p, b, denom'[p[2]]),
           Evm2CosmosMoves(p, b, dest), Evm2CosmosBindings(b),
           refund' \in [RefundKeys -> Users \cup {None}],
           UNCHANGED <<code, enabled>>, UNCHANGED cwVars,
           packets' \in SUBSET Packets, refunding' \in Packets \cup {None}
    PROVE  /\ BInv' /\ DenomKept
           /\ \A y \in NFTUIDs : nftOwner[y] = Escrow => Kept(y)
           /\ \A y \in DOMAIN b : /\ nftOwner[y] # Escrow /\ nftOwner'[y] = dest
                                  /\ y[1] \notin VoucherClasses /\ denom'[y[1]] # None
<1>1. AssetsTypeOK /\ NativeTypeOK /\ RegistryTypeOK /\ enabled \in BOOLEAN
  BY Zenon DEF BInv, TypeOK, AssetsTypeOK
<1>2. /\ DOMAIN b \subseteq NFTUIDs /\ b \in [DOMAIN b -> TokenUIDs]
      /\ \A y \in DOMAIN b : y[1] = p[2]
  BY BatchFacts, Zenon
<1>3. /\ denom' \in [Classes -> Denoms \cup {None}] /\ DenomKept
      /\ p[2] \notin VoucherClasses /\ denom'[p[2]] # None
      /\ tokenPairs' = tokenPairs \cup {p}
      /\ erc721Map' \in [Contracts -> Pairs \cup {None}] /\ classMap' \in [Classes -> Pairs \cup {None}]
  BY EnsurePairFacts, Zenon
<1>4. /\ nftOwner' = [y \in NFTUIDs |-> IF y \in DOMAIN b THEN dest ELSE nftOwner[y]]
      /\ ercOwner' = [x \in TokenUIDs |-> IF x \notin TokensOf(b) THEN ercOwner[x] ELSE Module]
      /\ NoBindingConflict(forward, reverse, b)
      /\ forward' = BindForward(forward, b) /\ reverse' = BindReverse(reverse, b)
  BY <1>3, Zenon DEF Evm2CosmosMoves, Evm2CosmosAllowed, Evm2CosmosBindings, IsIBCDenom
<1>5. \A y \in DOMAIN b : nftOwner[y] \in {None, Module}
  BY Zenon DEF Evm2CosmosAllowed
<1>6. AssetsTypeOK'
  BY <1>1, <1>3, <1>4, Zenon DEF AssetsTypeOK, NativeTypeOK
<1>7. dest # None
  BY AccountsAssumption, Zenon
<1>8. /\ forward' \in [TokenUIDs -> NFTUIDs \cup {None}] /\ reverse' \in [NFTUIDs -> TokenUIDs \cup {None}]
      /\ ErcHalf'
  <2>1. \A y \in NFTUIDs : y \notin DOMAIN b => nftOwner'[y] = nftOwner[y]
    BY <1>4, Zenon
  <2>2. \A x \in TokenUIDs : x \notin TokensOf(b) => ercOwner'[x] = ercOwner[x]
    BY <1>4, Zenon
  <2>3. ASSUME NEW y \in DOMAIN b
        PROVE  nftOwner'[y] # None /\ (ercOwner'[b[y]] # Module => nftOwner'[y] = Module)
    <3>1. b[y] \in TokenUIDs /\ b[y] \in TokensOf(b) /\ y \in NFTUIDs
      BY <1>2, Zenon DEF TokensOf
    <3>. QED
      BY <1>4, <1>7, <3>1, Zenon
  <2>. QED
    BY <1>3, <1>4, <2>1, <2>2, <2>3, ErcBound, Zenon
<1>9. RegistryTypeOK'
  BY <1>1, <1>3, <1>8, Zenon DEF RegistryTypeOK
<1>10. ErcMove
  BY <1>4, <1>5, <1>7, AccountFacts, Zenon DEF ErcMove
<1>11. CwHalf' /\ CwTypeOK' /\ \A y \in NFTUIDs : nftOwner[y] = Escrow => Kept(y)
  BY <1>1, <1>3, <1>6, <1>8, <1>9, <1>10, ErcConverted, Zenon
<1>12. BInv'
  BY <1>1, <1>6, <1>8, <1>9, <1>11, Zenon DEF BInv, TypeOK
<1>13. ASSUME NEW y \in DOMAIN b
       PROVE  /\ nftOwner[y] # Escrow /\ nftOwner'[y] = dest
              /\ y[1] \notin VoucherClasses /\ denom'[y[1]] # None
  BY <1>2, <1>3, <1>4, <1>5, AccountFacts, Zenon
<1>. QED
  BY <1>3, <1>11, <1>12, <1>13, Zenon

\* MsgConvertERC721.
LEMMA ConvertERC721Step ==
    ASSUME BInv, FInv, Idle, NEW u \in Users, NEW p \in Pairs, NEW restricted \in BOOLEAN,
           NEW r \in Receivers, ConvertERC721(u, p, restricted, r), UNCHANGED <<cwVars, ibcVars>>
    PROVE  BInv' /\ FInv'
<1>1. EnsurePairByEVM(p, restricted) /\ UNCHANGED <<code, enabled>>
  BY Zenon DEF ConvertERC721
<1>2. ~IsIBCDenom(p[2])
  BY <1>1, EnsurePairFacts, Zenon DEF IsIBCDenom
<1>3. PICK b \in Batches(p[2], p[1]) :
         /\ Evm2CosmosAllowed(u, p, b, denom'[p[2]]) /\ Evm2CosmosMoves(p, b, r)
         /\ Evm2CosmosBindings(b) /\ UNCHANGED refund
  BY <1>2, Zenon DEF ConvertERC721
<1>4. /\ refund' \in [RefundKeys -> Users \cup {None}] /\ r \in Holders
      /\ packets' \in SUBSET Packets /\ refunding' \in Packets \cup {None}
  BY <1>3, Zenon DEF BInv, TypeOK, RegistryTypeOK, ibcVars, Receivers, Holders
<1>5. BInv' /\ DenomKept /\ \A y \in NFTUIDs : nftOwner[y] = Escrow => Kept(y)
  BY <1>1, <1>3, <1>4, Evm2CosmosStep, Zenon
<1>6. \A q \in packets', y \in NFTUIDs : Escrows(q, y) => Kept(y)
  BY <1>5, Zenon DEF FInv, InEscrow, ibcVars
<1>7. packets' \subseteq packets /\ refunding' = None
  BY Zenon DEF ibcVars, Idle
<1>. QED
  BY <1>5, <1>6, <1>7, FlightQuiet, Zenon

\* MsgTransferERC721: no pair has a voucher class, so the NFTs go into escrow.
LEMMA SendERC721Step ==
    ASSUME BInv, FInv, Idle, NEW u \in Users, NEW p \in Pairs, NEW restricted \in BOOLEAN,
           NEW ch \in Channels, SendERC721(u, p, restricted, ch)
    PROVE  BInv' /\ FInv'
<1>1. EnsurePairByEVM(p, restricted) /\ UNCHANGED cwVars /\ refunding' = None
  BY Zenon DEF SendERC721, Idle
<1>2. ~IsIBCDenom(p[2])
  BY <1>1, EnsurePairFacts, Zenon DEF IsIBCDenom
<1>3. PICK b \in Batches(p[2], p[1]) :
         /\ TransferERC721(u, p, b, IF GoesHome(p[2], ch) THEN None ELSE Escrow)
         /\ packets' = packets \cup {[nfts |-> DOMAIN b, kind |-> "erc721", origin |-> u, channel |-> ch]}
  BY Zenon DEF SendERC721
<1>. DEFINE pkt == [nfts |-> DOMAIN b, kind |-> "erc721", origin |-> u, channel |-> ch]
<1>4. TransferERC721(u, p, b, Escrow)
  BY <1>2, <1>3, Zenon DEF GoesHome
<1>5. /\ Evm2CosmosAllowed(u, p, b, denom'[p[2]]) /\ Evm2CosmosMoves(p, b, Escrow)
      /\ Evm2CosmosBindings(b) /\ SetEvmRefundReceiver(b, u) /\ UNCHANGED <<code, enabled>>
  BY <1>2, <1>4, Zenon DEF TransferERC721
<1>6. refund' \in [RefundKeys -> Users \cup {None}]
  BY <1>5, Zenon DEF SetEvmRefundReceiver, BInv, TypeOK, RegistryTypeOK
<1>7. DOMAIN b \subseteq NFTUIDs
  BY BatchFacts, Zenon
<1>8. pkt \in Packets
  BY <1>7, Zenon DEF Packets, Kinds
<1>9. pkt.nfts = DOMAIN b /\ pkt.kind = "erc721" /\ packets' = packets \cup {pkt}
  BY <1>3, Zenon
<1>. HIDE DEF pkt
<1>10. packets' \in SUBSET Packets /\ refunding' \in Packets \cup {None} /\ Escrow \in Holders
  BY <1>1, <1>8, <1>9, Zenon DEF BInv, TypeOK, Holders
<1>11. /\ BInv' /\ DenomKept
       /\ \A y \in NFTUIDs : nftOwner[y] = Escrow => Kept(y)
       /\ \A y \in DOMAIN b : /\ nftOwner[y] # Escrow /\ nftOwner'[y] = Escrow
                              /\ y[1] \notin VoucherClasses /\ denom'[y[1]] # None
  BY <1>1, <1>5, <1>6, <1>10, Evm2CosmosStep
<1>12. Carried(pkt)
  BY <1>9, <1>11, Zenon DEF Carried, Escrows
<1>. QED
  BY <1>1, <1>8, <1>9, <1>11, <1>12, FlightSend, Zenon

-----------------------------------------------------------------------------
(* Conversions with x/cw721 *)

\* The pair p is registered: it was, or RegisterNFT or RegisterCW721 has just
\* written it and its two lookup keys.
CwRegistered(p) ==
    /\ cwTokenPairs' = cwTokenPairs \cup {p}
    /\ cw721Map' \in [CwContracts -> CwPairs \cup {None}]
    /\ cwClassMap' \in [Classes -> CwPairs \cup {None}]
    /\ CwPairMapsAgree'
    /\ \A c \in CwContracts : cw721Map[c] # None => cw721Map'[c] # None
    /\ p[2] \notin VoucherClasses
    /\ denom'[p[2]] # None

\* A pair that is there already.
LEMMA CwPairStays ==
    ASSUME BInv, NEW p \in cwTokenPairs, UNCHANGED <<denom, cwTokenPairs, cw721Map, cwClassMap>>
    PROVE  CwRegistered(p)
<1>1. CwTypeOK /\ CwHalf
  BY Zenon DEF BInv, TypeOK
<1>2. CwPairMapsAgree'
  BY <1>1, Zenon DEF CwHalf, CwPairMapsAgree
<1>. QED
  BY <1>1, <1>2 DEF CwRegistered, CwTypeOK, CwHalf

\* A new pair, of a class and a contract that have none.
LEMMA CwPairIsAdded ==
    ASSUME BInv, NEW p \in CwPairs, ~CwIsRegistered(p), CwSetPair(p),
           p[2] \notin VoucherClasses, denom'[p[2]] # None
    PROVE  CwRegistered(p)
<1>1. CwTypeOK /\ CwPairMapsAgree
  BY Zenon DEF BInv, TypeOK, CwHalf
<1>2. p[1] \in CwContracts /\ p[2] \in Classes /\ p # None
  BY CwPairFacts, CwAbsentFacts, Zenon
<1>3. /\ cwTokenPairs' = cwTokenPairs \cup {p}
      /\ \A c \in CwContracts : cw721Map'[c] = IF c = p[1] THEN p ELSE cw721Map[c]
      /\ \A cl \in Classes : cwClassMap'[cl] = IF cl = p[2] THEN p ELSE cwClassMap[cl]
      /\ cw721Map' \in [CwContracts -> CwPairs \cup {None}]
      /\ cwClassMap' \in [Classes -> CwPairs \cup {None}]
  BY <1>1, <1>2, Zenon DEF CwSetPair, CwTypeOK
<1>4. ASSUME NEW q \in cwTokenPairs
      PROVE  q[1] \in CwContracts /\ q[2] \in Classes /\ q[1] # p[1] /\ q[2] # p[2]
  <2>1. q \in CwPairs /\ q # None
    BY <1>1, CwAbsentFacts, Zenon DEF CwTypeOK
  <2>2. q[1] \in CwContracts /\ q[2] \in Classes
    BY <2>1, CwPairFacts, Zenon
  <2>3. cw721Map[q[1]] = q /\ cwClassMap[q[2]] = q
    BY <1>1, Zenon DEF CwPairMapsAgree
  <2>. QED
    BY <2>1, <2>2, <2>3, Zenon DEF CwIsRegistered
<1>5. CwPairMapsAgree'
  <2>1. ASSUME NEW q \in cwTokenPairs'
        PROVE  cw721Map'[q[1]] = q /\ cwClassMap'[q[2]] = q
    <3>1. CASE q = p
      BY <1>2, <1>3, <3>1, Zenon
    <3>2. CASE q \in cwTokenPairs
      BY <1>1, <1>3, <1>4, <3>2, Zenon DEF CwPairMapsAgree
    <3>. QED
      BY <1>3, <3>1, <3>2, Zenon
  <2>2. ASSUME NEW c \in CwContracts, cw721Map'[c] # None
        PROVE  cw721Map'[c] \in cwTokenPairs' /\ cw721Map'[c][1] = c
    BY <1>1, <1>3, <2>2 DEF CwPairMapsAgree
  <2>3. ASSUME NEW cl \in Classes, cwClassMap'[cl] # None
        PROVE  cwClassMap'[cl] \in cwTokenPairs' /\ cwClassMap'[cl][2] = cl
    BY <1>1, <1>3, <2>3 DEF CwPairMapsAgree
  <2>. QED
    BY <2>1, <2>2, <2>3, Zenon DEF CwPairMapsAgree
<1>6. \A c \in CwContracts : cw721Map[c] # None => cw721Map'[c] # None
  BY <1>2, <1>3, Zenon
<1>. QED
  BY <1>3, <1>5, <1>6, Zenon DEF CwRegistered

\* The counterpart of ErcBound; only the tokens of the batch get a receiver.
LEMMA CwBound ==
    ASSUME BInv, NEW p \in CwPairs, NEW b \in Batches(p[2], p[1]), CwSetNFTPairs(b),
           DenomKept, CwRegistered(p),
           \A x \in CwTokenUIDs : x \notin TokensOf(b) => cwRefund'[x] = cwRefund[x],
           \A y \in NFTUIDs : y \notin DOMAIN b => nftOwner'[y] = nftOwner[y],
           \A x \in CwTokenUIDs : x \notin TokensOf(b) => cwOwner'[x] = cwOwner[x],
           \A y \in DOMAIN b : nftOwner'[y] # None /\ (cwOwner'[b[y]] # CwModule => nftOwner'[y] = CwModule)
    PROVE  /\ cwForward' \in [CwTokenUIDs -> NFTUIDs \cup {None}]
           /\ cwReverse' \in [NFTUIDs -> CwTokenUIDs \cup {None}]
           /\ CwHalf'
<1>1. CwTypeOK /\ CwHalf
  BY Zenon DEF BInv, TypeOK
<1>2. /\ DOMAIN b \subseteq NFTUIDs /\ b \in [DOMAIN b -> CwTokenUIDs] /\ Injective(b)
      /\ \A y \in DOMAIN b : y[1] = p[2] /\ b[y][1] = p[1]
  BY CwBatchFacts, Zenon
<1>3. CwBatch(b) /\ p[1] \in CwContracts /\ p = <<p[1], p[2]>> /\ p # None
  BY <1>2, CwPairFacts, CwAbsentFacts, Zenon DEF CwBatch
<1>4. /\ cwForward \in [CwTokenUIDs -> NFTUIDs \cup {None}]
      /\ cwReverse \in [NFTUIDs -> CwTokenUIDs \cup {None}]
      /\ CwInverseIndex(cwForward, cwReverse)
  BY <1>1, Zenon DEF CwTypeOK, CwHalf
<1>5. CwInverseIndex(cwForward', cwReverse')
  BY <1>3, <1>4, CwSetKeepsInverse, Zenon
<1>6. /\ cwForward' \in [CwTokenUIDs -> NFTUIDs \cup {None}]
      /\ cwReverse' \in [NFTUIDs -> CwTokenUIDs \cup {None}]
      /\ \A y \in DOMAIN b : cwReverse[y] \in {None, b[y]}
      /\ \A x \in CwTokenUIDs : x \in TokensOf(b) => cwForward'[x] \in DOMAIN b /\ b[cwForward'[x]] = x
      /\ \A x \in CwTokenUIDs : x \notin TokensOf(b) => cwForward'[x] = cwForward[x]
      /\ \A y \in NFTUIDs : y \notin DOMAIN b => cwReverse'[y] = cwReverse[y]
  BY <1>3, <1>4, CwSetFacts, Zenon
<1>7. ASSUME NEW x \in CwTokenUIDs, cwForward'[x] # None
      PROVE  \/ cwForward'[x] \in DOMAIN b /\ b[cwForward'[x]] = x
             \/ /\ x \notin TokensOf(b) /\ cwForward'[x] = cwForward[x]
                /\ cwForward[x] \in NFTUIDs /\ cwForward[x] \notin DOMAIN b
  <2>1. CASE x \in TokensOf(b)
    BY <1>6, <2>1, Zenon
  <2>2. CASE x \notin TokensOf(b)
    <3>1. cwForward'[x] = cwForward[x] /\ cwForward[x] \in NFTUIDs
      BY <1>4, <1>6, <1>7, <2>2
    <3>2. cwReverse[cwForward[x]] = x /\ x # None
      BY <1>4, <3>1, CwAbsentFacts, Zenon DEF CwInverseIndex
    <3>3. \A y \in DOMAIN b : b[y] # x
      BY <2>2, Zenon DEF TokensOf
    <3>. QED
      BY <1>6, <2>2, <3>1, <3>2, <3>3, Zenon
  <2>. QED
    BY <2>1, <2>2, Zenon
<1>8. \A q \in cwTokenPairs' : q[2] \notin VoucherClasses /\ denom'[q[2]] # None
  <2>1. \A q \in cwTokenPairs : q[2] \in Classes
    BY <1>1, CwPairFacts, Zenon DEF CwTypeOK
  <2>. QED
    BY <1>1, <2>1, Zenon DEF CwHalf, DenomKept, CwRegistered
<1>9. ASSUME NEW x \in CwTokenUIDs, cwForward'[x] # None
      PROVE  <<x[1], cwForward'[x][1]>> \in cwTokenPairs'
  <2>1. CASE cwForward'[x] \in DOMAIN b /\ b[cwForward'[x]] = x
    <3>1. cwForward'[x][1] = p[2] /\ x[1] = p[1]
      BY <1>2, <2>1
    <3>. QED
      BY <1>3, <3>1, Zenon DEF CwRegistered
  <2>2. CASE cwForward'[x] = cwForward[x]
    BY <1>1, <1>9, <2>2, Zenon DEF CwHalf, CwRegistered
  <2>. QED
    BY <1>7, <1>9, <2>1, <2>2, Zenon
<1>10. ASSUME NEW x \in CwTokenUIDs, cwRefund'[x] # None
       PROVE  cw721Map'[x[1]] # None
  <2>1. x[1] \in CwContracts
    BY Zenon DEF CwTokenUIDs
  <2>2. CASE x \in TokensOf(b)
    <3>1. x[1] = p[1]
      BY <1>2, <2>2 DEF TokensOf
    <3>2. cw721Map'[p[1]] = p
      BY Zenon DEF CwRegistered, CwPairMapsAgree
    <3>. QED
      BY <1>3, <3>1, <3>2, Zenon
  <2>3. CASE x \notin TokensOf(b)
    BY <1>1, <1>10, <2>1, <2>3, Zenon DEF CwHalf, CwRegistered
  <2>. QED
    BY <2>2, <2>3, Zenon
<1>11. ASSUME NEW y \in NFTUIDs, cwReverse'[y] # None
       PROVE  nftOwner'[y] # None
  BY <1>1, <1>6, <1>11, Zenon DEF CwHalf
<1>12. CwBacked'
  <2>. SUFFICES ASSUME NEW x \in CwTokenUIDs, cwForward'[x] # None, x[1] \notin CwRogue,
                       cwOwner'[x] # CwModule
                PROVE  nftOwner'[cwForward'[x]] = CwModule
    BY Zenon DEF CwBacked
  <2>1. CASE cwForward'[x] \in DOMAIN b /\ b[cwForward'[x]] = x
    BY <2>1, Zenon
  <2>2. CASE x \notin TokensOf(b) /\ cwForward'[x] = cwForward[x] /\ cwForward[x] \in NFTUIDs
             /\ cwForward[x] \notin DOMAIN b
    <3>1. nftOwner[cwForward[x]] = CwModule
      BY <1>1, <2>2, Zenon DEF CwHalf, CwBacked
    <3>. QED
      BY <2>2, <3>1, Zenon
  <2>. QED
    BY <1>7, <2>1, <2>2, Zenon
<1>13. CwPairMapsAgree'
  BY Zenon DEF CwRegistered
<1>. QED
  BY <1>5, <1>6, <1>8, <1>9, <1>10, <1>11, <1>12, <1>13, Zenon DEF CwHalf

\* A conversion of x/cw721 in either direction: the NFTs of the batch go to dest,
\* its tokens to rec, and one of the two is the module.
LEMMA CwConverted ==
    ASSUME BInv, NEW p \in CwPairs, NEW b \in Batches(p[2], p[1]), CwSetNFTPairs(b),
           DenomKept, CwRegistered(p), NEW dest \in Holders, NEW rec \in CwReceivers,
           dest = CwModule \/ rec = CwModule,
           \A y \in DOMAIN b : nftOwner[y] \notin {Module, Escrow},
           nftOwner' = [y \in NFTUIDs |-> IF y \in DOMAIN b THEN dest ELSE nftOwner[y]],
           cwOwner' = [x \in CwTokenUIDs |-> IF x \in TokensOf(b) THEN rec ELSE cwOwner[x]],
           cwRefund' \in [CwTokenUIDs -> Users \cup {None}],
           \A x \in CwTokenUIDs : x \notin TokensOf(b) => cwRefund'[x] = cwRefund[x],
           denom' \in [Classes -> Denoms \cup {None}], cwLive' \in SUBSET CwContracts,
           UNCHANGED cwParams, UNCHANGED ercVars,
           packets' \in SUBSET Packets, refunding' \in Packets \cup {None}
    PROVE  BInv' /\ \A y \in NFTUIDs : nftOwner[y] = Escrow => Kept(y)
<1>1. AssetsTypeOK /\ NativeTypeOK /\ RegistryTypeOK /\ CwTypeOK /\ CwHalf /\ enabled \in BOOLEAN
  BY Zenon DEF BInv, TypeOK, AssetsTypeOK
<1>2. DOMAIN b \subseteq NFTUIDs /\ b \in [DOMAIN b -> CwTokenUIDs] /\ Injective(b)
  BY CwBatchFacts, Zenon
<1>3. \A y \in NFTUIDs : nftOwner'[y] = IF y \in DOMAIN b THEN dest ELSE nftOwner[y]
  BY Zenon
<1>4. dest # None
  BY AccountsAssumption, Zenon
<1>5. /\ cwForward' \in [CwTokenUIDs -> NFTUIDs \cup {None}]
      /\ cwReverse' \in [NFTUIDs -> CwTokenUIDs \cup {None}]
      /\ CwHalf'
  <2>1. \A y \in NFTUIDs : y \notin DOMAIN b => nftOwner'[y] = nftOwner[y]
    BY <1>3, Zenon
  <2>2. \A x \in CwTokenUIDs : x \notin TokensOf(b) => cwOwner'[x] = cwOwner[x]
    BY Zenon
  <2>3. ASSUME NEW y \in DOMAIN b
        PROVE  nftOwner'[y] # None /\ (cwOwner'[b[y]] # CwModule => nftOwner'[y] = CwModule)
    <3>1. b[y] \in CwTokenUIDs /\ b[y] \in TokensOf(b) /\ y \in NFTUIDs
      BY <1>2, Zenon DEF TokensOf
    <3>2. cwOwner'[b[y]] = rec /\ nftOwner'[y] = dest
      BY <1>3, <3>1, Zenon
    <3>. QED
      BY <1>4, <3>2, Zenon
  <2>. QED
    BY <2>1, <2>2, <2>3, CwBound, Zenon
<1>6. NativeTypeOK'
  BY <1>1, Zenon DEF NativeTypeOK
<1>7. AssetsTypeOK' /\ RegistryTypeOK' /\ enabled' \in BOOLEAN
  BY <1>1, <1>6, Zenon DEF AssetsTypeOK, RegistryTypeOK, ercVars
<1>8. cwOwner' \in [CwTokenUIDs -> Users \cup {CwModule, None}]
  BY <1>1, Zenon DEF CwTypeOK, CwReceivers
<1>9. CwTypeOK'
  <2>1. cwTokenPairs' \in SUBSET CwPairs
    BY <1>1, Zenon DEF CwTypeOK, CwRegistered
  <2>2. cwParams' \in [enabled : BOOLEAN, codeID : BOOLEAN]
    BY <1>1, Zenon DEF CwTypeOK
  <2>. QED
    BY <1>5, <1>8, <2>1, <2>2, Zenon DEF CwTypeOK, CwRegistered
<1>10. ErcHalf'
  <2>1. ErcCustodyKept
    BY <1>3, <1>4, Zenon DEF ErcCustodyKept
  <2>2. UNCHANGED registryVars /\ UNCHANGED ercOwner
    BY Zenon DEF ercVars, registryVars
  <2>. QED
    BY <2>1, <2>2, ErcQuiet, Zenon
<1>11. BInv'
  BY <1>5, <1>7, <1>9, <1>10, Zenon DEF BInv, TypeOK
<1>12. ASSUME NEW y \in NFTUIDs, nftOwner[y] = Escrow
       PROVE  Kept(y)
  <2>1. y \notin DOMAIN b
    BY <1>12, Zenon
  <2>2. CwBatch(b)
    BY <1>2, Zenon DEF CwBatch
  <2>3. /\ cwForward \in [CwTokenUIDs -> NFTUIDs \cup {None}]
        /\ cwReverse \in [NFTUIDs -> CwTokenUIDs \cup {None}]
        /\ CwInverseIndex(cwForward, cwReverse)
    BY <1>1, Zenon DEF CwTypeOK, CwHalf
  <2>4. /\ cwReverse'[y] = cwReverse[y]
        /\ \A z \in DOMAIN b : b[z] \in CwTokenUIDs /\ cwForward[b[z]] \in {None, z}
    BY <1>2, <2>1, <2>2, <2>3, CwSetFacts, Zenon
  <2>5. ASSUME cwReverse[y] # None
        PROVE  cwRefund'[cwReverse[y]] = cwRefund[cwReverse[y]]
    <3>1. cwReverse[y] \in CwTokenUIDs /\ cwForward[cwReverse[y]] = y /\ y # None
      BY <2>3, <2>5, CwAbsentFacts DEF CwInverseIndex
    <3>2. cwReverse[y] \notin TokensOf(b)
      BY <2>1, <2>4, <3>1 DEF TokensOf
    <3>. QED
      BY <3>1, <3>2, Zenon
  <2>. QED
    BY <1>3, <2>1, <2>4, <2>5, Zenon DEF Kept
<1>. QED
  BY <1>11, <1>12, Zenon

\* MsgConvertNFT of x/cw721, with the pair the class has or with a contract
\* instantiated for it.
LEMMA CwConvertNFTSteps ==
    ASSUME BInv, FInv, Idle, NEW u \in Users, NEW p \in CwPairs, NEW r \in CwReceivers,
           \/ \E named \in {None} \cup CwContracts : CwConvertNFT(u, p, named, r)
           \/ CwConvertNFTDeploy(u, p, r),
           UNCHANGED <<ercVars, ibcVars>>
    PROVE  BInv' /\ FInv'
<1>1. NativeTypeOK /\ CwTypeOK /\ packets \in SUBSET Packets /\ refunding \in Packets \cup {None}
  BY Zenon DEF BInv, TypeOK, AssetsTypeOK
<1>2. p[1] \in CwContracts /\ p[2] \in Classes /\ p # None
  BY CwPairFacts, CwAbsentFacts, Zenon
<1>3. UNCHANGED <<denom, cwRefund, cwParams>>
  BY Zenon DEF CwConvertNFT, CwConvertNFTDeploy
<1>4. CwRegistered(p) /\ cwLive' \in SUBSET CwContracts
  <2>1. ASSUME NEW named, CwConvertNFT(u, p, named, r)
        PROVE  CwRegistered(p) /\ cwLive' \in SUBSET CwContracts
    <3>1. p \in cwTokenPairs
      BY <1>2, <2>1, Zenon DEF CwConvertNFT, CwPairByClass, CwGetTokenPair
    <3>2. UNCHANGED <<denom, cwTokenPairs, cw721Map, cwClassMap>> /\ UNCHANGED cwLive
      BY <2>1, Zenon DEF CwConvertNFT, cwPairVars
    <3>. QED
      BY <1>1, <3>1, <3>2, CwPairStays, Zenon DEF CwTypeOK
  <2>2. ASSUME CwConvertNFTDeploy(u, p, r)
        PROVE  CwRegistered(p) /\ cwLive' \in SUBSET CwContracts
    <3>1. /\ ~CwIsRegistered(p) /\ CwSetPair(p) /\ p[2] \notin VoucherClasses /\ denom'[p[2]] # None
          /\ cwLive' = cwLive \cup {p[1]}
      BY <2>2, Zenon DEF CwConvertNFTDeploy, CwRegisterNFT, IsIBCDenom
    <3>. QED
      BY <1>1, <1>2, <3>1, CwPairIsAdded, Zenon DEF CwTypeOK
  <2>. QED
    BY <2>1, <2>2, Zenon
<1>5. PICK b \in Batches(p[2], p[1]) : ConvertCosmos2Wasm(u, b, r)
  BY Zenon DEF CwConvertNFT, CwConvertNFTDeploy
<1>6. /\ \A y \in DOMAIN b : nftOwner[y] \notin {Module, Escrow}
      /\ nftOwner' = [y \in NFTUIDs |-> IF y \in DOMAIN b THEN CwModule ELSE nftOwner[y]]
      /\ cwOwner' = [x \in CwTokenUIDs |-> IF x \in TokensOf(b) THEN r ELSE cwOwner[x]]
      /\ CwSetNFTPairs(b)
  BY <1>5, AccountFacts, Zenon DEF ConvertCosmos2Wasm, MintOrTransferCw721
<1>7. /\ DenomKept /\ CwModule \in Holders
      /\ cwRefund' \in [CwTokenUIDs -> Users \cup {None}]
      /\ denom' \in [Classes -> Denoms \cup {None}]
      /\ packets' \in SUBSET Packets /\ refunding' \in Packets \cup {None}
  BY <1>1, <1>3, Zenon DEF DenomKept, Holders, CwTypeOK, NativeTypeOK, ibcVars
<1>8. BInv' /\ \A y \in NFTUIDs : nftOwner[y] = Escrow => Kept(y)
  BY <1>3, <1>4, <1>6, <1>7, CwConverted, Zenon
<1>9. \A q \in packets', y \in NFTUIDs : Escrows(q, y) => Kept(y)
  BY <1>8, Zenon DEF FInv, InEscrow, ibcVars
<1>10. packets' \subseteq packets /\ refunding' = None
  BY Zenon DEF ibcVars, Idle
<1>. QED
  BY <1>7, <1>8, <1>9, <1>10, FlightQuiet, Zenon

\* convertWasm2Cosmos, with the pair the contract has or gets on the way.
LEMMA Wasm2CosmosStep ==
    ASSUME BInv, NEW u \in Users, NEW p \in CwPairs, NEW b \in Batches(p[2], p[1]),
           NEW dest \in Holders, EnsurePairByCW721(p), ConvertWasm2Cosmos(u, p, b, dest),
           cwRefund' \in [CwTokenUIDs -> Users \cup {None}],
           \A x \in CwTokenUIDs : x \notin TokensOf(b) => cwRefund'[x] = cwRefund[x],
           UNCHANGED <<cwLive, cwParams>>, UNCHANGED ercVars,
           packets' \in SUBSET Packets, refunding' \in Packets \cup {None}
    PROVE  /\ BInv' /\ DenomKept
           /\ \A y \in NFTUIDs : nftOwner[y] = Escrow => Kept(y)
           /\ \A y \in DOMAIN b : /\ nftOwner[y] # Escrow /\ nftOwner'[y] = dest
                                  /\ y[1] \notin VoucherClasses /\ denom'[y[1]] # None
<1>1. NativeTypeOK /\ CwTypeOK
  BY Zenon DEF BInv, TypeOK, AssetsTypeOK
<1>2. p[1] \in CwContracts /\ p[2] \in Classes /\ p # None
  BY CwPairFacts, CwAbsentFacts, Zenon
<1>3. DOMAIN b \subseteq NFTUIDs /\ \A y \in DOMAIN b : y[1] = p[2]
  BY CwBatchFacts, Zenon
<1>4. CwRegistered(p) /\ DenomKept /\ denom' \in [Classes -> Denoms \cup {None}]
  <2>1. CASE RegisterCW721(p)
    <3>. DEFINE d == [creator |-> CwModule, mintRestricted |-> FALSE]
    <3>1. d \in Denoms /\ d # None
      <4>1. \A m \in BOOLEAN : [creator |-> CwModule, mintRestricted |-> m] \in Denoms
        BY Zenon DEF Denoms, Holders
      <4>. QED
        BY <4>1, NativeAssumption, Zenon
    <3>2. /\ denom' = [denom EXCEPT ![p[2]] = d] /\ CwSetPair(p) /\ p[2] = CwDerivedClass[p[1]]
          /\ ~CwIsRegistered(p)
      BY <2>1, Zenon DEF RegisterCW721
    <3>. HIDE DEF d
    <3>3. denom' \in [Classes -> Denoms \cup {None}] /\ DenomKept /\ denom'[p[2]] # None
      BY <1>1, <1>2, <3>1, <3>2, Zenon DEF NativeTypeOK, DenomKept
    <3>4. p[2] \notin VoucherClasses
      BY <1>2, <3>2, CwAssumption, NativeAssumption, Zenon
    <3>. QED
      BY <3>2, <3>3, <3>4, CwPairIsAdded, Zenon
  <2>2. CASE CwPairByCW721(p[1]) = p /\ UNCHANGED <<denom, cwPairVars>>
    <3>1. p \in cwTokenPairs /\ UNCHANGED <<denom, cwTokenPairs, cw721Map, cwClassMap>>
      BY <1>2, <2>2, Zenon DEF CwPairByCW721, CwGetTokenPair, cwPairVars
    <3>. QED
      BY <1>1, <3>1, CwPairStays, Zenon DEF NativeTypeOK, DenomKept
  <2>. QED
    BY <2>1, <2>2, Zenon DEF EnsurePairByCW721
<1>5. \A y \in DOMAIN b : nftOwner[y] \in {None, CwModule}
  BY Zenon DEF ConvertWasm2Cosmos, Wasm2CosmosAllowed
<1>6. /\ nftOwner' = [y \in NFTUIDs |-> IF y \in DOMAIN b THEN dest ELSE nftOwner[y]]
      /\ cwOwner' = [x \in CwTokenUIDs |-> IF x \in TokensOf(b) THEN CwModule ELSE cwOwner[x]]
      /\ CwSetNFTPairs(b)
  BY Zenon DEF ConvertWasm2Cosmos
<1>7. /\ \A y \in DOMAIN b : nftOwner[y] \notin {Module, Escrow}
      /\ CwModule \in CwReceivers /\ cwLive' \in SUBSET CwContracts
  BY <1>1, <1>5, AccountFacts, Zenon DEF CwReceivers, CwTypeOK
<1>8. BInv' /\ \A y \in NFTUIDs : nftOwner[y] = Escrow => Kept(y)
  BY <1>4, <1>6, <1>7, CwConverted, Zenon
<1>9. ASSUME NEW y \in DOMAIN b
      PROVE  /\ nftOwner[y] # Escrow /\ nftOwner'[y] = dest
             /\ y[1] \notin VoucherClasses /\ denom'[y[1]] # None
  BY <1>3, <1>4, <1>6, <1>7, Zenon DEF CwRegistered
<1>. QED
  BY <1>4, <1>8, <1>9, Zenon

\* MsgConvertCW721.
LEMMA ConvertCW721Step ==
    ASSUME BInv, FInv, Idle, NEW u \in Users, NEW p \in CwPairs, NEW r \in CwReceivers,
           ConvertCW721(u, p, r), UNCHANGED <<ercVars, ibcVars>>
    PROVE  BInv' /\ FInv'
<1>1. EnsurePairByCW721(p) /\ UNCHANGED <<cwLive, cwParams>> /\ UNCHANGED cwRefund
  BY Zenon DEF ConvertCW721
<1>2. PICK b \in Batches(p[2], p[1]) : ConvertWasm2Cosmos(u, p, b, r)
  BY Zenon DEF ConvertCW721
<1>3. /\ cwRefund' \in [CwTokenUIDs -> Users \cup {None}] /\ r \in Holders
      /\ packets' \in SUBSET Packets /\ refunding' \in Packets \cup {None}
  BY <1>1, Zenon DEF BInv, TypeOK, CwTypeOK, ibcVars, CwReceivers, Holders
<1>4. BInv' /\ DenomKept /\ \A y \in NFTUIDs : nftOwner[y] = Escrow => Kept(y)
  BY <1>1, <1>2, <1>3, Wasm2CosmosStep, Zenon
<1>5. \A q \in packets', y \in NFTUIDs : Escrows(q, y) => Kept(y)
  BY <1>4, Zenon DEF FInv, InEscrow, ibcVars
<1>6. packets' \subseteq packets /\ refunding' = None
  BY Zenon DEF ibcVars, Idle
<1>. QED
  BY <1>4, <1>5, <1>6, FlightQuiet, Zenon

\* MsgTransferCW721 records the sender for every token of the packet.
LEMMA SendCW721Step ==
    ASSUME BInv, FInv, Idle, NEW u \in Users, NEW p \in CwPairs, NEW ch \in Channels, SendCW721(u, p, ch)
    PROVE  BInv' /\ FInv'
<1>1. PICK b \in Batches(p[2], p[1]) :
         /\ TransferCW721(u, p, b)
         /\ packets' = packets \cup {[nfts |-> DOMAIN b, kind |-> "cw721", origin |-> u, channel |-> ch]}
  BY Zenon DEF SendCW721
<1>. DEFINE pkt == [nfts |-> DOMAIN b, kind |-> "cw721", origin |-> u, channel |-> ch]
<1>2. /\ EnsurePairByCW721(p) /\ ConvertWasm2Cosmos(u, p, b, Escrow)
      /\ cwRefund' = [x \in CwTokenUIDs |-> IF x \in TokensOf(b) THEN u ELSE cwRefund[x]]
      /\ UNCHANGED <<cwLive, cwParams>> /\ UNCHANGED ercVars /\ refunding' = None
  BY <1>1, Zenon DEF SendCW721, TransferCW721, SetCwAddressByContractTokenId, Idle
<1>3. DOMAIN b \subseteq NFTUIDs /\ b \in [DOMAIN b -> CwTokenUIDs] /\ Injective(b)
  BY CwBatchFacts, Zenon
<1>4. pkt \in Packets
  BY <1>3, Zenon DEF Packets, Kinds
<1>5. pkt.nfts = DOMAIN b /\ pkt.kind = "cw721" /\ pkt.origin = u /\ packets' = packets \cup {pkt}
  BY <1>1, Zenon
<1>. HIDE DEF pkt
<1>6. /\ cwRefund' \in [CwTokenUIDs -> Users \cup {None}] /\ Escrow \in Holders
      /\ \A x \in CwTokenUIDs : x \notin TokensOf(b) => cwRefund'[x] = cwRefund[x]
      /\ packets' \in SUBSET Packets /\ refunding' \in Packets \cup {None}
  BY <1>2, <1>4, <1>5, Zenon DEF BInv, TypeOK, CwTypeOK, Holders
<1>7. /\ BInv' /\ DenomKept
      /\ \A y \in NFTUIDs : nftOwner[y] = Escrow => Kept(y)
      /\ \A y \in DOMAIN b : /\ nftOwner[y] # Escrow /\ nftOwner'[y] = Escrow
                             /\ y[1] \notin VoucherClasses /\ denom'[y[1]] # None
  BY <1>2, <1>6, Wasm2CosmosStep
<1>8. \A y \in DOMAIN b : cwRefund'[cwReverse'[y]] = u
  <2>1. CwBatch(b)
    BY <1>2, <1>3, Zenon DEF CwBatch, ConvertWasm2Cosmos
  <2>2. \A y \in DOMAIN b : b[y] \in TokensOf(b) /\ b[y] \in CwTokenUIDs /\ cwReverse'[y] = b[y]
    BY <1>3, <2>1, CwSetFacts DEF BInv, TypeOK, CwTypeOK
  <2>. QED
    BY <1>2, <2>2, Zenon
<1>9. Carried(pkt)
  BY <1>5, <1>7, <1>8, Zenon DEF Carried, Escrows
<1>. QED
  BY <1>2, <1>4, <1>5, <1>7, <1>9, FlightSend, Zenon

-----------------------------------------------------------------------------
(* Invariance *)

\* Every step of the two bridges keeps both invariants.
LEMMA NextInv == BInv /\ FInv /\ [Next]_vars => BInv' /\ FInv'
<1>. SUFFICES ASSUME BInv, FInv, [Next]_vars PROVE BInv' /\ FInv'
  BY Zenon
<1>1. CASE Idle /\ CollectionStep /\ UNCHANGED <<ercVars, cwVars, ibcVars>>
  BY <1>1, CollectionSteps, Zenon
<1>2. ASSUME Idle,
             \/ EvmStep /\ UNCHANGED <<nativeVars, registryVars, enabled, cwVars, ibcVars>>
             \/ WasmStep /\ UNCHANGED <<nativeVars, ercVars, cwStoreVars, ibcVars>>
             \/ \E e \in BOOLEAN, c \in BOOLEAN :
                   CwUpdateParams(e, c) /\ UNCHANGED <<nativeVars, ercVars, ibcVars>>
      PROVE  BInv' /\ FInv'
  BY <1>2, ContractSteps, Zenon
<1>3. CASE Idle /\ Erc721Step /\ UNCHANGED <<cwVars, ibcVars>>
  <2>1. ASSUME NEW u \in Users, NEW p \in Pairs, NEW r \in Receivers,
               \/ \E named \in {None} \cup Contracts : ConvertNFT(u, p, named, r)
               \/ ConvertNFTDeploy(u, p, r)
        PROVE  BInv' /\ FInv'
    BY <1>3, <2>1, ConvertNFTSteps, Zenon
  <2>2. ASSUME NEW u \in Users, NEW p \in Pairs, NEW restricted \in BOOLEAN, NEW r \in Receivers,
               ConvertERC721(u, p, restricted, r)
        PROVE  BInv' /\ FInv'
    BY <1>3, <2>2, ConvertERC721Step, Zenon
  <2>. QED
    BY <1>3, <2>1, <2>2, Zenon DEF Erc721Step
<1>4. CASE Idle /\ Cw721Step /\ UNCHANGED <<ercVars, ibcVars>>
  <2>1. ASSUME NEW u \in Users, NEW p \in CwPairs, NEW r \in CwReceivers,
               \/ \E named \in {None} \cup CwContracts : CwConvertNFT(u, p, named, r)
               \/ CwConvertNFTDeploy(u, p, r)
        PROVE  BInv' /\ FInv'
    BY <1>4, <2>1, CwConvertNFTSteps, Zenon
  <2>2. ASSUME NEW u \in Users, NEW p \in CwPairs, NEW r \in CwReceivers, ConvertCW721(u, p, r)
        PROVE  BInv' /\ FInv'
    BY <1>4, <2>2, ConvertCW721Step, Zenon
  <2>. QED
    BY <1>4, <2>1, <2>2, Zenon DEF Cw721Step
<1>5. ASSUME NEW u \in Users, NEW y \in NFTUIDs, NEW ch \in Channels, Idle, SendNFT(u, y, ch)
      PROVE  BInv' /\ FInv'
  BY <1>5, SendStep, Zenon
<1>6. ASSUME NEW u \in Users, NEW p \in Pairs, NEW restricted \in BOOLEAN, NEW ch \in Channels,
             Idle, SendERC721(u, p, restricted, ch)
      PROVE  BInv' /\ FInv'
  BY <1>6, SendERC721Step, Zenon
<1>7. ASSUME NEW u \in Users, NEW p \in CwPairs, NEW ch \in Channels, Idle, SendCW721(u, p, ch)
      PROVE  BInv' /\ FInv'
  BY <1>7, SendCW721Step, Zenon
<1>8. ASSUME NEW pkt \in packets, Idle, FailPacket(pkt)
      PROVE  BInv' /\ FInv'
  BY <1>8, FailStep, Zenon
<1>9. ASSUME Idle,
             \/ \E pkt \in packets : AcknowledgeSuccess(pkt)
             \/ \E y \in NFTUIDs, v \in Users : ReceiveNFT(y, v)
      PROVE  BInv' /\ FInv'
  BY <1>9, AckAndReceiveSteps, Zenon
<1>10. ASSUME NEW y \in NFTUIDs, NEW fails \in BOOLEAN, RefundPacketToken(y, fails)
       PROVE  BInv' /\ FInv'
  BY <1>10, RefundSteps, Zenon
<1>11. CASE UNCHANGED vars
  <2>1. UNCHANGED <<ercVars, cwVars>> /\ UNCHANGED <<denom, nftOwner, packets, refunding>>
        /\ UNCHANGED <<cwOwner, cwReverse, cwRefund>>
    BY <1>11, Zenon DEF vars, ercVars, cwVars, wasmVars, cwStoreVars
  <2>2. NativeTypeOK' /\ DenomKept /\ FreeMove /\ packets' \in SUBSET Packets
        /\ refunding' \in Packets \cup {None}
    BY <2>1, Zenon DEF BInv, TypeOK, AssetsTypeOK, NativeTypeOK, DenomKept, FreeMove
  <2>3. BInv'
    BY <2>1, <2>2, NativeStep, Zenon
  <2>4. InEscrow' /\ OnePacketEach' /\ ConvertsOwnClass'
    BY <2>1, Zenon DEF FInv, InEscrow, OnePacketEach, ConvertsOwnClass, Escrows, GoesHome
  <2>5. /\ (\A pkt \in packets : SenderRecorded(pkt))' /\ RefundHeld'
        /\ (refunding # None => SenderRecorded(refunding))'
    BY <2>1, Zenon DEF FInv, SenderRecorded, RefundHeld
  <2>. QED
    BY <2>3, <2>4, <2>5, Zenon DEF FInv
<1>. QED
  BY <1>1, <1>2, <1>3, <1>4, <1>5, <1>6, <1>7, <1>8, <1>9, <1>10, <1>11, Zenon DEF Next

\* Both invariants hold of every behaviour.
THEOREM BridgesInvariance == Spec => [](BInv /\ FInv)
BY InitInv, NextInv, PTL DEF Spec

\* The ledgers, the stores of both modules and the packets keep their types.
THEOREM BridgesTypeCorrectness == Spec => []TypeOK
<1>1. BInv => TypeOK
  BY Zenon DEF BInv
<1>. QED
  BY <1>1, BridgesInvariance, PTL

-----------------------------------------------------------------------------
(* The properties *)

\* The burn guard asks both modules: while either binds an NFT, the NFT exists.
THEOREM BothBindingsHaveNfts == Spec => []BoundNftExists
<1>1. BInv => BoundNftExists
  BY Zenon DEF BInv, ErcHalf, CwHalf, BoundNftExists
<1>. QED
  BY <1>1, BridgesInvariance, PTL

\* Of an NFT, its ERC721 and its CW721 at most one circulates, however the
\* conversions, transfers and refunds of the two modules are mixed.
THEOREM OneHalfOfEachNft == Spec => []OneHalfCirculates
<1>1. BInv => OneHalfCirculates
  <2>. SUFFICES ASSUME BInv, NEW y \in NFTUIDs
                PROVE  \A h, k \in Circulating(y) : h = k
    BY Zenon DEF OneHalfCirculates
  <2>. DEFINE E == CirculatingErc(y)
              C == CirculatingCw(y)
  <2>1. ErcHalf /\ CwHalf /\ y # None
    BY AbsentFacts, Zenon DEF BInv
  <2>2. E \subseteq {reverse[y]} /\ (E # {} => nftOwner[y] = Module)
    <3>. SUFFICES ASSUME NEW x \in E PROVE x = reverse[y] /\ nftOwner[y] = Module
      BY Zenon
    <3>1. x \in TokenUIDs /\ forward[x] = y /\ x[1] \notin Rogue /\ ercOwner[x] \in Users
      BY Zenon DEF CirculatingErc
    <3>2. ercOwner[x] # Module
      BY <3>1, AccountFacts, Zenon
    <3>. QED
      BY <2>1, <3>1, <3>2, Zenon DEF ErcHalf, InverseIndex, ErcBacked
  <2>3. C \subseteq {cwReverse[y]} /\ (C # {} => nftOwner[y] = CwModule)
    <3>. SUFFICES ASSUME NEW x \in C PROVE x = cwReverse[y] /\ nftOwner[y] = CwModule
      BY Zenon
    <3>1. x \in CwTokenUIDs /\ cwForward[x] = y /\ x[1] \notin CwRogue /\ cwOwner[x] \in Users
      BY Zenon DEF CirculatingCw
    <3>2. cwOwner[x] # CwModule
      BY <3>1, AccountFacts, Zenon
    <3>. QED
      BY <2>1, <3>1, <3>2, Zenon DEF CwHalf, CwInverseIndex, CwBacked
  <2>. HIDE DEF E, C
  <2>4. nftOwner[y] \in Users \cup {Escrow} => E = {} /\ C = {}
    BY <2>2, <2>3, AccountFacts, Zenon
  <2>5. E = {} \/ C = {}
    BY <2>2, <2>3, AccountFacts, Zenon
  <2>6. Circulating(y) = ({"erc721"} \X E) \cup ({"cw721"} \X C)
          \cup {h \in {<<"nft", y>>} : nftOwner[y] \in Users \cup {Escrow}}
    BY Zenon DEF Circulating, E, C
  <2>7. CASE E = {} /\ C = {}
    BY <2>6, <2>7, Zenon
  <2>8. CASE E # {}
    <3>1. Circulating(y) = {"erc721"} \X E
      BY <2>4, <2>5, <2>6, <2>8, Zenon
    <3>. QED
      BY <2>2, <3>1
  <2>9. CASE C # {}
    <3>1. Circulating(y) = {"cw721"} \X C
      BY <2>4, <2>5, <2>6, <2>9, Zenon
    <3>. QED
      BY <2>3, <3>1
  <2>. QED
    BY <2>7, <2>8, <2>9, Zenon
<1>. QED
  BY <1>1, BridgesInvariance, PTL

\* getRefundClassId finds the class the NFTs of a failed convert packet left
\* from, for every set of channels and class ids that PathAssumption allows.
THEOREM RefundsFindTheirClass == Spec => []RefundFindsTheClass
<1>1. BInv /\ FInv => RefundFindsTheClass
  BY RefundTokensAreTheNfts, Zenon DEF RefundFindsTheClass
<1>. QED
  BY <1>1, BridgesInvariance, PTL

\* A holder of the CW721 of a bound NFT always has a conversion back that
\* convertWasm2Cosmos accepts.
THEOREM CwHoldersCanConvertBack == Spec => []CwHolderCanConvertBack
<1>1. BInv => CwHolderCanConvertBack
  <2>. SUFFICES ASSUME BInv, NEW x \in CwTokenUIDs, NEW u \in Users,
                       cwForward[x] # None, x[1] \notin CwRogue, cwOwner[x] = u
                PROVE  /\ CwPairByCW721(x[1]) = <<x[1], cwForward[x][1]>>
                       /\ Wasm2CosmosAllowed(u, [z \in {cwForward[x]} |-> x], denom[cwForward[x][1]])
    BY Zenon DEF CwHolderCanConvertBack
  <2>. DEFINE y == cwForward[x]
              b == [z \in {y} |-> x]
  <2>1. CwHalf /\ y \in NFTUIDs
    BY Zenon DEF BInv, TypeOK, CwTypeOK
  <2>2. <<x[1], y[1]>> \in cwTokenPairs
    BY <2>1, Zenon DEF CwHalf
  <2>3. cw721Map[x[1]] = <<x[1], y[1]>>
    BY <2>1, <2>2, Zenon DEF CwHalf, CwPairMapsAgree
  <2>4. nftOwner[y] = CwModule
    BY <2>1, AccountFacts, Zenon DEF CwHalf, CwBacked
  <2>5. CwPairByCW721(x[1]) = <<x[1], y[1]>>
    BY <2>2, <2>3, Zenon DEF CwPairByCW721, CwGetTokenPair
  <2>6. DOMAIN b = {y} /\ b[y] = x
    BY Zenon
  <2>. HIDE DEF b
  <2>7. Wasm2CosmosAllowed(u, b, denom[y[1]])
    BY <2>4, <2>6, Zenon DEF Wasm2CosmosAllowed
  <2>. QED
    BY <2>5, <2>7, Zenon DEF b
<1>. QED
  BY <1>1, BridgesInvariance, PTL

\* What a step that is no refund of x/cw721 does to its bindings: nothing is
\* taken away.
LEMMA CwBindingsStay ==
    ASSUME BInv, Next, ~\E y \in NFTUIDs, fails \in BOOLEAN : RefundPacketToken(y, fails),
           NEW x \in CwTokenUIDs, cwForward[x] # None
    PROVE  cwForward'[x] = cwForward[x]
<1>1. CwTypeOK
  BY Zenon DEF BInv, TypeOK
<1>2. ASSUME NEW p \in CwPairs, NEW b \in Batches(p[2], p[1]), CwSetNFTPairs(b)
      PROVE  cwForward'[x] = cwForward[x]
  <2>1. CwBatch(b)
    BY <1>2, CwBatchFacts, Zenon DEF CwBatch
  <2>2. /\ \A y \in DOMAIN b : cwForward'[b[y]] = y /\ cwForward[b[y]] \in {None, y}
        /\ x \in TokensOf(b) => cwForward'[x] \in DOMAIN b /\ b[cwForward'[x]] = x
        /\ x \notin TokensOf(b) => cwForward'[x] = cwForward[x]
    BY <1>1, <2>1, CwSetFacts DEF CwTypeOK
  <2>. QED
    BY <2>2, Zenon
<1>3. CASE Cw721Step
  <2>1. ASSUME NEW u \in Users, NEW p \in CwPairs, NEW named, NEW r \in CwReceivers,
               CwConvertNFT(u, p, named, r)
        PROVE  cwForward'[x] = cwForward[x]
    BY <1>2, <2>1, Zenon DEF CwConvertNFT, ConvertCosmos2Wasm
  <2>2. ASSUME NEW u \in Users, NEW p \in CwPairs, NEW r \in CwReceivers, CwConvertNFTDeploy(u, p, r)
        PROVE  cwForward'[x] = cwForward[x]
    BY <1>2, <2>2, Zenon DEF CwConvertNFTDeploy, ConvertCosmos2Wasm
  <2>3. ASSUME NEW u \in Users, NEW p \in CwPairs, NEW r \in CwReceivers, ConvertCW721(u, p, r)
        PROVE  cwForward'[x] = cwForward[x]
    BY <1>2, <2>3, Zenon DEF ConvertCW721, ConvertWasm2Cosmos
  <2>. QED
    BY <1>3, <2>1, <2>2, <2>3, Zenon DEF Cw721Step
<1>4. ASSUME NEW u \in Users, NEW p \in CwPairs, NEW ch \in Channels, SendCW721(u, p, ch)
      PROVE  cwForward'[x] = cwForward[x]
  BY <1>2, <1>4, Zenon DEF SendCW721, TransferCW721, ConvertWasm2Cosmos
<1>5. CASE \/ CollectionStep /\ UNCHANGED <<ercVars, cwVars, ibcVars>>
           \/ EvmStep /\ UNCHANGED <<nativeVars, registryVars, enabled, cwVars, ibcVars>>
           \/ WasmStep /\ UNCHANGED <<nativeVars, ercVars, cwStoreVars, ibcVars>>
           \/ Erc721Step /\ UNCHANGED <<cwVars, ibcVars>>
           \/ \E e \in BOOLEAN, c \in BOOLEAN :
                 CwUpdateParams(e, c) /\ UNCHANGED <<nativeVars, ercVars, ibcVars>>
  BY <1>5, Zenon DEF cwVars, cwStoreVars, CwUpdateParams, cwIndexVars
<1>6. CASE \/ \E u \in Users, y \in NFTUIDs, ch \in Channels : SendNFT(u, y, ch)
           \/ \E u \in Users, p \in Pairs, restricted \in BOOLEAN, ch \in Channels :
                 SendERC721(u, p, restricted, ch)
           \/ \E pkt \in packets : AcknowledgeSuccess(pkt)
           \/ \E pkt \in packets : FailPacket(pkt)
           \/ \E y \in NFTUIDs, v \in Users : ReceiveNFT(y, v)
  BY <1>6, Zenon DEF cwVars, cwStoreVars, SendNFT, SendERC721, AcknowledgeSuccess, FailPacket,
     ReceiveNFT
<1>. QED
  BY <1>3, <1>4, <1>5, <1>6, Zenon DEF Next

\* A CW721 binding goes only in a refund, and the token of a conforming contract
\* is then with the sender of the failed transfer: SetNFTPairs never redirects
\* one, the sender on record is never another packet's, and nobody takes the
\* token from the module while the packet travels.
THEOREM CwRefundsPayTheSender == Spec => CwBindingDroppedByRefund
<1>. DEFINE A == \A x \in CwTokenUIDs :
                    cwForward[x] # None /\ cwForward'[x] # cwForward[x]
                      => /\ cwForward'[x] = None
                         /\ refunding # None
                         /\ x[1] \notin CwRogue => cwOwner'[x] = refunding.origin
<1>1. BInv /\ FInv /\ [Next]_vars => [A]_vars
  <2>. SUFFICES ASSUME BInv, FInv, Next, NEW x \in CwTokenUIDs,
                       cwForward[x] # None, cwForward'[x] # cwForward[x]
                PROVE  /\ cwForward'[x] = None
                       /\ refunding # None
                       /\ x[1] \notin CwRogue => cwOwner'[x] = refunding.origin
    BY Zenon
  <2>1. PICK y \in NFTUIDs, fails \in BOOLEAN : RefundPacketToken(y, fails)
    BY CwBindingsStay, Zenon
  <2>2. refunding # None /\ y \in refunding.nfts /\ CwTypeOK
    BY <2>1, Zenon DEF RefundPacketToken, BInv, TypeOK
  <2>3. refunding.kind = "cw721" /\ CwRefundToken(y, fails, IsConvertedNFT(y))
    <3>1. ~UNCHANGED cwVars
      BY Zenon DEF cwVars, cwStoreVars
    <3>. QED
      BY <2>1, <3>1, Zenon DEF RefundPacketToken
  <2>4. ~CwRefundSkipped(y, fails)
    BY <2>3, Zenon DEF CwRefundToken, cwVars, cwStoreVars
  <2>5. PICK t : t = cwReverse[y]
    BY Zenon
  <2>6. /\ t \in CwTokenUIDs /\ cwForward[t] = y
        /\ cwOwner' = [cwOwner EXCEPT ![t] = IF cwOwner[t] = CwModule THEN cwRefund[t] ELSE cwOwner[t]]
        /\ cwForward' = [cwForward EXCEPT ![t] = None]
    <3>1. IsConvertedNFT(y) \in BOOLEAN
      BY Zenon DEF IsConvertedNFT
    <3>. QED
      BY <2>3, <2>4, <2>5, <3>1, CwTurnFacts
  <2>7. x = t /\ cwForward'[x] = None
    BY <2>2, <2>6, Zenon DEF CwTypeOK
  <2>8. cwReverse[y] # None
    BY <2>5, <2>6, CwAbsentFacts, Zenon
  <2>9. cwRefund[t] = refunding.origin /\ (t[1] \notin CwRogue => cwOwner[t] = CwModule)
    BY <2>2, <2>3, <2>5, <2>8, Zenon DEF FInv, SenderRecorded, RefundHeld
  <2>10. x[1] \notin CwRogue => cwOwner'[x] = refunding.origin
    BY <2>2, <2>6, <2>7, <2>9, Zenon DEF CwTypeOK
  <2>. QED
    BY <2>2, <2>7, <2>10, Zenon
<1>2. Spec => [][A]_vars
  BY <1>1, BridgesInvariance, PTL DEF Spec
<1>. QED
  BY <1>2, Zenon DEF CwBindingDroppedByRefund

\* A turn of the loop that pays a token out burns the NFT that came back, unless
\* x/erc721 binds that NFT too.
LEMMA CwPaidOutIsBurned ==
    ASSUME BInv, FInv, Next, refunding # None,
           NEW x \in CwTokenUIDs, cwOwner'[x] # cwOwner[x]
    PROVE  cwForward[x] \in NFTUIDs /\ (nftOwner'[cwForward[x]] = None \/ reverse[cwForward[x]] # None)
<1>1. PICK y \in NFTUIDs, fails \in BOOLEAN : RefundPacketToken(y, fails)
  BY Zenon DEF Next, Idle
<1>2. y \in refunding.nfts /\ CwTypeOK /\ NativeTypeOK
  BY <1>1, Zenon DEF RefundPacketToken, BInv, TypeOK, AssetsTypeOK
<1>3. refunding.kind = "cw721" /\ CwRefundToken(y, fails, IsConvertedNFT(y))
  <2>1. ~UNCHANGED cwVars
    BY Zenon DEF cwVars, wasmVars
  <2>. QED
    BY <1>1, <2>1, Zenon DEF RefundPacketToken
<1>4. ~CwRefundSkipped(y, fails)
  BY <1>3, Zenon DEF CwRefundToken, cwVars, wasmVars
<1>5. PICK t : t = cwReverse[y]
  BY Zenon
<1>. DEFINE refused == IsConvertedNFT(y)
<1>6. refused \in BOOLEAN /\ (refused <=> reverse[y] # None)
  BY Zenon DEF IsConvertedNFT
<1>. HIDE DEF refused
<1>7. /\ t \in CwTokenUIDs /\ cwForward[t] = y
      /\ cwOwner' = [cwOwner EXCEPT ![t] = IF cwOwner[t] = CwModule THEN cwRefund[t] ELSE cwOwner[t]]
      /\ nftOwner' = [nftOwner EXCEPT ![y] = IF nftOwner[y] = CwModule /\ ~refused THEN None ELSE nftOwner[y]]
  BY <1>3, <1>4, <1>5, <1>6, CwTurnFacts DEF refused
<1>8. x = t
  BY <1>2, <1>7, Zenon DEF CwTypeOK
<1>9. nftOwner[y] = CwModule
  BY <1>2, <1>3, Zenon DEF FInv, RefundHeld
<1>. QED
  BY <1>2, <1>6, <1>7, <1>8, <1>9, Zenon DEF NativeTypeOK

\* RefundPacketToken of x/cw721 "burns the native NFT returned to the module
\* account": with no ERC721 contracts about, as the x/cw721 run has it, a token
\* is never paid out with its NFT left behind.
THEOREM CwRefundsBurnTheNft ==
    ASSUME Contracts = {}
    PROVE  Spec => CwRefundBurnsTheNft
<1>. DEFINE A == \A x \in CwTokenUIDs :
                    refunding # None /\ cwOwner'[x] # cwOwner[x] => nftOwner'[cwForward[x]] = None
<1>1. BInv /\ FInv /\ [Next]_vars => [A]_vars
  <2>. SUFFICES ASSUME BInv, FInv, Next, NEW x \in CwTokenUIDs, refunding # None,
                       cwOwner'[x] # cwOwner[x]
                PROVE  nftOwner'[cwForward[x]] = None
    BY Zenon
  <2>1. cwForward[x] \in NFTUIDs /\ (nftOwner'[cwForward[x]] = None \/ reverse[cwForward[x]] # None)
    BY CwPaidOutIsBurned, Zenon
  <2>2. TokenUIDs = {}
    BY Zenon DEF TokenUIDs
  <2>3. reverse[cwForward[x]] = None
    BY <2>1, <2>2, Zenon DEF BInv, TypeOK, RegistryTypeOK
  <2>. QED
    BY <2>1, <2>3, Zenon
<1>2. Spec => [][A]_vars
  BY <1>1, BridgesInvariance, PTL DEF Spec
<1>. QED
  BY <1>2, Zenon DEF CwRefundBurnsTheNft

-----------------------------------------------------------------------------
(* Genesis of x/cw721 *)

\* The lookup maps InitGenesis rebuilds from the exported pairs are the maps of
\* the store.
LEMMA CwImportedMaps ==
    ASSUME CwTypeOK, CwPairMapsAgree
    PROVE  /\ [c \in CwContracts |-> CwPairWith(cwTokenPairs, 1, c)] = cw721Map
           /\ [cl \in Classes |-> CwPairWith(cwTokenPairs, 2, cl)] = cwClassMap
<1>1. ASSUME NEW c \in CwContracts PROVE CwPairWith(cwTokenPairs, 1, c) = cw721Map[c]
  <2>1. CASE \E p \in cwTokenPairs : p[1] = c
    <3>1. CwPairWith(cwTokenPairs, 1, c) \in cwTokenPairs /\ CwPairWith(cwTokenPairs, 1, c)[1] = c
      BY <2>1, Zenon DEF CwPairWith
    <3>. QED
      BY <3>1, Zenon DEF CwPairMapsAgree
  <2>2. CASE ~\E p \in cwTokenPairs : p[1] = c
    BY <2>2, Zenon DEF CwPairWith, CwPairMapsAgree
  <2>. QED
    BY <2>1, <2>2, Zenon
<1>2. ASSUME NEW cl \in Classes PROVE CwPairWith(cwTokenPairs, 2, cl) = cwClassMap[cl]
  <2>1. CASE \E p \in cwTokenPairs : p[2] = cl
    <3>1. CwPairWith(cwTokenPairs, 2, cl) \in cwTokenPairs /\ CwPairWith(cwTokenPairs, 2, cl)[2] = cl
      BY <2>1, Zenon DEF CwPairWith
    <3>. QED
      BY <3>1, Zenon DEF CwPairMapsAgree
  <2>2. CASE ~\E p \in cwTokenPairs : p[2] = cl
    BY <2>2, Zenon DEF CwPairWith, CwPairMapsAgree
  <2>. QED
    BY <2>1, <2>2, Zenon
<1>. QED
  BY <1>1, <1>2, Zenon DEF CwTypeOK

\* Every binding of the store is exported, with its pair.
LEMMA CwExportedBindings ==
    ASSUME BInv
    PROVE  /\ DOMAIN CwExportNFTUIDPairs = {y \in NFTUIDs : cwReverse[y] # None}
           /\ \A y \in DOMAIN CwExportNFTUIDPairs :
                /\ CwExportNFTUIDPairs[y] = cwReverse[y]
                /\ cwReverse[y] \in CwTokenUIDs
                /\ cwForward[cwReverse[y]] = y
                /\ <<cwReverse[y][1], y[1]>> \in cwTokenPairs
           /\ Injective(CwExportNFTUIDPairs)
<1>1. CwTypeOK /\ CwHalf
  BY Zenon DEF BInv, TypeOK
<1>2. ASSUME NEW y \in NFTUIDs, cwReverse[y] # None
      PROVE  /\ cwReverse[y] \in CwTokenUIDs
             /\ cwForward[cwReverse[y]] = y
             /\ <<cwReverse[y][1], y[1]>> \in cwTokenPairs
  <2>1. cwReverse[y] \in CwTokenUIDs
    BY <1>1, <1>2, Zenon DEF CwTypeOK
  <2>2. cwForward[cwReverse[y]] = y
    BY <1>1, <2>1, Zenon DEF CwHalf, CwInverseIndex
  <2>. QED
    BY <1>1, <2>1, <2>2, CwAbsentFacts, Zenon DEF CwHalf
<1>3. DOMAIN CwExportNFTUIDPairs = {y \in NFTUIDs : cwReverse[y] # None}
  BY <1>2, Zenon DEF CwExportNFTUIDPairs, CwUIDBelongsToRegisteredPair
<1>4. \A y \in DOMAIN CwExportNFTUIDPairs : CwExportNFTUIDPairs[y] = cwReverse[y]
  BY Zenon DEF CwExportNFTUIDPairs
<1>5. ASSUME NEW y \in DOMAIN CwExportNFTUIDPairs
      PROVE  /\ CwExportNFTUIDPairs[y] = cwReverse[y]
             /\ cwReverse[y] \in CwTokenUIDs
             /\ cwForward[cwReverse[y]] = y
             /\ <<cwReverse[y][1], y[1]>> \in cwTokenPairs
  <2>1. y \in NFTUIDs /\ cwReverse[y] # None
    BY <1>3, Zenon
  <2>. QED
    BY <1>2, <1>4, <2>1, Zenon
<1>6. Injective(CwExportNFTUIDPairs)
  <2>. SUFFICES ASSUME NEW y \in DOMAIN CwExportNFTUIDPairs, NEW z \in DOMAIN CwExportNFTUIDPairs,
                       CwExportNFTUIDPairs[y] = CwExportNFTUIDPairs[z]
                PROVE  y = z
    BY Zenon DEF Injective
  <2>1. cwReverse[y] = cwReverse[z]
    BY <1>4, Zenon
  <2>. QED
    BY <1>5, <2>1, Zenon
<1>. QED
  BY <1>3, <1>5, <1>6, Zenon

\* Importing the exported bindings writes the index of the store again.
LEMMA CwImportedIndex ==
    ASSUME BInv, NEW uids, uids = CwExportNFTUIDPairs
    PROVE  /\ [x \in CwTokenUIDs |-> IF x \in TokensOf(uids) THEN NftFor(uids, x) ELSE None] = cwForward
           /\ [y \in NFTUIDs |-> IF y \in DOMAIN uids THEN uids[y] ELSE None] = cwReverse
<1>1. /\ DOMAIN uids = {y \in NFTUIDs : cwReverse[y] # None}
      /\ \A y \in DOMAIN uids : uids[y] = cwReverse[y] /\ cwForward[cwReverse[y]] = y
      /\ Injective(uids)
  BY CwExportedBindings, Zenon
<1>2. CwTypeOK /\ CwHalf
  BY Zenon DEF BInv, TypeOK
<1>3. ASSUME NEW x \in CwTokenUIDs
      PROVE  (IF x \in TokensOf(uids) THEN NftFor(uids, x) ELSE None) = cwForward[x]
  <2>1. CASE x \in TokensOf(uids)
    <3>1. NftFor(uids, x) \in DOMAIN uids /\ uids[NftFor(uids, x)] = x
      BY <1>1, <2>1, NftForFacts, Zenon
    <3>. QED
      BY <1>1, <2>1, <3>1, Zenon
  <2>2. CASE x \notin TokensOf(uids)
    <3>1. ASSUME cwForward[x] # None PROVE FALSE
      <4>1. cwForward[x] \in NFTUIDs /\ cwReverse[cwForward[x]] = x
        BY <1>2, <3>1 DEF CwTypeOK, CwHalf, CwInverseIndex
      <4>2. cwForward[x] \in DOMAIN uids /\ uids[cwForward[x]] = x
        BY <1>1, <4>1, CwAbsentFacts, Zenon
      <4>. QED
        BY <2>2, <4>2, Zenon DEF TokensOf
    <3>. QED
      BY <2>2, <3>1, Zenon
  <2>. QED
    BY <2>1, <2>2, Zenon
<1>4. ASSUME NEW y \in NFTUIDs
      PROVE  (IF y \in DOMAIN uids THEN uids[y] ELSE None) = cwReverse[y]
  BY <1>1, Zenon
<1>. QED
  BY <1>2, <1>3, <1>4, Zenon DEF CwTypeOK

\* ExportGenesis of x/cw721 drops nothing and InitGenesis accepts it and
\* restores the whole store, whatever conversions and refunds led to it.
THEOREM CwGenesisIsRestored == Spec => []CwGenesisRestores
<1>1. BInv => CwGenesisRestores
  <2>. SUFFICES ASSUME BInv PROVE CwGenesisRestores
    BY Zenon
  <2>1. CwTypeOK /\ CwHalf /\ CwPairMapsAgree
    BY Zenon DEF BInv, TypeOK, CwHalf
  <2>2. PICK uids : uids = CwExportNFTUIDPairs
    BY Zenon
  <2>3. /\ CwExportGenesis.pairs = cwTokenPairs
        /\ CwExportGenesis.uids = uids
        /\ CwExportGenesis.receivers = CwExportRefundReceivers
    BY <2>2, Zenon DEF CwExportGenesis
  <2>4. /\ DOMAIN CwExportRefundReceivers = {x \in CwTokenUIDs : cwRefund[x] # None}
        /\ \A x \in DOMAIN CwExportRefundReceivers : CwExportRefundReceivers[x] = cwRefund[x]
        /\ \A x \in DOMAIN CwExportRefundReceivers : \E p \in cwTokenPairs : p[1] = x[1]
    <3>1. ASSUME NEW x \in CwTokenUIDs, cwRefund[x] # None
          PROVE  \E p \in cwTokenPairs : p[1] = x[1]
      <4>1. x[1] \in CwContracts /\ cw721Map[x[1]] # None
        BY <2>1, <3>1, Zenon DEF CwHalf, CwTokenUIDs
      <4>. QED
        BY <2>1, <4>1, Zenon DEF CwPairMapsAgree
    <3>. QED
      BY <3>1, Zenon DEF CwExportRefundReceivers
  <2>5. CwValidateGenesis(CwExportGenesis)
    <3>1. \A p, q \in cwTokenPairs : p[1] = q[1] \/ p[2] = q[2] => p = q
      BY <2>1 DEF CwPairMapsAgree
    <3>2. \A y, z \in DOMAIN uids : uids[y] = uids[z] => y = z
      BY <2>2, CwExportedBindings, Zenon DEF Injective
    <3>3. \A y \in DOMAIN uids : CwUIDBelongsToRegisteredPair(uids[y], y, cwTokenPairs)
      BY <2>2, CwExportedBindings, Zenon DEF CwUIDBelongsToRegisteredPair
    <3>. QED
      BY <2>3, <2>4, <3>1, <3>2, <3>3, Zenon DEF CwValidateGenesis
  <2>6. [x \in CwTokenUIDs |-> IF x \in DOMAIN CwExportRefundReceivers
                              THEN CwExportRefundReceivers[x] ELSE None] = cwRefund
    BY <2>1, <2>4, Zenon DEF CwTypeOK
  <2>7. CwInitGenesis(CwExportGenesis) =
          [tokenPairs |-> cwTokenPairs, cw721Map |-> cw721Map, classMap |-> cwClassMap,
           forward |-> cwForward, reverse |-> cwReverse, refund |-> cwRefund]
    BY <2>1, <2>2, <2>3, <2>6, CwImportedMaps, CwImportedIndex, Zenon DEF CwInitGenesis
  <2>. QED
    BY <2>5, <2>7, Zenon DEF CwGenesisRestores
<1>. QED
  BY <1>1, BridgesInvariance, PTL

=============================================================================
