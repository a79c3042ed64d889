------------------------ MODULE Erc721RegistryProofs ------------------------
(***************************************************************************)
(* Facts about the identifiers, batches and index writers of the x/erc721  *)
(* store, for the proofs about the specifications built on it.             *)
(***************************************************************************)
EXTENDS Erc721Registry, TLAPS

-----------------------------------------------------------------------------
(* Identifiers *)

\* No key of the store and no pair is the absent value.
LEMMA AbsentFacts == None \notin NFTUIDs /\ None \notin TokenUIDs /\ None \notin Pairs
BY AbsentAssumption, NativeAssumption, Zenon DEF Pairs

\* A pair is its contract and its class.
LEMMA PairFacts ==
    ASSUME NEW p \in Pairs
    PROVE  p = <<p[1], p[2]>> /\ p[1] \in Contracts /\ p[2] \in Classes
BY DEF Pairs

-----------------------------------------------------------------------------
(* Batches and the index writers *)

\* A batch is an injective function from NFTs of the class to tokens of the
\* contract.
LEMMA BatchFacts ==
    ASSUME NEW p \in Pairs, NEW b \in Batches(p[2], p[1])
    PROVE  /\ DOMAIN b \subseteq NFTUIDs
           /\ b \in [DOMAIN b -> TokenUIDs]
           /\ Injective(b)
           /\ \A y \in DOMAIN b : y[1] = p[2] /\ b[y][1] = p[1]
<1>1. PICK D \in SUBSET ({p[2]} \X NftIds) : b \in [D -> {p[1]} \X TokenIds] /\ Injective(b)
  BY Zenon DEF Batches
<1>2. DOMAIN b = D
  BY <1>1, Zenon
<1>3. p[1] \in Contracts /\ p[2] \in Classes
  BY Zenon DEF Pairs
<1>4. D \subseteq NFTUIDs
  BY <1>1, <1>3, Zenon DEF NFTUIDs
<1>5. {p[1]} \X TokenIds \subseteq TokenUIDs
  BY <1>3, Zenon DEF TokenUIDs
<1>. QED
  BY <1>1, <1>2, <1>4, <1>5

\* NftFor inverts an injective batch.
LEMMA NftForFacts ==
    ASSUME NEW b, Injective(b), NEW x \in TokensOf(b)
    PROVE  NftFor(b, x) \in DOMAIN b /\ b[NftFor(b, x)] = x
<1>1. \E y \in DOMAIN b : b[y] = x
  BY Zenon DEF TokensOf
<1>. QED
  BY <1>1, Zenon DEF NftFor

\* And it gives each NFT of the batch back for its token.
LEMMA NftForOfToken ==
    ASSUME NEW b, Injective(b), NEW y \in DOMAIN b
    PROVE  b[y] \in TokensOf(b) /\ NftFor(b, b[y]) = y
<1>1. b[y] \in TokensOf(b)
  BY Zenon DEF TokensOf
<1>2. NftFor(b, b[y]) \in DOMAIN b /\ b[NftFor(b, b[y])] = b[y]
  BY <1>1, NftForFacts, Zenon
<1>. QED
  BY <1>1, <1>2, Zenon DEF Injective

\* SetNFTPairs for a whole batch keeps the two directions inverse.
LEMMA BindKeepsInverse ==
    ASSUME NEW fw \in [TokenUIDs -> NFTUIDs \cup {None}],
           NEW rv \in [NFTUIDs -> TokenUIDs \cup {None}],
           NEW b, DOMAIN b \subseteq NFTUIDs, b \in [DOMAIN b -> TokenUIDs],
           Injective(b), InverseIndex(fw, rv), NoBindingConflict(fw, rv, b)
    PROVE  /\ BindForward(fw, b) \in [TokenUIDs -> NFTUIDs \cup {None}]
           /\ BindReverse(rv, b) \in [NFTUIDs -> TokenUIDs \cup {None}]
           /\ InverseIndex(BindForward(fw, b), BindReverse(rv, b))
<1>1. BindForward(fw, b) \in [TokenUIDs -> NFTUIDs \cup {None}]
  BY NftForFacts, Zenon DEF BindForward
<1>2. BindReverse(rv, b) \in [NFTUIDs -> TokenUIDs \cup {None}]
  BY Zenon DEF BindReverse
<1>3. ASSUME NEW x \in TokenUIDs, NEW y \in NFTUIDs
      PROVE  BindForward(fw, b)[x] = y <=> BindReverse(rv, b)[y] = x
  <2>1. CASE x \in TokensOf(b) /\ y \in DOMAIN b
    BY <2>1, NftForFacts, NftForOfToken DEF BindForward, BindReverse
  <2>2. CASE x \in TokensOf(b) /\ y \notin DOMAIN b
    <3>1. NftFor(b, x) \in DOMAIN b /\ b[NftFor(b, x)] = x
      BY <2>2, NftForFacts, Zenon
    <3>2. fw[x] \in {None, NftFor(b, x)}
      BY <3>1, Zenon DEF NoBindingConflict
    <3>3. rv[y] # x
      BY <2>2, <3>1, <3>2, AbsentFacts DEF InverseIndex
    <3>. QED
      BY <2>2, <3>1, <3>3, Zenon DEF BindForward, BindReverse
  <2>3. CASE x \notin TokensOf(b) /\ y \in DOMAIN b
    <3>1. b[y] # x /\ b[y] \in TokenUIDs
      BY <2>3, NftForOfToken, Zenon
    <3>2. rv[y] # x
      BY <2>3, <3>1, AbsentFacts, Zenon DEF NoBindingConflict
    <3>3. fw[x] # y
      BY <3>2, Zenon DEF InverseIndex
    <3>. QED
      BY <2>3, <3>1, <3>3, Zenon DEF BindForward, BindReverse
  <2>4. CASE x \notin TokensOf(b) /\ y \notin DOMAIN b
    BY <2>4, Zenon DEF BindForward, BindReverse, InverseIndex
  <2>. QED
    BY <2>1, <2>2, <2>3, <2>4, Zenon
<1>. QED
  BY <1>1, <1>2, <1>3, Zenon DEF InverseIndex

=============================================================================
