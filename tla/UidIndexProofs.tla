--------------------------- MODULE UidIndexProofs ---------------------------
(***************************************************************************)
(* Proofs about the UID index as it is spelled, for every set of           *)
(* contracts, tokens and NFTs and every store that the earlier releases    *)
(* can have left.                                                          *)
(***************************************************************************)
EXTENDS UidIndex, FiniteSetTheorems, TLAPS

\* A binding, in either direction, is of a contract and an NFT of its class.
ClassRespected ==
    /\ \A k \in Keys : forward[k] # None => forward[k] \in ClassNfts[k.c]
    /\ \A y \in Nfts : reverse[y] # None => y \in ClassNfts[reverse[y].c]

\* The NFTs with a reverse entry.
BoundNfts == {y \in Nfts : reverse[y] # None}

\* The store holds finitely many entries, whatever the id spaces are.
FiniteIndex == IsFiniteSet(ForwardKeys) /\ IsFiniteSet(BoundNfts)

XInv ==
    /\ TypeOK
    /\ ClassRespected
    /\ FiniteIndex
    /\ PruneConverges

-----------------------------------------------------------------------------
(* Spellings *)

\* The variants of a token are its keys, and the canonical one is among them.
LEMMA VariantFacts ==
    ASSUME NEW c \in Contracts, NEW t \in Tokens
    PROVE  /\ Variants(c, t) = {k \in Keys : k.c = c /\ k.t = t}
           /\ Canonical(c, t) \in Variants(c, t)
           /\ Canonical(c, t) \in Keys /\ Canonical(c, t).c = c /\ Canonical(c, t).t = t
<1>. DEFINE key(a, s) == [c |-> c, a |-> a, t |-> t, s |-> s]
<1>1. Variants(c, t) = {key(Lower, Decimal), key(Checksum, Decimal), key(Lower, Hex), key(Checksum, Hex)}
  <2>1. 1..4 = {1, 2, 3, 4}
    OBVIOUS
  <2>. QED
    BY <2>1 DEF Variants, TokenUIDKeyVariants
<1>2. ASSUME NEW k \in Keys, k.c = c, k.t = t PROVE k \in Variants(c, t)
  <2>1. k = key(k.a, k.s) /\ k.a \in {Lower, Checksum} /\ k.s \in {Decimal, Hex}
    BY <1>2, Zenon DEF Keys
  <2>. QED
    BY <1>1, <2>1, Zenon
<1>3. ASSUME NEW k \in Variants(c, t) PROVE k \in Keys /\ k.c = c /\ k.t = t
  BY <1>1, <1>3 DEF Keys
<1>4. Canonical(c, t) = key(Lower, Decimal)
  BY Zenon DEF Canonical, TokenUIDKeyVariants
<1>5. Canonical(c, t) \in Variants(c, t)
  BY <1>1, <1>4, Zenon
<1>. QED
  BY <1>2, <1>3, <1>5, Zenon

\* ResolveNFTUIDPair on a given forward index.
ResolveIn(f, c, t) ==
    LET keys == TokenUIDKeyVariants(c, t)
        found == {i \in 1..4 : f[keys[i]] # None}
    IN  IF found = {} THEN None
        ELSE f[keys[CHOOSE i \in found : \A j \in found : i <= j]]

\* A token resolves to what its first variant in the store holds, so that it
\* still does in any index that keeps this key and adds no other.
LEMMA ResolveFacts ==
    ASSUME NEW f, NEW c \in Contracts, NEW t \in Tokens
    PROVE  /\ (\A k \in Variants(c, t) : f[k] = None) => ResolveIn(f, c, t) = None
           /\ (\E k \in Variants(c, t) : f[k] # None) =>
                 \E k \in Variants(c, t) :
                    /\ f[k] # None /\ ResolveIn(f, c, t) = f[k]
                    /\ \A g : /\ g[k] = f[k]
                              /\ \A l \in Variants(c, t) : f[l] = None => g[l] = None
                              => ResolveIn(g, c, t) = f[k]
<1>. DEFINE keys == TokenUIDKeyVariants(c, t)
            found(h) == {i \in 1..4 : h[keys[i]] # None}
            least(S) == CHOOSE i \in S : \A j \in S : i <= j
<1>0. Variants(c, t) = {keys[i] : i \in 1..4}
  BY Zenon DEF Variants
<1>1. \A h : ResolveIn(h, c, t) = IF found(h) = {} THEN None ELSE h[keys[least(found(h))]]
  BY Zenon DEF ResolveIn
<1>2. ASSUME NEW S \in SUBSET (1..4), S # {}
      PROVE  least(S) \in S /\ \A j \in S : least(S) <= j
  <2>1. \E i \in S : \A j \in S : i <= j
    <3>1. CASE 1 \in S
      BY <3>1
    <3>2. CASE 1 \notin S /\ 2 \in S
      BY <3>2
    <3>3. CASE 1 \notin S /\ 2 \notin S /\ 3 \in S
      BY <3>3
    <3>4. CASE 1 \notin S /\ 2 \notin S /\ 3 \notin S
      <4>1. \A j \in S : j = 4
        BY <3>4
      <4>2. PICK i \in S : TRUE
        BY <1>2, Zenon
      <4>. QED
        BY <4>1, <4>2
    <3>. QED
      BY <3>1, <3>2, <3>3, <3>4, Zenon
  <2>. QED
    BY <2>1, Zenon
<1>3. ASSUME NEW S \in SUBSET (1..4), NEW i \in S, \A j \in S : i <= j PROVE least(S) = i
  <2>1. least(S) \in S /\ \A j \in S : least(S) <= j
    BY <1>2, <1>3, Zenon
  <2>2. least(S) <= i /\ i <= least(S) /\ least(S) \in 1..4 /\ i \in 1..4
    BY <1>3, <2>1, Zenon
  <2>. HIDE DEF least
  <2>. QED
    BY <2>2
<1>. HIDE DEF keys, least
<1>4. (\A k \in Variants(c, t) : f[k] = None) => ResolveIn(f, c, t) = None
  BY <1>0, <1>1, Zenon
<1>5. ASSUME \E k \in Variants(c, t) : f[k] # None
      PROVE  \E k \in Variants(c, t) :
                    /\ f[k] # None /\ ResolveIn(f, c, t) = f[k]
                    /\ \A g : /\ g[k] = f[k]
                              /\ \A l \in Variants(c, t) : f[l] = None => g[l] = None
                              => ResolveIn(g, c, t) = f[k]
  <2>1. found(f) # {}
    BY <1>0, <1>5, Zenon
  <2>. DEFINE i == least(found(f))
  <2>2. i \in found(f) /\ \A j \in found(f) : i <= j
    BY <1>2, <2>1, Zenon
  <2>. HIDE DEF i
  <2>3. keys[i] \in Variants(c, t) /\ f[keys[i]] # None
    BY <1>0, <2>2, Zenon
  <2>4. ResolveIn(f, c, t) = f[keys[i]]
    BY <1>1, <2>1, Zenon DEF i
  <2>5. ASSUME NEW g, g[keys[i]] = f[keys[i]], \A l \in Variants(c, t) : f[l] = None => g[l] = None
        PROVE  ResolveIn(g, c, t) = f[keys[i]]
    <3>1. i \in found(g)
      BY <2>2, <2>3, <2>5, Zenon
    <3>2. \A j \in found(g) : j \in found(f)
      BY <1>0, <2>5, Zenon
    <3>3. least(found(g)) = i
      BY <1>3, <2>2, <3>1, <3>2, Zenon
    <3>. QED
      BY <1>1, <2>5, <3>1, <3>3, Zenon
  <2>. QED
    BY <2>3, <2>4, <2>5, Zenon
<1>. QED
  BY <1>4, <1>5, Zenon

-----------------------------------------------------------------------------
(* The pass *)

\* Nothing to delete: a key that holds an NFT whose own entry spells the same
\* token otherwise is the key of some other entry.
Settled(f, r) ==
    \A k \in Keys, y \in Nfts :
        f[k] = y /\ r[y] \notin {None, k} /\ SameToken(k, r[y]) => \E w \in Nfts : r[w] = k

\* Deleted is empty just then.
LEMMA DeletedFacts ==
    /\ Deleted = {} <=> Settled(forward, reverse)
    /\ Deleted' = {} <=> Settled(forward', reverse')
<1>1. Deleted = {} <=> Settled(forward, reverse)
  BY NftsAssumption, KeysAssumption, Zenon DEF Deleted, Settled, ForwardKeys, Authorities, Claimants
<1>2. Deleted' = {} <=> Settled(forward', reverse')
  BY NftsAssumption, KeysAssumption DEF Deleted, Settled, ForwardKeys, Authorities, Claimants
<1>. QED
  BY <1>1, <1>2, Zenon

\* The empty store.
LEMMA InitXInv == Init => XInv
<1>. SUFFICES ASSUME Init PROVE XInv
  BY Zenon
<1>1. TypeOK /\ ClassRespected /\ PruneConverges
  BY Zenon DEF Init, TypeOK, ClassRespected, PruneConverges
<1>2. ForwardKeys = {} /\ BoundNfts = {}
  BY Zenon DEF Init, ForwardKeys, BoundNfts
<1>. QED
  BY <1>1, <1>2, FS_EmptySet, Zenon DEF XInv, FiniteIndex

\* The writer of the earlier releases.
LEMMA LegacySetStep ==
    ASSUME XInv, NEW k \in Keys, NEW y \in ClassNfts[k.c], LegacySetNFTPairs(k, y)
    PROVE  XInv'
<1>1. TypeOK /\ ClassRespected /\ FiniteIndex
  BY Zenon DEF XInv
<1>2. y \in Nfts
  BY NftsAssumption, Zenon DEF Keys
<1>3. /\ release = "legacy" /\ release' = release
      /\ forward' = [forward EXCEPT ![k] = y] /\ reverse' = [reverse EXCEPT ![y] = k]
  BY Zenon DEF LegacySetNFTPairs
<1>4. TypeOK' /\ PruneConverges'
  BY <1>1, <1>2, <1>3, Zenon DEF TypeOK, PruneConverges
<1>5. ClassRespected'
  BY <1>1, <1>2, <1>3, Zenon DEF TypeOK, ClassRespected
<1>6. ForwardKeys' = ForwardKeys \cup {k} /\ BoundNfts' = BoundNfts \cup {y}
  BY <1>1, <1>2, <1>3, NftsAssumption, KeysAssumption DEF TypeOK, ForwardKeys, BoundNfts
<1>7. FiniteIndex'
  BY <1>1, <1>6, FS_AddElement, Zenon DEF FiniteIndex
<1>. QED
  BY <1>4, <1>5, <1>7, Zenon DEF XInv

\* A step that only removes entries keeps the index finite and in its classes.
LEMMA ShrinkStep ==
    ASSUME TypeOK, ClassRespected, FiniteIndex, TypeOK',
           \A k \in Keys : forward'[k] \in {None, forward[k]},
           \A y \in Nfts : reverse'[y] \in {None, reverse[y]}
    PROVE  ClassRespected' /\ FiniteIndex'
<1>1. ClassRespected'
  BY Zenon DEF ClassRespected
<1>2. ForwardKeys' \in SUBSET ForwardKeys /\ BoundNfts' \in SUBSET BoundNfts
  BY Zenon DEF ForwardKeys, BoundNfts
<1>. QED
  BY <1>1, <1>2, FS_Subset, Zenon DEF FiniteIndex

\* The deletion of the earlier releases, by the spelling it was given.
LEMMA LegacyDeleteStep ==
    ASSUME XInv, NEW y \in Nfts, LegacyDelete(y)
    PROVE  XInv'
<1>1. TypeOK /\ ClassRespected /\ FiniteIndex
  BY Zenon DEF XInv
<1>2. /\ release = "legacy" /\ release' = release /\ reverse[y] # None
      /\ forward' = [forward EXCEPT ![reverse[y]] = None] /\ reverse' = [reverse EXCEPT ![y] = None]
  BY Zenon DEF LegacyDelete
<1>3. TypeOK' /\ PruneConverges'
  BY <1>1, <1>2, Zenon DEF TypeOK, PruneConverges
<1>4. /\ \A k \in Keys : forward'[k] \in {None, forward[k]}
      /\ \A z \in Nfts : reverse'[z] \in {None, reverse[z]}
  BY <1>1, <1>2, Zenon DEF TypeOK
<1>. QED
  BY <1>1, <1>3, <1>4, ShrinkStep, Zenon DEF XInv

\* The pass leaves nothing of what it would delete.
LEMMA PruneStep ==
    ASSUME XInv, PruneDuplicateUIDIndexEntries
    PROVE  XInv' /\ Deleted' = {}
<1>1. TypeOK /\ ClassRespected /\ FiniteIndex
  BY Zenon DEF XInv
<1>2. /\ release' = "v0.4.1" /\ UNCHANGED reverse
      /\ forward' = [k \in Keys |-> IF k \in Deleted THEN None ELSE forward[k]]
  BY Zenon DEF PruneDuplicateUIDIndexEntries
<1>3. TypeOK'
  BY <1>1, <1>2, Zenon DEF TypeOK
<1>4. /\ \A k \in Keys : forward'[k] \in {None, forward[k]}
      /\ \A z \in Nfts : reverse'[z] \in {None, reverse[z]}
  BY <1>2, Zenon
<1>5. Settled(forward', reverse')
  BY <1>2, NftsAssumption, KeysAssumption, Zenon
     DEF Settled, Deleted, ForwardKeys, Authorities, Claimants
<1>6. Deleted' = {}
  BY <1>5, DeletedFacts, Zenon
<1>. QED
  BY <1>1, <1>3, <1>4, <1>6, ShrinkStep, Zenon DEF XInv, PruneConverges

-----------------------------------------------------------------------------
(* The present writers *)

\* SetNFTPairs leaves one spelling of the token, and takes no key that another
\* entry names.
LEMMA SetStep ==
    ASSUME XInv, NEW c \in Contracts, NEW t \in Tokens, NEW s \in {Decimal, Hex},
           NEW y \in ClassNfts[c], SetNFTPairs(c, t, s, y)
    PROVE  XInv'
<1>1. TypeOK /\ ClassRespected /\ FiniteIndex /\ PruneConverges
  BY Zenon DEF XInv
<1>2. y \in Nfts
  BY NftsAssumption, Zenon
<1>. DEFINE can == Canonical(c, t)
<1>3. /\ release = "v0.4.1" /\ release' = release
      /\ reverse[y] # None => SameToken(reverse[y], can)
      /\ forward' = [k \in Keys |-> IF k = can THEN y
                                    ELSE IF k \in Variants(c, t) THEN None ELSE forward[k]]
      /\ reverse' = [reverse EXCEPT ![y] = can]
  BY Zenon DEF SetNFTPairs
<1>4. /\ Variants(c, t) = {k \in Keys : k.c = c /\ k.t = t} /\ can \in Variants(c, t)
      /\ can \in Keys /\ can.c = c /\ can.t = t
  BY VariantFacts, Zenon
<1>. HIDE DEF can
<1>5. TypeOK'
  BY <1>1, <1>2, <1>3, <1>4, Zenon DEF TypeOK
<1>6. ClassRespected'
  BY <1>1, <1>2, <1>3, <1>4, Zenon DEF TypeOK, ClassRespected
<1>7. ForwardKeys' \in SUBSET (ForwardKeys \cup {can}) /\ BoundNfts' = BoundNfts \cup {y}
  BY <1>1, <1>2, <1>3, <1>4, KeysAssumption, Zenon DEF TypeOK, ForwardKeys, BoundNfts
<1>8. FiniteIndex'
  BY <1>1, <1>7, FS_AddElement, FS_Subset, Zenon DEF FiniteIndex
<1>9. Settled(forward, reverse)
  BY <1>1, <1>3, DeletedFacts, Zenon DEF PruneConverges
<1>10. Settled(forward', reverse')
  <2>. SUFFICES ASSUME NEW k \in Keys, NEW z \in Nfts, forward'[k] = z, reverse'[z] \notin {None, k},
                       SameToken(k, reverse'[z])
                PROVE  \E w \in Nfts : reverse'[w] = k
    BY Zenon DEF Settled
  <2>1. z # None
    BY NftsAssumption, Zenon
  <2>2. CASE z = y
    <3>1. k # can /\ SameToken(k, can)
      BY <1>1, <1>2, <1>3, <2>2, Zenon DEF TypeOK
    <3>2. k \in Variants(c, t)
      BY <1>4, <3>1, Zenon DEF SameToken
    <3>. QED
      BY <1>3, <2>1, <3>1, <3>2, Zenon
  <2>3. CASE z # y
    <3>1. k # can /\ k \notin Variants(c, t) /\ forward[k] = z /\ reverse'[z] = reverse[z]
      BY <1>1, <1>3, <2>1, <2>3, Zenon DEF TypeOK
    <3>2. PICK w \in Nfts : reverse[w] = k
      BY <1>9, <3>1, Zenon DEF Settled
    <3>3. w # y
      <4>. SUFFICES ASSUME w = y PROVE FALSE
        BY Zenon
      <4>1. SameToken(k, can)
        BY <1>3, <3>2, KeysAssumption, Zenon
      <4>. QED
        BY <1>4, <3>1, <4>1, Zenon DEF SameToken
    <3>. QED
      BY <1>1, <1>3, <3>2, <3>3, Zenon DEF TypeOK
  <2>. QED
    BY <2>2, <2>3, Zenon
<1>. QED
  BY <1>5, <1>6, <1>8, <1>10, DeletedFacts, Zenon DEF XInv, PruneConverges

\* DeleteNFTPairByNFTID and DeleteNFTPairByTokenID take every spelling.
LEMMA DeleteStep ==
    ASSUME XInv, NEW y \in Nfts, DeleteNFTPair(y)
    PROVE  XInv'
<1>1. TypeOK /\ ClassRespected /\ FiniteIndex /\ PruneConverges
  BY Zenon DEF XInv
<1>2. /\ release = "v0.4.1" /\ release' = release /\ reverse[y] \in Keys
      /\ reverse' = [reverse EXCEPT ![y] = None]
      /\ forward' = [k \in Keys |-> IF SameToken(k, reverse[y]) THEN None ELSE forward[k]]
  BY <1>1, Zenon DEF DeleteNFTPair, TypeOK
<1>3. TypeOK'
  BY <1>1, <1>2, Zenon DEF TypeOK
<1>4. /\ \A k \in Keys : forward'[k] \in {None, forward[k]}
      /\ \A z \in Nfts : reverse'[z] \in {None, reverse[z]}
  BY <1>1, <1>2, Zenon DEF TypeOK
<1>5. Settled(forward, reverse)
  BY <1>1, <1>2, DeletedFacts, Zenon DEF PruneConverges
<1>6. Settled(forward', reverse')
  <2>. SUFFICES ASSUME NEW k \in Keys, NEW z \in Nfts, forward'[k] = z, reverse'[z] \notin {None, k},
                       SameToken(k, reverse'[z])
                PROVE  \E w \in Nfts : reverse'[w] = k
    BY Zenon DEF Settled
  <2>1. forward[k] = z /\ ~SameToken(k, reverse[y]) /\ reverse'[z] = reverse[z]
    BY <1>2, <1>4, NftsAssumption, Zenon
  <2>2. PICK w \in Nfts : reverse[w] = k
    BY <1>5, <2>1, Zenon DEF Settled
  <2>3. w # y
    BY <2>1, <2>2, Zenon DEF SameToken
  <2>. QED
    BY <1>1, <1>2, <2>2, <2>3, Zenon DEF TypeOK
<1>. QED
  BY <1>1, <1>3, <1>4, <1>6, ShrinkStep, DeletedFacts, Zenon DEF XInv, PruneConverges

\* What DeletePairPerTokenState removes: the keys of the contract, every
\* reverse entry of its class, and the keys that entries of the class not
\* bound through the contract name.
LEMMA PurgeFacts ==
    ASSUME XInv, NEW c \in Contracts, DeletePairPerTokenState(c)
    PROVE  /\ release = "v0.4.1" /\ release' = release
           /\ \A k \in Keys : \/ forward'[k] = forward[k] /\ k.c # c
                              \/ forward'[k] = None /\ (k.c = c \/ \E y \in ClassNfts[c] : reverse[y] = k)
           /\ \A y \in ClassNfts[c] : reverse'[y] = None
           /\ \A y \in Nfts \ ClassNfts[c] : reverse'[y] = reverse[y]
           /\ TypeOK'
<1>1. TypeOK /\ ClassRespected
  BY Zenon DEF XInv
<1>. DEFINE bound == {forward[k] : k \in {k \in Keys : k.c = c}}
            rest == {y \in ClassNfts[c] \ bound : reverse[y] # None}
<1>2. /\ release = "v0.4.1" /\ release' = release
      /\ forward' = [k \in Keys |->
                       IF k.c = c \/ \E y \in rest : reverse[y] = k THEN None ELSE forward[k]]
      /\ reverse' = [y \in Nfts |-> IF y \in bound \cup rest THEN None ELSE reverse[y]]
  BY Zenon DEF DeletePairPerTokenState
<1>3. \A y \in bound : y = None \/ y \in ClassNfts[c]
  BY <1>1, Zenon DEF ClassRespected
<1>4. \A y \in Nfts : y \in bound \cup rest => y \in ClassNfts[c]
  BY <1>3, NftsAssumption, Zenon
<1>5. \A y \in ClassNfts[c] : y \in Nfts /\ (y \in bound \cup rest \/ reverse[y] = None)
  BY NftsAssumption, Zenon
<1>6. \A y \in rest : y \in ClassNfts[c]
  BY Zenon
<1>. HIDE DEF bound, rest
<1>7. \A y \in ClassNfts[c] : reverse'[y] = None
  BY <1>2, <1>5, Zenon
<1>8. \A y \in Nfts \ ClassNfts[c] : reverse'[y] = reverse[y]
  BY <1>2, <1>4, Zenon
<1>9. \A k \in Keys : \/ forward'[k] = forward[k] /\ k.c # c
                      \/ forward'[k] = None /\ (k.c = c \/ \E y \in ClassNfts[c] : reverse[y] = k)
  BY <1>2, <1>6, Zenon
<1>10. TypeOK'
  BY <1>1, <1>2, Zenon DEF TypeOK
<1>. QED
  BY <1>2, <1>7, <1>8, <1>9, <1>10, Zenon

\* The purge of a pair clears whole classes, so no claim outlives the entry it
\* competes with.
LEMMA PurgeStep ==
    ASSUME XInv, NEW c \in Contracts, DeletePairPerTokenState(c)
    PROVE  XInv'
<1>1. TypeOK /\ ClassRespected /\ FiniteIndex /\ PruneConverges
  BY Zenon DEF XInv
<1>2. TypeOK' /\ release = "v0.4.1" /\ release' = release
  BY PurgeFacts, Zenon
<1>3. /\ \A k \in Keys : forward'[k] \in {None, forward[k]}
      /\ \A z \in Nfts : reverse'[z] \in {None, reverse[z]}
  BY PurgeFacts, Zenon
<1>4. Settled(forward, reverse)
  BY <1>1, <1>2, DeletedFacts, Zenon DEF PruneConverges
<1>5. Settled(forward', reverse')
  <2>. SUFFICES ASSUME NEW k \in Keys, NEW z \in Nfts, forward'[k] = z, reverse'[z] \notin {None, k},
                       SameToken(k, reverse'[z])
                PROVE  \E w \in Nfts : reverse'[w] = k
    BY Zenon DEF Settled
  <2>1. forward[k] = z /\ reverse'[z] = reverse[z] /\ z \notin ClassNfts[c]
    BY <1>3, PurgeFacts, NftsAssumption, Zenon
  <2>2. PICK w \in Nfts : reverse[w] = k
    BY <1>4, <2>1, Zenon DEF Settled
  <2>3. z \in ClassNfts[k.c] /\ w \in ClassNfts[k.c] /\ k.c \in Contracts
    BY <1>1, <2>1, <2>2, NftsAssumption, KeysAssumption DEF ClassRespected, Keys
  <2>4. w \notin ClassNfts[c]
    BY <2>1, <2>3, NftsAssumption, Zenon
  <2>. QED
    BY <2>2, <2>4, PurgeFacts, Zenon
<1>. QED
  BY <1>1, <1>2, <1>3, <1>5, ShrinkStep, DeletedFacts, Zenon DEF XInv, PruneConverges

-----------------------------------------------------------------------------
(* Genesis *)

\* The restart keeps the matched bindings of registered pairs and nothing else.
LEMMA RestartFacts ==
    ASSUME TypeOK, NEW registered \in SUBSET Contracts, Restart(registered)
    PROVE  /\ release = "v0.4.1" /\ release' = release /\ TypeOK'
           /\ \A k \in Keys : \/ forward'[k] = None
                              \/ forward'[k] = forward[k] /\ forward[k] \in Nfts /\ reverse[forward[k]] = k
           /\ \A y \in Nfts : reverse'[y] \in {None, reverse[y]}
           /\ \A k \in Keys : /\ forward[k] \in Nfts /\ reverse[forward[k]] = k
                              /\ UIDBelongsToRegisteredPair(k, forward[k], registered)
                              => forward'[k] = forward[k]
           /\ \A k \in Keys : k.c \notin registered => forward'[k] = None
<1>. DEFINE E == {y \in Matched : UIDBelongsToRegisteredPair(reverse[y], y, registered)}
            uids == ExportNFTUIDPairs(registered)
<1>1. /\ release = "v0.4.1" /\ release' = release
      /\ forward' = [k \in Keys |-> IF \E p \in uids : p[1] = k
                                    THEN (CHOOSE p \in uids : p[1] = k)[2] ELSE None]
      /\ reverse' = [y \in Nfts |-> IF \E p \in uids : p[2] = y
                                    THEN (CHOOSE p \in uids : p[2] = y)[1] ELSE None]
  BY Zenon DEF Restart, ImportPerTokenState
<1>2. uids = {<<reverse[y], y>> : y \in E}
  BY Zenon DEF ExportNFTUIDPairs
<1>3. \A y \in E : /\ y \in Nfts /\ reverse[y] \in Keys /\ forward[reverse[y]] = y
                   /\ reverse[y].c \in registered
  BY Zenon DEF Matched, TypeOK, UIDBelongsToRegisteredPair
<1>4. \A y \in Nfts : reverse[y] # None /\ forward[reverse[y]] = y
                      /\ UIDBelongsToRegisteredPair(reverse[y], y, registered) => y \in E
  BY Zenon DEF Matched
<1>. HIDE DEF uids, E
<1>5. ASSUME NEW k \in Keys
      PROVE  \/ forward'[k] = None /\ ~\E y \in E : reverse[y] = k
             \/ \E y \in E : reverse[y] = k /\ forward'[k] = y
  <2>1. CASE \E p \in uids : p[1] = k
    <3>. DEFINE q == CHOOSE p \in uids : p[1] = k
    <3>1. q \in uids /\ q[1] = k
      BY <2>1, Zenon
    <3>2. forward'[k] = q[2]
      BY <1>1, <2>1, Zenon
    <3>. HIDE DEF q
    <3>3. PICK y \in E : q = <<reverse[y], y>>
      BY <1>2, <3>1, Zenon
    <3>. QED
      BY <3>1, <3>2, <3>3, Zenon
  <2>2. CASE ~\E p \in uids : p[1] = k
    <3>1. ASSUME NEW y \in E, reverse[y] = k PROVE FALSE
      <4>1. <<reverse[y], y>> \in uids /\ <<reverse[y], y>>[1] = k
        BY <1>2, <3>1, Zenon
      <4>. QED
        BY <2>2, <4>1, Zenon
    <3>. QED
      BY <1>1, <2>2, <3>1, Zenon
  <2>. QED
    BY <2>1, <2>2, Zenon
<1>6. ASSUME NEW y \in Nfts PROVE reverse'[y] \in {None, reverse[y]}
  <2>1. CASE \E p \in uids : p[2] = y
    <3>. DEFINE q == CHOOSE p \in uids : p[2] = y
    <3>1. q \in uids /\ q[2] = y
      BY <2>1, Zenon
    <3>2. reverse'[y] = q[1]
      BY <1>1, <2>1, Zenon
    <3>. HIDE DEF q
    <3>3. PICK z \in E : q = <<reverse[z], z>>
      BY <1>2, <3>1, Zenon
    <3>. QED
      BY <3>1, <3>2, <3>3, Zenon
  <2>2. CASE ~\E p \in uids : p[2] = y
    BY <1>1, <2>2, Zenon
  <2>. QED
    BY <2>1, <2>2, Zenon
<1>7. \A k \in Keys : \/ forward'[k] = None
                      \/ forward'[k] = forward[k] /\ forward[k] \in Nfts /\ reverse[forward[k]] = k
  BY <1>3, <1>5, Zenon
<1>8. ASSUME NEW k \in Keys, forward[k] \in Nfts, reverse[forward[k]] = k,
             UIDBelongsToRegisteredPair(k, forward[k], registered)
      PROVE  forward'[k] = forward[k]
  <2>1. forward[k] \in E
    BY <1>4, <1>8, KeysAssumption, Zenon
  <2>. QED
    BY <1>5, <1>3, <1>8, <2>1, Zenon
<1>9. \A k \in Keys : k.c \notin registered => forward'[k] = None
  BY <1>3, <1>5, Zenon
<1>10. TypeOK'
  <2>1. \A k \in Keys : forward'[k] \in Nfts \cup {None}
    BY <1>7, Zenon
  <2>2. \A y \in Nfts : reverse'[y] \in Keys \cup {None}
    BY <1>6, Zenon DEF TypeOK
  <2>3. DOMAIN forward' = Keys /\ DOMAIN reverse' = Nfts /\ forward' = [k \in Keys |-> forward'[k]]
        /\ reverse' = [y \in Nfts |-> reverse'[y]]
    BY <1>1, Zenon
  <2>4. forward' \in [Keys -> Nfts \cup {None}]
    BY <2>1, <2>3, Zenon
  <2>5. reverse' \in [Nfts -> Keys \cup {None}]
    BY <2>2, <2>3, Zenon
  <2>. QED
    BY <1>1, <2>4, <2>5, Zenon DEF TypeOK
<1>. QED
  BY <1>1, <1>6, <1>7, <1>8, <1>9, <1>10, Zenon

\* After a restart every key is named by the NFT it holds.
LEMMA RestartStep ==
    ASSUME XInv, NEW registered \in SUBSET Contracts, Restart(registered)
    PROVE  XInv'
<1>1. TypeOK /\ ClassRespected /\ FiniteIndex
  BY Zenon DEF XInv
<1>2. /\ TypeOK'
      /\ \A k \in Keys : \/ forward'[k] = None
                         \/ forward'[k] = forward[k] /\ forward[k] \in Nfts /\ reverse[forward[k]] = k
      /\ \A y \in Nfts : reverse'[y] \in {None, reverse[y]}
  BY <1>1, RestartFacts, Zenon
<1>3. \A k \in Keys : forward'[k] \in {None, forward[k]}
  BY <1>2, Zenon
<1>4. Settled(forward', reverse')
  BY <1>2, NftsAssumption, Zenon DEF Settled
<1>. QED
  BY <1>1, <1>2, <1>3, <1>4, ShrinkStep, DeletedFacts, Zenon DEF XInv, PruneConverges

\* XInv is inductive.
LEMMA NextXInv ==
    ASSUME XInv, [Next]_vars
    PROVE  XInv'
<1>1. CASE UNCHANGED vars
  BY <1>1, Zenon DEF vars, XInv, TypeOK, ClassRespected, FiniteIndex, BoundNfts, PruneConverges,
     Deleted,
     ForwardKeys, Authorities, Claimants
<1>2. CASE Next
  BY <1>2, LegacySetStep, LegacyDeleteStep, PruneStep, SetStep, DeleteStep, PurgeStep, RestartStep,
     Zenon
     DEF Next
<1>. QED
  BY <1>1, <1>2, Zenon

-----------------------------------------------------------------------------
(* Theorems *)

\* Under every release the index is finite and keeps to the classes of its
\* contracts, whatever spellings it holds.
THEOREM IndexInvariant == Spec => []XInv
BY InitXInv, NextXInv, PTL DEF Spec

\* PruneDuplicateUIDIndexEntries may be replayed at any later time: it finds
\* nothing to delete.
THEOREM PruneFindsNothingAgain == Spec => []PruneConverges
<1>1. XInv => PruneConverges
  BY Zenon DEF XInv
<1>. QED
  BY <1>1, IndexInvariant, PTL

\* The pass keeps the key of a sound binding, so that its token still resolves
\* to the NFT.
THEOREM SoundBindingsAreKept == Spec => PruneKeepsSoundBindings
<1>1. ASSUME TypeOK, PruneDuplicateUIDIndexEntries, NEW y \in Nfts, reverse[y] # None,
             forward[reverse[y]] = y,
             \A l \in Keys : SameToken(reverse[y], l) => forward[l] \in {None, y}
      PROVE  forward'[reverse[y]] = y /\ ResolveNFTUIDPair(reverse[y].c, reverse[y].t)' = y
  <2>. DEFINE k == reverse[y]
  <2>1. k \in Keys /\ k.c \in Contracts /\ k.t \in Tokens /\ forward[k] = y
    BY <1>1, Zenon DEF TypeOK, Keys
  <2>2. k \in Authorities /\ k \notin Deleted
    BY <1>1, Zenon DEF Authorities, Deleted
  <2>. HIDE DEF k
  <2>3. /\ forward' = [l \in Keys |-> IF l \in Deleted THEN None ELSE forward[l]]
        /\ UNCHANGED reverse
    BY <1>1, Zenon DEF PruneDuplicateUIDIndexEntries
  <2>4. forward'[k] = y
    BY <2>1, <2>2, <2>3, Zenon
  <2>5. k \in Variants(k.c, k.t) /\ \A l \in Variants(k.c, k.t) : forward'[l] \in {None, y}
    <3>1. Variants(k.c, k.t) = {l \in Keys : l.c = k.c /\ l.t = k.t}
      BY <2>1, VariantFacts, Zenon
    <3>2. \A l \in Keys : SameToken(k, l) => forward[l] \in {None, y}
      BY <1>1, Zenon DEF k
    <3>. QED
      BY <2>1, <2>3, <3>1, <3>2, Zenon DEF SameToken
  <2>6. ResolveIn(forward', k.c, k.t) = y
    BY <2>1, <2>4, <2>5, ResolveFacts, NftsAssumption
  <2>7. ResolveNFTUIDPair(reverse[y].c, reverse[y].t)' = ResolveIn(forward', k.c, k.t)
    BY <2>3 DEF ResolveNFTUIDPair, ResolveIn, k
  <2>. QED
    BY <2>4, <2>6, <2>7, Zenon DEF k
<1>2. XInv /\ [Next]_vars =>
        [PruneDuplicateUIDIndexEntries =>
           \A y \in Nfts :
              LET k == reverse[y]
              IN  /\ k # None
                  /\ forward[k] = y
                  /\ \A l \in Keys : SameToken(k, l) => forward[l] \in {None, y}
                  => forward'[k] = y /\ ResolveNFTUIDPair(k.c, k.t)' = y]_vars
  <2>. SUFFICES ASSUME XInv, PruneDuplicateUIDIndexEntries, NEW y \in Nfts, reverse[y] # None,
                       forward[reverse[y]] = y,
                       \A l \in Keys : SameToken(reverse[y], l) => forward[l] \in {None, y}
                PROVE  /\ forward'[reverse[y]] = y
                       /\ ResolveNFTUIDPair(reverse[y].c, reverse[y].t)' = y
    BY Zenon
  <2>. QED
    BY <1>1, Zenon DEF XInv
<1>. QED
  BY <1>2, IndexInvariant, PTL DEF Spec, PruneKeepsSoundBindings

\* ResolveNFTUIDPair reads the variants of the token, before and after a step.
LEMMA ResolveStep ==
    ASSUME NEW c \in Contracts, NEW t \in Tokens
    PROVE  /\ ResolveNFTUIDPair(c, t) = ResolveIn(forward, c, t)
           /\ ResolveNFTUIDPair(c, t)' = ResolveIn(forward', c, t)
           /\ (\A k \in Variants(c, t) : forward'[k] = forward[k])
                => ResolveNFTUIDPair(c, t)' = ResolveNFTUIDPair(c, t)
           /\ (\A k \in Variants(c, t) : forward'[k] = None) => ResolveNFTUIDPair(c, t)' = None
<1>1. /\ ResolveNFTUIDPair(c, t) = ResolveIn(forward, c, t)
      /\ ResolveNFTUIDPair(c, t)' = ResolveIn(forward', c, t)
  BY Zenon DEF ResolveNFTUIDPair, ResolveIn
<1>2. ASSUME \A k \in Variants(c, t) : forward'[k] = forward[k]
      PROVE  ResolveIn(forward', c, t) = ResolveIn(forward, c, t)
  <2>1. CASE \A k \in Variants(c, t) : forward[k] = None
    <3>1. \A k \in Variants(c, t) : forward'[k] = None
      BY <1>2, <2>1, Zenon
    <3>. QED
      BY <2>1, <3>1, ResolveFacts, Zenon
  <2>2. CASE \E k \in Variants(c, t) : forward[k] # None
    BY <1>2, <2>2, ResolveFacts
  <2>. QED
    BY <2>1, <2>2, Zenon
<1>3. (\A k \in Variants(c, t) : forward'[k] = None) => ResolveIn(forward', c, t) = None
  BY ResolveFacts, Zenon
<1>. QED
  BY <1>1, <1>2, <1>3, Zenon

\* No writer of the present code makes a token resolve to another NFT: what can
\* do so drops an entry that the store inherited from the earlier releases.
THEOREM BindingsAreNotRedirected == Spec => BindingNotRedirected
<1>1. ASSUME XInv, [Next]_vars, release = "v0.4.1", NEW c \in Contracts, NEW t \in Tokens,
             ResolveNFTUIDPair(c, t) # None,
             ~\E d \in Contracts \ {c} : \E y \in ClassNfts[d] :
                 reverse[y] \in Variants(c, t) /\ DeletePairPerTokenState(d)
      PROVE  \/ ResolveNFTUIDPair(c, t)' \in {None, ResolveNFTUIDPair(c, t)}
             \/ \E k \in Variants(c, t) : /\ <<"forward_without_reverse", k>> \in ExportIssues(Contracts)
                                          /\ forward'[k] = None
  <2>0. /\ TypeOK /\ ClassRespected /\ Deleted = {}
        /\ Variants(c, t) = {k \in Keys : k.c = c /\ k.t = t}
    BY <1>1, VariantFacts, Zenon DEF XInv, PruneConverges
  <2>. DEFINE Same == \A k \in Variants(c, t) : forward'[k] = forward[k]
              Gone == \A k \in Variants(c, t) : forward'[k] = None
  <2>1. ASSUME Same \/ Gone PROVE ResolveNFTUIDPair(c, t)' \in {None, ResolveNFTUIDPair(c, t)}
    BY <2>1, ResolveStep, Zenon
  <2>2. CASE UNCHANGED vars
    BY <2>1, <2>2, Zenon DEF vars
  <2>3. CASE PruneDuplicateUIDIndexEntries
    <3>1. Same
      BY <2>0, <2>3, Zenon DEF PruneDuplicateUIDIndexEntries
    <3>. QED
      BY <2>1, <3>1, Zenon
  <2>4. ASSUME NEW d \in Contracts, NEW u \in Tokens, NEW s \in {Decimal, Hex}, NEW y \in ClassNfts[d],
               SetNFTPairs(d, u, s, y)
        PROVE  ResolveNFTUIDPair(c, t)' \in {None, ResolveNFTUIDPair(c, t)}
    <3>1. /\ Variants(d, u) = {k \in Keys : k.c = d /\ k.t = u} /\ Canonical(d, u) \in Variants(d, u)
          /\ y # None
      BY VariantFacts, NftsAssumption
    <3>2. /\ \A k \in Variants(d, u) : forward[k] \in {None, y}
          /\ forward' = [k \in Keys |-> IF k = Canonical(d, u) THEN y
                                        ELSE IF k \in Variants(d, u) THEN None ELSE forward[k]]
      BY <2>4, Zenon DEF SetNFTPairs
    <3>3. CASE d = c /\ u = t
      <4>1. ResolveIn(forward, c, t) = y
        <5>1. ResolveIn(forward, c, t) # None
          BY <1>1, ResolveStep, Zenon
        <5>2. PICK k \in Variants(c, t) : ResolveIn(forward, c, t) = forward[k]
          BY <5>1, ResolveFacts, Zenon
        <5>. QED
          BY <3>2, <3>3, <5>1, <5>2, Zenon
      <4>2. \A k \in Variants(c, t) : forward'[k] \in {None, y}
        BY <2>0, <3>2, <3>3, Zenon
      <4>3. ResolveIn(forward', c, t) \in {None, y}
        BY <4>2, ResolveFacts, Zenon
      <4>. QED
        BY <4>1, <4>3, ResolveStep, Zenon
    <3>4. CASE ~(d = c /\ u = t)
      <4>1. Same
        BY <2>0, <3>1, <3>2, <3>4, Zenon
      <4>. QED
        BY <2>1, <4>1, Zenon
    <3>. QED
      BY <3>3, <3>4, Zenon
  <2>5. ASSUME NEW y \in Nfts, DeleteNFTPair(y)
        PROVE  ResolveNFTUIDPair(c, t)' \in {None, ResolveNFTUIDPair(c, t)}
    <3>1. forward' = [k \in Keys |-> IF SameToken(k, reverse[y]) THEN None ELSE forward[k]]
      BY <2>5, Zenon DEF DeleteNFTPair
    <3>2. Same \/ Gone
      BY <2>0, <3>1, Zenon DEF SameToken
    <3>. QED
      BY <2>1, <3>2, Zenon
  <2>6. ASSUME NEW d \in Contracts, DeletePairPerTokenState(d)
        PROVE  ResolveNFTUIDPair(c, t)' \in {None, ResolveNFTUIDPair(c, t)}
    <3>1. CASE d = c
      <4>1. Gone
        BY <1>1, <2>0, <2>6, <3>1, PurgeFacts, Zenon
      <4>. QED
        BY <2>1, <4>1, Zenon
    <3>2. CASE d # c
      <4>1. \A y \in ClassNfts[d] : reverse[y] \notin Variants(c, t)
        BY <1>1, <2>6, <3>2, Zenon
      <4>2. Same
        BY <1>1, <2>0, <2>6, <3>2, <4>1, PurgeFacts
      <4>. QED
        BY <2>1, <4>2, Zenon
    <3>. QED
      BY <3>1, <3>2, Zenon
  <2>7. ASSUME NEW registered \in SUBSET Contracts, Restart(registered)
        PROVE  \/ ResolveNFTUIDPair(c, t)' \in {None, ResolveNFTUIDPair(c, t)}
               \/ \E k \in Variants(c, t) :
                     /\ <<"forward_without_reverse", k>> \in ExportIssues(Contracts)
                     /\ forward'[k] = None
    <3>1. CASE c \notin registered
      <4>1. Gone
        BY <2>0, <2>7, <3>1, RestartFacts, Zenon
      <4>. QED
        BY <2>1, <4>1, Zenon
    <3>2. CASE c \in registered
      <4>1. PICK k \in Variants(c, t) :
               /\ forward[k] # None /\ ResolveIn(forward, c, t) = forward[k]
               /\ \A g : /\ g[k] = forward[k]
                         /\ \A l \in Variants(c, t) : forward[l] = None => g[l] = None
                         => ResolveIn(g, c, t) = forward[k]
        <5>1. \E k \in Variants(c, t) : forward[k] # None
          BY <1>1, ResolveStep, ResolveFacts, Zenon
        <5>. QED
          BY <5>1, ResolveFacts, Zenon
      <4>2. k \in Keys /\ k.c = c /\ forward[k] \in Nfts
        BY <2>0, <4>1, Zenon DEF TypeOK
      <4>3. CASE reverse[forward[k]] = k
        <5>1. UIDBelongsToRegisteredPair(k, forward[k], registered)
          BY <2>0, <3>2, <4>2, NftsAssumption, Zenon DEF UIDBelongsToRegisteredPair, ClassRespected
        <5>2. forward'[k] = forward[k]
          BY <2>0, <2>7, <4>2, <4>3, <5>1, RestartFacts, Zenon
        <5>3. \A l \in Variants(c, t) : forward[l] = None => forward'[l] = None
          BY <2>0, <2>7, RestartFacts, Zenon
        <5>4. ResolveIn(forward', c, t) = forward[k]
          BY <4>1, <5>2, <5>3, Zenon
        <5>. QED
          BY <4>1, <5>4, ResolveStep, Zenon
      <4>4. CASE reverse[forward[k]] # k
        <5>1. forward'[k] = None
          BY <2>0, <2>7, <4>2, <4>4, RestartFacts, Zenon
        <5>2. k \in ForwardKeys \ {reverse[y] : y \in Matched}
          BY <4>1, <4>2, <4>4, Zenon DEF ForwardKeys, Matched
        <5>3. <<"forward_without_reverse", k>> \in ExportIssues(Contracts)
          BY <5>2, Zenon DEF ExportIssues
        <5>. QED
          BY <5>1, <5>3, Zenon
      <4>. QED
        BY <4>3, <4>4, Zenon
    <3>. QED
      BY <3>1, <3>2, Zenon
  <2>8. ~\E k \in Keys : \E y \in ClassNfts[k.c] : LegacySetNFTPairs(k, y)
    BY <1>1, Zenon DEF LegacySetNFTPairs
  <2>9. ~\E y \in Nfts : LegacyDelete(y)
    BY <1>1, Zenon DEF LegacyDelete
  <2>. QED
    BY <1>1, <2>2, <2>3, <2>4, <2>5, <2>6, <2>7, <2>8, <2>9, Zenon DEF Next
<1>2. XInv /\ [Next]_vars =>
        [release = "v0.4.1" =>
           \A c \in Contracts, t \in Tokens :
              ResolveNFTUIDPair(c, t) # None
                => \/ ResolveNFTUIDPair(c, t)' \in {None, ResolveNFTUIDPair(c, t)}
                   \/ \E k \in Variants(c, t) : /\ <<"forward_without_reverse", k>> \in ExportIssues(Contracts)
                                                /\ forward'[k] = None
                   \/ \E d \in Contracts \ {c} : \E y \in ClassNfts[d] :
                         reverse[y] \in Variants(c, t) /\ DeletePairPerTokenState(d)]_vars
  BY <1>1, Zenon
<1>. QED
  BY <1>2, IndexInvariant, PTL DEF Spec, BindingNotRedirected

-----------------------------------------------------------------------------
(* Reports *)

\* uidIndexPruneClean counts: balanced totals and no key left over make the
\* reverse index a bijection onto the remaining forward keys.
THEOREM CleanReportMeansPaired == Spec => []CleanReportIsPaired
<1>1. ASSUME XInv, UidIndexPruneClean
      PROVE  /\ ForwardKeys \ Deleted = Authorities
             /\ \A y, z \in Nfts : reverse[y] # None /\ reverse[y] = reverse[z] => y = z
  <2>1. /\ Cardinality(ForwardKeys) - Cardinality(Deleted) = Cardinality(BoundNfts)
        /\ Conflicts = {} /\ Orphans = {} /\ UnpairedNFTs = {}
    BY <1>1, Zenon DEF UidIndexPruneClean, Balanced, Scanned, BoundNfts
  <2>2. TypeOK /\ IsFiniteSet(ForwardKeys) /\ IsFiniteSet(BoundNfts)
    BY <1>1, Zenon DEF XInv, FiniteIndex
  <2>3. Deleted \subseteq ForwardKeys \ Authorities
    BY Zenon DEF Deleted
  <2>4. \A k \in ForwardKeys \ Authorities : k \in Deleted
    BY <2>1, Zenon DEF Conflicts, Orphans
  <2>5. Authorities \subseteq ForwardKeys
    BY <2>1, <2>2 DEF Authorities, UnpairedNFTs, ForwardKeys, TypeOK
  <2>6. ForwardKeys \ Deleted = Authorities /\ ForwardKeys \cap Deleted = Deleted
    BY <2>3, <2>4, <2>5, Zenon
  <2>7. Cardinality(Authorities) = Cardinality(BoundNfts)
    BY <2>1, <2>2, <2>6, FS_Difference
  <2>. DEFINE f == [y \in BoundNfts |-> reverse[y]]
  <2>8. f \in Surjection(BoundNfts, Authorities)
    BY Zenon DEF Surjection, BoundNfts, Authorities
  <2>9. f \in Injection(BoundNfts, Authorities)
    BY <2>2, <2>7, <2>8, FS_SurjSameCardinalityImpliesInj, Zenon
  <2>10. \A y, z \in BoundNfts : reverse[y] = reverse[z] => y = z
    BY <2>9, Zenon DEF Injection, IsInjective
  <2>. QED
    BY <2>6, <2>10, Zenon DEF BoundNfts
<1>2. XInv => CleanReportIsPaired
  BY <1>1, Zenon DEF CleanReportIsPaired
<1>. QED
  BY <1>2, IndexInvariant, PTL

\* A record of the forward index is exported once or reported once.
LEMMA ForwardAccounted ==
    ASSUME TypeOK, NEW registered \in SUBSET Contracts, NEW k \in ForwardKeys
    PROVE  Cardinality({p \in ExportNFTUIDPairs(registered) : p[1] = k /\ p[2] = forward[k]}
                         \cup {i \in ExportIssues(registered) :
                                 i[1] # "reverse_without_forward" /\ i[2] = k}) = 1
<1>. DEFINE y == forward[k]
            uids == ExportNFTUIDPairs(registered)
            issues == ExportIssues(registered)
            P == {p \in uids : p[1] = k /\ p[2] = y}
            I == {i \in issues : i[1] # "reverse_without_forward" /\ i[2] = k}
            Belongs(z) == UIDBelongsToRegisteredPair(reverse[z], z, registered)
<1>1. k \in Keys /\ y \in Nfts
  BY Zenon DEF ForwardKeys, TypeOK
<1>2. uids = {<<reverse[z], z>> : z \in {z \in Matched : Belongs(z)}}
  BY Zenon DEF ExportNFTUIDPairs
<1>3. issues = {<<"reverse_without_forward", z>> : z \in {z \in Nfts \ Matched : reverse[z] # None}}
                 \cup {<<"unregistered_pair", reverse[z]>> : z \in {z \in Matched : ~Belongs(z)}}
                 \cup {<<"forward_without_reverse", l>> : l \in ForwardKeys \ {reverse[z] : z \in Matched}}
  BY Zenon DEF ExportIssues
<1>4. \A z \in Matched : reverse[z] = k => z = y
  BY Zenon DEF Matched
<1>5. reverse[y] = k => y \in Matched
  BY <1>1, KeysAssumption, Zenon DEF Matched
<1>. HIDE DEF uids, issues, Belongs
<1>6. \A p \in P : p = <<k, y>> /\ reverse[y] = k /\ y \in Matched /\ Belongs(y)
  BY <1>2
<1>7. \A i \in I : \/ i = <<"unregistered_pair", k>> /\ reverse[y] = k /\ y \in Matched /\ ~Belongs(y)
                   \/ i = <<"forward_without_reverse", k>> /\ k \notin {reverse[z] : z \in Matched}
  <2>. SUFFICES ASSUME NEW i \in I
                PROVE  \/ i = <<"unregistered_pair", k>> /\ reverse[y] = k /\ y \in Matched /\ ~Belongs(y)
                       \/ i = <<"forward_without_reverse", k>> /\ k \notin {reverse[z] : z \in Matched}
    BY Zenon
  <2>1. \A z : i # <<"reverse_without_forward", z>>
    OBVIOUS
  <2>2. i \in issues /\ i[2] = k
    BY Zenon
  <2>3. CASE i \in {<<"unregistered_pair", reverse[z]>> : z \in {z \in Matched : ~Belongs(z)}}
    <3>1. PICK z \in Matched : i = <<"unregistered_pair", reverse[z]>> /\ ~Belongs(z)
      BY <2>3, Zenon
    <3>2. reverse[z] = k /\ z = y
      BY <1>4, <2>2, <3>1, Zenon
    <3>. QED
      BY <3>1, <3>2, Zenon
  <2>4. CASE i \in {<<"forward_without_reverse", l>> : l \in ForwardKeys \ {reverse[z] : z \in Matched}}
    BY <2>2, <2>4
  <2>. QED
    BY <1>3, <2>1, <2>2, <2>3, <2>4, Zenon
<1>8. \E e : P \cup I = {e}
  <2>1. CASE reverse[y] = k /\ Belongs(y)
    <3>1. <<k, y>> \in P
      BY <1>2, <1>5, <2>1, Zenon
    <3>2. I = {}
      BY <1>5, <1>7, <2>1, Zenon
    <3>3. P = {<<k, y>>}
      BY <1>6, <3>1, Zenon
    <3>. QED
      BY <3>2, <3>3, Zenon
  <2>2. CASE reverse[y] = k /\ ~Belongs(y)
    <3>1. <<"unregistered_pair", k>> \in issues
      BY <1>3, <1>5, <2>2, Zenon
    <3>2. <<"unregistered_pair", k>> \in I
      BY <3>1, Zenon
    <3>3. P = {}
      BY <1>6, <2>2, Zenon
    <3>4. k \in {reverse[z] : z \in Matched}
      BY <1>5, <2>2, Zenon
    <3>5. I = {<<"unregistered_pair", k>>}
      BY <1>7, <3>2, <3>4, Zenon
    <3>. QED
      BY <3>3, <3>5, Zenon
  <2>3. CASE reverse[y] # k
    <3>1. k \notin {reverse[z] : z \in Matched}
      BY <1>4, <2>3, Zenon
    <3>2. <<"forward_without_reverse", k>> \in issues
      BY <1>3, <3>1, Zenon
    <3>3. <<"forward_without_reverse", k>> \in I
      BY <3>2, Zenon
    <3>4. P = {}
      BY <1>6, <2>3, Zenon
    <3>5. I = {<<"forward_without_reverse", k>>}
      BY <1>7, <2>3, <3>3, Zenon
    <3>. QED
      BY <3>4, <3>5, Zenon
  <2>. QED
    BY <2>1, <2>2, <2>3, Zenon
<1>. HIDE DEF P, I
<1>9. Cardinality(P \cup I) = 1
  BY <1>8, FS_Singleton, Zenon
<1>. QED
  BY <1>9, Zenon DEF P, I, uids, issues

\* ExportGenesis never aborts and never drops a record silently: on any store
\* at all, the import accepts what the export writes and the rest is reported.
THEOREM ExportDegradesAndReports == Spec => []DegradeAndReport
<1>1. ASSUME TypeOK, NEW registered \in SUBSET Contracts
      PROVE  ValidateGenesisPairs(ExportNFTUIDPairs(registered), registered)
  <2>1. \A p \in ExportNFTUIDPairs(registered) :
           \E y \in Matched : /\ p = <<reverse[y], y>> /\ forward[reverse[y]] = y
                              /\ UIDBelongsToRegisteredPair(reverse[y], y, registered)
    BY Zenon DEF ExportNFTUIDPairs, Matched
  <2>2. ASSUME NEW p \in ExportNFTUIDPairs(registered), NEW q \in ExportNFTUIDPairs(registered), p # q
        PROVE  p[1] # q[1] /\ p[2] # q[2]
    <3>1. PICK y \in Matched : p = <<reverse[y], y>> /\ forward[reverse[y]] = y
      BY <2>1, Zenon
    <3>2. PICK z \in Matched : q = <<reverse[z], z>> /\ forward[reverse[z]] = z
      BY <2>1, Zenon
    <3>3. y # z
      BY <2>2, <3>1, <3>2, Zenon
    <3>4. reverse[y] # reverse[z]
      BY <3>1, <3>2, <3>3, Zenon
    <3>. QED
      BY <3>1, <3>2, <3>3, <3>4, Zenon
  <2>3. \A p \in ExportNFTUIDPairs(registered) : UIDBelongsToRegisteredPair(p[1], p[2], registered)
    BY <2>1
  <2>. QED
    BY <2>2, <2>3, Zenon DEF ValidateGenesisPairs
<1>2. ASSUME TypeOK, NEW registered \in SUBSET Contracts, NEW y \in Nfts, reverse[y] # None
      PROVE  \/ <<reverse[y], y>> \in ExportNFTUIDPairs(registered)
             \/ <<"reverse_without_forward", y>> \in ExportIssues(registered)
             \/ forward[reverse[y]] = y /\ <<"unregistered_pair", reverse[y]>> \in ExportIssues(registered)
  <2>1. CASE y \notin Matched
    BY <1>2, <2>1, Zenon DEF ExportIssues
  <2>2. CASE y \in Matched /\ UIDBelongsToRegisteredPair(reverse[y], y, registered)
    BY <2>2, Zenon DEF ExportNFTUIDPairs
  <2>3. CASE y \in Matched /\ ~UIDBelongsToRegisteredPair(reverse[y], y, registered)
    BY <2>3, Zenon DEF ExportIssues, Matched
  <2>. QED
    BY <2>1, <2>2, <2>3, Zenon
<1>3. XInv => DegradeAndReport
  BY <1>1, <1>2, ForwardAccounted, Zenon DEF XInv, DegradeAndReport
<1>. QED
  BY <1>3, IndexInvariant, PTL

=============================================================================
