------------------------------ MODULE UidIndex ------------------------------
(***************************************************************************)
(* The x/erc721 UID index below the canonical keys of Erc721Registry: the  *)
(* store keys as they are spelled.  A token id is spelled in base 10 or,   *)
(* before v0.4.0, in hex; a contract address in lower case or, before      *)
(* v0.4.0, with its EIP-55 checksum.  The spellings of a component denote  *)
(* one value, so one binding can sit under up to four forward keys.        *)
(*                                                                         *)
(* The store starts under the earlier releases, whose writer probed no     *)
(* other spelling; the v0.4.1 handler prunes it, and the present code runs *)
(* on what is left.                                                        *)
(***************************************************************************)
EXTENDS Naturals, FiniteSets

CONSTANTS
    Contracts,    \* 20-byte contract addresses
    Tokens,       \* uint256 token ids
    Nfts,         \* NFT UIDs
    ClassNfts,    \* contract |-> the NFT UIDs of the class paired with it
    None

\* A contract is paired with one class in its life; a class whose contract is
\* gone may be paired with another.
ASSUME NftsAssumption ==
    /\ None \notin Nfts
    /\ ClassNfts \in [Contracts -> SUBSET Nfts]
    /\ \A c, d \in Contracts : ClassNfts[c] = ClassNfts[d] \/ ClassNfts[c] \cap ClassNfts[d] = {}

Lower == "lowercase"
Checksum == "EIP-55"
Decimal == "base-10"
Hex == "0x+hex"

\* A forward key "<tokenId>,<contract>" and its spelling.
Keys == [c : Contracts, a : {Lower, Checksum}, t : Tokens, s : {Decimal, Hex}]

ASSUME KeysAssumption == None \notin Keys

VARIABLES
    forward,    \* KeyPrefixNFTUIDPairByTokenUID: key |-> NFT UID
    reverse,    \* KeyPrefixNFTUIDPairByNFTUID: NFT UID |-> key
    release     \* "legacy", or "v0.4.1" once its handler has run

vars == <<forward, reverse, release>>

TypeOK ==
    /\ forward \in [Keys -> Nfts \cup {None}]
    /\ reverse \in [Nfts -> Keys \cup {None}]
    /\ release \in {"legacy", "v0.4.1"}

(***************************************************************************)
(* Spellings                                                               *)
(***************************************************************************)

\* TokenUIDKeyVariants: the cross product of EVMTokenIDKeyVariants and
\* ContractAddressKeyVariants, canonical first, token id outermost.
TokenUIDKeyVariants(c, t) ==
    LET key(a, s) == [c |-> c, a |-> a, t |-> t, s |-> s]
    IN  <<key(Lower, Decimal), key(Checksum, Decimal), key(Lower, Hex), key(Checksum, Hex)>>

Variants(c, t) == {TokenUIDKeyVariants(c, t)[i] : i \in 1..4}

Canonical(c, t) == TokenUIDKeyVariants(c, t)[1]

\* EqualEVMTokenID and EqualContractAddress: equal as values.
SameToken(k, l) == k.c = l.c /\ k.t = l.t

(***************************************************************************)
(* Readers                                                                 *)
(***************************************************************************)

\* ResolveNFTUIDPair: the first variant that is present.
ResolveNFTUIDPair(c, t) ==
    LET keys == TokenUIDKeyVariants(c, t)
        found == {i \in 1..4 : forward[keys[i]] # None}
    IN  IF found = {} THEN None
        ELSE forward[keys[CHOOSE i \in found : \A j \in found : i <= j]]

(***************************************************************************)
(* Earlier releases (external): the writer stored the spelling it was      *)
(* given, and a deletion removed the key it was given.                     *)
(***************************************************************************)

LegacySetNFTPairs(k, y) ==
    /\ release = "legacy"
    /\ forward' = [forward EXCEPT ![k] = y]
    /\ reverse' = [reverse EXCEPT ![y] = k]
    /\ UNCHANGED release

LegacyDelete(y) ==
    /\ release = "legacy"
    /\ reverse[y] # None
    /\ forward' = [forward EXCEPT ![reverse[y]] = None]
    /\ reverse' = [reverse EXCEPT ![y] = None]
    /\ UNCHANGED release

(***************************************************************************)
(* PruneDuplicateUIDIndexEntries, run by the v0.4.1 upgrade handler        *)
(***************************************************************************)

Authorities == {reverse[y] : y \in Nfts} \ {None}

ForwardKeys == {k \in Keys : forward[k] # None}

\* The reverse entries that denote the token of k under another spelling.
Claimants(k) == {y \in Nfts : reverse[y] \notin {None, k} /\ SameToken(k, reverse[y])}

\* Mutated form: every key but the canonical one goes.
DeletedNonCanonical == {k \in ForwardKeys : k # Canonical(k.c, k.t)}

\* What the pass removes: no authority, another spelling of a reverse
\* entry's key, bound to that entry's NFT.
Deleted ==
    {k \in ForwardKeys \ Authorities : \E y \in Claimants(k) : forward[k] = y}

\* What it reports and leaves alone.
Conflicts == {k \in ForwardKeys \ Authorities : Claimants(k) # {}} \ Deleted

Orphans == {k \in ForwardKeys \ Authorities : Claimants(k) = {}}

UnpairedNFTs == {y \in Nfts : reverse[y] # None /\ forward[reverse[y]] = None}

\* Scanned, ForwardAfter and Balanced of the report.
Scanned == Cardinality({y \in Nfts : reverse[y] # None})

Balanced == Cardinality(ForwardKeys) - Cardinality(Deleted) = Scanned

\* Mutated form: the totals alone decide.
BalancedOnly == Balanced

\* uidIndexPruneClean
UidIndexPruneClean ==
    Balanced /\ Conflicts = {} /\ Orphans = {} /\ UnpairedNFTs = {}

\* The handler carries no already-applied guard: it may run again.
PruneDuplicateUIDIndexEntries ==
    /\ forward' = [k \in Keys |-> IF k \in Deleted THEN None ELSE forward[k]]
    /\ release' = "v0.4.1"
    /\ UNCHANGED reverse

(***************************************************************************)
(* The present writers                                                     *)
(***************************************************************************)

\* Mutated form: the other spellings of the binding stay.
SetNFTPairsKeepsStale(c, t, s, y) ==
    /\ release = "v0.4.1"
    /\ \A k \in Variants(c, t) : forward[k] \in {None, y}
    /\ s = Hex => \E k \in Variants(c, t) : forward[k] # None
    /\ reverse[y] # None => SameToken(reverse[y], Canonical(c, t))
    /\ forward' = [forward EXCEPT ![Canonical(c, t)] = y]
    /\ reverse' = [reverse EXCEPT ![y] = Canonical(c, t)]
    /\ UNCHANGED release

\* Mutated form: only the canonical key is probed for another NFT.
SetNFTPairsProbesCanonical(c, t, s, y) ==
    /\ release = "v0.4.1"
    /\ forward[Canonical(c, t)] \in {None, y}
    /\ s = Hex => \E k \in Variants(c, t) : forward[k] # None
    /\ reverse[y] # None => SameToken(reverse[y], Canonical(c, t))
    /\ forward' = [k \in Keys |-> IF k = Canonical(c, t) THEN y
                                  ELSE IF k \in Variants(c, t) THEN None ELSE forward[k]]
    /\ reverse' = [reverse EXCEPT ![y] = Canonical(c, t)]
    /\ UNCHANGED release

\* SetNFTPairs: all spellings agree, a hex id binds nothing new, the NFT is
\* not bound to another token; then one canonical key in each direction.
SetNFTPairs(c, t, s, y) ==
    /\ release = "v0.4.1"
    /\ \A k \in Variants(c, t) : forward[k] \in {None, y}
    /\ s = Hex => \E k \in Variants(c, t) : forward[k] # None
    /\ reverse[y] # None => SameToken(reverse[y], Canonical(c, t))
    /\ forward' = [k \in Keys |-> IF k = Canonical(c, t) THEN y
                                  ELSE IF k \in Variants(c, t) THEN None ELSE forward[k]]
    /\ reverse' = [reverse EXCEPT ![y] = Canonical(c, t)]
    /\ UNCHANGED release

\* DeleteNFTPairByNFTID and DeleteNFTPairByTokenID, as the refund and the
\* voucher settlement call them: from the token the reverse entry names.
DeleteNFTPair(y) ==
    /\ release = "v0.4.1"
    /\ reverse[y] # None
    /\ reverse' = [reverse EXCEPT ![y] = None]
    /\ forward' = [k \in Keys |-> IF SameToken(k, reverse[y]) THEN None ELSE forward[k]]
    /\ UNCHANGED release

\* DeletePairPerTokenState: the keys of the contract in any spelling, each
\* with the reverse entry of its NFT; then the class's reverse entries, each
\* with the key it names.
DeletePairPerTokenState(c) ==
    LET bound == {forward[k] : k \in {k \in Keys : k.c = c}}
        rest == {y \in ClassNfts[c] \ bound : reverse[y] # None}
    IN  /\ release = "v0.4.1"
        /\ forward' = [k \in Keys |->
                         IF k.c = c \/ \E y \in rest : reverse[y] = k THEN None ELSE forward[k]]
        /\ reverse' = [y \in Nfts |-> IF y \in bound \cup rest THEN None ELSE reverse[y]]
        /\ UNCHANGED release

(***************************************************************************)
(* Genesis export and import of the index.  registered are the contracts   *)
(* whose pair record is there and decodes, the pairs the file will hold.   *)
(***************************************************************************)

\* UIDBelongsToRegisteredPair, which both sides ask.
UIDBelongsToRegisteredPair(k, y, registered) == k.c \in registered /\ y \in ClassNfts[k.c]

\* The reverse entries whose forward key names them.
Matched == {y \in Nfts : reverse[y] # None /\ forward[reverse[y]] = y}

\* Mutated form: any forward entry will do as the partner.
ExportNFTUIDPairsUnmatched(registered) ==
    {<<reverse[y], y>> : y \in
       {y \in Nfts : /\ reverse[y] # None
                     /\ forward[reverse[y]] # None
                     /\ UIDBelongsToRegisteredPair(reverse[y], y, registered)}}

\* The bindings ExportNFTUIDPairsWithReport writes.
ExportNFTUIDPairs(registered) ==
    {<<reverse[y], y>> : y \in
       {y \in Matched : UIDBelongsToRegisteredPair(reverse[y], y, registered)}}

\* The issues it reports beside them: kind and key.
ExportIssues(registered) ==
    {<<"reverse_without_forward", y>> : y \in {y \in Nfts \ Matched : reverse[y] # None}}
      \cup {<<"unregistered_pair", reverse[y]>> :
              y \in {y \in Matched : ~UIDBelongsToRegisteredPair(reverse[y], y, registered)}}
      \cup {<<"forward_without_reverse", k>> : k \in ForwardKeys \ {reverse[y] : y \in Matched}}

\* ValidateGenesisPairs, the bindings: unique on both sides, of one pair.
ValidateGenesisPairs(uids, registered) ==
    /\ \A p, q \in uids : p # q => p[1] # q[1] /\ p[2] # q[2]
    /\ \A p \in uids : UIDBelongsToRegisteredPair(p[1], p[2], registered)

\* importPerTokenState: each binding in both directions, as it is spelled.
ImportPerTokenState(uids) ==
    /\ forward' = [k \in Keys |-> IF \E p \in uids : p[1] = k
                                  THEN (CHOOSE p \in uids : p[1] = k)[2] ELSE None]
    /\ reverse' = [y \in Nfts |-> IF \E p \in uids : p[2] = y
                                  THEN (CHOOSE p \in uids : p[2] = y)[1] ELSE None]

\* The chain starts again from its own export.
Restart(registered) ==
    /\ release = "v0.4.1"
    /\ ValidateGenesisPairs(ExportNFTUIDPairs(registered), registered)
    /\ ImportPerTokenState(ExportNFTUIDPairs(registered))
    /\ UNCHANGED release

Init ==
    /\ forward = [k \in Keys |-> None]
    /\ reverse = [y \in Nfts |-> None]
    /\ release = "legacy"

\* The writers are called with the contract and the class of one pair.
Next ==
    \/ \E k \in Keys : \E y \in ClassNfts[k.c] : LegacySetNFTPairs(k, y)
    \/ \E y \in Nfts : LegacyDelete(y)
    \/ PruneDuplicateUIDIndexEntries
    \/ \E c \in Contracts, t \in Tokens, s \in {Decimal, Hex} :
          \E y \in ClassNfts[c] : SetNFTPairs(c, t, s, y)
    \/ \E y \in Nfts : DeleteNFTPair(y)
    \/ \E c \in Contracts : DeletePairPerTokenState(c)
    \/ \E registered \in SUBSET Contracts : Restart(registered)

Spec == Init /\ [][Next]_vars

(***************************************************************************)
(* Properties                                                              *)
(***************************************************************************)

\* After the pass no deletable key remains, and no later write, refund or
\* purge brings one back: a replayed plan removes nothing.
PruneConverges == release = "v0.4.1" => Deleted = {}

\* The pass keeps every sound binding: an NFT whose own key holds it, with no
\* spelling bound to another NFT, still resolves to itself.
PruneKeepsSoundBindings ==
    [][PruneDuplicateUIDIndexEntries =>
         \A y \in Nfts :
            LET k == reverse[y]
            IN  /\ k # None
                /\ forward[k] = y
                /\ \A l \in Keys : SameToken(k, l) => forward[l] \in {None, y}
                => forward'[k] = y /\ ResolveNFTUIDPair(k.c, k.t)' = y]_vars

\* Under the present code a token that resolves to an NFT never comes to
\* resolve to another, whatever spellings the store inherited.  Only a restart
\* may do so, by dropping a one-sided entry that it reports, and the purge of
\* another contract's pair, by dropping a claim to the token that an NFT of its
\* class was left with.
BindingNotRedirected ==
    [][release = "v0.4.1" =>
         \A c \in Contracts, t \in Tokens :
            ResolveNFTUIDPair(c, t) # None
              => \/ ResolveNFTUIDPair(c, t)' \in {None, ResolveNFTUIDPair(c, t)}
                 \/ \E k \in Variants(c, t) : /\ <<"forward_without_reverse", k>> \in ExportIssues(Contracts)
                                              /\ forward'[k] = None
                 \/ \E d \in Contracts \ {c} : \E y \in ClassNfts[d] :
                       reverse[y] \in Variants(c, t) /\ DeletePairPerTokenState(d)]_vars

\* What a clean report means: the forward keys are the keys the reverse
\* entries name, each named by one entry.  (Which NFT a key holds it does not
\* say, so the export may still find issues.)
CleanReportIsPaired ==
    UidIndexPruneClean =>
      /\ ForwardKeys \ Deleted = Authorities
      /\ \A y, z \in Nfts : reverse[y] # None /\ reverse[y] = reverse[z] => y = z

\* ExportGenesis degrades and reports, it never aborts: whatever the store
\* holds and whichever pair records decode, the import accepts the export, and
\* a record is either in it or reported, a binding of two good halves once.
DegradeAndReport ==
    \A registered \in SUBSET Contracts :
      LET uids == ExportNFTUIDPairs(registered)
          issues == ExportIssues(registered)
      IN  /\ ValidateGenesisPairs(uids, registered)
          /\ \A k \in ForwardKeys :
                Cardinality({p \in uids : p[1] = k /\ p[2] = forward[k]}
                              \cup {i \in issues : i[1] # "reverse_without_forward" /\ i[2] = k}) = 1
          /\ \A y \in Nfts : reverse[y] # None =>
                \/ <<reverse[y], y>> \in uids
                \/ <<"reverse_without_forward", y>> \in issues
                \/ forward[reverse[y]] = y /\ <<"unregistered_pair", reverse[y]>> \in issues

=============================================================================
