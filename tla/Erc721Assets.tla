---------------------------- MODULE Erc721Assets ----------------------------
(***************************************************************************)
(* The EVM ledger beside the native one: which addresses hold contract     *)
(* code and who owns each ERC721 token.  An account is the same 20 bytes   *)
(* on both sides (msg_server.go turns a bech32 sender into a               *)
(* common.Address byte by byte), so one set of users serves both.          *)
(***************************************************************************)
EXTENDS NativeNfts

CONSTANTS
    Contracts,       \* EVM addresses that can hold an ERC721 contract
    External,        \* contracts deployed by users; the others come from the
                     \* module account's own CREATE
    Rogue,           \* external contracts that reassign tokens at will
    DerivedClass     \* contract |-> its class id "uptick-<address>"

\* The token UID "<tokenId>,<contract>".
TokenUIDs == Contracts \X TokenIds

\* A class id names at most one contract.
ASSUME ContractsAssumption ==
    /\ External \subseteq Contracts
    /\ Rogue \subseteq External
    /\ DerivedClass \in [Contracts -> DerivedClasses]
    /\ \A c, d \in Contracts : DerivedClass[c] = DerivedClass[d] => c = d

ASSUME AbsentAssumption ==
    /\ None \notin TokenUIDs
    /\ None \notin Contracts \X Classes

VARIABLES
    code,       \* what each address holds: "absent", "live" or "gone"
    ercOwner    \* ERC721 owner of each token; None = ownerOf fails

evmVars == <<code, ercOwner>>
assetVars == <<denom, nftOwner, code, ercOwner>>

AssetsTypeOK ==
    /\ NativeTypeOK
    /\ code \in [Contracts -> {"absent", "live", "gone"}]
    /\ ercOwner \in [TokenUIDs -> Users \cup {Module, None}]

(***************************************************************************)
(* ERC721 contracts.  A token of a conforming contract moves only when its *)
(* owner moves it; a rogue contract reassigns tokens at will.  Only        *)
(* external contracts mint by themselves: in the module's own ERC721Uptick *)
(* the module account is the only minter.                                  *)
(***************************************************************************)

ErcTransfer(u, x, v) ==
    /\ code[x[1]] = "live"
    /\ ercOwner[x] = u
    /\ ercOwner' = [ercOwner EXCEPT ![x] = v]
    /\ UNCHANGED code

ErcBurn(u, x) ==
    /\ code[x[1]] = "live"
    /\ ercOwner[x] = u
    /\ ercOwner' = [ercOwner EXCEPT ![x] = None]
    /\ UNCHANGED code

ErcMint(x, v) ==
    /\ x[1] \in External
    /\ code[x[1]] = "live"
    /\ ercOwner[x] = None
    /\ ercOwner' = [ercOwner EXCEPT ![x] = v]
    /\ UNCHANGED code

ErcReassign(x, v) ==
    /\ x[1] \in Rogue
    /\ code[x[1]] = "live"
    /\ ercOwner' = [ercOwner EXCEPT ![x] = v]
    /\ UNCHANGED code

\* The contract loses its code, and with it every token it kept.
SelfDestruct(c) ==
    /\ code[c] = "live"
    /\ code' = [code EXCEPT ![c] = "gone"]
    /\ ercOwner' = [x \in TokenUIDs |-> IF x[1] = c THEN None ELSE ercOwner[x]]

=============================================================================
