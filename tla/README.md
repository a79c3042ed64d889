# A TLA+ verification of Uptick

Uptick is a Cosmos-SDK chain with an EVM and a CosmWasm VM. Its own code is small
next to the modules it builds on; what it adds is the movement of NFTs between
four places: the native NFT store (`cosmossdk.io/x/nft` behind `x/collection`),
ERC721 contracts on the EVM (`x/erc721`), CW721 contracts (`x/cw721`) and other
chains over ICS-721 (`x/evmibc`, `x/internft`). Around that sit the upgrade
handlers, the ERC20 voucher gate, the ante handler, the export and the codecs. The
specifications in this directory are translated from that code; `PROJECT.json`
maps every definition to the lines it stands for and lists the hazards the
properties are aimed at.

All paths below are relative to `src/`.

## 1. The system

| Part | State | Operations | What makes it hard |
|---|---|---|---|
| `x/erc721` | token pairs and two lookup maps, UID index in both directions, refund receivers, params | `ConvertNFT`, `ConvertERC721`, `TransferERC721`, `UpdateParams`, `RefundPacketToken` | two ledgers that must agree; contracts that misbehave or disappear; refunds long after the transfer; keys with several spellings |
| `x/erc721` voucher settlement | the pairs of `ibc/` classes | `SettleIBCVoucherPairs` (one pass, at v0.5.0) | each binding is settled or kept whole; a pair goes only with its last binding |
| `x/erc721` UID prune | UID index | `PruneDuplicateUIDIndexEntries` (v0.4.1) | which of several spellings is the real one; replays |
| `x/cw721` | the same tables for CW721 | `ConvertNFT`, `ConvertCW721`, `TransferCW721`, `UpdateParams`, `RefundPacketToken` | as above, with other checks in another order |
| `x/collection` | classes, NFTs, owners, supply counters | issue, mint, edit, transfer, burn, transfer class | edit and mint restrictions, records of older releases, the converted-NFT guard |
| `x/evmibc`, `x/internft` | none of their own | packet callbacks; the ICS-721 view of the NFT store | which refunds run, for which class; a path past the message server |
| `ibc/`, `app/keepers/erc20_ibc_gate.go` | ERC20 pairs of vouchers, denom metadata | `OnRecvPacket` | a governance switch that changes between packets |
| `app/upgrades` | everything, once | v0.3.3, v0.4.0, v0.4.1, v0.5.0 handlers | order, partial failure, replay |
| `app/ante` | account sequences, mempool | router and decorator chains, on check, recheck, simulation and block | nesting limits that two decorators count separately; a verifier that rests on rechecks |
| genesis of the modules | all of the above | `InitGenesis`, `ExportGenesis` | what is dropped on the way must be reported |
| `app/export*.go`, `uptickd export` | the genesis, the report file on disk | zero-height preparation, metadata repair, the report, the exit code | many calls that can fail, a file that outlives the process |
| `*.pb.go` | none | `Unmarshal`, `Marshal`, `Size`, `skip` of every message | lengths taken from the wire, signed arithmetic, loops that must end |
| `client`, `app/app.go` | process wiring | start-up | no protocol state |

The SDK runs a message in a cache context and discards its writes if the handler
fails. A failing message is therefore a stuttering step, and the conjuncts of an
action are the checks the handler makes before it succeeds.

## 2. The modules

```
NativeNfts --- Erc721Assets --- Erc721Registry --+-- Erc721Convert --- Erc721Bridge
     |                                           |        |
     |                                           |        +--- NftBridges
     |                                           |                 |
     +--- Cw721Convert ---------------------------------------------+
     |                                           +-- VoucherSettlement
     +~~~ CollectionStore (implements NativeNfts)
UidIndex        UpgradePlan

ProtoKinds --+-- ProtoMessages (the tables, for the run)
             +-- ProtoDecode --- ProtoWire --+
                               AnteHandler --+-- Node
                               StateExport --+

Erc721RegistryProofs --+-- Erc721BridgeProofs
                       +-- NftBridgesProofs
                       +-- UpgradeProofs (of UpgradePlan and VoucherSettlement)
UidIndexProofs   CollectionStoreProofs   ProtoDecodeProofs
NodeProofs (of AnteHandler and StateExport)
```

* `NativeNfts`: the ledger both bridges share. `denom` and `nftOwner` are the
  classes and owners of `x/nft` as `x/collection` writes them; the actions are
  its messages. Metadata is left out.
* `Erc721Assets`: the EVM beside it. `code` says whether an address has contract
  code and `ercOwner` who owns each token. Contracts may transfer, burn, mint,
  lose their code and, when in `Rogue`, reassign tokens at will.
* `Erc721Registry`: the `x/erc721` store. `tokenPairs` with `erc721Map` and
  `classMap`, the UID index `forward` and `reverse`, and `refund`, the receivers
  that `SetEvmRefundReceiver` records. Native and ERC721 ids share the key space
  of `refund`, as in the code. `ExportGenesis`, `ValidateGenesis` and
  `InitGenesis` are operators: what the export writes, what the import accepts and
  the store it makes of it. The pair records decode here.
* `Erc721Convert`: the message handlers. `ConvertNFT` takes the three ways of the
  code: a registered pair, an unregistered class (a contract is deployed) and a
  pair whose contract lost its code (purge and redeployment). `ConvertERC721` and
  `TransferERC721` share `Evm2CosmosAllowed`. `RefundToken` is one turn of
  `RefundPacketToken`'s loop, with its skips in the code's order.
* `Erc721Bridge`: these with the packets in flight and the legacy voucher pairs. A
  transaction is one step. The refund of a failed packet takes one step per token
  (`refunding`), so that what holds between two tokens is checked too; nothing
  else runs meanwhile.
* `UidIndex`: the index one level down, where a token id is spelled in base 10 or in
  hex and an address in lower case or with its checksum. Earlier releases fill the
  store with the spellings they were given, the v0.4.1 prune runs any number of
  times, then the present writers use it. `Restart` is an export and import of
  the index in which any set of pair records may have failed to decode.
* `VoucherSettlement`: the v0.5.0 pass. One step settles one binding in its own
  cache context, any EVM call may fail, and the pass can be run again.
* `Cw721Convert`, `NftBridges`: `x/cw721` in the same shape, and both bridges on
  one native ledger with one burn guard that asks both. With no EVM contracts
  `NftBridges` is `x/cw721` alone. The genesis operators have their twins here. A
  packet carries the path of its class and takes a channel; on a failure
  `GetRefundClassId` computes the class from the two, as `x/evmibc` does.
* `UpgradePlan`: the v0.5.0 handler over a v0.3.3, v0.4.0 or v0.4.1 store, its
  replay, the retry of failed registrations, and afterwards packets through
  `ERC20IBCGate`, governance and a moving base fee. Each stage of the migration
  is an operator named after its function. `GetEnabled` reads a stored switch the
  way `GetParams` does, where an empty encoding of `x/erc721` counts as absent.
* `CollectionStore`: `x/collection` and `x/internft` with the metadata. Records of
  older releases (no metadata, undecodable metadata, blobs above the bounds, a
  diverged supply counter), optional fields with `[do-not-modify]` and `[remove]`,
  both restrictions, and a restart from the chain's own export.
* `ProtoKinds`, `ProtoMessages`, `ProtoDecode`, `ProtoWire`: the generated codec. It
  is the same code in every `*.pb.go` file but for the fields, so each message is a
  table of its fields (`ProtoMessages`, in the vocabulary of `ProtoKinds`), read off
  its `Unmarshal`, and one interpreter has the loops. `ProtoDecode` is `Unmarshal`
  and `skip`: a step is a turn of the loop of either, and an embedded message is a
  frame on a stack. The bytes are supplied as the decoder reaches them, which
  enumerates all requests over the chosen octets. `ProtoWire` adds `Size` and
  `Marshal`: a message that was accepted is encoded and decoded again. In
  `ProtoDecode` alone that second call may get any bytes (`Redecode`), so what is
  proved of it holds for whatever `Marshal` writes.
* `AnteHandler`: a transaction is a tree of messages with extension options and
  signatures; a step is a decorator, or a turn of `ExtractMessagesFromTx`. CheckTx,
  simulation, blocks of any transaction and the recheck of the mempool share the
  chain and differ in the state it runs on. A signature is its scheme and its
  sequence. Decorators of the libraries that only weigh fees, gas, size or time are
  left out: they can only refuse more.
* `StateExport`: `uptickd export` from its arguments to its exit code, one step for
  each call that can fail. A kill, or a loss of power, may come between any two
  steps and may undo a rename or tear a file that was not synced. The report file
  stays for the next run.
* `Node`: the three under one process.

Abstractions of the bridge modules: metadata, URIs and events are left out; a batch
is an injective function from NFTs to tokens (a batch with a repeated id always
fails); an id the caller leaves out is derived by the handler, and the derived id
is one of the choices; the EVM and CosmWasm are owners and code, and any
contract call of a refund may fail.

## 3. The runs

`MC*.tla` give the constants their values. One run assumes fairness: `node` has weak
fairness of `Decode`, a turn of the decoder's loop, because the goroutine that
decodes waits for nothing and nobody. No other run does: every message may be
refused forever and nothing in that code promises progress to a user; no handler
retries what it skipped.

| Run | Instance | Shows |
|---|---|---|
| `erc721_native` | 2 users, 1 native class, 2 module contracts, 2 NFT ids, 2 token ids, batches of 2, 2 packets | deployment, both conversions, transfers and refunds, contract loss and redeployment |
| `erc721_external` | a conforming and a rogue user contract, one in use at a time, 1 voucher class with a legacy pair, 2 users, 1 packet | registration on first use, refunds, what remains possible on pairs the settlement kept; holders of either kind of pair can convert back |
| `uid_index` | 2 contracts of one class, 1 token id each, 2 NFTs, 4 spellings of each key | the prune converges, keeps sound bindings, and no writer redirects one |
| `voucher_settlement` | 1 voucher pair, 2 bindings, a user and a contract account | the pass loses no voucher and is idempotent |
| `cw721_native` | 2 users, 1 class with a slash in its id, 1 module contract, 2 ids, batches of 2, 2 packets | both conversions and refunds of `x/cw721`, the class a refund resolves |
| `dual_bridge` | 1 native class, 1 voucher class, a conforming and a rogue user CW721 contract, one collection in use at a time, 1 module contract of each kind, 2 channels, 2 packets | never two circulating halves; bindings of `x/cw721` go only in a refund |
| `upgrade_plan` | 2 vouchers (one with derivable decimals), 1 ERC20, 1 account, 2 modules with a switch | the upgrade and its replay lose nothing |
| `collection_store` | 1 class of each kind, one at a time, 2 NFTs, 2 users | restricted content, export and import, the ledger of the bridges |
| `node` | all 106 messages with requests up to 2 bytes and 5 with every kind of field up to 4; 31 transactions, 2 signers, 2 blocks, a mempool of 2; 2 validators, 2 delegations, 2 exports | decoding, transactions and exports |

Two users are needed for a refund to go to the wrong one, two ids for a batch to
be half bound, two module contracts for one redeployment, and two packets for a
record to be overwritten by a second transfer. `erc721_external` and `dual_bridge`
put several collections in one instance and explore a state further only while one
of them has been given a token, an NFT or a pair (the constraint
`MCOneCollection`; in `erc721_external` it speaks of the users' contracts and leaves
the voucher class free). Every property of the two runs speaks of one token and its
NFT, and the handlers read and write only the records of the collection they are
called with, but the runs do not show what two collections do side by side. The properties of
`CollectionStore` speak of one class at a time, so `MaxClasses` is 1 there.
`SupplyMod` stands for 2^64, small enough for a diverged counter to wrap.
In `UpgradePlan` `Scale` stands for 10^18 and the fees lie on both sides of it.
Symmetry is used over the ids that `Init` does not name, and not in `node`.

In the codec Go's `int` has 10 bits and a field number 5, so that a varint of two
bytes reaches the sign bit, three overflow, and a length can wrap `postIndex`,
which 64 bits need ten bytes for. The octets are tags of fields 1, 2, 10 and 15 in
all wire types, lengths that fit and lengths that do not, and continuation bytes.
In `AnteHandler` the limits of 5 levels and 32 messages are 2 and 4, and the
transactions hold each kind of message at the levels around them; two blocks let a
transaction be delivered twice. Two exports let the second find what the first
left.

The properties:

* The tables of the store agree with each other: `BindingBijection`,
  `PairGoesWithLastBinding`.
* Genesis: `GenesisRestores` and `CwGenesisRestores` say that in every reachable
  state the export is valid, drops nothing, and is imported to the same store. A
  one-sided binding, a half-written pair or a record without its pair would break
  them, so they are also the strongest statement about the tables.
* The tables agree with the ledgers: `BoundNftExists`, `CirculatingNftIsBacked`,
  `HolderCanConvertBack`, `CwHolderCanConvertBack`, `OneHalfCirculates`. At most
  one half of an asset circulates, and whoever holds a contract half can convert
  it back.
* What no step may do: `BindingDroppedWithItsHalf`, `CwBindingDroppedByRefund`,
  `RefundPaysTheSender`, `CwRefundBurnsTheNft`, `SettlementConserves`,
  `SecondPassChangesNothing`.
* Refunds reach the right class: `RefundFindsTheClass`.
* The UID index: `PruneConverges`, `PruneKeepsSoundBindings`, `CleanReportIsPaired`,
  `BindingNotRedirected`, and `DegradeAndReport`: from the
  worst store of the older releases, the export is one the import accepts and
  every record is in it or in the report. A clean prune report does not say which
  NFT a key holds, so the export may still find issues after it.
* The upgrade: `VouchersPairedOrRecorded`, `DecimalsFollowSource`,
  `LivePairsSurvive`, `NoPairWhileClosed`, `OnlyGovernanceMovesSwitches`,
  `UpgradeKeepsTheFee`, `AccountsSurvive`.
* The NFT store: `ExportRestores`, `RestrictedContentKept`, and
  `ImplementsNativeNfts`, which shows that every step of the detailed store is a
  message of `NativeNfts`, a step of nft-transfer that destroys no converted NFT,
  or leaves the ledger alone. It justifies the ledger the bridges stand on.
* The codec: `SlicesStayInside` (no read or slice outside the buffer, whatever
  lengths a request announces), `EncodingIsFaithful` (`Size` is what `Marshal`
  writes, and decoding gives the message back) and, under the fairness above,
  `DecodingEnds`.
* Transactions: `OnlyVettedMessagesRun` (no message escapes a decorator by being
  wrapped) and `SignedAndRunOnce` (what runs carries the signatures of its route
  and has not run before, also after rechecks that verify nothing).
* The export: `ZeroHeightGenesisIsComplete` and `ReportDescribesTheExport`.

### Where the code and its comments disagree

Three of these have a run whose counterexample TLC prints.

* `erc721_shared_ids`: when a native id of one transfer equals the ERC721 id of
  another on the same contract, the second transfer overwrites the first one's
  refund record (`x/erc721/keeper/token_pairs.go:437`). `RefundPaysTheSender` holds
  where the two sets of ids are disjoint, which the other runs choose.
* `erc721_voucher_refund`: a voucher sent with `MsgTransferERC721` loses its binding
  before the packet leaves; if the packet fails the refund finds no pair and skips
  (`x/erc721/keeper/msg_server.go:729`).
* `params_read_back`: `Params` of `x/erc721` with both flags off encode to no bytes.
  `GetParams` (`x/erc721/keeper/params.go:14`) takes an empty value for an absent
  one and returns the defaults, with both flags on, while
  `x/erc721/types/params.go:48` counts this combination among the supported ones.
  `x/cw721` asks `store.Has` and is not affected.

The others came up while modelling; the models carry the behaviour or an exception
for it, stated in the property.

* `x/erc721/keeper/register.go:19` says vouchers "must never be bound"; the gate
  stands in `RegisterNFT`, which a class with a kept legacy pair never reaches.
* `validateNoMappingConflict` (`x/erc721/keeper/msg_server.go:497`) compares token
  ids as strings and refuses a binding under a hex id that `nft_data.go:28`
  promises to resolve.
* The prune can delete a key whose binding does not survive under another
  spelling, when the authority key of its NFT is missing or taken
  (`uid_index_prune.go:151` against `:20`).
* Settling one of two vouchers that name one token deletes the forward key the
  other, kept one uses (`voucher_settlement.go:279`). The model starts from stores
  without such sharing.
* A CW721 refund of an NFT that is also bound in `x/erc721` cannot burn it, so the
  NFT stays with the module account (`x/cw721/keeper/msg_server.go:421`).
* A voucher paired at v0.5.0 without metadata gets the shape of ibc-go with its
  next packet and, being paired, is not normalised (`DecimalsFollowSource` excepts
  it); `erc20_ibc_gate.go` says decimals() no longer depends on when a pair
  was made.
* v0.5.0 repeats the v0.4.1 base-fee repair. On a v0.4.1 store whose fee fell below
  one wei it scales the fee again (`UpgradeKeepsTheFee` excepts it).
* Mints of conversions and of ICS-721 store a token URI without
  `ValidateTokenURI`, but `ValidateGenesis` (`x/collection/types/genesis.go:85`)
  applies it, so such a chain cannot start from its own export. `ExportRestores`
  is stated for legal URIs.
* `x/erc721/keeper/token_pairs.go:22` says `ExportGenesis` fails closed on a corrupt
  pair record; `x/erc721/genesis.go` logs it and exports the rest, which is what
  the model does.
* `GetNFT` (`x/collection/keeper/nft.go:244`) says conversions overwrite unreadable
  metadata with empty ones; the empty fields count as "do not modify", so the
  record stays as it is.
* `app/export.go:72` says that "from here on the export cannot fail any more"; the
  command still has to write the genesis out, and when that fails the report of
  the lost export stays. `ReportDescribesTheExport` is stated for exports that
  ended with exit code 0 or 3.
* The EIP-712 verifier skips the sequence on a recheck, where the SDK's verifier
  tests it: a stale EIP-712 transaction stays in the mempool until a block
  refuses it. `SignedAndRunOnce` holds.
* `prepForZeroHeightGenesis` (`app/export.go:126`) collects every error of
  `WithdrawValidatorCommission`, which the SDK returns also for a validator
  without commission; such a chain has no zero-height export.
* An NFT of a restricted class that returns from escrow takes token data of the
  other chain (`x/internft/keeper.go:102`); its contract half then differs, and
  converting back counts as an edit.

## 4. The proofs

The theorems hold for every value of the constants that satisfies the named
assumptions: any number of users, classes, contracts, ids, packets, vouchers,
validators or transactions. Each component's proofs are in a module of their own.
The pattern is the same throughout: an inductive invariant, one lemma per action
(and under it one step per conjunct the action can disturb), then the properties,
an action property from the invariant and one step.

| Module | Inductive invariant | Properties of the runs it proves |
|---|---|---|
| `Erc721BridgeProofs` | `IInv`, then `HInv` and `FInv` beside it | `BindingBijection`, `BoundNftExists`, `CirculatingNftIsBacked`, `GenesisRestores`, `HolderCanConvertBack`, `BindingDroppedWithItsHalf`, `RefundPaysTheSender` |
| `NftBridgesProofs` | `BInv`, `FInv` | `BoundNftExists` (of both bridges), `OneHalfCirculates`, `RefundFindsTheClass`, `CwHolderCanConvertBack`, `CwBindingDroppedByRefund`, `CwRefundBurnsTheNft`, `CwGenesisRestores` |
| `UpgradeProofs` | `UInv`, `SInv` | all seven of `upgrade_plan`; `PairGoesWithLastBinding`, `SettlementConserves`, `SecondPassChangesNothing` |
| `UidIndexProofs` | `XInv` | `PruneConverges`, `PruneKeepsSoundBindings`, `BindingNotRedirected`, `CleanReportIsPaired`, `DegradeAndReport` |
| `CollectionStoreProofs` | `CInv` | `ExportRestores`, `RestrictedContentKept`, `ImplementsNativeNfts` |
| `NodeProofs` | `ZInv`, `RInv`, `AInv` | `ZeroHeightGenesisIsComplete`, `ReportDescribesTheExport`, `OnlyVettedMessagesRun`, `SignedAndRunOnce` |
| `ProtoDecodeProofs` | `DInv` | `SlicesStayInside` |

`Erc721RegistryProofs` holds the lemmas about the registry's operators that three of
them share. The invariants, and why each is needed:

* `IInv` is `TypeOK`, `BindingBijection`, `PairMapsAgree`, `PerTokenStateHasPair`,
  `BoundNftExists` and `CirculatingNftIsBacked`. None is inductive alone: a purge
  keeps the index a bijection only because per-token state belongs to a registered
  pair; a circulating NFT stays backed only because the index is a bijection (a
  release moves exactly one token) and because a bound NFT cannot be minted a
  second time, which is `BoundNftExists`. `GenesisRestores` follows from `IInv`
  without a further induction: the bijection makes every binding exportable and
  unique, the maps make the imported pairs the stored ones, and per-token state
  with its pair makes every record belong to the file.
* `HInv` adds that a token with an owner belongs to a contract with code, and that
  what a refund has still to do is with the module account. Without the first a
  holder could be left with a token no conversion can call; without the second a
  refund between two tokens could drop a binding with both halves alive.
* `FInv` follows the packets: an NFT in flight is in escrow and in one packet only,
  and while it is bound its refund record names the sender of that packet.
  `SendersStayOnRecord` and `RefundsPayTheSender` assume that no native id is a
  token id; `erc721_shared_ids` shows the theorem is false without that.
* `BInv` has a half for each module. Each says that the index is a bijection, that a
  bound NFT exists and that an NFT outside the module account has its token in it;
  the half of `x/cw721` adds the lookup maps, the registered class of every binding
  and the pair of every refund record. The halves need each other where the bridges
  touch: the NFT that one module holds is, for the other, an NFT that does not
  circulate, and a refund burns only what neither binds. `OneHalfCirculates`
  follows with no further induction: an NFT has one owner, and a contract half
  circulates only while that owner is its own module account.
* `FInv` of the two bridges is about packets, as above, and adds that the NFTs of a
  convert packet are of a class of this chain, which is what makes the class
  `GetRefundClassId` computes the one they left from. While the loop of
  `RefundPacketToken` runs the module has what it has still to burn and to pay out;
  `CwBindingDroppedByRefund` rests on it.
* `SInv` describes the loop of the settlement: what it has visited, that a kept
  binding would be kept again, and what is left of each pair. Idempotence is not
  visible without it: the second pass relies on every outcome the first decided.
* `XInv` has the types, that a binding stays within the class of its contract, that
  the index holds finitely many entries (the counting argument behind
  `CleanReportIsPaired` needs it), and `PruneConverges` itself. The export property
  is proved of any store at all, reachable or not.
* `UInv` says which evidence tells the releases apart (the `EvmCoinInfo` record and
  the marker), what exists only before an upgrade, and that a paired or recorded
  voucher has the metadata of its source.
* `CInv` adds to the types that a class without a readable blob has no creator and
  no restriction. The restart of the chain is invisible in the ledger only because
  of it: the export writes exactly those defaults. `ImplementsNativeNfts` is then
  proved action by action, each shown to be a message of `NativeNfts` under the
  mapping, a transport, or a stutter.
* `ZInv` gives the state of the export's context at each call of
  `prepForZeroHeightGenesis`; `RInv` relates the step, the diagnostics and the files
  on disk, including those an earlier run left.
* `AInv` says at each decorator what the ones before it have established, with
  `Loop` for the turns of `ExtractMessagesFromTx` (every message is collected or
  lies under a queued one), and that a transaction that ran carries a sequence its
  first signer has left behind.
* `DInv` says that the frames of nested calls lie inside one another and inside the
  buffer, that the index lies inside the innermost frame, and that `skip` started at
  or before it. The length of the buffer fits an `int`; a length read from the wire
  may be any value of that width, negative ones included. Each addition is then
  shown either to be exact or to come out negative, which the code tests for. That
  is the whole argument: no leaf depends on the octets or on the fields of a
  message.

The assumptions are stated in the modules that declare the constants. Accounts are
distinct and no record is the absent value; the three kinds of class do not
overlap, a derived class names one contract and the legacy pairs are one-to-one
(`NativeNfts`, `Erc721Assets`, `Erc721Bridge`); the same for CW721 contracts
(`Cw721Convert`); a voucher class starts with a channel of this chain and no class of
this chain does, and two vouchers differ in their paths (`PathAssumption` of
`NftBridges`); two contracts have the same class or
no NFT in common (`UidIndex`); a class has fewer NFTs than its 64-bit counter can
count (`CollectionStore`); a transaction has a signer and a finite tree of messages
in which only `MsgExec` has children (`AnteHandler`, by the SDK's ValidateBasic, which
the decorator chain runs first); an `int` has at least four bits, a field number no
more than an `int`, and a request has a length an `int` can hold (`WireAssumption` of
`ProtoDecode`). `CwRefundsBurnTheNft` also assumes that there are no EVM contracts, as
in the run that checks it: with them the burn guard refuses an NFT that
`x/erc721` binds, which is the disagreement listed in section 3.

The theorems of `NodeProofs` are about `AnteSpec` and `ExportSpec`. Every step of
`Node` takes a step of one of them and leaves the variables of the other alone, so
its runs check the same behaviours. In the same way `DecoderStaysInside` is about
`DecodeSpec`: a step of the codec in `Node` is a step of it, where re-encoding an
accepted message is a `Redecode` of the bytes that `Marshal` wrote. `Node` itself
includes the encoder, whose recursive operators the prover cannot load.

Most leaves name `Zenon`, because they are first-order once the step above them has
picked the right facts, and the SMT translation spends its time on the types of a
large context; the leaves that need arithmetic, sequences or updated functions have
no name or name `SMTT`. In `ProtoDecodeProofs` the facts about recursive functions
(`Pow2`, the bits of a varint) come from their defining equations and, where an
induction is due, from the least element of the set of counterexamples.

Attempted proofs corrected the model twice. With two contracts `PruneConverges` and
`BindingNotRedirected` were false as stated first: the writers of the earlier
releases could cross classes in the model, which the pair lookup of the code rules
out, and purging one contract's pair drops a claim that an NFT of its class was left
with to a token of the other contract, after which that token can be bound anew. The
writers now respect the classes, the property states the exception, and the run
has two contracts.

Model-checked only:

* `EncodingIsFaithful`: what `Marshal` and `Size` compute is defined by recursion over
  the fields and the embedded messages, and a round trip through it is an
  induction over that data, which the prover does not do;
* `DecodingEnds`, a liveness property under fairness;
* the disagreements of section 3 that have a run, which are counterexamples.
  `RefundPaysTheSender` is both: proved for disjoint ids and refuted without.

## 5. Not modelled

* `x/evmibc`: the conversion on receipt that a packet's memo asks for. It runs the
  conversions of the bridges, which are modelled, in the middleware's cache
  context.
* `app/upgrades`: v0.3.3 runs the module migrations and nothing else. Of v0.4.0 the
  EVM denom metadata, the provenance keys of ERC20 pairs, the NFT transfer port and
  the chain configuration are left out: each is one write that nothing else in
  the model reads.
* The migration of the collection store from version 1 to 2 copies records key by
  key; the legacy records it leaves are the ones `CollectionStore` starts from.
* Metadata in the bridges, pair records that do not decode, and refund keys whose
  parts cannot be told apart.
* The decorators of the libraries for fees, gas, memo, timeout and relays, and the
  cryptography of EIP-712: a signature is the scheme it was made with and its
  sequence.
* In the `*.pb.go` files the gRPC stubs, getters and descriptors.
* Command line, simulation and queries hold no protocol state; the application
  constructor is wiring.

An abstract bridge ("one asset, one holder") for `Erc721Bridge` and `NftBridges` to
implement would be the next step.
