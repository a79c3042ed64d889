---------------------------- MODULE UpgradePlan -----------------------------
(***************************************************************************)
(* The v0.5.0 upgrade and the ERC20 side of the chain it leaves behind.    *)
(*                                                                         *)
(* The handler finds a chain in one of three states and decides by what is *)
(* in the store, not by a flag, which change sets to run: v0.4.0 only on a *)
(* v0.3.3 store, the v0.4.1 repairs always, then its own steps.  It may be *)
(* reached again.  Afterwards ICS-20 packets, governance and the retry of  *)
(* the backfill run, and inbound registration passes ERC20IBCGate.         *)
(*                                                                         *)
(* A handler that fails aborts its block and leaves no trace, so a step is *)
(* a handler that succeeds.  Its passes over the ERC721 store are in       *)
(* UidIndex and VoucherSettlement.                                         *)
(***************************************************************************)
EXTENDS Naturals

CONSTANTS
    Vouchers,    \* "ibc/" denoms
    Derivable,   \* the vouchers whose source denom gives its decimals away
    Erc20s,      \* denoms of ERC20 contracts deployed by users
    Accounts,    \* auth accounts
    Modules,     \* modules with an enabling switch, "erc20" among them
    Scale,       \* 10^18, the fixed point of LegacyDec
    Fees,        \* bound: raw base fees the fee market reaches
    Unset

ASSUME UpgradeAssumption ==
    /\ Derivable \subseteq Vouchers
    /\ Vouchers \cap Erc20s = {}
    /\ "erc20" \in Modules
    /\ Scale \in Nat /\ Scale > 1
    /\ Fees \subseteq Nat
    /\ Unset \notin BOOLEAN
    /\ \A F \in SUBSET {"enable", "EnableEVMHook"} : F # Unset

VARIABLES
    release,      \* the release that wrote the store
    coinInfo,     \* EvmCoinInfo is in the EVM store
    marker,       \* migrationsAppliedKey
    failures,     \* backfillFailuresKey
    pairs,        \* x/erc20 pair of a denom: its ContractOwner and scheme
    meta,         \* bank metadata of a voucher
    supply,       \* the vouchers with a supply
    open,         \* PermissionlessRegistration
    switch,       \* module |-> the flags its stored params encode, or Unset
    legacy,       \* module |-> its flags in the x/params subspace
    precompiles,  \* ActiveStaticPrecompiles
    ica,          \* ControllerEnabled of the ICA controller
    baseFee,      \* raw integer of the fee market's base fee
    accounts,     \* auth record: type, public key and code hash
    evmCode,      \* accounts with a code hash in the EVM store
    atUpgrade     \* history: the vouchers with a supply when the handler ran, and
                  \* those its repair of the metadata could not reach

chainVars == <<switch, legacy, precompiles, ica, baseFee, accounts, evmCode>>
planVars == <<release, coinInfo, marker, failures, atUpgrade>>
upgradeVars == <<release, coinInfo, marker, failures, pairs, meta, supply, open, switch, legacy,
                 precompiles, ica, baseFee, accounts, evmCode, atUpgrade>>

Coins == Vouchers \cup Erc20s

\* OWNER_EXTERNAL, OWNER_MODULE with a deployed contract (v0.3.3), and
\* OWNER_MODULE with a derived address.
PairKinds == {"none", "external", "deployed", "STRv2"}

\* ibc-go's shape reads as 0 decimals, shape C as those of the source denom;
\* without metadata the precompile derives them.
Shapes == {"absent", "ibc-go", "C"}

\* The flags of a module's Params.  The encoding holds those that are TRUE
\* and no others, so that it is empty when all are FALSE.
Flags(m) == IF m = "erc20" THEN {"enable"} ELSE {"enable", "EnableEVMHook"}

AccountRecords ==
    [type : {"EthAccount", "BaseAccount", "other"}, key : {"ethermint", "cosmos", Unset}, code : BOOLEAN]

PlanTypeOK ==
    /\ release \in {"v0.3.3", "v0.4.0", "v0.4.1", "v0.5.0"}
    /\ coinInfo \in BOOLEAN /\ marker \in BOOLEAN /\ open \in BOOLEAN /\ ica \in BOOLEAN
    /\ failures \in SUBSET Vouchers
    /\ pairs \in [Coins -> PairKinds]
    /\ meta \in [Vouchers -> Shapes]
    /\ supply \in SUBSET Vouchers
    /\ switch \in [Modules -> {Unset} \cup SUBSET {"enable", "EnableEVMHook"}]
    /\ \A m \in Modules : switch[m] # Unset => switch[m] \subseteq Flags(m)
    /\ \A m \in Modules : legacy[m] \in [Flags(m) -> BOOLEAN \cup {Unset}]
    /\ precompiles \in {"empty", "default", "chosen"}
    /\ baseFee \in Nat
    /\ accounts \in [Accounts -> AccountRecords]
    /\ evmCode \in SUBSET Accounts
    /\ atUpgrade \in [vouchers : SUBSET Vouchers, missed : SUBSET Vouchers]

(***************************************************************************)
(* ibc.NormalizeVoucherDecimals                                            *)
(***************************************************************************)

\* Mutated form: decimals are only derived for a denom that has none yet.
NormalizeVoucherMetadataAbsent(d, shape) ==
    IF shape = "absent" THEN "C" ELSE shape

\* NormalizeVoucherMetadata: shape C, or the record as it is when the source
\* denom or its exponent cannot be read.
NormalizeVoucherMetadata(d, shape) ==
    IF shape = "ibc-go" /\ d \in Derivable THEN "C" ELSE shape

(***************************************************************************)
(* The v0.4.0 change set                                                   *)
(***************************************************************************)

\* getLegacyBoolParam of every flag, with the default TRUE all of them have.
LegacyParams(m) == {f \in Flags(m) : legacy[m][f] # FALSE}

\* Mutated form: the defaults are written, whatever the chain had chosen.
MigrateParamsDefault(m) == Flags(m)

\* migrateErc721Params and migrateCw721Params keep what is there already.
MigrateParams(m) == IF switch[m] # Unset THEN switch[m] ELSE LegacyParams(m)

\* migrateErc20Params writes over it.
MigrateErc20Params == LegacyParams("erc20")

\* Mutated form: the owner of the pair is not looked at.
DeleteLegacyPairs(P) == [d \in Coins |-> "none"]

\* deleteLegacyOwnerModulePairs: every pair of the module, of either scheme.
DeleteLegacyOwnerModulePairs(P) ==
    [d \in Coins |-> IF P[d] \in {"deployed", "STRv2"} THEN "none" ELSE P[d]]

\* Mutated form: the code hash of a contract account is not carried over.
MigratedCodeDropped == evmCode

\* The code hashes migrateLegacyEVMAccounts writes to the EVM store.
MigratedCode ==
    evmCode \cup {a \in Accounts : accounts[a].type = "EthAccount" /\ accounts[a].code}

\* migrateLegacyEVMAccounts and migrateRetainedAccountPubKey.
MigratedAccount(r) ==
    [type |-> IF r.type = "EthAccount" THEN "BaseAccount" ELSE r.type,
     key  |-> IF r.key = "ethermint" THEN "cosmos" ELSE r.key,
     code |-> IF r.type = "EthAccount" THEN FALSE ELSE r.code]

\* deleteLegacyParamsSubspace, for each of the modules.
NoLegacy == [m \in Modules |-> [f \in Flags(m) |-> Unset]]
DeleteLegacyParamsSubspace == legacy' = NoLegacy

\* The v0.4.0 stages that touch neither pairs nor vouchers.
MigrateV040 ==
    /\ switch' = [m \in Modules |-> IF m = "erc20" THEN MigrateErc20Params ELSE MigrateParams(m)]
    /\ accounts' = [a \in Accounts |-> MigratedAccount(accounts[a])]
    /\ evmCode' = MigratedCode
    /\ DeleteLegacyParamsSubspace

(***************************************************************************)
(* The v0.4.1 repairs                                                      *)
(***************************************************************************)

\* migrateActiveStaticPrecompiles
RepairedPrecompiles == IF precompiles = "empty" THEN "default" ELSE precompiles

\* Mutated form: every base fee is taken for a legacy one.
RepairedBaseFeeAlways(fee) == fee * Scale

\* withRepairedBaseFee: a value below one wei is a legacy integer.
RepairedBaseFee(fee) == IF fee > 0 /\ fee < Scale THEN fee * Scale ELSE fee

\* migrateICAControllerParams
EnableICAController == ica' = TRUE

RepairV041 ==
    /\ precompiles' = RepairedPrecompiles
    /\ EnableICAController
    /\ baseFee' = RepairedBaseFee(baseFee)

(***************************************************************************)
(* The v0.5.0 handler                                                      *)
(***************************************************************************)

\* The probe of evmCoinInfoInitialized.
FromLegacyState == ~coinInfo

\* ibcVoucherDenoms
IbcVoucherDenoms == supply

\* Mutated form: vouchers without metadata are left out.
BackfillDescribed(P, failed) ==
    [d \in Coins |-> IF d \in IbcVoucherDenoms \ failed /\ P[d] = "none" /\ meta[d] # "absent"
                      THEN "STRv2" ELSE P[d]]

\* backfillIBCVoucherTokenPairs, where RegisterERC20Extension refuses failed.
BackfillIBCVoucherTokenPairs(P, failed) ==
    [d \in Coins |-> IF d \in IbcVoucherDenoms \ failed /\ P[d] = "none" THEN "STRv2" ELSE P[d]]

\* The marker a completed run leaves.
AlreadyApplied == marker

\* enablePermissionlessRegistration
EnablePermissionlessRegistration == open' = TRUE

\* normalizeIBCVoucherERC20Decimals
NormalizeIBCVoucherERC20Decimals ==
    meta' = [d \in Vouchers |-> IF d \in IbcVoucherDenoms THEN NormalizeVoucherMetadata(d, meta[d])
                                ELSE meta[d]]

\* recordBackfillFailures: an empty list removes the record.
RecordBackfillFailures(failed) == failures' = failed

\* The pairs runMigrationSet leaves.
KeptPairs == IF FromLegacyState THEN DeleteLegacyOwnerModulePairs(pairs) ELSE pairs

\* runMigrationSet: v0.4.0 if the store needs it, then the repairs.
RunMigrationSet ==
    /\ IF FromLegacyState THEN MigrateV040 ELSE UNCHANGED <<switch, legacy, accounts, evmCode>>
    /\ coinInfo' = TRUE
    /\ RepairV041

RunUpgrade(failed) ==
    /\ ~AlreadyApplied
    /\ failed \subseteq {d \in IbcVoucherDenoms : KeptPairs[d] = "none"}
    /\ RunMigrationSet
    /\ EnablePermissionlessRegistration
    /\ NormalizeIBCVoucherERC20Decimals
    /\ pairs' = BackfillIBCVoucherTokenPairs(KeptPairs, failed)
    /\ RecordBackfillFailures(failed)
    /\ marker' = TRUE
    /\ release' = "v0.5.0"
    /\ atUpgrade' = [vouchers |-> supply,
                     missed   |-> {d \in Vouchers : IF d \in supply THEN meta[d] = "absent"
                                                    ELSE KeptPairs[d] # "none"}]
    /\ UNCHANGED supply

\* The plan is reached again: only RunMigrations, with nothing to migrate.
ReplayUpgrade ==
    /\ AlreadyApplied
    /\ UNCHANGED upgradeVars

\* RetryIBCVoucherBackfill, by a tail migration, on the recorded denoms.  The
\* record itself stays.
RetryIBCVoucherBackfill(stillFailed) ==
    /\ release = "v0.5.0"
    /\ stillFailed \subseteq failures
    /\ pairs' = [d \in Coins |-> IF d \in failures \ stillFailed /\ pairs[d] = "none"
                                  THEN "STRv2" ELSE pairs[d]]
    /\ UNCHANGED <<planVars, chainVars, meta, supply, open>>

\* GetEnableErc721 and its peers: GetParams of x/erc721 takes an empty
\* encoding for a missing one and returns DefaultParams, in which the flags
\* are TRUE; the others ask the store whether there is one.
GetEnabled(m) ==
    \/ switch[m] = Unset
    \/ m = "erc721" /\ switch[m] = {}
    \/ "enable" \in switch[m]

(***************************************************************************)
(* After the upgrade                                                       *)
(***************************************************************************)

\* wouldAutoRegisterTokenPair, for an "ibc/" denom.
WouldAutoRegisterTokenPair(d) == pairs[d] = "none"

\* Mutated form: the gate asks the module's switch.
RegistrationEnabledModule == "enable" \in switch["erc20"]

\* permissionlessRegistrationEnabled
RegistrationEnabled == open

\* What the upstream callback may do with a credited packet (external): give
\* an unpaired voucher its pair, or nothing (a module account's packet).  If
\* it fails the whole packet is undone.
UpstreamOnRecvPacket(d) ==
    \/ UNCHANGED pairs
    \/ pairs[d] = "none" /\ pairs' = [pairs EXCEPT ![d] = "STRv2"]

\* An ICS-20 packet: the credit, with ibc-go's metadata for a new voucher,
\* then ERC20IBCGate.OnRecvPacket.
OnRecvPacket(d) ==
    LET credited == IF meta[d] = "absent" THEN "ibc-go" ELSE meta[d]
    IN  /\ release = "v0.5.0"
        /\ supply' = supply \cup {d}
        /\ IF RegistrationEnabled
           THEN /\ meta' = [meta EXCEPT ![d] = IF WouldAutoRegisterTokenPair(d)
                                               THEN NormalizeVoucherMetadata(d, credited)
                                               ELSE credited]
                /\ UpstreamOnRecvPacket(d)
           ELSE /\ meta' = [meta EXCEPT ![d] = credited]
                /\ IF WouldAutoRegisterTokenPair(d) THEN UNCHANGED pairs ELSE UpstreamOnRecvPacket(d)
        /\ UNCHANGED <<planVars, chainVars, open>>

\* The last of a voucher goes home.
VoucherLeaves(d) ==
    /\ release = "v0.5.0"
    /\ supply' = supply \ {d}
    /\ UNCHANGED <<planVars, chainVars, pairs, meta, open>>

\* MsgRegisterERC20 of a deployed contract (external).
RegisterERC20(d) ==
    /\ release = "v0.5.0"
    /\ open
    /\ pairs[d] = "none"
    /\ pairs' = [pairs EXCEPT ![d] = "external"]
    /\ UNCHANGED <<planVars, chainVars, meta, supply, open>>

\* MsgUpdateParams of x/erc20 (external), by the governance account.
UpdateErc20Params(o, flags) ==
    /\ release = "v0.5.0"
    /\ open' = o
    /\ switch' = [switch EXCEPT !["erc20"] = flags]
    /\ UNCHANGED <<planVars, legacy, precompiles, ica, baseFee, accounts, evmCode, pairs, meta, supply>>

\* MsgUpdateParams of x/erc721 or x/cw721, by the governance account.
UpdateParams(m, flags) ==
    /\ release = "v0.5.0"
    /\ switch' = [switch EXCEPT ![m] = flags]
    /\ UNCHANGED <<planVars, legacy, precompiles, ica, baseFee, accounts, evmCode, pairs, meta,
                   supply, open>>

\* MsgUpdateParams of x/vm (external), by the governance account.
UpdateVMParams(p) ==
    /\ release = "v0.5.0"
    /\ precompiles' = p
    /\ UNCHANGED <<planVars, switch, legacy, ica, baseFee, accounts, evmCode, pairs, meta, supply, open>>

\* The fee market's BeginBlock (external).
BaseFeeMoves(fee) ==
    /\ release = "v0.5.0"
    /\ baseFee' = fee
    /\ UNCHANGED <<planVars, switch, legacy, precompiles, ica, accounts, evmCode, pairs, meta,
                   supply, open>>

(***************************************************************************)
(* The specification                                                       *)
(***************************************************************************)

\* A v0.3.3 store, or one that v0.4.0 and perhaps v0.4.1 have been over.
PlanInit ==
    /\ release \in {"v0.3.3", "v0.4.0", "v0.4.1"}
    /\ coinInfo = (release # "v0.3.3")
    /\ marker = FALSE
    /\ failures = {}
    /\ pairs \in [Coins -> PairKinds]
    /\ \A d \in Erc20s : pairs[d] \in {"none", "external"}
    /\ \A d \in Vouchers : pairs[d] \in {"none", IF release = "v0.3.3" THEN "deployed" ELSE "STRv2"}
    /\ meta \in [Vouchers -> Shapes \ {"C"}]
    /\ supply \in SUBSET Vouchers
    /\ open \in IF release = "v0.3.3" THEN {FALSE} ELSE BOOLEAN
    /\ IF release = "v0.3.3"
       THEN /\ switch = [m \in Modules |-> Unset]
            /\ legacy \in [Modules -> UNION {[Flags(m) -> BOOLEAN \cup {Unset}] : m \in Modules}]
            /\ \A m \in Modules : DOMAIN legacy[m] = Flags(m)
            /\ accounts \in [Accounts -> AccountRecords]
            /\ \A a \in Accounts : accounts[a].code => accounts[a].type = "EthAccount"
       ELSE /\ switch \in [Modules -> UNION {SUBSET Flags(m) : m \in Modules}]
            /\ \A m \in Modules : switch[m] \subseteq Flags(m)
            /\ legacy = NoLegacy
            /\ accounts = [a \in Accounts |-> [type |-> "BaseAccount", key |-> "cosmos", code |-> FALSE]]
    /\ evmCode \in IF release = "v0.3.3" THEN {{}} ELSE SUBSET Accounts
    /\ precompiles \in IF release = "v0.4.1" THEN {"default", "chosen"} ELSE {"empty"}
    /\ ica = (release = "v0.4.1")
    /\ baseFee \in IF release = "v0.4.1" THEN Fees ELSE {f \in Fees : f > 0 /\ f < Scale}
    /\ atUpgrade = [vouchers |-> {}, missed |-> {}]

ByGovernance ==
    \/ \E o \in BOOLEAN, flags \in SUBSET Flags("erc20") : UpdateErc20Params(o, flags)
    \/ \E m \in Modules \ {"erc20"} : \E flags \in SUBSET Flags(m) : UpdateParams(m, flags)
    \/ \E p \in {"default", "chosen", "empty"} : UpdateVMParams(p)

PlanNext ==
    \/ \E F \in SUBSET Vouchers : RunUpgrade(F) \/ RetryIBCVoucherBackfill(F)
    \/ ReplayUpgrade
    \/ \E d \in Vouchers : OnRecvPacket(d) \/ VoucherLeaves(d)
    \/ \E d \in Erc20s : RegisterERC20(d)
    \/ ByGovernance
    \/ \E f \in Fees : BaseFeeMoves(f)

PlanSpec == PlanInit /\ [][PlanNext]_upgradeVars

(***************************************************************************)
(* Properties                                                              *)
(***************************************************************************)

\* A voucher that had a supply when the handler ran has a pair or is in the
\* failure record: a denom RegisterERC20Extension refused is never forgotten,
\* although the marker keeps every replay away from it.
VouchersPairedOrRecorded ==
    \A d \in atUpgrade.vouchers : pairs[d] # "none" \/ d \in failures

\* decimals() of a paired voucher is that of its source denom, when it can be
\* read there, and whether the upgrade, a packet or the retry made the pair.
\* The handler does not reach a voucher without metadata (ibc-go writes it
\* with the next packet) or one paired before that had no supply then.
DecimalsFollowSource ==
    release = "v0.5.0" =>
        \A d \in Derivable \ atUpgrade.missed : pairs[d] = "STRv2" => meta[d] # "ibc-go"

\* No step takes away a pair that the present x/erc20 works with: the stage
\* that deletes every pair of the module runs on a v0.3.3 store only.
LivePairsSurvive ==
    [][\A d \in Coins : pairs[d] \in {"external", "STRv2"} => pairs'[d] = pairs[d]]_upgradeVars

\* While governance keeps permissionless registration off, a packet gives no
\* voucher a pair; only the upgrade and the retry of its failures do.
NoPairWhileClosed ==
    [][\A d \in Coins :
          release = "v0.5.0" /\ ~open /\ pairs[d] = "none" /\ pairs'[d] # "none" => d \in failures]_upgradeVars

\* The flags of a module as the chain has set them, before or after v0.4.0.
Chosen(m) == IF switch[m] # Unset THEN switch[m] ELSE LegacyParams(m)

\* After the upgrade, and across it for what the chain had chosen, only
\* governance moves a flag: neither the change of parameter store nor a
\* replay of the plan puts a default back.
OnlyGovernanceMovesSwitches ==
    [][\/ /\ \A m \in Modules : Chosen(m)' = Chosen(m)
          /\ release = "v0.5.0" => open' = open /\ precompiles' = precompiles
          /\ precompiles = "chosen" => precompiles' = "chosen"
       \/ ByGovernance]_upgradeVars

\* The base fee in the present encoding.
FeeMeaning == IF release \in {"v0.3.3", "v0.4.0"} THEN baseFee * Scale ELSE baseFee

\* Neither the upgrade nor its replay changes the fee the stored value stands
\* for.  The exception is withRepairedBaseFee's: a v0.4.1 store whose fee has
\* fallen below one wei cannot be told from one in the old encoding.
UpgradeKeepsTheFee ==
    [][\/ FeeMeaning' = FeeMeaning
       \/ \E f \in Fees : BaseFeeMoves(f)
       \/ release = "v0.4.1" /\ baseFee < Scale]_upgradeVars

\* The params that a migration or governance writes are the params that the
\* module then reads: "every one of the four combinations is a configuration
\* the operator is entitled to choose, and EnableErc721=false is a supported
\* way to switch conversions off" (Params.Validate).
SwitchIsReadAsSet ==
    [][\A m \in Modules :
          switch'[m] # switch[m] => (GetEnabled(m)' <=> "enable" \in switch'[m])]_upgradeVars

HasCode(a) == accounts[a].code \/ a \in evmCode

\* An account that is a contract stays one when its record loses the code hash
\* to the EVM store, and what the upgrade leaves can be decoded by v0.5.0.
AccountsSurvive ==
    [][\A a \in Accounts :
          /\ HasCode(a)' = HasCode(a)
          /\ release' = "v0.5.0" => /\ accounts'[a].type # "EthAccount"
                                    /\ accounts'[a].key # "ethermint"]_upgradeVars
=============================================================================
