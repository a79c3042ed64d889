---------------------------- MODULE UpgradeProofs ----------------------------
(***************************************************************************)
(* Proofs about the v0.5.0 upgrade, for every store of an earlier release  *)
(* and every set of denoms, modules, accounts, contracts, classes and ids: *)
(* what the handler does to the pairs, decimals, switches, base fee and    *)
(* accounts of the chain it finds (UpgradePlan), and what its pass over the *)
(* pairs of IBC vouchers does to both ledgers, whichever of its EVM calls  *)
(* fail (VoucherSettlement).                                               *)
(***************************************************************************)
EXTENDS UpgradePlan, VoucherSettlement, Erc721RegistryProofs

-----------------------------------------------------------------------------
(* The handler and the chain it leaves behind *)

\* The store's own evidence of the release: the marker a completed run leaves
\* and the EvmCoinInfo record the handler probes for.
EvidenceOfRelease ==
    /\ marker = (release = "v0.5.0")
    /\ coinInfo = (release # "v0.3.3")

\* What a v0.3.3 store cannot hold yet and a later one no longer holds.
LegacyOnlyBefore ==
    /\ release = "v0.3.3" => /\ \A m \in Modules : switch[m] = Unset
                             /\ \A d \in Coins : pairs[d] # "STRv2"
    /\ release # "v0.3.3" => \A a \in Accounts : /\ accounts[a].type # "EthAccount"
                                                 /\ accounts[a].key # "ethermint"
    /\ release \in {"v0.3.3", "v0.4.0"} => 0 < baseFee /\ baseFee < Scale
    /\ release # "v0.5.0" => atUpgrade.vouchers = {}

\* A voucher the handler reached has metadata of shape C once it has a pair or
\* is on record for the retry: ibc-go's shape cannot come back.
SourceDecimals ==
    release = "v0.5.0" =>
        \A d \in Derivable \ atUpgrade.missed :
            pairs[d] = "STRv2" \/ d \in failures => meta[d] = "C"

UInv ==
    /\ PlanTypeOK
    /\ EvidenceOfRelease
    /\ LegacyOnlyBefore
    /\ VouchersPairedOrRecorded
    /\ SourceDecimals

-----------------------------------------------------------------------------
(* Params *)

\* The flags of a module are flags, and no set of them is the absent value.
LEMMA FlagFacts ==
    ASSUME NEW m \in Modules
    PROVE  /\ Flags(m) \subseteq {"enable", "EnableEVMHook"}
           /\ LegacyParams(m) \subseteq Flags(m) /\ LegacyParams(m) # Unset
           /\ \A F \in SUBSET Flags(m) : F # Unset /\ F \in SUBSET {"enable", "EnableEVMHook"}
<1>1. Flags(m) \subseteq {"enable", "EnableEVMHook"}
  BY Zenon DEF Flags
<1>2. LegacyParams(m) \subseteq Flags(m)
  BY Zenon DEF LegacyParams
<1>. QED
  BY <1>1, <1>2, UpgradeAssumption, Zenon

-----------------------------------------------------------------------------
(* The store the upgrade finds *)

\* Each of the three stores the handler can find satisfies the invariant.
LEMMA InitUInv == PlanInit => UInv
<1>. SUFFICES ASSUME PlanInit PROVE UInv
  BY Zenon
<1>1. switch \in [Modules -> {Unset} \cup SUBSET {"enable", "EnableEVMHook"}]
      /\ \A m \in Modules : switch[m] # Unset => switch[m] \subseteq Flags(m)
  <2>1. CASE release = "v0.3.3"
    BY <2>1, Zenon DEF PlanInit
  <2>2. CASE release # "v0.3.3"
    <3>1. \A m \in Modules : switch[m] \subseteq Flags(m)
      BY <2>2, Zenon DEF PlanInit
    <3>2. \A m \in Modules : switch[m] \in SUBSET {"enable", "EnableEVMHook"}
      BY <3>1, FlagFacts, Zenon
    <3>3. switch = [m \in Modules |-> switch[m]]
      BY <2>2, Zenon DEF PlanInit
    <3>. HIDE DEF PlanInit
    <3>. QED
      BY <3>1, <3>2, <3>3, Zenon
  <2>. QED
    BY <2>1, <2>2, Zenon
<1>2. \A m \in Modules : legacy[m] \in [Flags(m) -> BOOLEAN \cup {Unset}]
  <2>1. CASE release = "v0.3.3"
    <3>. SUFFICES ASSUME NEW m \in Modules PROVE legacy[m] \in [Flags(m) -> BOOLEAN \cup {Unset}]
      BY Zenon
    <3>1. legacy[m] \in UNION {[Flags(n) -> BOOLEAN \cup {Unset}] : n \in Modules}
          /\ DOMAIN legacy[m] = Flags(m)
      BY <2>1, Zenon DEF PlanInit
    <3>2. PICK n \in Modules : legacy[m] \in [Flags(n) -> BOOLEAN \cup {Unset}]
      BY <3>1, Zenon
    <3>. QED
      BY <3>1, <3>2, Zenon
  <2>2. CASE release # "v0.3.3"
    BY <2>2 DEF PlanInit, NoLegacy
  <2>. QED
    BY <2>1, <2>2, Zenon
<1>3. accounts \in [Accounts -> AccountRecords]
  <2>1. [type |-> "BaseAccount", key |-> "cosmos", code |-> FALSE] \in AccountRecords
    BY Zenon DEF AccountRecords
  <2>. QED
    BY <2>1, Zenon DEF PlanInit
<1>4. /\ release \in {"v0.3.3", "v0.4.0", "v0.4.1", "v0.5.0"}
      /\ coinInfo \in BOOLEAN /\ marker \in BOOLEAN /\ open \in BOOLEAN /\ ica \in BOOLEAN
      /\ failures \in SUBSET Vouchers /\ pairs \in [Coins -> PairKinds]
      /\ meta \in [Vouchers -> Shapes] /\ supply \in SUBSET Vouchers
      /\ precompiles \in {"empty", "default", "chosen"} /\ baseFee \in Nat
      /\ evmCode \in SUBSET Accounts
      /\ atUpgrade \in [vouchers : SUBSET Vouchers, missed : SUBSET Vouchers]
  BY UpgradeAssumption, Zenon DEF PlanInit
<1>5. PlanTypeOK
  BY <1>1, <1>2, <1>3, <1>4, Zenon DEF PlanTypeOK
<1>6. EvidenceOfRelease
  BY Zenon DEF PlanInit, EvidenceOfRelease
<1>7. LegacyOnlyBefore
  BY DEF PlanInit, LegacyOnlyBefore, Coins
<1>. QED
  BY <1>5, <1>6, <1>7, Zenon DEF PlanInit, UInv, VouchersPairedOrRecorded, SourceDecimals

-----------------------------------------------------------------------------
(* The handler *)

\* What RunMigrationSet leaves of the params, the accounts and the repairs.
LEMMA MigrationTypes ==
    ASSUME UInv, RunMigrationSet
    PROVE  /\ switch' \in [Modules -> {Unset} \cup SUBSET {"enable", "EnableEVMHook"}]
           /\ \A m \in Modules : switch'[m] # Unset => switch'[m] \subseteq Flags(m)
           /\ \A m \in Modules : legacy'[m] \in [Flags(m) -> BOOLEAN \cup {Unset}]
           /\ accounts' \in [Accounts -> AccountRecords] /\ evmCode' \in SUBSET Accounts
           /\ \A a \in Accounts : accounts'[a].type # "EthAccount" /\ accounts'[a].key # "ethermint"
           /\ precompiles' \in {"empty", "default", "chosen"} /\ ica' \in BOOLEAN
           /\ baseFee' \in Nat /\ coinInfo' = TRUE
<1>1. PlanTypeOK /\ EvidenceOfRelease /\ LegacyOnlyBefore
  BY Zenon DEF UInv
<1>2. /\ precompiles' \in {"empty", "default", "chosen"} /\ ica' \in BOOLEAN /\ coinInfo' = TRUE
      /\ baseFee' \in Nat
  BY <1>1, UpgradeAssumption DEF RunMigrationSet, RepairV041, RepairedPrecompiles,
     EnableICAController,
     RepairedBaseFee, PlanTypeOK
<1>3. CASE FromLegacyState
  <2>1. /\ switch' = [m \in Modules |-> IF m = "erc20" THEN MigrateErc20Params ELSE MigrateParams(m)]
        /\ accounts' = [a \in Accounts |-> MigratedAccount(accounts[a])]
        /\ evmCode' = MigratedCode /\ legacy' = NoLegacy
    BY <1>3, Zenon DEF RunMigrationSet, MigrateV040, DeleteLegacyParamsSubspace
  <2>2. \A m \in Modules : switch'[m] \in SUBSET Flags(m) /\ switch'[m] \in SUBSET {"enable", "EnableEVMHook"}
    BY <1>1, <2>1, FlagFacts, Zenon DEF MigrateErc20Params, MigrateParams, PlanTypeOK
  <2>3. \A m \in Modules : legacy'[m] \in [Flags(m) -> BOOLEAN \cup {Unset}]
    BY <2>1, Zenon DEF NoLegacy
  <2>4. \A a \in Accounts : /\ MigratedAccount(accounts[a]) \in AccountRecords
                            /\ MigratedAccount(accounts[a]).type # "EthAccount"
                            /\ MigratedAccount(accounts[a]).key # "ethermint"
    BY <1>1, Zenon DEF PlanTypeOK, AccountRecords, MigratedAccount
  <2>5. evmCode' \in SUBSET Accounts
    BY <1>1, <2>1, Zenon DEF PlanTypeOK, MigratedCode
  <2>. QED
    BY <1>2, <2>1, <2>2, <2>3, <2>4, <2>5, Zenon
<1>4. CASE ~FromLegacyState
  <2>1. UNCHANGED <<switch, legacy, accounts, evmCode>> /\ release # "v0.3.3"
    BY <1>1, <1>4, Zenon DEF RunMigrationSet, FromLegacyState, EvidenceOfRelease
  <2>. QED
    BY <1>1, <1>2, <2>1, Zenon DEF PlanTypeOK, LegacyOnlyBefore
<1>. QED
  BY <1>3, <1>4, Zenon

\* The handler, with any set of denoms the registration refuses.
LEMMA UpgradeStep ==
    ASSUME UInv, NEW F \in SUBSET Vouchers, RunUpgrade(F)
    PROVE  UInv'
<1>1. PlanTypeOK /\ Derivable \subseteq Vouchers
  BY UpgradeAssumption, Zenon DEF UInv
<1>2. /\ F \subseteq {d \in supply : KeptPairs[d] = "none"}
      /\ open' = TRUE /\ failures' = F /\ marker' = TRUE /\ release' = "v0.5.0" /\ UNCHANGED supply
      /\ meta' = [d \in Vouchers |-> IF d \in supply THEN NormalizeVoucherMetadata(d, meta[d]) ELSE meta[d]]
      /\ pairs' = [d \in Coins |-> IF d \in supply \ F /\ KeptPairs[d] = "none" THEN "STRv2"
                                    ELSE KeptPairs[d]]
      /\ atUpgrade' = [vouchers |-> supply,
                       missed   |-> {d \in Vouchers : IF d \in supply THEN meta[d] = "absent"
                                                      ELSE KeptPairs[d] # "none"}]
      /\ RunMigrationSet
  BY Zenon DEF RunUpgrade, EnablePermissionlessRegistration, NormalizeIBCVoucherERC20Decimals,
     BackfillIBCVoucherTokenPairs, RecordBackfillFailures, IbcVoucherDenoms
<1>3. KeptPairs \in [Coins -> PairKinds]
  BY <1>1, Zenon DEF KeptPairs, DeleteLegacyOwnerModulePairs, PlanTypeOK, PairKinds
<1>4. /\ switch' \in [Modules -> {Unset} \cup SUBSET {"enable", "EnableEVMHook"}]
      /\ \A m \in Modules : switch'[m] # Unset => switch'[m] \subseteq Flags(m)
      /\ \A m \in Modules : legacy'[m] \in [Flags(m) -> BOOLEAN \cup {Unset}]
      /\ accounts' \in [Accounts -> AccountRecords] /\ evmCode' \in SUBSET Accounts
      /\ \A a \in Accounts : accounts'[a].type # "EthAccount" /\ accounts'[a].key # "ethermint"
      /\ precompiles' \in {"empty", "default", "chosen"} /\ ica' \in BOOLEAN
      /\ baseFee' \in Nat /\ coinInfo' = TRUE
  BY <1>2, MigrationTypes, Zenon
<1>5. pairs' \in [Coins -> PairKinds] /\ meta' \in [Vouchers -> Shapes]
  BY <1>1, <1>2, <1>3, Zenon DEF PlanTypeOK, PairKinds, Shapes, NormalizeVoucherMetadata
<1>6. /\ supply \in SUBSET Vouchers /\ atUpgrade'.vouchers = supply
      /\ atUpgrade'.missed = {d \in Vouchers : IF d \in supply THEN meta[d] = "absent"
                                                ELSE KeptPairs[d] # "none"}
      /\ atUpgrade' \in [vouchers : SUBSET Vouchers, missed : SUBSET Vouchers]
  BY <1>1, <1>2, Zenon DEF PlanTypeOK
<1>7. PlanTypeOK'
  BY <1>2, <1>4, <1>5, <1>6, Zenon DEF PlanTypeOK
<1>8. EvidenceOfRelease' /\ LegacyOnlyBefore'
  BY <1>2, <1>4, Zenon DEF EvidenceOfRelease, LegacyOnlyBefore
<1>9. VouchersPairedOrRecorded'
  BY <1>2, <1>6, Zenon DEF VouchersPairedOrRecorded, Coins
<1>10. SourceDecimals'
  <2>. SUFFICES ASSUME NEW d \in Derivable, d \notin atUpgrade'.missed,
                       pairs'[d] = "STRv2" \/ d \in F
                PROVE  meta'[d] = "C"
    BY <1>2, Zenon DEF SourceDecimals
  <2>1. d \in Vouchers /\ d \in Coins
    BY <1>1, Zenon DEF Coins
  <2>2. d \in supply
    BY <1>2, <1>6, <2>1, Zenon
  <2>3. meta[d] \in {"ibc-go", "C"}
    BY <1>1, <1>6, <2>1, <2>2, Zenon DEF PlanTypeOK, Shapes
  <2>. QED
    BY <1>2, <2>1, <2>2, <2>3, Zenon DEF NormalizeVoucherMetadata
<1>. QED
  BY <1>7, <1>8, <1>9, <1>10, Zenon DEF UInv

-----------------------------------------------------------------------------
(* After the upgrade *)

\* The retry of the recorded failures: a denom on record is normalised, so the
\* pair it gets has the decimals of its source.
LEMMA RetryStep ==
    ASSUME UInv, NEW F \in SUBSET Vouchers, RetryIBCVoucherBackfill(F)
    PROVE  UInv'
<1>1. /\ release = "v0.5.0" /\ UNCHANGED <<planVars, chainVars, meta, supply, open>>
      /\ pairs' = [d \in Coins |-> IF d \in failures \ F /\ pairs[d] = "none"
                                    THEN "STRv2" ELSE pairs[d]]
  BY Zenon DEF RetryIBCVoucherBackfill
<1>2. /\ UNCHANGED <<release, coinInfo, marker, failures, atUpgrade, switch, legacy, precompiles, ica,
                     baseFee, accounts, evmCode, meta, supply, open>>
  BY <1>1, Zenon DEF planVars, chainVars
<1>3. PlanTypeOK /\ EvidenceOfRelease /\ LegacyOnlyBefore /\ VouchersPairedOrRecorded /\ SourceDecimals
  BY Zenon DEF UInv
<1>4. pairs' \in [Coins -> PairKinds]
  BY <1>1, <1>3, Zenon DEF PlanTypeOK, PairKinds
<1>5. PlanTypeOK'
  BY <1>2, <1>3, <1>4, Zenon DEF PlanTypeOK
<1>6. EvidenceOfRelease' /\ LegacyOnlyBefore'
  BY <1>1, <1>2, <1>3, Zenon DEF EvidenceOfRelease, LegacyOnlyBefore
<1>7. \A d \in Coins : pairs[d] # "none" => pairs'[d] = pairs[d]
  BY <1>1, Zenon
<1>8. VouchersPairedOrRecorded'
  BY <1>2, <1>3, <1>7, Zenon DEF VouchersPairedOrRecorded, PlanTypeOK, Coins
<1>9. SourceDecimals'
  BY <1>1, <1>2, <1>3, UpgradeAssumption, Zenon DEF SourceDecimals, Coins
<1>. QED
  BY <1>5, <1>6, <1>8, <1>9, Zenon DEF UInv

\* A packet: the pair it may give a voucher comes after the normalisation, and
\* a record of shape C is left alone.
LEMMA RecvStep ==
    ASSUME UInv, NEW d \in Vouchers, OnRecvPacket(d)
    PROVE  UInv'
<1>1. /\ release = "v0.5.0" /\ UNCHANGED <<planVars, chainVars, open>>
      /\ supply' = supply \cup {d}
  BY Zenon DEF OnRecvPacket
<1>2. UNCHANGED <<release, coinInfo, marker, failures, atUpgrade, switch, legacy, precompiles, ica,
                  baseFee, accounts, evmCode, open>>
  BY <1>1, Zenon DEF planVars, chainVars
<1>3. PlanTypeOK /\ EvidenceOfRelease /\ LegacyOnlyBefore /\ VouchersPairedOrRecorded /\ SourceDecimals
  BY Zenon DEF UInv
<1>4. \/ UNCHANGED pairs
      \/ pairs[d] = "none" /\ pairs' = [pairs EXCEPT ![d] = "STRv2"]
  BY Zenon DEF OnRecvPacket, UpstreamOnRecvPacket
<1>5. d \in Coins /\ pairs \in [Coins -> PairKinds] /\ meta \in [Vouchers -> Shapes]
  BY <1>3, Zenon DEF PlanTypeOK, Coins
<1>6. \A e \in Coins : pairs[e] # "none" => pairs'[e] = pairs[e]
  BY <1>4, <1>5, Zenon
<1>7. pairs' \in [Coins -> PairKinds]
  BY <1>4, <1>5, Zenon DEF PairKinds
<1>8. /\ meta' \in [Vouchers -> Shapes]
      /\ \A e \in Vouchers \ {d} : meta'[e] = meta[e] /\ pairs'[e] = pairs[e]
      /\ meta[d] = "C" => meta'[d] = "C"
  <2>1. \E s \in Shapes : meta' = [meta EXCEPT ![d] = s] /\ (meta[d] = "C" => s = "C")
    <3>1. meta[d] \in Shapes
      BY <1>5, Zenon
    <3>2. \A s \in Shapes : NormalizeVoucherMetadata(d, s) \in Shapes
                            /\ (s = "C" => NormalizeVoucherMetadata(d, s) = "C")
      BY Zenon DEF NormalizeVoucherMetadata, Shapes
    <3>3. (IF meta[d] = "absent" THEN "ibc-go" ELSE meta[d]) \in Shapes
      BY <3>1, Zenon DEF Shapes
    <3>. QED
      BY <3>1, <3>2, <3>3, Zenon DEF OnRecvPacket
  <2>2. \A e \in Vouchers \ {d} : pairs'[e] = pairs[e]
    BY <1>4, <1>5, Zenon DEF Coins
  <2>. QED
    BY <1>5, <2>1, <2>2, Zenon
<1>9. pairs' # pairs /\ d \in Derivable => meta'[d] = "C"
  <2>. SUFFICES ASSUME pairs' # pairs, d \in Derivable PROVE meta'[d] = "C"
    BY Zenon
  <2>1. open /\ pairs[d] = "none"
    BY <1>4, Zenon DEF OnRecvPacket, WouldAutoRegisterTokenPair, RegistrationEnabled
  <2>. QED
    BY <1>5, <2>1 DEF OnRecvPacket, WouldAutoRegisterTokenPair, RegistrationEnabled,
       NormalizeVoucherMetadata, Shapes
<1>10. PlanTypeOK'
  BY <1>1, <1>2, <1>3, <1>7, <1>8, Zenon DEF PlanTypeOK
<1>11. EvidenceOfRelease' /\ LegacyOnlyBefore'
  BY <1>1, <1>2, <1>3, Zenon DEF EvidenceOfRelease, LegacyOnlyBefore
<1>12. VouchersPairedOrRecorded'
  BY <1>2, <1>3, <1>6, Zenon DEF VouchersPairedOrRecorded, PlanTypeOK, Coins
<1>13. SourceDecimals'
  <2>. SUFFICES ASSUME NEW e \in Derivable \ atUpgrade.missed,
                       pairs'[e] = "STRv2" \/ e \in failures
                PROVE  meta'[e] = "C"
    BY <1>2, Zenon DEF SourceDecimals
  <2>0. e \in Vouchers
    BY UpgradeAssumption, Zenon
  <2>1. CASE pairs[e] = "STRv2" \/ e \in failures
    BY <1>1, <1>3, <1>8, <2>0, <2>1 DEF SourceDecimals
  <2>2. CASE ~(pairs[e] = "STRv2" \/ e \in failures)
    BY <1>8, <1>9, <2>0, <2>2, Zenon
  <2>. QED
    BY <2>1, <2>2, Zenon
<1>. QED
  BY <1>10, <1>11, <1>12, <1>13, Zenon DEF UInv

\* The steps that touch neither metadata nor the pairs of vouchers.
LEMMA OtherSteps ==
    ASSUME UInv, PlanNext, ~\E F \in SUBSET Vouchers : RunUpgrade(F) \/ RetryIBCVoucherBackfill(F),
           ~\E d \in Vouchers : OnRecvPacket(d)
    PROVE  UInv'
<1>1. PlanTypeOK /\ EvidenceOfRelease /\ LegacyOnlyBefore /\ VouchersPairedOrRecorded /\ SourceDecimals
  BY Zenon DEF UInv
<1>2. ASSUME UNCHANGED upgradeVars PROVE UInv'
  BY <1>1, <1>2, Zenon DEF upgradeVars, planVars, chainVars, UInv, PlanTypeOK, EvidenceOfRelease,
     LegacyOnlyBefore,
     VouchersPairedOrRecorded, SourceDecimals
<1>3. ASSUME NEW d \in Vouchers, VoucherLeaves(d) PROVE UInv'
  <2>1. /\ UNCHANGED <<release, coinInfo, marker, failures, atUpgrade, switch, legacy, precompiles, ica,
                       baseFee, accounts, evmCode, pairs, meta, open>>
        /\ supply' \in SUBSET Vouchers
    BY <1>1, <1>3, Zenon DEF VoucherLeaves, planVars, chainVars, PlanTypeOK
  <2>. QED
    BY <1>1, <2>1, Zenon DEF UInv, PlanTypeOK, EvidenceOfRelease, LegacyOnlyBefore,
       VouchersPairedOrRecorded,
       SourceDecimals
<1>4. ASSUME NEW d \in Erc20s, RegisterERC20(d) PROVE UInv'
  <2>1. /\ UNCHANGED <<release, coinInfo, marker, failures, atUpgrade, switch, legacy, precompiles, ica,
                       baseFee, accounts, evmCode, supply, meta, open>>
        /\ release = "v0.5.0" /\ pairs[d] = "none" /\ pairs' = [pairs EXCEPT ![d] = "external"]
    BY <1>4, Zenon DEF RegisterERC20, planVars, chainVars
  <2>2. /\ pairs' \in [Coins -> PairKinds]
        /\ \A e \in Coins : pairs[e] # "none" => pairs'[e] # "none"
        /\ \A e \in Coins : pairs'[e] = "STRv2" => pairs[e] = "STRv2"
    BY <1>1, <2>1, Zenon DEF PlanTypeOK, PairKinds, Coins
  <2>3. PlanTypeOK'
    BY <1>1, <2>1, <2>2, Zenon DEF PlanTypeOK
  <2>4. VouchersPairedOrRecorded' /\ SourceDecimals'
    BY <1>1, <2>1, <2>2, UpgradeAssumption, Zenon
       DEF VouchersPairedOrRecorded, SourceDecimals, PlanTypeOK, Coins
  <2>. QED
    BY <1>1, <2>1, <2>3, <2>4, Zenon DEF UInv, EvidenceOfRelease, LegacyOnlyBefore
<1>5. ASSUME ByGovernance \/ \E f \in Fees : BaseFeeMoves(f) PROVE UInv'
  <2>1. /\ UNCHANGED <<release, coinInfo, marker, failures, atUpgrade, legacy, ica, accounts, evmCode,
                       pairs, meta, supply>>
        /\ release = "v0.5.0"
    BY <1>5, Zenon DEF ByGovernance, UpdateErc20Params, UpdateParams, UpdateVMParams, BaseFeeMoves,
       planVars
  <2>2. /\ open' \in BOOLEAN /\ baseFee' \in Nat /\ precompiles' \in {"empty", "default", "chosen"}
    BY <1>1, <1>5, UpgradeAssumption, Zenon
       DEF ByGovernance, UpdateErc20Params, UpdateParams, UpdateVMParams, BaseFeeMoves, PlanTypeOK
  <2>3. UNCHANGED switch \/ \E m \in Modules : \E G \in SUBSET Flags(m) : switch' = [switch EXCEPT ![m] = G]
    BY <1>5, UpgradeAssumption, Zenon
       DEF ByGovernance, UpdateErc20Params, UpdateParams, UpdateVMParams, BaseFeeMoves
  <2>4. /\ switch' \in [Modules -> {Unset} \cup SUBSET {"enable", "EnableEVMHook"}]
        /\ \A m \in Modules : switch'[m] # Unset => switch'[m] \subseteq Flags(m)
    <3>1. CASE UNCHANGED switch
      BY <1>1, <3>1, Zenon DEF PlanTypeOK
    <3>2. CASE \E m \in Modules : \E G \in SUBSET Flags(m) : switch' = [switch EXCEPT ![m] = G]
      <4>1. PICK m \in Modules : \E G \in SUBSET Flags(m) : switch' = [switch EXCEPT ![m] = G]
        BY <3>2, Zenon
      <4>2. PICK G \in SUBSET Flags(m) : switch' = [switch EXCEPT ![m] = G]
        BY <4>1, Zenon
      <4>3. G \in SUBSET {"enable", "EnableEVMHook"}
        BY FlagFacts, Zenon
      <4>. QED
        BY <1>1, <4>2, <4>3, Zenon DEF PlanTypeOK
    <3>. QED
      BY <2>3, <3>1, <3>2, Zenon
  <2>5. PlanTypeOK'
    BY <1>1, <2>1, <2>2, <2>4, Zenon DEF PlanTypeOK
  <2>. QED
    BY <1>1, <2>1, <2>5, Zenon DEF UInv, EvidenceOfRelease, LegacyOnlyBefore,
       VouchersPairedOrRecorded,
       SourceDecimals
<1>. QED
  BY <1>2, <1>3, <1>4, <1>5, Zenon DEF PlanNext, ReplayUpgrade

\* UInv is inductive.
LEMMA NextUInv ==
    ASSUME UInv, [PlanNext]_upgradeVars
    PROVE  UInv'
<1>1. ASSUME UNCHANGED upgradeVars PROVE UInv'
  BY <1>1, Zenon DEF upgradeVars, planVars, chainVars, UInv, PlanTypeOK, EvidenceOfRelease,
     LegacyOnlyBefore,
     VouchersPairedOrRecorded, SourceDecimals
<1>. QED
  BY <1>1, UpgradeStep, RetryStep, RecvStep, OtherSteps, Zenon

\* Whatever v0.3.3, v0.4.0 or v0.4.1 store the handler finds, the marker and
\* the EvmCoinInfo record tell the release, no account of the old key type
\* outlives the migration, and nothing breaks PlanTypeOK.
THEOREM UpgradeInvariant == PlanSpec => []UInv
BY InitUInv, NextUInv, PTL DEF PlanSpec

\* backfillIBCVoucherTokenPairs forgets no voucher that had a supply.
THEOREM NoVoucherIsForgotten == PlanSpec => []VouchersPairedOrRecorded
<1>1. UInv => VouchersPairedOrRecorded
  BY Zenon DEF UInv
<1>. QED
  BY <1>1, UpgradeInvariant, PTL

\* decimals() of a voucher the handler or a packet paired is the source's.
THEOREM DecimalsAreTheSources == PlanSpec => []DecimalsFollowSource
<1>1. UInv => DecimalsFollowSource
  BY Zenon DEF UInv, SourceDecimals, DecimalsFollowSource
<1>. QED
  BY <1>1, UpgradeInvariant, PTL

-----------------------------------------------------------------------------
(* What no step does *)

\* What the handler does to the pairs: outside a v0.3.3 store it only adds.
LEMMA UpgradePairs ==
    ASSUME UInv, NEW F \in SUBSET Vouchers, RunUpgrade(F), NEW d \in Coins,
           pairs[d] \in {"external", "STRv2"}
    PROVE  pairs'[d] = pairs[d] /\ release # "v0.5.0"
<1>1. PlanTypeOK /\ EvidenceOfRelease /\ LegacyOnlyBefore
  BY Zenon DEF UInv
<1>2. release # "v0.5.0"
  BY <1>1, Zenon DEF RunUpgrade, AlreadyApplied, EvidenceOfRelease
<1>3. KeptPairs[d] = pairs[d]
  <2>1. CASE FromLegacyState
    <3>1. pairs[d] = "external"
      BY <1>1, <2>1, Zenon DEF FromLegacyState, EvidenceOfRelease, LegacyOnlyBefore, PlanTypeOK
    <3>. QED
      BY <2>1, <3>1, Zenon DEF KeptPairs, DeleteLegacyOwnerModulePairs
  <2>2. CASE ~FromLegacyState
    BY <2>2, Zenon DEF KeptPairs
  <2>. QED
    BY <2>1, <2>2, Zenon
<1>. QED
  BY <1>2, <1>3, Zenon DEF RunUpgrade, BackfillIBCVoucherTokenPairs

\* The steps other than the handler leave a pair alone once it is there.
LEMMA LaterPairs ==
    ASSUME UInv, PlanNext, ~\E F \in SUBSET Vouchers : RunUpgrade(F), NEW d \in Coins, pairs[d] # "none"
    PROVE  pairs'[d] = pairs[d]
<1>1. pairs \in [Coins -> PairKinds]
  BY Zenon DEF UInv, PlanTypeOK
<1>2. ASSUME NEW F \in SUBSET Vouchers, RetryIBCVoucherBackfill(F) PROVE pairs'[d] = pairs[d]
  BY <1>2, Zenon DEF RetryIBCVoucherBackfill
<1>3. ASSUME NEW e \in Vouchers, OnRecvPacket(e) PROVE pairs'[d] = pairs[d]
  BY <1>1, <1>3, Zenon DEF OnRecvPacket, UpstreamOnRecvPacket, Coins
<1>4. ASSUME NEW e \in Erc20s, RegisterERC20(e) PROVE pairs'[d] = pairs[d]
  BY <1>1, <1>4, Zenon DEF RegisterERC20, Coins
<1>5. ASSUME \/ ReplayUpgrade \/ \E e \in Vouchers : VoucherLeaves(e)
             \/ ByGovernance \/ \E f \in Fees : BaseFeeMoves(f)
      PROVE  pairs'[d] = pairs[d]
  BY <1>5, Zenon DEF ReplayUpgrade, VoucherLeaves, ByGovernance, UpdateErc20Params, UpdateParams,
     UpdateVMParams, BaseFeeMoves, upgradeVars
<1>. QED
  BY <1>2, <1>3, <1>4, <1>5, Zenon DEF PlanNext

\* deleteLegacyOwnerModulePairs never meets a pair of the present x/erc20: the
\* probe for EvmCoinInfo keeps the v0.4.0 stages off every store that can hold
\* one.
THEOREM LivePairsAreKept == PlanSpec => LivePairsSurvive
<1>1. ASSUME UInv, [PlanNext]_upgradeVars, NEW d \in Coins, pairs[d] \in {"external", "STRv2"}
      PROVE  pairs'[d] = pairs[d]
  <2>1. CASE UNCHANGED upgradeVars
    BY <2>1, Zenon DEF upgradeVars
  <2>2. CASE \E F \in SUBSET Vouchers : RunUpgrade(F)
    BY <1>1, <2>2, UpgradePairs, Zenon
  <2>3. CASE PlanNext /\ ~\E F \in SUBSET Vouchers : RunUpgrade(F)
    <3>1. pairs[d] # "none"
      BY <1>1, Zenon
    <3>. QED
      BY <1>1, <2>3, <3>1, LaterPairs, Zenon
  <2>. QED
    BY <1>1, <2>1, <2>2, <2>3, Zenon
<1>2. UInv /\ [PlanNext]_upgradeVars =>
        [\A d \in Coins : pairs[d] \in {"external", "STRv2"} => pairs'[d] = pairs[d]]_upgradeVars
  BY <1>1, Zenon
<1>. QED
  BY <1>2, UpgradeInvariant, PTL DEF PlanSpec, LivePairsSurvive

\* With permissionless registration off, ERC20IBCGate lets no packet make a
\* pair; what makes one is the retry, of a denom on record.
THEOREM ClosedGateMakesNoPair == PlanSpec => NoPairWhileClosed
<1>1. ASSUME UInv, [PlanNext]_upgradeVars, NEW d \in Coins, release = "v0.5.0", ~open,
             pairs[d] = "none", pairs'[d] # "none"
      PROVE  d \in failures
  <2>0. pairs \in [Coins -> PairKinds] /\ marker
    BY <1>1, Zenon DEF UInv, PlanTypeOK, EvidenceOfRelease
  <2>1. ~(UNCHANGED upgradeVars)
    BY <1>1, Zenon DEF upgradeVars
  <2>2. ASSUME NEW F \in SUBSET Vouchers, RunUpgrade(F) PROVE FALSE
    BY <2>0, <2>2, Zenon DEF RunUpgrade, AlreadyApplied
  <2>3. ASSUME NEW F \in SUBSET Vouchers, RetryIBCVoucherBackfill(F) PROVE d \in failures
    BY <1>1, <2>3, Zenon DEF RetryIBCVoucherBackfill
  <2>4. ASSUME NEW e \in Vouchers, OnRecvPacket(e) PROVE FALSE
    BY <1>1, <2>0, <2>4, Zenon DEF OnRecvPacket, UpstreamOnRecvPacket, RegistrationEnabled,
       WouldAutoRegisterTokenPair, Coins
  <2>5. ASSUME NEW e \in Erc20s, RegisterERC20(e) PROVE FALSE
    BY <1>1, <2>5, Zenon DEF RegisterERC20
  <2>6. ASSUME \/ ReplayUpgrade \/ \E e \in Vouchers : VoucherLeaves(e)
               \/ ByGovernance \/ \E f \in Fees : BaseFeeMoves(f)
        PROVE  FALSE
    BY <1>1, <2>6, Zenon DEF ReplayUpgrade, VoucherLeaves, ByGovernance, UpdateErc20Params,
       UpdateParams,
       UpdateVMParams, BaseFeeMoves, upgradeVars
  <2>. QED
    BY <1>1, <2>1, <2>2, <2>3, <2>4, <2>5, <2>6, Zenon DEF PlanNext
<1>2. UInv /\ [PlanNext]_upgradeVars =>
        [\A d \in Coins : release = "v0.5.0" /\ ~open /\ pairs[d] = "none" /\ pairs'[d] # "none"
             => d \in failures]_upgradeVars
  BY <1>1, Zenon
<1>. QED
  BY <1>2, UpgradeInvariant, PTL DEF PlanSpec, NoPairWhileClosed

\* withRepairedBaseFee keeps the fee the chain charged; the fees it cannot tell
\* from legacy ones are those of a v0.4.1 store below one wei.
THEOREM TheFeeIsKept == PlanSpec => UpgradeKeepsTheFee
<1>1. ASSUME UInv, [PlanNext]_upgradeVars, ~\E f \in Fees : BaseFeeMoves(f),
             ~(release = "v0.4.1" /\ baseFee < Scale)
      PROVE  FeeMeaning' = FeeMeaning
  <2>0. PlanTypeOK /\ EvidenceOfRelease /\ LegacyOnlyBefore
    BY <1>1, Zenon DEF UInv
  <2>1. ASSUME NEW F \in SUBSET Vouchers, RunUpgrade(F) PROVE FeeMeaning' = FeeMeaning
    <3>1. release' = "v0.5.0" /\ baseFee' = RepairedBaseFee(baseFee) /\ release # "v0.5.0"
      BY <2>0, <2>1, Zenon DEF RunUpgrade, RunMigrationSet, RepairV041, AlreadyApplied,
         EvidenceOfRelease
    <3>2. CASE release \in {"v0.3.3", "v0.4.0"}
      BY <2>0, <3>1, <3>2, Zenon DEF LegacyOnlyBefore, RepairedBaseFee, FeeMeaning
    <3>3. CASE release = "v0.4.1"
      <4>1. baseFee \in Nat /\ Scale \in Nat /\ ~(baseFee < Scale)
        BY <1>1, <2>0, <3>3, UpgradeAssumption, Zenon DEF PlanTypeOK
      <4>2. RepairedBaseFee(baseFee) = baseFee
        BY <4>1, Zenon DEF RepairedBaseFee
      <4>. QED
        BY <3>1, <3>3, <4>2, Zenon DEF FeeMeaning
    <3>. QED
      BY <2>0, <3>1, <3>2, <3>3, Zenon DEF PlanTypeOK
  <2>2. ASSUME ~\E F \in SUBSET Vouchers : RunUpgrade(F) PROVE UNCHANGED <<release, baseFee>>
    BY <1>1, <2>2, Zenon DEF PlanNext, RetryIBCVoucherBackfill, OnRecvPacket, RegisterERC20,
       ReplayUpgrade,
       VoucherLeaves, ByGovernance, UpdateErc20Params, UpdateParams, UpdateVMParams, upgradeVars, planVars,
       chainVars
  <2>. QED
    BY <2>1, <2>2, Zenon DEF FeeMeaning
<1>2. UInv /\ [PlanNext]_upgradeVars
        => [\/ FeeMeaning' = FeeMeaning
            \/ \E f \in Fees : BaseFeeMoves(f)
            \/ release = "v0.4.1" /\ baseFee < Scale]_upgradeVars
  BY <1>1, Zenon
<1>. QED
  BY <1>2, UpgradeInvariant, PTL DEF PlanSpec, UpgradeKeepsTheFee

\* The change of parameter store carries every flag over: a flag the chain had
\* set in the x/params subspace, or left at its default, is what the module's
\* own store says afterwards.
THEOREM SwitchesFollowGovernance == PlanSpec => OnlyGovernanceMovesSwitches
<1>1. ASSUME UInv, [PlanNext]_upgradeVars, ~ByGovernance
      PROVE  /\ \A m \in Modules : Chosen(m)' = Chosen(m)
             /\ release = "v0.5.0" => open' = open /\ precompiles' = precompiles
             /\ precompiles = "chosen" => precompiles' = "chosen"
  <2>0. PlanTypeOK /\ EvidenceOfRelease /\ LegacyOnlyBefore
    BY <1>1, Zenon DEF UInv
  <2>1. ASSUME NEW F \in SUBSET Vouchers, RunUpgrade(F)
        PROVE  /\ \A m \in Modules : Chosen(m)' = Chosen(m)
               /\ release # "v0.5.0"
               /\ precompiles = "chosen" => precompiles' = "chosen"
    <3>1. release # "v0.5.0" /\ RunMigrationSet
      BY <2>0, <2>1, Zenon DEF RunUpgrade, AlreadyApplied, EvidenceOfRelease
    <3>2. precompiles = "chosen" => precompiles' = "chosen"
      BY <3>1, Zenon DEF RunMigrationSet, RepairV041, RepairedPrecompiles
    <3>3. CASE FromLegacyState
      <4>1. \A m \in Modules : switch[m] = Unset
        BY <2>0, <3>3, Zenon DEF FromLegacyState, EvidenceOfRelease, LegacyOnlyBefore, PlanTypeOK
      <4>2. \A m \in Modules : switch'[m] = LegacyParams(m)
        BY <3>1, <3>3, <4>1, Zenon DEF RunMigrationSet, MigrateV040, MigrateErc20Params,
           MigrateParams
      <4>3. \A m \in Modules : LegacyParams(m) # Unset
        BY FlagFacts, Zenon
      <4>. QED
        BY <3>1, <3>2, <4>1, <4>2, <4>3, Zenon DEF Chosen
    <3>4. CASE ~FromLegacyState
      <4>1. UNCHANGED <<switch, legacy>>
        BY <3>1, <3>4, Zenon DEF RunMigrationSet
      <4>. QED
        BY <3>1, <3>2, <4>1, Zenon DEF Chosen, LegacyParams
    <3>. QED
      BY <3>3, <3>4, Zenon
  <2>2. ASSUME ~\E F \in SUBSET Vouchers : RunUpgrade(F)
        PROVE  UNCHANGED <<switch, legacy, open, precompiles>>
    BY <1>1, <2>2, Zenon DEF PlanNext, RetryIBCVoucherBackfill, OnRecvPacket, RegisterERC20,
       ReplayUpgrade,
       VoucherLeaves, BaseFeeMoves, upgradeVars, planVars, chainVars
  <2>. QED
    BY <2>1, <2>2, Zenon DEF Chosen, LegacyParams
<1>2. UInv /\ [PlanNext]_upgradeVars =>
        [\/ /\ \A m \in Modules : Chosen(m)' = Chosen(m)
            /\ release = "v0.5.0" => open' = open /\ precompiles' = precompiles
            /\ precompiles = "chosen" => precompiles' = "chosen"
         \/ ByGovernance]_upgradeVars
  BY <1>1, Zenon
<1>. QED
  BY <1>2, UpgradeInvariant, PTL DEF PlanSpec, OnlyGovernanceMovesSwitches

\* migrateLegacyEVMAccounts moves a code hash and loses none, and it leaves no
\* account of a type or key that v0.5.0 cannot decode.
THEOREM AccountsAreCarriedOver == PlanSpec => AccountsSurvive
<1>1. ASSUME UInv, [PlanNext]_upgradeVars, NEW a \in Accounts PROVE HasCode(a)' = HasCode(a)
  <2>0. PlanTypeOK
    BY <1>1, Zenon DEF UInv
  <2>1. ASSUME NEW F \in SUBSET Vouchers, RunUpgrade(F), FromLegacyState
        PROVE  HasCode(a)' = HasCode(a)
    <3>1. accounts' = [b \in Accounts |-> MigratedAccount(accounts[b])] /\ evmCode' = MigratedCode
      BY <2>1, Zenon DEF RunUpgrade, RunMigrationSet, MigrateV040
    <3>2. accounts[a].code \in BOOLEAN /\ accounts'[a] = MigratedAccount(accounts[a])
      BY <2>0, <3>1, Zenon DEF PlanTypeOK, AccountRecords
    <3>3. CASE accounts[a].type = "EthAccount"
      BY <3>1, <3>2, <3>3, Zenon DEF HasCode, MigratedAccount, MigratedCode
    <3>4. CASE accounts[a].type # "EthAccount"
      BY <3>1, <3>2, <3>4, Zenon DEF HasCode, MigratedAccount, MigratedCode
    <3>. QED
      BY <3>3, <3>4, Zenon
  <2>2. ASSUME NEW F \in SUBSET Vouchers, RunUpgrade(F), ~FromLegacyState
        PROVE  UNCHANGED <<accounts, evmCode>>
    BY <2>2, Zenon DEF RunUpgrade, RunMigrationSet
  <2>3. ASSUME ~\E F \in SUBSET Vouchers : RunUpgrade(F) PROVE UNCHANGED <<accounts, evmCode>>
    BY <1>1, <2>3, Zenon DEF PlanNext, RetryIBCVoucherBackfill, OnRecvPacket, RegisterERC20,
       ReplayUpgrade,
       VoucherLeaves, ByGovernance, UpdateErc20Params, UpdateParams, UpdateVMParams, BaseFeeMoves,
       upgradeVars, planVars, chainVars
  <2>. QED
    BY <2>1, <2>2, <2>3, Zenon DEF HasCode
<1>2. ASSUME UInv, [PlanNext]_upgradeVars, NEW a \in Accounts, release' = "v0.5.0"
      PROVE  accounts'[a].type # "EthAccount" /\ accounts'[a].key # "ethermint"
  <2>1. LegacyOnlyBefore'
    BY <1>2, NextUInv, Zenon DEF UInv
  <2>. QED
    BY <1>2, <2>1, Zenon DEF LegacyOnlyBefore
<1>3. UInv /\ [PlanNext]_upgradeVars =>
        [\A a \in Accounts :
             /\ HasCode(a)' = HasCode(a)
             /\ release' = "v0.5.0" => /\ accounts'[a].type # "EthAccount"
                                       /\ accounts'[a].key # "ethermint"]_upgradeVars
  BY <1>1, <1>2, Zenon
<1>. QED
  BY <1>3, UpgradeInvariant, PTL DEF PlanSpec, AccountsSurvive

-----------------------------------------------------------------------------
(* SettleIBCVoucherPairs *)

\* The store: the two directions of the index agree, a binding has its pair,
\* and no two pairs share a contract or a class.
StoreAgrees ==
    /\ InverseIndex(forward, reverse)
    /\ \A y \in NFTUIDs : reverse[y] # None => <<reverse[y][1], y[1]>> \in tokenPairs
    /\ \A p, q \in tokenPairs : p # q => p[1] # q[1] /\ p[2] # q[2]

\* Where the loop is: the pairs still to visit and the one at hand are voucher
\* pairs of the store, and todo holds bindings of the one at hand.
LoopOK ==
    /\ left \subseteq VoucherPairs
    /\ pair # None => pair \in VoucherPairs \ left /\ todo \subseteq BindingsOf(pair[2])
    /\ pair = None => todo = {}
    /\ pass = 0 => left = {} /\ pair = None /\ kept = {}

\* What has been visited: a kept binding is there and would be kept again, none
\* of it belongs to work still to do, and what is neither kept nor still to do
\* is gone, with its pair when that has no binding left.
VisitedOK ==
    /\ \A y \in kept : reverse[y] # None /\ Outcome(y) = "kept" /\ y \notin todo
    /\ \A y \in kept, p \in left : y[1] # p[2]
    /\ pass > 0 =>
         /\ \A p \in VoucherPairs : p \in left \/ p = pair \/ BindingsOf(p[2]) # {}
         /\ \A y \in NFTUIDs : \/ reverse[y] = None \/ ~IsIBCDenom(y[1])
                               \/ y \in todo \/ y \in kept
                               \/ \E p \in left : p[2] = y[1]

\* The second pass finds nothing but bindings that are kept, at least one for
\* every pair.
SecondPassOK ==
    pass = 2 =>
        /\ \A y \in NFTUIDs : reverse[y] # None /\ IsIBCDenom(y[1]) => Outcome(y) = "kept"
        /\ \A p \in VoucherPairs : BindingsOf(p[2]) # {}

SInv ==
    /\ TypeOK
    /\ StoreAgrees
    /\ LoopOK
    /\ VisitedOK
    /\ SecondPassOK

-----------------------------------------------------------------------------
(* The store the pass finds *)

\* The lookup maps of the store hold pairs.
LEMMA PairWithFacts ==
    ASSUME NEW P \in SUBSET Pairs, NEW i, NEW k
    PROVE  PairWith(P, i, k) \in Pairs \cup {None}
<1>1. CASE \E p \in P : p[i] = k
  <2>1. (CHOOSE p \in P : p[i] = k) \in P
    BY <1>1, Zenon
  <2>. QED
    BY <1>1, <2>1, Zenon DEF PairWith
<1>2. CASE ~\E p \in P : p[i] = k
  BY <1>2, Zenon DEF PairWith
<1>. QED
  BY <1>1, <1>2, Zenon

\* Any store that an earlier release can leave satisfies the invariant.
LEMMA InitSInv == Init => SInv
<1>. SUFFICES ASSUME Init PROVE SInv
  BY Zenon
<1>1. tokenPairs \in SUBSET Pairs /\ \A p, q \in tokenPairs : p # q => p[1] # q[1] /\ p[2] # q[2]
  BY Zenon DEF Init, LegacyPairSets, Pairs
<1>2. erc721Map \in [Contracts -> Pairs \cup {None}] /\ classMap \in [Classes -> Pairs \cup {None}]
  BY <1>1, PairWithFacts, Zenon DEF Init
<1>3. refund \in [RefundKeys -> Users \cup {None}]
  BY Zenon DEF Init
<1>4. AssetsTypeOK
  BY Zenon DEF Init, AssetsTypeOK, NativeTypeOK, Denoms
<1>5. TypeOK
  BY <1>1, <1>2, <1>3, <1>4 DEF Init, TypeOK, RegistryTypeOK
<1>6. StoreAgrees
  BY <1>1, Zenon DEF Init, StoreAgrees, LegacyIndex
<1>7. LoopOK /\ VisitedOK /\ SecondPassOK
  BY DEF Init, LoopOK, VisitedOK, SecondPassOK
<1>. QED
  BY <1>5, <1>6, <1>7, Zenon DEF SInv

-----------------------------------------------------------------------------
(* One binding *)

\* deleteVoucherBindingKeys of one binding.
LEMMA DeleteFacts ==
    ASSUME TypeOK, NEW y \in NFTUIDs, NEW x \in TokenUIDs,
           DeleteVoucherBindingKeys([z \in {y} |-> x])
    PROVE  /\ forward' = [w \in TokenUIDs |-> IF w = x THEN None ELSE forward[w]]
           /\ reverse' = [z \in NFTUIDs |-> IF z = y THEN None ELSE reverse[z]]
           /\ refund' \in [RefundKeys -> Users \cup {None}]
<1>. DEFINE b == [z \in {y} |-> x]
<1>1. DOMAIN b = {y} /\ TokensOf(b) = {x}
  BY Zenon DEF TokensOf
<1>2. refund \in [RefundKeys -> Users \cup {None}]
  BY Zenon DEF TypeOK, RegistryTypeOK
<1>. HIDE DEF b
<1>3. DeleteVoucherBindingKeys(b)
  BY Zenon DEF b
<1>4. refund' \in [RefundKeys -> Users \cup {None}]
  BY <1>2, <1>3, Zenon DEF DeleteVoucherBindingKeys
<1>5. forward' = [w \in TokenUIDs |-> IF w = x THEN None ELSE forward[w]]
  BY <1>1, <1>3 DEF DeleteVoucherBindingKeys
<1>6. reverse' = [z \in NFTUIDs |-> IF z = y THEN None ELSE reverse[z]]
  BY <1>1, <1>3, Zenon DEF DeleteVoucherBindingKeys
<1>. QED
  BY <1>4, <1>5, <1>6, Zenon

\* What the settlement of one binding writes: its own keys, its own token and
\* its own voucher.
LEMMA SettleFacts ==
    ASSUME SInv, NEW y \in todo, SettleVoucherBinding(y)
    PROVE  /\ pair \in VoucherPairs /\ y \in BindingsOf(pair[2]) /\ reverse[y] \in TokenUIDs
           /\ ercOwner' \in [TokenUIDs -> Users \cup {Module, None}]
           /\ nftOwner' \in [NFTUIDs -> Holders \cup {None}]
           /\ refund' \in [RefundKeys -> Users \cup {None}]
           /\ \A w \in TokenUIDs \ {reverse[y]} : ercOwner'[w] = ercOwner[w]
           /\ \A z \in NFTUIDs \ {y} : nftOwner'[z] = nftOwner[z]
           /\ \/ /\ Outcome(y) = "kept"
                 /\ UNCHANGED <<ercOwner, nftOwner, forward, reverse, refund>>
              \/ /\ Outcome(y) # "kept"
                 /\ forward' = [w \in TokenUIDs |-> IF w = reverse[y] THEN None ELSE forward[w]]
                 /\ reverse' = [z \in NFTUIDs |-> IF z = y THEN None ELSE reverse[z]]
<1>1. TypeOK /\ LoopOK
  BY Zenon DEF SInv
<1>2. pair \in VoucherPairs /\ y \in BindingsOf(pair[2])
  BY <1>1, Zenon DEF LoopOK, SettleVoucherBinding
<1>3. y \in NFTUIDs /\ reverse[y] # None
  BY <1>2, Zenon DEF BindingsOf
<1>4. reverse[y] \in TokenUIDs
  BY <1>1, <1>3, Zenon DEF TypeOK, RegistryTypeOK
<1>5. /\ ercOwner \in [TokenUIDs -> Users \cup {Module, None}]
      /\ nftOwner \in [NFTUIDs -> Holders \cup {None}]
      /\ refund \in [RefundKeys -> Users \cup {None}]
  BY <1>1, Zenon DEF TypeOK, AssetsTypeOK, NativeTypeOK, RegistryTypeOK
<1>. DEFINE P == /\ ercOwner' \in [TokenUIDs -> Users \cup {Module, None}]
                 /\ nftOwner' \in [NFTUIDs -> Holders \cup {None}]
                 /\ refund' \in [RefundKeys -> Users \cup {None}]
                 /\ \A w \in TokenUIDs \ {reverse[y]} : ercOwner'[w] = ercOwner[w]
                 /\ \A z \in NFTUIDs \ {y} : nftOwner'[z] = nftOwner[z]
            D == /\ forward' = [w \in TokenUIDs |-> IF w = reverse[y] THEN None ELSE forward[w]]
                 /\ reverse' = [z \in NFTUIDs |-> IF z = y THEN None ELSE reverse[z]]
<1>6. CASE Outcome(y) = "kept" /\ KeepBinding
  BY <1>2, <1>4, <1>5, <1>6, Zenon DEF KeepBinding
<1>7. CASE Outcome(y) = "wrapped" /\ SettleWrapped(y)
  <2>1. D /\ refund' \in [RefundKeys -> Users \cup {None}]
    BY <1>1, <1>3, <1>4, <1>7, DeleteFacts, Zenon DEF SettleWrapped
  <2>2. ercOwner[reverse[y]] \in Users
    BY <1>7, Zenon DEF Outcome, Classify
  <2>3. P
    BY <1>3, <1>4, <1>5, <1>7, <2>1, <2>2, Zenon DEF SettleWrapped, Holders
  <2>. QED
    BY <1>2, <1>4, <1>7, <2>1, <2>3, Zenon
<1>8. CASE Outcome(y) = "orphan" /\ SettleOrphan(y)
  <2>1. D /\ refund' \in [RefundKeys -> Users \cup {None}]
    BY <1>1, <1>3, <1>4, <1>8, DeleteFacts, Zenon DEF SettleOrphan
  <2>2. P
    BY <1>3, <1>4, <1>5, <1>8, <2>1, Zenon DEF SettleOrphan
  <2>. QED
    BY <1>2, <1>4, <1>8, <2>1, <2>2, Zenon
<1>9. CASE Outcome(y) = "stale" /\ SettleStale(y)
  <2>1. D /\ refund' \in [RefundKeys -> Users \cup {None}]
    BY <1>1, <1>3, <1>4, <1>9, DeleteFacts, Zenon DEF SettleStale
  <2>2. P
    BY <1>5, <1>9, <2>1, Zenon DEF SettleStale
  <2>. QED
    BY <1>2, <1>4, <1>9, <2>1, <2>2, Zenon
<1>. QED
  BY <1>6, <1>7, <1>8, <1>9, Zenon DEF SettleVoucherBinding

\* The other bindings keep their tokens, their owners and their outcome.
LEMMA SettleOthers ==
    ASSUME SInv, NEW y \in todo, SettleVoucherBinding(y), NEW z \in NFTUIDs, z # y
    PROVE  /\ reverse'[z] = reverse[z] /\ nftOwner'[z] = nftOwner[z]
           /\ reverse[z] # None => /\ ercOwner'[reverse[z]] = ercOwner[reverse[z]]
                                   /\ Outcome(z)' = Outcome(z)
<1>1. TypeOK /\ StoreAgrees
  BY Zenon DEF SInv
<1>2. y \in NFTUIDs /\ reverse[y] \in TokenUIDs /\ reverse[z] \in TokenUIDs \cup {None}
  BY <1>1, SettleFacts, Zenon DEF BindingsOf, TypeOK, RegistryTypeOK
<1>3. reverse'[z] = reverse[z] /\ nftOwner'[z] = nftOwner[z]
  BY <1>2, SettleFacts, Zenon
<1>4. ASSUME reverse[z] # None PROVE ercOwner'[reverse[z]] = ercOwner[reverse[z]]
  <2>1. reverse[z] \in TokenUIDs /\ reverse[z] # reverse[y]
    BY <1>1, <1>2, <1>4 DEF StoreAgrees, InverseIndex
  <2>. QED
    BY <2>1, SettleFacts, Zenon
<1>5. UNCHANGED <<code, fault>>
  BY Zenon DEF SettleVoucherBinding
<1>6. ASSUME reverse[z] # None PROVE Outcome(z)' = Outcome(z)
  <2>1. OwnerQueryFails(z)' <=> OwnerQueryFails(z)
    BY <1>3, <1>4, <1>5, <1>6, Zenon DEF OwnerQueryFails
  <2>2. Classify(z)' = Classify(z)
    BY <1>3, <1>4, <1>6, <2>1 DEF Classify
  <2>. QED
    BY <1>5, <2>2, Zenon DEF Outcome
<1>. QED
  BY <1>3, <1>4, <1>6, Zenon

\* The settlement of one binding, the loop's bookkeeping included.
LEMMA SettleStep ==
    ASSUME SInv, NEW y \in todo, SettleVoucherBinding(y)
    PROVE  SInv'
<1>1. TypeOK /\ StoreAgrees /\ LoopOK /\ VisitedOK /\ SecondPassOK
  BY Zenon DEF SInv
<1>2. /\ todo' = todo \ {y} /\ kept' = (IF Outcome(y) = "kept" THEN kept \cup {y} ELSE kept)
      /\ UNCHANGED <<denom, code, tokenPairs, erc721Map, classMap, pair, left, pass, fault>>
      /\ pair # None
  BY Zenon DEF SettleVoucherBinding
<1>3. /\ y \in NFTUIDs /\ y[1] = pair[2] /\ pair \in tokenPairs /\ IsIBCDenom(pair[2])
      /\ reverse[y] \in TokenUIDs /\ pair \in VoucherPairs \ left
  BY <1>1, <1>2, SettleFacts, Zenon DEF BindingsOf, VoucherPairs, LoopOK
<1>4. y \notin kept
  BY <1>1, Zenon DEF VisitedOK
<1>5. forward' \in [TokenUIDs -> NFTUIDs \cup {None}] /\ reverse' \in [NFTUIDs -> TokenUIDs \cup {None}]
  <2>1. forward \in [TokenUIDs -> NFTUIDs \cup {None}] /\ reverse \in [NFTUIDs -> TokenUIDs \cup {None}]
    BY <1>1, Zenon DEF TypeOK, RegistryTypeOK
  <2>. QED
    BY <2>1, SettleFacts
<1>6. TypeOK'
  <2>1. AssetsTypeOK'
    BY <1>1, <1>2, SettleFacts, Zenon DEF TypeOK, AssetsTypeOK, NativeTypeOK
  <2>2. RegistryTypeOK'
    BY <1>1, <1>2, <1>5, SettleFacts, Zenon DEF TypeOK, RegistryTypeOK
  <2>. QED
    BY <1>1, <1>2, <1>3, <2>1, <2>2, Zenon DEF TypeOK
<1>7. InverseIndex(forward', reverse')
  <2>1. InverseIndex(forward, reverse)
    BY <1>1, Zenon DEF StoreAgrees
  <2>2. CASE UNCHANGED <<forward, reverse>>
    BY <2>1, <2>2, Zenon
  <2>3. CASE /\ forward' = [w \in TokenUIDs |-> IF w = reverse[y] THEN None ELSE forward[w]]
             /\ reverse' = [z \in NFTUIDs |-> IF z = y THEN None ELSE reverse[z]]
    BY <1>3, <2>1, <2>3, AbsentFacts DEF InverseIndex
  <2>. QED
    BY <2>2, <2>3, SettleFacts, Zenon
<1>8. \A z \in NFTUIDs : reverse'[z] # None => reverse'[z] = reverse[z]
  BY SettleFacts, Zenon
<1>9. StoreAgrees'
  BY <1>1, <1>2, <1>7, <1>8, Zenon DEF StoreAgrees
<1>10. VoucherPairs' = VoucherPairs
  BY <1>2, Zenon DEF VoucherPairs
<1>11. \A cl : cl # y[1] => BindingsOf(cl)' = BindingsOf(cl)
  BY SettleOthers, Zenon DEF BindingsOf
<1>12. \A z \in todo' : z \in BindingsOf(pair[2])'
  <2>. SUFFICES ASSUME NEW z \in todo, z # y PROVE z \in BindingsOf(pair[2])'
    BY <1>2, Zenon
  <2>1. z \in NFTUIDs /\ z[1] = pair[2] /\ reverse[z] # None
    BY <1>1, <1>2, Zenon DEF LoopOK, BindingsOf
  <2>2. reverse'[z] = reverse[z]
    BY <2>1, SettleOthers, Zenon
  <2>. QED
    BY <1>2, <2>1, <2>2, Zenon DEF BindingsOf
<1>13. LoopOK'
  BY <1>1, <1>2, <1>3, <1>10, <1>12, Zenon DEF LoopOK
<1>14. ASSUME NEW z \in kept' PROVE reverse'[z] # None /\ Outcome(z)' = "kept" /\ z \notin todo'
  <2>1. CASE z = y
    <3>1. Outcome(y) = "kept"
      BY <1>2, <1>4, <1>14, <2>1, Zenon
    <3>2. UNCHANGED <<ercOwner, nftOwner, forward, reverse, refund>>
      BY <3>1, SettleFacts, Zenon
    <3>3. Outcome(y)' = Outcome(y)
      BY <1>2, <3>2 DEF Outcome, Classify, OwnerQueryFails
    <3>. QED
      BY <1>2, <1>3, <2>1, <3>1, <3>2, <3>3, AbsentFacts, Zenon
  <2>2. CASE z # y
    <3>1. z \in kept /\ z \in NFTUIDs
      BY <1>1, <1>2, <1>14, <2>2, Zenon DEF TypeOK
    <3>2. reverse[z] # None /\ Outcome(z) = "kept" /\ z \notin todo
      BY <1>1, <3>1, Zenon DEF VisitedOK
    <3>. QED
      BY <1>2, <2>2, <3>1, <3>2, SettleOthers, Zenon
  <2>. QED
    BY <2>1, <2>2, Zenon
<1>15. ASSUME NEW z \in kept', NEW p \in left' PROVE z[1] # p[2]
  <2>1. p \in left /\ p \in VoucherPairs /\ p # pair
    BY <1>1, <1>2, <1>3, <1>15, Zenon DEF LoopOK
  <2>2. p[2] # pair[2]
    BY <1>1, <1>3, <2>1, Zenon DEF StoreAgrees, VoucherPairs
  <2>. QED
    BY <1>1, <1>2, <1>3, <1>15, <2>1, <2>2, Zenon DEF VisitedOK
<1>16. ASSUME pass > 0, NEW p \in VoucherPairs PROVE p \in left' \/ p = pair' \/ BindingsOf(p[2])' # {}
  <2>1. CASE p = pair
    BY <1>2, <2>1, Zenon
  <2>2. CASE p # pair
    <3>1. p[2] # y[1]
      BY <1>1, <1>3, <2>2, <1>16, Zenon DEF StoreAgrees, VoucherPairs
    <3>2. BindingsOf(p[2])' = BindingsOf(p[2])
      BY <1>11, <3>1, Zenon
    <3>. QED
      BY <1>1, <1>2, <1>16, <2>2, <3>2, Zenon DEF VisitedOK
  <2>. QED
    BY <2>1, <2>2, Zenon
<1>17. ASSUME pass > 0, NEW z \in NFTUIDs, reverse'[z] # None, IsIBCDenom(z[1])
       PROVE  z \in todo' \/ z \in kept' \/ \E p \in left' : p[2] = z[1]
  <2>1. CASE z = y
    <3>1. Outcome(y) = "kept"
      BY <1>17, <2>1, <1>3, SettleFacts, Zenon
    <3>. QED
      BY <1>2, <2>1, <3>1, Zenon
  <2>2. CASE z # y
    BY <1>1, <1>2, <1>8, <1>17, <2>2, Zenon DEF VisitedOK
  <2>. QED
    BY <2>1, <2>2, Zenon
<1>18. VisitedOK'
  BY <1>2, <1>10, <1>14, <1>15, <1>16, <1>17, Zenon DEF VisitedOK
<1>19. SecondPassOK'
  <2>. SUFFICES ASSUME pass = 2 PROVE SecondPassOK'
    BY <1>2, Zenon DEF SecondPassOK
  <2>1. Outcome(y) = "kept"
    BY <1>1, <1>3, AbsentFacts, Zenon DEF SecondPassOK
  <2>2. UNCHANGED <<ercOwner, nftOwner, forward, reverse, refund>>
    BY <2>1, SettleFacts, Zenon
  <2>3. \A z : Outcome(z)' = Outcome(z)
    BY <1>2, <2>2 DEF Outcome, Classify, OwnerQueryFails
  <2>4. \A cl : BindingsOf(cl)' = BindingsOf(cl)
    BY <2>2, Zenon DEF BindingsOf
  <2>. QED
    BY <1>1, <1>2, <1>10, <2>2, <2>3, <2>4, Zenon DEF SecondPassOK
<1>. QED
  BY <1>6, <1>9, <1>13, <1>18, <1>19, Zenon DEF SInv

-----------------------------------------------------------------------------
(* The loop over the pairs *)

\* The outcome of a binding and the bindings of a class depend on the ledgers,
\* the index and the EVM's answers alone.
LEMMA SameStore ==
    ASSUME UNCHANGED <<nftOwner, ercOwner, code, forward, reverse, fault>>
    PROVE  /\ \A z : Outcome(z)' = Outcome(z)
           /\ \A cl : BindingsOf(cl)' = BindingsOf(cl)
<1>1. \A z : Outcome(z)' = Outcome(z)
  BY DEF Outcome, Classify, OwnerQueryFails
<1>2. \A cl : BindingsOf(cl)' = BindingsOf(cl)
  BY Zenon DEF BindingsOf
<1>. QED
  BY <1>1, <1>2, Zenon

\* A pass starts with every voucher pair to visit.
LEMMA StartPassStep ==
    ASSUME SInv, StartPass
    PROVE  SInv'
<1>1. TypeOK /\ StoreAgrees /\ LoopOK /\ VisitedOK /\ SecondPassOK
  BY Zenon DEF SInv
<1>2. /\ pair = None /\ left = {} /\ pass < 2 /\ pass' = pass + 1 /\ left' = VoucherPairs /\ kept' = {}
      /\ UNCHANGED <<denom, nftOwner, code, ercOwner, tokenPairs, erc721Map, classMap, forward, reverse,
                     refund, todo, pair, fault>>
  BY Zenon DEF StartPass, assetVars, registryVars
<1>3. VoucherPairs' = VoucherPairs /\ VoucherPairs \subseteq Pairs
  BY <1>1, <1>2, Zenon DEF VoucherPairs, TypeOK, RegistryTypeOK
<1>4. (\A z : Outcome(z)' = Outcome(z)) /\ (\A cl : BindingsOf(cl)' = BindingsOf(cl))
  BY <1>2, SameStore, Zenon
<1>5. TypeOK'
  BY <1>1, <1>2, <1>3 DEF TypeOK, AssetsTypeOK, NativeTypeOK, RegistryTypeOK
<1>6. StoreAgrees'
  BY <1>1, <1>2, Zenon DEF StoreAgrees
<1>7. LoopOK'
  BY <1>1, <1>2, <1>3 DEF LoopOK, TypeOK
<1>8. ASSUME NEW y \in NFTUIDs, reverse[y] # None, IsIBCDenom(y[1])
      PROVE  \E p \in VoucherPairs : p[2] = y[1]
  <2>1. <<reverse[y][1], y[1]>> \in tokenPairs
    BY <1>1, <1>8, Zenon DEF StoreAgrees
  <2>. QED
    BY <1>8, <2>1 DEF VoucherPairs
<1>9. VisitedOK'
  BY <1>2, <1>3, <1>8, Zenon DEF VisitedOK
<1>10. SecondPassOK'
  <2>. SUFFICES ASSUME pass' = 2 PROVE SecondPassOK'
    BY Zenon DEF SecondPassOK
  <2>1. pass = 1
    BY <1>1, <1>2 DEF TypeOK
  <2>2. todo = {}
    BY <1>1, <1>2, Zenon DEF LoopOK
  <2>3. \A y \in NFTUIDs : reverse[y] # None /\ IsIBCDenom(y[1]) => y \in kept
    BY <1>1, <1>2, <2>1, <2>2 DEF VisitedOK
  <2>4. \A y \in kept : Outcome(y) = "kept"
    BY <1>1, Zenon DEF VisitedOK
  <2>5. None \notin VoucherPairs
    BY <1>3, AbsentFacts, Zenon
  <2>6. \A p \in VoucherPairs : BindingsOf(p[2]) # {}
    BY <1>1, <1>2, <2>1, <2>5 DEF VisitedOK
  <2>. QED
    BY <1>2, <1>3, <1>4, <2>3, <2>4, <2>6, Zenon DEF SecondPassOK
<1>. QED
  BY <1>5, <1>6, <1>7, <1>9, <1>10, Zenon DEF SInv

\* The loop takes up the next pair, with all its bindings to visit.
LEMMA NextPairStep ==
    ASSUME SInv, NEW p \in left, NextPair(p)
    PROVE  SInv'
<1>1. TypeOK /\ StoreAgrees /\ LoopOK /\ VisitedOK /\ SecondPassOK
  BY Zenon DEF SInv
<1>2. /\ pair = None /\ pair' = p /\ todo' = BindingsOf(p[2]) /\ left' = left \ {p}
      /\ UNCHANGED <<denom, nftOwner, code, ercOwner, tokenPairs, erc721Map, classMap, forward, reverse,
                     refund, kept, pass, fault>>
  BY Zenon DEF NextPair, assetVars, registryVars
<1>3. VoucherPairs' = VoucherPairs /\ p \in VoucherPairs /\ p \in Pairs /\ p # None /\ todo = {}
  BY <1>1, <1>2, AbsentFacts, Zenon DEF VoucherPairs, TypeOK, RegistryTypeOK, LoopOK
<1>4. (\A z : Outcome(z)' = Outcome(z)) /\ (\A cl : BindingsOf(cl)' = BindingsOf(cl))
  BY <1>2, SameStore, Zenon
<1>5. TypeOK'
  BY <1>1, <1>2, <1>3, Zenon DEF TypeOK, AssetsTypeOK, NativeTypeOK, RegistryTypeOK, BindingsOf
<1>6. StoreAgrees'
  BY <1>1, <1>2, Zenon DEF StoreAgrees
<1>7. LoopOK'
  BY <1>1, <1>2, <1>3, <1>4, Zenon DEF LoopOK
<1>8. VisitedOK'
  <2>1. \A y \in kept : y[1] # p[2]
    BY <1>1, Zenon DEF VisitedOK
  <2>2. \A y \in kept : y \notin BindingsOf(p[2])
    BY <2>1, Zenon DEF BindingsOf
  <2>3. \A y \in NFTUIDs : reverse[y] # None /\ y[1] = p[2] => y \in BindingsOf(p[2])
    BY Zenon DEF BindingsOf
  <2>4. \A y \in kept' : reverse'[y] # None /\ Outcome(y)' = "kept" /\ y \notin todo'
    BY <1>1, <1>2, <1>4, <2>2, Zenon DEF VisitedOK
  <2>5. \A y \in kept', q \in left' : y[1] # q[2]
    BY <1>1, <1>2, Zenon DEF VisitedOK
  <2>6. ASSUME pass > 0, NEW q \in VoucherPairs PROVE q \in left' \/ q = pair' \/ BindingsOf(q[2])' # {}
    <3>1. q # None
      BY <1>1, AbsentFacts, Zenon DEF VoucherPairs, TypeOK, RegistryTypeOK
    <3>. QED
      BY <1>1, <1>2, <1>3, <1>4, <2>6, <3>1, Zenon DEF VisitedOK
  <2>7. ASSUME pass > 0, NEW y \in NFTUIDs, reverse[y] # None, IsIBCDenom(y[1])
        PROVE  y \in todo' \/ y \in kept' \/ \E q \in left' : q[2] = y[1]
    BY <1>1, <1>2, <1>3, <2>3, <2>7, Zenon DEF VisitedOK
  <2>. QED
    BY <1>2, <1>3, <2>4, <2>5, <2>6, <2>7, Zenon DEF VisitedOK
<1>9. SecondPassOK'
  BY <1>1, <1>2, <1>3, <1>4, Zenon DEF SecondPassOK
<1>. QED
  BY <1>5, <1>6, <1>7, <1>8, <1>9, Zenon DEF SInv

\* A pair whose bindings are all cleared has none left, and DeletePairPerTokenState
\* then finds nothing to take from the index.
LEMMA PurgeFindsNothing ==
    ASSUME SInv, pair # None, todo = {}, AllCleared(pair)
    PROVE  /\ BindingsOf(pair[2]) = {}
           /\ PurgeForward(forward, reverse, pair) = forward
           /\ PurgeReverse(forward, reverse, pair) = reverse
<1>1. TypeOK /\ StoreAgrees /\ LoopOK /\ VisitedOK
  BY Zenon DEF SInv
<1>2. pair \in VoucherPairs \ left /\ pair \in tokenPairs /\ IsIBCDenom(pair[2]) /\ pair \in Pairs
  BY <1>1, Zenon DEF LoopOK, VoucherPairs, TypeOK, RegistryTypeOK
<1>3. pass > 0
  BY <1>1 DEF LoopOK, TypeOK
<1>4. \A y \in NFTUIDs : y[1] = pair[2] => reverse[y] = None
  <2>. SUFFICES ASSUME NEW y \in NFTUIDs, y[1] = pair[2], reverse[y] # None PROVE FALSE
    BY Zenon
  <2>1. y \notin kept
    BY Zenon DEF AllCleared
  <2>2. PICK p \in left : p[2] = y[1]
    BY <1>1, <1>2, <1>3, <2>1, Zenon DEF VisitedOK
  <2>3. p \in tokenPairs /\ p # pair
    BY <1>1, <1>2, Zenon DEF LoopOK, VoucherPairs
  <2>. QED
    BY <1>1, <1>2, <2>2, <2>3, Zenon DEF StoreAgrees
<1>5. BindingsOf(pair[2]) = {}
  BY <1>4, Zenon DEF BindingsOf
<1>6. \A x \in TokenUIDs : x[1] = pair[1] => forward[x] = None
  <2>. SUFFICES ASSUME NEW x \in TokenUIDs, x[1] = pair[1], forward[x] # None PROVE FALSE
    BY Zenon
  <2>1. forward[x] \in NFTUIDs /\ reverse[forward[x]] = x
    BY <1>1 DEF TypeOK, RegistryTypeOK, StoreAgrees, InverseIndex
  <2>2. <<x[1], forward[x][1]>> \in tokenPairs
    BY <1>1, <2>1, AbsentFacts, Zenon DEF StoreAgrees
  <2>3. <<x[1], forward[x][1]>> = pair
    BY <1>1, <1>2, <2>2, Zenon DEF StoreAgrees
  <2>4. forward[x][1] = pair[2]
    BY <2>3, Zenon
  <2>. QED
    BY <1>4, <2>1, <2>4, AbsentFacts, Zenon
<1>7. PurgeReverseByContract(forward, reverse, pair[1]) = reverse
  <2>1. reverse \in [NFTUIDs -> TokenUIDs \cup {None}]
    BY <1>1, Zenon DEF TypeOK, RegistryTypeOK
  <2>. QED
    BY <1>6, <2>1, AbsentFacts, Zenon DEF PurgeReverseByContract
<1>8. PurgeReverse(forward, reverse, pair) = reverse
  <2>1. reverse \in [NFTUIDs -> TokenUIDs \cup {None}]
    BY <1>1, Zenon DEF TypeOK, RegistryTypeOK
  <2>. QED
    BY <1>4, <1>7, <2>1, Zenon DEF PurgeReverse
<1>9. PurgeForward(forward, reverse, pair) = forward
  <2>1. forward \in [TokenUIDs -> NFTUIDs \cup {None}]
    BY <1>1, Zenon DEF TypeOK, RegistryTypeOK
  <2>2. \A x \in TokenUIDs : ~\E y \in NFTUIDs : y[1] = pair[2] /\ reverse[y] = x
    BY <1>4, AbsentFacts, Zenon
  <2>. QED
    BY <1>6, <1>7, <2>1, <2>2, Zenon DEF PurgeForward
<1>. QED
  BY <1>5, <1>8, <1>9, Zenon

\* The pair goes when nothing of it was kept; otherwise one of its bindings is
\* still there.
LEMMA FinishPairStep ==
    ASSUME SInv, FinishPair
    PROVE  SInv'
<1>1. TypeOK /\ StoreAgrees /\ LoopOK /\ VisitedOK /\ SecondPassOK
  BY Zenon DEF SInv
<1>2. /\ pair # None /\ todo = {} /\ pair' = None
      /\ UNCHANGED <<denom, nftOwner, code, ercOwner, todo, left, kept, pass, fault>>
  BY Zenon DEF FinishPair, assetVars
<1>3. pair \in VoucherPairs \ left /\ pair \in Pairs
  BY <1>1, <1>2, Zenon DEF LoopOK, VoucherPairs, TypeOK, RegistryTypeOK
<1>4. pass > 0
  BY <1>1, <1>2 DEF LoopOK, TypeOK
<1>5. UNCHANGED <<forward, reverse>>
  BY <1>2, PurgeFindsNothing, Zenon DEF FinishPair, PurgeTokenPair, registryVars
<1>6. (\A z : Outcome(z)' = Outcome(z)) /\ (\A cl : BindingsOf(cl)' = BindingsOf(cl))
  BY <1>2, <1>5, SameStore, Zenon
<1>7. VoucherPairs' \subseteq VoucherPairs /\ left \subseteq VoucherPairs'
  BY <1>1, <1>3, Zenon DEF FinishPair, PurgeTokenPair, registryVars, VoucherPairs, LoopOK
<1>8. pair \in VoucherPairs' => BindingsOf(pair[2]) # {}
  <2>1. CASE AllCleared(pair)
    BY <2>1, Zenon DEF FinishPair, PurgeTokenPair, VoucherPairs
  <2>2. CASE ~AllCleared(pair)
    <3>1. PICK y \in kept : y[1] = pair[2]
      BY <2>2, Zenon DEF AllCleared
    <3>2. y \in NFTUIDs /\ reverse[y] # None
      BY <1>1, <3>1, Zenon DEF VisitedOK, TypeOK
    <3>. QED
      BY <3>1, <3>2, Zenon DEF BindingsOf
  <2>. QED
    BY <2>1, <2>2, Zenon
<1>9. RegistryTypeOK'
  <2>1. CASE AllCleared(pair)
    <3>1. refund' \in [RefundKeys -> Users \cup {None}]
      BY <1>1, <2>1, Zenon DEF FinishPair, PurgeTokenPair, PurgeRefund, TypeOK, RegistryTypeOK
    <3>. QED
      BY <1>1, <1>5, <2>1, <3>1, Zenon DEF FinishPair, PurgeTokenPair, TypeOK, RegistryTypeOK
  <2>2. CASE ~AllCleared(pair)
    BY <1>1, <2>2, Zenon DEF FinishPair, registryVars, TypeOK, RegistryTypeOK
  <2>. QED
    BY <2>1, <2>2, Zenon
<1>10. TypeOK'
  BY <1>1, <1>2, <1>9, Zenon DEF TypeOK, AssetsTypeOK, NativeTypeOK
<1>11. StoreAgrees'
  <2>1. CASE AllCleared(pair)
    <3>1. BindingsOf(pair[2]) = {} /\ tokenPairs' = tokenPairs \ {pair}
      BY <1>2, <2>1, PurgeFindsNothing, Zenon DEF FinishPair, PurgeTokenPair
    <3>2. ASSUME NEW y \in NFTUIDs, reverse[y] # None PROVE <<reverse[y][1], y[1]>> \in tokenPairs'
      <4>1. y[1] # pair[2]
        BY <3>1, <3>2, Zenon DEF BindingsOf
      <4>2. <<reverse[y][1], y[1]>> # pair
        BY <4>1
      <4>. QED
        BY <1>1, <3>1, <3>2, <4>2, Zenon DEF StoreAgrees
    <3>. QED
      BY <1>1, <1>5, <3>1, <3>2, Zenon DEF StoreAgrees
  <2>2. CASE ~AllCleared(pair)
    BY <1>1, <2>2, Zenon DEF FinishPair, registryVars, StoreAgrees
  <2>. QED
    BY <2>1, <2>2, Zenon
<1>12. LoopOK'
  BY <1>2, <1>4, <1>7, <1>1, Zenon DEF LoopOK, TypeOK
<1>13. VisitedOK'
  <2>1. \A p \in VoucherPairs' : p \in left \/ BindingsOf(p[2]) # {}
    BY <1>1, <1>4, <1>7, <1>8, Zenon DEF VisitedOK
  <2>. QED
    BY <1>1, <1>2, <1>5, <1>6, <2>1, Zenon DEF VisitedOK
<1>14. SecondPassOK'
  BY <1>1, <1>2, <1>5, <1>6, <1>7, Zenon DEF SecondPassOK
<1>. QED
  BY <1>10, <1>11, <1>12, <1>13, <1>14, Zenon DEF SInv

-----------------------------------------------------------------------------
(* Theorems *)

\* SInv is inductive.
LEMMA NextSInv ==
    ASSUME SInv, [Next]_vars
    PROVE  SInv'
<1>1. ASSUME UNCHANGED vars PROVE SInv'
  <2>1. UNCHANGED <<denom, nftOwner, code, ercOwner, tokenPairs, erc721Map, classMap, forward, reverse,
                    refund, todo, pair, left, kept, pass, fault>>
    BY <1>1, Zenon DEF vars
  <2>2. /\ \A z : Outcome(z)' = Outcome(z)
        /\ \A cl : BindingsOf(cl)' = BindingsOf(cl)
        /\ VoucherPairs' = VoucherPairs
    BY <2>1, SameStore, Zenon DEF VoucherPairs
  <2>3. TypeOK'
    BY <2>1, Zenon DEF SInv, TypeOK, AssetsTypeOK, NativeTypeOK, RegistryTypeOK
  <2>. QED
    BY <2>1, <2>2, <2>3, Zenon DEF SInv, StoreAgrees, LoopOK, VisitedOK, SecondPassOK
<1>. QED
  BY <1>1, StartPassStep, NextPairStep, SettleStep, FinishPairStep, Zenon DEF Next, Done

\* The loop of SettleIBCVoucherPairs knows at every point what it has visited,
\* what of it is kept and why, and the store stays consistent throughout.
THEOREM SettlementInvariant == Spec => []SInv
BY InitSInv, NextSInv, PTL DEF Spec

\* A voucher pair outlives the pass exactly when one of its bindings does.
THEOREM PairsGoWithTheirBindings == Spec => []PairGoesWithLastBinding
<1>1. SInv => PairGoesWithLastBinding
  <2>. SUFFICES ASSUME SInv PROVE PairGoesWithLastBinding
    BY Zenon
  <2>1. None \notin VoucherPairs
    BY AbsentFacts, Zenon DEF SInv, TypeOK, RegistryTypeOK, VoucherPairs
  <2>. QED
    BY <2>1, Zenon DEF SInv, StoreAgrees, VisitedOK, PairGoesWithLastBinding
<1>. QED
  BY <1>1, SettlementInvariant, PTL

\* No binding costs anybody a voucher: burning one token, and whichever EVM
\* call fails, leaves the holder of every voucher the same.
THEOREM NoHolderLosesAVoucher == Spec => SettlementConserves
<1>1. ASSUME SInv, [Next]_vars, NEW z \in NFTUIDs PROVE Holder(z)' = Holder(z)
  <2>1. ASSUME UNCHANGED <<nftOwner, ercOwner, reverse>> PROVE Holder(z)' = Holder(z)
    BY <2>1, Zenon DEF Holder
  <2>2. ASSUME NEW y \in todo, SettleVoucherBinding(y) PROVE Holder(z)' = Holder(z)
    <3>1. CASE z # y
      <4>1. /\ reverse'[z] = reverse[z] /\ nftOwner'[z] = nftOwner[z]
            /\ reverse[z] # None => ercOwner'[reverse[z]] = ercOwner[reverse[z]]
        BY <1>1, <2>2, <3>1, SettleOthers, Zenon
      <4>. QED
        BY <4>1, Zenon DEF Holder
    <3>2. CASE z = y /\ Outcome(y) = "wrapped"
      <4>1. SettleWrapped(y) /\ reverse'[y] = None
        BY <1>1, <2>2, <3>2, SettleFacts, Zenon DEF SettleVoucherBinding
      <4>2. nftOwner[y] = Module /\ reverse[y] # None
        BY <1>1, <2>2, <3>2, SettleFacts, AbsentFacts, Zenon DEF Outcome, Classify
      <4>3. nftOwner'[y] = ercOwner[reverse[y]]
        BY <1>1, <3>2, <4>1, Zenon DEF SettleWrapped, SInv, TypeOK, AssetsTypeOK, NativeTypeOK
      <4>. QED
        BY <3>2, <4>1, <4>2, <4>3, Zenon DEF Holder
    <3>3. CASE z = y /\ Outcome(y) \in {"orphan", "stale"}
      <4>1. UNCHANGED nftOwner /\ nftOwner[y] = None
        BY <2>2, <3>3, Zenon DEF SettleVoucherBinding, SettleOrphan, SettleStale, Outcome, Classify
      <4>2. None # Module
        BY AccountsAssumption, Zenon DEF Holders
      <4>. QED
        BY <3>3, <4>1, <4>2, Zenon DEF Holder
    <3>4. CASE Outcome(y) = "kept"
      BY <1>1, <2>1, <2>2, <3>4, SettleFacts, Zenon
    <3>. QED
      BY <2>2, <3>1, <3>2, <3>3, <3>4, Zenon DEF SettleVoucherBinding
  <2>3. ASSUME FinishPair PROVE UNCHANGED <<nftOwner, ercOwner, reverse>>
    BY <1>1, <2>3, PurgeFindsNothing, Zenon DEF FinishPair, PurgeTokenPair, assetVars, registryVars
  <2>4. ASSUME StartPass \/ (\E p \in left : NextPair(p)) \/ Done \/ UNCHANGED vars
        PROVE  UNCHANGED <<nftOwner, ercOwner, reverse>>
    BY <2>4, Zenon DEF StartPass, NextPair, Done, vars, assetVars, registryVars
  <2>. QED
    BY <1>1, <2>1, <2>2, <2>3, <2>4, Zenon DEF Next
<1>2. SInv /\ [Next]_vars => [\A y \in NFTUIDs : Holder(y)' = Holder(y)]_vars
  BY <1>1, Zenon
<1>. QED
  BY <1>2, SettlementInvariant, PTL DEF Spec, SettlementConserves

\* The pass is idempotent: what the first one keeps, the second keeps too.
THEOREM SettlingAgainChangesNothing == Spec => SecondPassChangesNothing
<1>1. ASSUME SInv, [Next]_vars, pass = 2
      PROVE  UNCHANGED <<denom, nftOwner, code, ercOwner, tokenPairs, erc721Map, classMap, forward,
                         reverse, refund>>
  <2>1. ASSUME NEW y \in todo, SettleVoucherBinding(y)
        PROVE  UNCHANGED <<denom, nftOwner, code, ercOwner, tokenPairs, erc721Map, classMap, forward,
                           reverse, refund>>
    <3>1. y \in NFTUIDs /\ reverse[y] \in TokenUIDs /\ IsIBCDenom(y[1])
      BY <1>1, <2>1, SettleFacts, Zenon DEF BindingsOf, VoucherPairs
    <3>2. Outcome(y) = "kept"
      BY <1>1, <3>1, AbsentFacts, Zenon DEF SInv, SecondPassOK
    <3>. QED
      BY <1>1, <2>1, <3>2, SettleFacts, Zenon DEF SettleVoucherBinding
  <2>2. ASSUME FinishPair
        PROVE  UNCHANGED <<denom, nftOwner, code, ercOwner, tokenPairs, erc721Map, classMap, forward,
                           reverse, refund>>
    <3>1. pair \in VoucherPairs
      BY <1>1, <2>2, Zenon DEF FinishPair, SInv, LoopOK
    <3>2. BindingsOf(pair[2]) # {}
      BY <1>1, <3>1, Zenon DEF SInv, SecondPassOK
    <3>3. ~AllCleared(pair)
      BY <1>1, <2>2, <3>2, PurgeFindsNothing, Zenon DEF FinishPair
    <3>. QED
      BY <2>2, <3>3, Zenon DEF FinishPair, assetVars, registryVars
  <2>3. ASSUME StartPass \/ (\E p \in left : NextPair(p)) \/ Done \/ UNCHANGED vars
        PROVE  UNCHANGED <<denom, nftOwner, code, ercOwner, tokenPairs, erc721Map, classMap, forward,
                           reverse, refund>>
    BY <2>3, Zenon DEF StartPass, NextPair, Done, vars, assetVars, registryVars
  <2>. QED
    BY <1>1, <2>1, <2>2, <2>3, Zenon DEF Next
<1>2. SInv /\ [Next]_vars =>
        [pass = 2 => UNCHANGED <<denom, nftOwner, code, ercOwner, tokenPairs, erc721Map, classMap,
                                 forward, reverse, refund>>]_vars
  BY <1>1, Zenon
<1>. QED
  BY <1>2, SettlementInvariant, PTL DEF Spec, SecondPassChangesNothing

==============================================================================
