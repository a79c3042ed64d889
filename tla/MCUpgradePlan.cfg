SPECIFICATION PlanSpec
CONSTANTS
    v1 = v1
    v2 = v2
    Vouchers = {v1, v2}
    Derivable = {v1}
    Erc20s = {t1}
    Accounts = {a1}
    Modules <- MCModules
    Scale <- MCScale
    Fees <- MCFees
    Unset = Unset
INVARIANTS
    VouchersPairedOrRecorded
    DecimalsFollowSource
PROPERTIES
    LivePairsSurvive
    
    OnlyGovernanceMovesSwitches
    UpgradeKeepsTheFee
    AccountsSurvive
