SPECIFICATION PlanSpec
CONSTANTS
    v1 = v1
    v2 = v2
    Vouchers = {v1}
    Derivable = {v1}
    Erc20s = {}
    Accounts = {}
    Modules <- MCModules
    Scale <- MCScale
    Fees <- MCFees
    Unset = Unset
PROPERTY
    SwitchIsReadAsSet
