SPECIFICATION Spec
CONSTANTS
    Users = {u1, u2}
    Module = Module
    CwModule = CwModule
    Escrow = Escrow
    Collection = Collection
    None = None
    NativeClasses = {cl}
    VoucherClasses = {}
    DerivedClasses <- MCDerivedClasses
    Contracts = {}
    External = {}
    Rogue = {}
    DerivedClass <- MCDerivedClass
    CwContracts = {w1}
    CwExternal = {}
    CwRogue = {}
    CwDerivedClass <- MCCwDerivedClass
    NftIds = {n1, n2}
    TokenIds = {t1, t2}
    MaxBatch = 2
    MaxPackets = 2
    Channels = {"channel-0"}
    ClassPath <- MCClassPath
SYMMETRY MCSymmetry
INVARIANTS
    RefundFindsTheClass
    CwGenesisRestores
    CwHolderCanConvertBack
PROPERTIES
    CwRefundBurnsTheNft
