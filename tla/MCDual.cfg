SPECIFICATION Spec
CONSTANTS
    Users = {u1, u2}
    Module = Module
    CwModule = CwModule
    Escrow = Escrow
    Collection = Collection
    None = None
    NativeClasses = {cl}
    VoucherClasses = {ibc}
    DerivedClasses <- MCDerivedClasses
    Contracts = {d1}
    External = {}
    Rogue = {}
    DerivedClass <- MCDerivedClass
    CwContracts = {w1, e1, r1}
    CwExternal = {e1, r1}
    CwRogue = {r1}
    CwDerivedClass <- MCCwDerivedClass
    NftIds = {n1}
    TokenIds = {t1}
    MaxBatch = 1
    MaxPackets = 2
    Channels = {"channel-0", "channel-1"}
    ClassPath <- MCClassPath
SYMMETRY MCSymmetry
INVARIANTS
    BoundNftExists
    OneHalfCirculates
PROPERTIES
    CwBindingDroppedByRefund
CONSTRAINT MCOneCollection
