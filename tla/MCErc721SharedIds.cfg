SPECIFICATION Spec
CONSTANTS
    ibc = ibc
    n1 = n1
    d1 = d1
    t1 = t1
    Users = {u1, u2}
    Module = Module
    CwModule = CwModule
    Escrow = Escrow
    Collection = Collection
    None = None
    NativeClasses = {cl}
    VoucherClasses = {}
    Contracts = {d1, d2}
    External = {}
    Rogue = {}
    DerivedClass <- MCDerivedClass
    DerivedClasses <- MCDerivedClasses
    NftIds = {n1, t1}
    TokenIds = {t1, t2}
    MaxBatch = 2
    LegacyBinding <- MCNoLegacy
    MaxPackets = 2
SYMMETRY MCUserSymmetry
PROPERTIES
    RefundPaysTheSender
