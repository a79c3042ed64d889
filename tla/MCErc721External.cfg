SPECIFICATION Spec
CONSTANTS
    ibc = ibc
    n1 = n1
    d1 = d1
    t1 = t1
    Users = {u1, u2}
    Module = Module
    CwModule = CwModule
    Escrow = Escrow
    Collection = Collection
    None = None
    NativeClasses = {}
    VoucherClasses = {ibc}
    Contracts = {d1, x1, x2}
    External = {x1, x2}
    Rogue = {x2}
    DerivedClass <- MCDerivedClass
    DerivedClasses <- MCDerivedClasses
    NftIds = {n1}
    TokenIds = {t1}
    MaxBatch = 1
    LegacyBinding <- MCLegacyBinding
    MaxPackets = 1
SYMMETRY MCUserSymmetry
INVARIANTS
    HolderCanConvertBack
CONSTRAINT MCOneCollection
