SPECIFICATION Spec
CONSTANTS
    Users = {u1, k1}
    Module = Module
    CwModule = CwModule
    Escrow = Escrow
    Collection = Collection
    None = None
    NativeClasses = {}
    VoucherClasses = {ibc}
    Contracts = {d1}
    External = {}
    Rogue = {}
    DerivedClass <- MCDerivedClass
    DerivedClasses <- MCDerivedClasses
    NftIds = {n1, n2}
    TokenIds = {t1, t2}
    MaxBatch = 1
    CodeHolders = {k1}
    Permissive = {d1}
SYMMETRY MCSymmetry
INVARIANTS
    PairGoesWithLastBinding
PROPERTIES
    SettlementConserves
    SecondPassChangesNothing
