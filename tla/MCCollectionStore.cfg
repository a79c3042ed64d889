\* One class of each kind, one at a time, two NFTs, two users.
CONSTANTS
    Users = {u1, u2}
    Module = Module
    Escrow = Escrow
    Collection = Collection
    None = None
    NativeClasses = {cl}
    VoucherClasses = {ibc}
    DerivedClasses = {up}
    NftIds = {n1, n2}
    SupplyMod = 4
    MaxClasses = 1
SPECIFICATION Spec
SYMMETRY MCSymmetry

    
PROPERTIES
    RestrictedContentKept
    ImplementsNativeNfts
