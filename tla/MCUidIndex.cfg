SPECIFICATION Spec
CONSTANTS
    Contracts = {c1, c2}
    Tokens = {t1}
    Nfts = {y1, y2}
    ClassNfts <- MCClassNfts
    None = None
SYMMETRY MCSymmetry
INVARIANTS
    PruneConverges
    CleanReportIsPaired
    DegradeAndReport
PROPERTIES
    PruneKeepsSoundBindings
    BindingNotRedirected
