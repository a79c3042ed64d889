SPECIFICATION Spec
CONSTANTS
    IntBits = 10
    FieldBits = 5
    Requests <- MCRequests
    Octets <- MCOctets
    Letter = 97
    MaxAuthzNestingDepth = 2
    MaxExtractedMessages = 4
    maxAuthzValidationDepth = 2
    Signers = {"a", "b"}
    Txs <- MCTxs
    MaxBlocks = 2
    MaxMempool = 2
    Validators = {"v1", "v2"}
    Delegations <- MCDelegations
    MaxExports = 2
INVARIANTS
    SlicesStayInside
    EncodingIsFaithful
    OnlyVettedMessagesRun
    SignedAndRunOnce
    
    ReportDescribesTheExport
PROPERTIES
    DecodingEnds
