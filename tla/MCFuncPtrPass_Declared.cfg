SPECIFICATION FairSpec
CONSTANTS
    Program <- MCDeclared
    Solution <- MCSolution
    Null = Null
    Other = Other
    NoValue = NoValue
PROPERTY
    DeferredIsProcessed
