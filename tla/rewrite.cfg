SPECIFICATION Spec
CONSTANTS
    Chars <- MCChars
    Nested <- MCNested
    Cases <- MCCases
    Argvs <- MCArgvs
    Alphabet <- MCAlphabet
    MaxLen = 5
    MaxWord = 2
    MaxArgs = 2
INVARIANTS
    SandboxedIsWrapped
    RewriteKeepsStructure
    QuotesHideNothing
    RaisesHaveACause
CHECK_DEADLOCK FALSE
