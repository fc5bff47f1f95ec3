SPECIFICATION Spec
CONSTANTS
    Chars <- MCChars
    Nested <- MCNested
    Cases <- MCCases
    Argvs <- MCArgvs
    Alphabet <- MCAlphabet
    MaxLen = 4
    MaxWord = 2
    MaxArgs = 2
INVARIANTS
    RedirectionsSurvive
CHECK_DEADLOCK FALSE
