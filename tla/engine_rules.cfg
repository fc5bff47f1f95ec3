SPECIFICATION Spec
CONSTANTS
    Ids <- MCIds
    NoId = "no id"
    Texts <- MCTexts
    Messages <- MCMessages
    NoMsg = "no msg"
    Placeholder = "placeholder"
    Blocklist <- MCBlocklist
    Allowlist <- MCAllowlist
    Sandbox <- MCSandbox
    FileLayer <- PackThenUser
    Contents <- FewContents
    Jobs <- AllJobs
    Shipped = 4
    MaxPrio = 4
    MaxEdits = 1
INVARIANTS
    NoPolicySilentlyAbsent
    NewIdsOnlyTighten
    OverriddenBuiltinIsSilent
    LayerIsTheRulesSource
    SettlementKeepsTheVerdict
CHECK_DEADLOCK FALSE
