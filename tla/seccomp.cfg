SPECIFICATION Spec
CONSTANTS
    Machines <- MCMachines
    Extras <- MCExtras
    Numbers <- MCNumbers
    AuditArches <- MCAuditArches
    MaxJump = 255
INVARIANTS
    DeniedCallsFail
    MissingFilterIsStated
CHECK_DEADLOCK FALSE
