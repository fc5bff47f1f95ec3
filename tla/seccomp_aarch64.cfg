SPECIFICATION Spec
CONSTANTS
    Machines <- MCMachines
    Extras <- MCExtras
    Numbers <- MCNumbers
    AuditArches <- MCAuditArches
    MaxJump = 255
INVARIANTS
    DeniesWhatItNames
CHECK_DEADLOCK FALSE
