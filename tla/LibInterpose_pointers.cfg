CONSTANTS
    Instances = {1, 2}
    Cages = {1, 2}
    Grates = {"g", "h"}
    Syms = {"f", "bad", "glue", "m"}
    BadSig = {"bad"}
    Glue = {"glue"}
    Interposed = TRUE
    Lib <- MCLib
    Place <- MCPlace
    Wants <- MCWants
    Stacked <- MCStacked
    SysUses <- MCSysUses
    HasErrno = {"client", "g", "h"}
    Mortal = {"g", "h"}
    Traps = {"h"}
    MaxErrno = 1
    MaxDepth = 3
SPECIFICATION Spec
INVARIANT GotHitsPortal
CHECK_DEADLOCK FALSE
