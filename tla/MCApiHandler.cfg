\* A call that reaches h.cfg.Load before the first ConfigChange.
CONSTANTS
    Reqs = {r1, r2}
    Methods = {"check", "report", "quota"}
    Configs = {"c1", "c2"}
    ResolveErr = ResolveErr
    ResolveOf <- MCResolveOf
    MaxChanges = 2
SPECIFICATION Spec
INVARIANTS
    NoPanic
