\* A failed first build spends the once: later builds get a generator over
\* no cache at all.
CONSTANTS
    Calls = {c1, c2}
SPECIFICATION Spec
INVARIANT GeneratorOnlyAfterSync
