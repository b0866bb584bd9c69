SPECIFICATION Spec
CONSTANTS
    Accounts = {ann, bob}
    Nobody = Nobody
    Tries = {t1, t2, t3}
    MaxFaults = 2
SYMMETRY TrySymmetry
INVARIANTS
    CrashNeedsNoUserAtLaunch
    LoginScreenIsClosed
    ForeignEntryNeedsSwitch
    ForeignRowsNeedSwitch
