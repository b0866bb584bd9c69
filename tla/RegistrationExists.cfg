SPECIFICATION Spec
CONSTANTS
    dot = dot
    dash = dash
    other = other
    k1 = k1
    k2 = k2
    NoForm = NoForm
    f1 = f1
    f2 = f2
    phone = phone
    tablet = tablet
    Forms = {f1, f2}
    Devices = {phone, tablet}
    Presses <- MCPresses
    Emails = {dot, dash, other}
    Nodes = {k1, k2}
    SafeEmail <- MCSafeEmail
    MaxFaults = 0
INVARIANT
    ExistingUserIsReported
CHECK_DEADLOCK FALSE
