SPECIFICATION Spec
CONSTANTS
    dot = dot
    dash = dash
    s1 = s1
    s2 = s2
    phone = phone
    tablet = tablet
    Registrations = {dot, dash}
    Sends = {s1, s2}
    Devices = {phone, tablet}
    DeviceOf <- MCDeviceOf
    OwnerOf <- MCOwnerOf
    NoOne = NoOne
    MaxFaults = 2
CHECK_DEADLOCK FALSE
INVARIANTS
    LoneConversationIsKept
    LoneNamesAreKept
    RegisteredUserIsFound
