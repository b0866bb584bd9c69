SPECIFICATION Spec
CONSTANTS
    ann = ann
    bob = bob
    phone = phone
    tablet = tablet
    s1 = s1
    s2 = s2
    s3 = s3
    NoSend = NoSend
    Accounts = {ann, bob}
    Devices = {phone, tablet}
    Sends = {s1, s2}
    AccountOf <- MCAccountOf
    DeviceOf <- MCDeviceOf
    OtherOf <- MCOtherOf
    MaxClock = 0
    MaxFaults = 0
PROPERTY
    AppendKeepsConversations
CHECK_DEADLOCK FALSE
