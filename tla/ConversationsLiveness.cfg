SPECIFICATION FairSpec
CONSTANTS
    ann = ann
    bob = bob
    phone = phone
    tablet = tablet
    s1 = s1
    s2 = s2
    s3 = s3
    NoSend = NoSend
    Accounts = {ann, bob}
    Devices = {phone, tablet}
    Sends = {s1, s3}
    AccountOf <- MCAccountOf
    DeviceOf <- MCDeviceOf
    OtherOf <- MCOtherOf
    MaxClock = 1
    MaxFaults = 1
PROPERTIES
    SendEnds
    RowsConverge
CHECK_DEADLOCK FALSE
