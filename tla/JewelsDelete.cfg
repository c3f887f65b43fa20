CONSTANTS
    setting = setting
    ca = ca
    cert = cert
    binding = binding
    p1 = p1
    Procs = {p1}
    Jewels = {binding}
    KindOf <- MCKindOf
    SignerOf <- MCSignerOf
    NoJewel = NoJewel
    NoData = NoData
    Operations = {"apply", "delete"}
    MaxCommands = 2
    MaxFaults = 0
SPECIFICATION Spec
INVARIANTS
    InstancesReleased
CHECK_DEADLOCK FALSE
