CONSTANTS
    setting = setting
    ca = ca
    cert = cert
    binding = binding
    p1 = p1
    Procs = {p1}
    Jewels = {setting, ca, cert, binding}
    KindOf <- MCKindOf
    SignerOf <- MCSignerOf
    NoJewel = NoJewel
    NoData = NoData
    Operations = {"apply", "delete"}
    MaxCommands = 3
    MaxFaults = 1
SPECIFICATION Spec
INVARIANTS
    TypeOK
    RenderedIsStored
    SignedByTheSigner
PROPERTIES
    ContentsKept
    ProvisionedOnce
CHECK_DEADLOCK FALSE
