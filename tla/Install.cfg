CONSTANTS
    app = app
    db = db
    queue = queue
    disk = disk
    Root = app
    Blank = Blank
    Subs <- MCSubs
    Manifest <- MCManifest
    MaxCommands = 4
    MaxFaults = 2
SPECIFICATION Spec
INVARIANTS
    TypeOK
    RecordHonest
    PrerequisitesFirst
CHECK_DEADLOCK FALSE
