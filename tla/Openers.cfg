CONSTANTS
    p1 = p1
    u1 = u1
    u2 = u2
    u3 = u3
    u4 = u4
    chart = chart
    index = index
    archive = archive
    private = private
    file = file
    f1 = f1
    f2 = f2
    v1 = v1
    i1 = i1
    i2 = i2
    i3 = i3
    a1 = a1
    l1 = l1
    l2 = l2
    Procs = {p1}
    Urls = {u1, u2, u3, u4}
    Candidates <- MCCandidates
    ChartOf <- MCChartOf
    IndexFile = f1
    Names = {chart, index, archive, file, private}
    Local = {file}
    ModTime <- MCModTime
    Offers <- MCOffers
    Files = {f1, f2}
    Versions = {v1, i1, i2, i3, a1, l1, l2}
    FilesOf <- MCFilesOf
    TagOf <- MCTagOf
    Missing = Missing
    Anonymous = Anonymous
    Credentials <- MCCredentials
    Accepted <- MCAccepted
    NoName = NoName
    NoTag = NoTag
    NoFile = NoFile
    NoDir = NoDir
    Broken = Broken
    MaxOpens = 4
    MaxFaults = 1
    MaxTicks = 1
SPECIFICATION OpenersSpec
INVARIANTS
    OpenersTypeOK
    OpenedIsServed
    CatalogsInOrder
    MetadataHonest
CHECK_DEADLOCK FALSE
