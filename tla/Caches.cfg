SPECIFICATION CachesSpec
CHECK_DEADLOCK FALSE
CONSTANTS
    Readers = {r1, r2}
    MaxWrites = 1
    MaxErrors = 1
    Nothing = Nothing
    Indexes <- MCIndexes
    Tasks = {t1, t2}
    Clients = {c1}
    Cutoff = 2
    MaxTime = 2
    MaxFaults = 1
    None = None
    a = a
    b = b
    c = c
    Listings = {a, b, c}
    FirstList <- MCFirstList
    SizeOf <- MCSizeOf
    ChunkLimit = 8
    Builders = {b1, b2}
    MaxEdits = 1
    MaxFailures = 1
    NoCache = NoCache
    Uploads = {u1, u2, u3}
    PageSize = 1
    MaxDate = 1
    MaxToggles = 1
    Packages = {p1, p2}
    WikiPages = {g1, g2}
    Requests = {w1, w2}
    MirrorPage = 1
    MaxPosts = 2
    MaxNow = 4
    NewPage = NewPage
INVARIANTS
    CachesTypeOK
    ChunkedIsComplete
    MissesOnlyOvertaken
    MirrorMissesOnlyRaces
PROPERTIES
    ReadersAnswered
    PagesCatchUp
    IndexServed
    StaleGoes
    ChunksCatchUp
