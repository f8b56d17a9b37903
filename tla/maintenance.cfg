SPECIFICATION Spec
CONSTANTS
    A = A
    B = B
    s = s
    b1 = b1
    b2 = b2
    z = z
    None = None
    Albums = {1, 2, 3, 4}
    Unmatched = 5
    ArtistOf <- Artist4
    Exact <- Exact4
    Edition <- Edition4
    Folder <- Folder4
    Alike <- Alike4
    Priority <- Priority4
    Catalog = {1, 2, 3, 4, 5, 6}
    Spare = {7}
    Home <- Home4
    Song <- Song4
    Blank = {b1, b2}
    Name <- Own
    Rank <- Ranks
    Loose <- Loose4
    FirstExt <- First4
    Requests = {"download", "delete", "userRemove", "sync", "drop", "import", "crash"}
    MaxEvents = 2
INVARIANT TypeOK
PROPERTIES MergeKeepsAudio RunSettles RunShrinks
