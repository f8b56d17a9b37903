SPECIFICATION Spec
CONSTANTS
    A = A
    B = B
    s = s
    b1 = b1
    b2 = b2
    z = z
    None = None
    Albums = {1, 2, 3, 4, 5}
    Unmatched = 6
    ArtistOf <- ArtistK
    Exact <- ExactK
    Edition <- ExactK
    Folder <- FolderK
    Alike <- AlikeK
    Priority <- PriorityK
    Catalog = {1, 2, 3, 4, 5, 6, 7}
    Spare = {}
    Home <- HomeK
    Song <- SongK
    Blank = {}
    Name <- Own
    Rank <- Ranks
    Loose <- NoLoose
    FirstExt <- FirstK
    Requests = {"crash"}
    MaxEvents = 1
PROPERTY MergeKeepsTheBetter
