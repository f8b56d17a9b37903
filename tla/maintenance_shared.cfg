SPECIFICATION Spec
CONSTANTS
    A = A
    B = B
    s = s
    b1 = b1
    b2 = b2
    z = z
    None = None
    Albums = {1, 2, 3, 4}
    Unmatched = 5
    ArtistOf <- ArtistS
    Exact <- ExactS
    Edition <- ExactS
    Folder <- FolderS
    Alike <- Alike4
    Priority <- PriorityS
    Catalog = {1, 2, 3, 4, 5}
    Spare = {}
    Home <- HomeS
    Song <- SongS
    Blank = {}
    Name <- Own
    Rank <- Ranks
    Loose <- NoLoose
    FirstExt <- FirstS
    Requests = {}
    MaxEvents = 1
PROPERTY MergeKeepsTheBetter
