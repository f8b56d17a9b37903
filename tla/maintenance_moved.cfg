SPECIFICATION Spec
CONSTANTS
    A = A
    B = B
    s = s
    b1 = b1
    b2 = b2
    z = z
    None = None
    Albums = {1, 2}
    Unmatched = 3
    ArtistOf <- ArtistM
    Exact <- ExactM
    Edition <- ExactM
    Folder <- FolderM
    Alike <- NoPairs
    Priority <- PriorityM
    Catalog = {1, 2, 3, 4, 5, 6, 7, 8}
    Spare = {}
    Home <- HomeM
    Song <- SongM
    Blank = {}
    Name <- NameM
    Rank <- Ranks
    Loose <- NoLoose
    FirstExt <- FirstM
    Requests = {}
    MaxEvents = 1
PROPERTY MergeFoldsEveryTrack
