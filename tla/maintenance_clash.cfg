SPECIFICATION Spec
CONSTANTS
    A = A
    B = B
    s = s
    b1 = b1
    b2 = b2
    z = z
    None = None
    Albums = {1}
    Unmatched = 2
    ArtistOf <- Artist1
    Exact <- Names1
    Edition <- Names1
    Folder <- Folder1
    Alike <- NoPairs
    Priority <- Priority1
    Catalog = {1}
    Spare = {2, 3}
    Home <- Home1
    Song <- Song1
    Blank = {}
    Name <- Untitled
    Rank <- Ranks
    Loose <- Loose1
    FirstExt <- First1
    Requests = {"import"}
    MaxEvents = 1
PROPERTY PlaceKeepsAudio
