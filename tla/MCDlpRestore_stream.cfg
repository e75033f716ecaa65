SPECIFICATION Spec
CONSTANTS
    None = None
    email = email
    phone = phone
    hex1 = hex1
    hex2 = hex2
    a = a
    x = x
    Letters <- MCLetters
    Others <- MCOthers
    Profile <- MCProfile
    Hexes <- MCHexes
    Deltas <- MCDeltas
    Hold = 2
    LastChoice = 1
    MaxText = 2
    MaxMessages = 2
    MaxFeeds = 3
INVARIANTS
    TypeOK
    MaskingIsLossless
    ChunksDontMatter
    ChoicesKeepTheirText
CHECK_DEADLOCK FALSE
