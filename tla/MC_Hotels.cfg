SPECIFICATION MCSpec
CONSTANTS
    one = one
    two = two
    dry = dry
    bad = bad
    HotelIds <- MCHotelIds
    Seeded <- MCSeeded
    Runs = {one, two, dry, bad}
    File <- MCFile
    DryRuns = {dry}
    NoHotel = NoHotel
    Searches <- MCSearches
    Points <- MCPoints
    MapViews <- MCMapViews
    PageSizes = {1, 2}
    MaxPins = 3
    InReach <- MCInReach
    Nearness <- MCNearness
    OtherChars = {a}
    Records <- MCRecords
    Ids <- MCIds
    Views <- MCViews
CHECK_DEADLOCK FALSE
INVARIANTS
    TypeOK
    NameTwiceOnlyByRace
    NothingLeftOut
    SummaryFits
    StoredFromGoodFiles
    NothingSkipped
    RepeatsHaveReason
    NoEmptyPage
    PageMatchesCount
    MapFindsWhatItShows
    GalleriesSound
    SplitUndoesQuoting
