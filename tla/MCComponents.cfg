INIT Init
NEXT Next
CONSTANTS
    AiRequests = {a1, a2}
    AiTenants = {t1, t2}
    PageCount = 1
    VisionCost <- MCVisionCost
    Caps = {4}
    AskedKinds <- MCAskedKinds
    MaxAiFaults = 1
    Puts = {p1, p2}
    Deletes = {d1}
    Shas = {1, 2}
    KnownTenants = {1, 2}
    Default = 1
    Days = 2
    ListPage = 2
    DeleteBatch = 2
    MaxS3Faults = 1
    EdgeRequests = {e1, e2}
    EdgeDocs = {"a", "b"}
    EdgeTenants = {"t"}
    EdgeBodies <- MCBodies
    MaxHandled = 3
    MaxEdgeFaults = 1
    Urls = {"u", "v", "w"}
    UnfetchableUrls = {"w"}
    PdfPaths = {"u"}
    MaxRedirects = 1
    MaxBytes = 3
    ChunkSizes = {1, 2}
    AskedFields <- MCAskedFields
    Failures <- MCFailures
    Points <- MCPoints
    Rects <- MCRects
    Matrices <- MCMatrices
    PageNums = 2
    Calibration <- MCCalibration
    MaxOps = 4
    BlobTenants = {"t", "u"}
    BlobSize <- MCBlobSize
    MaxBlobBytes = 5
    PressDocs <- MCPressDocs
    FileOrder <- MCFileOrder
    NameWithin <- MCNameWithin
    MaxDepth = 2
    HeatWords <- MCHeatWords
    MaxWords = 3
    MaxLines = 2
    Images <- MCImages
    PageSizes <- MCPageSizes
    Samples <- MCSamples
    SpotWorkers = {w1, w2}
    SpotDocs <- MCSpotDocs
    NamedSpaces <- MCNamedSpaces
    ColorBodies <- MCColorBodies
    InkNames <- MCInkNames
    Lowered <- MCLowered
    PantoneKey <- MCLowered
    AlternateKey <- MCAlternateKey
    Catalogue <- MCCatalogue
    CuratedInks = {"Foil"}
    EstimateSlots = 2
    MaxColorJobs = 3
    Full = 2
    Transforms <- MCTransforms
    MaxNesting = 2
    Polygons <- MCPolygons
    PathLists <- MCPathLists
    Distances <- MCDistances
    TileGrids <- MCTileGrids
    MaxTiles = 3
SYMMETRY Symmetry
INVARIANTS
    BudgetKept EmptiesExplained StatusHonest
    EraseComplete WholeUnlessTorn
    ReplayTrue
    SecretLocks FetchContained
    SparseAgrees
    SizeOfInk
    RecentBlobsHeld
     LayersObeyed
    HeatmapTrue
    AskedOnce SummaryTrue
    
CHECK_DEADLOCK FALSE
