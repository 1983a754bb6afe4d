\* The heap: every array of up to five entries of two priorities out of six
\* submissions.  Three actors of one or two units in the memory of a device, budgets of two
\* and three, three frames.  The map grows twice; the arena has two blocks, the second of any size.  All
\* cell types but five, whose tables disagree (README, section 4).  Up to three cells
\* in a grid, two layers of ghosts, three pieces; facets of three hash values.  Up to
\* three cells in a hierarchy of three levels; four steps or samples; up to three points
\* along every axis; a display of three by three pixels.
\* A tetrahedron, two apart, a wedge, and a cube with a pyramid on it.
\* Surfaces of up to four cells, clean filters that merge no points or near ones.
\* Sources of up to five tokens; a cache of two expressions, used three times; up to three
\* samples in two leaves, in chunks of two; two blocks of results.  Grids and surfaces of up
\* to six cells with ghosts in every section, legacy files of ten sections in any order; manifests of
\* up to five entries over three files, two caches of up to three.  Ten scenes of up to
\* eight actors on four devices, two frames each; windows of four kinds on two hosts, one
\* message posted at a time.  Arrays, cells and sets of names after two changes.
CONSTANTS
    Priorities = {0, 1}
    MaxSequence = 6
    Capacity = 5
    Actors = {1, 2, 3}
    ActorSizes = {1, 2}
    MaxFrames = 3
    MaxFrameUses = 6
    None = None
    Keys = {1, 2, 3, 4, 5, 6}
    Values = {1}
    MinCapacity = 4
    MaxCapacity = 16
    BlockSize = 4
    Sizes = {2, 5}
    Alignments = {1, 4}
    Bases = {0, 2}
    MaxBlocks = 2
    BitsPerWord = 2
    MaxBits = 6
    CellTypes = {"vertex", "line", "triangle", "quad", "pixel", "tetra", "hexahedron",
        "wedge", "pyramid", "quadratic_edge", "quadratic_triangle", "biquadratic_triangle",
        "quadratic_quad", "biquadratic_quad", "quadratic_linear_quad", "quadratic_tetra",
        "quadratic_hexahedron", "triquadratic_hexahedron",
        "biquadratic_quadratic_hexahedron", "quadratic_wedge", "quadratic_pyramid",
        "cubic_line"}
    HashSize = 3
    LevelMax = 9
    Points = 6
    MorePoints = 1
    MaxPieces = 3
    MaxGhosts = 2
    MaxChanges = 4
    LeafCells = 1
    MaxLevels = 2
    MaxCalls = 5
    MaxRenders = 2
    MaxVertices = 512
    WindowKinds = {"own", "attached", "external", "offscreen"}
    Hosts = {"A", "B"}
    ReinitializedKinds = {"attached", "offscreen"}
    DestroyedWhileShown = FALSE
    Validates = TRUE
    MaxPosted = 1
    MaxModified = 2
    NaN = 99
    Infinite = 100
    MaxNarrowId = 3
    MaxListed = 4
    IndexThreshold = 2
    ColumnNames = {"a", "b", "c"}
    HeldArrays = {"p", "q"}
    Roles = {"scalars", "vectors"}
    MaxCells = 3
    Times = {2, 4, 6, 8}
    MaxSteps = 4
    LastPixel = 2
    Solids = {"tetra", "wedge", "tower", "pair"}
    MaxNormal = 2
    MaxOffset = 4
    MaxPatchCells = 4
    Tolerances = {0, 2}
    Resolution = 2
    Tokens = {"x", "(", ")", "+", "-", "^", ",", "<", "?", ":", ".y", "min"}
    MaxTokens = 5
    CacheSize = 2
    MaxUses = 3
    MaxSamples = 3
    NotFinite = 99
    MaxLeaves = 2
    Grain = 2
    MaxFieldBlocks = 2
    SectionArrays = 3
    MaxRounds = 2
    Refused = Refused
SPECIFICATION Spec
INVARIANTS ContentsKept TablesExact
    CachesTransparent PiecesPartition AnswersExact FiltersExact FilesExact FramesExact
PROPERTIES TakesFirst BudgetsKept
\* A heap does nothing when every submission has been popped, nor
\* an empty grid after its last change.
CHECK_DEADLOCK FALSE
