SPECIFICATION Spec
CONSTANTS
    Base = 4
    MAX_FRAME = 250
    Streams <- MCStreams
    Pieces <- MCPieces
    Columns = {0, 3, 4, 15}
    Residues = {0, 1, 12, 15}
    MaxBlocks = 9
    SliceBytes = {0, 63, 64, 320, 576, 640}
    Prime = 7
    MaxIters = {1, 4}
    Lanes = {1, 2}
INVARIANTS
    PackedIsStream UnpackMatchesScalar CascadeRestores
    UnfforMatchesLayout
    BlocksExact TaskKeepsRegisters LanesIndependent
    FramesIntact NothingHeldBack
