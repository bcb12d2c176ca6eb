INIT DielineInit
NEXT DielineNext
CONSTANTS
    Points <- MCPoints
    Rects <- MCRects
    Matrices <- MCMatrices
    PageNums = 1
    Calibration <- MCCalibration
    MaxOps = 4
INVARIANT FoldsFound
CHECK_DEADLOCK FALSE
