CONSTANTS
    None = None
    Garbage = Garbage
    GutterCells = 2
    Widths = {0, 1, 2, 3, 4, 12, 26, 27, 28, 29, 37, 38, 39, 40, 43, 45, 50, 60, 62, 66, 68, 80}
    Shares = {0, 5, 40, 49, 50, 300, 450, 475, 500, 505, 695, 700, 900, 995, 1000, 1100, 9994, 9995}
    Waits <- MCWaits
    Limits <- MCLimits
    Windows <- MCWindows
    Texts <- MCTexts
SPECIFICATION Spec
INVARIANTS
    TypeOK
    RowsKeepTheirColumns
PROPERTIES
    WiderShowsNoLess
    ColorFollowsSpending
