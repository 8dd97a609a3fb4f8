SPECIFICATION CompSpec
CONSTANTS
    Cameras = {1, 3, 4, 6, 7}
    Screens = {2, 5, 8}
    Width = 13
    Height = 7
INVARIANT TilesLegal
CHECK_DEADLOCK FALSE
