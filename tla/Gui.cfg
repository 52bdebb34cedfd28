SPECIFICATION GuiSpec
CONSTANTS
    MAX_WINDOWS = 2
    USER_GUI_MAX = 3
    EventCap = 1
    DesktopCount = 2
    Scenes <- EveryScene
    Paths = {p1, p2}
    VGA_FONT_MAX = 2
    FontHandles = {h1, h2}
    RefMax = 4
    Widths <- Screens
    Lows <- Axes
    WindowMin = 2
    TileMin = 3
    TitleShown = 2
    CmdMax = 2
    MaxDraws = 4
    TASKBAR_TOAST_MAX = 2
    TickMod = 6
    Timeouts = {1, 3}
    MaxPosts = 4
INVARIANTS DesktopSound DrawnSound
PROPERTIES WaitEnds FrameShown
CHECK_DEADLOCK FALSE
