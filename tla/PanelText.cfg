SPECIFICATION Spec
CONSTANTS
    SCREEN_WIDTH = 5
    SCREEN_HEIGHT = 6
    BUF_BYTES = 36
    Chars = {"a", "b"}
INVARIANT ScreenShowsLog
PROPERTY ImplementsTextLog
