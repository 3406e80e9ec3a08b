\* Five sources on a map of 12 by 12 units in 4 by 4 tiles, two way workers;
\* the program may stop at any point.
SPECIFICATION Spec
CONSTANTS
    Span = 12
    Axis = 4
    PadLeast = 1
    FarGap = 2
    AreaUnit = 1
    Presets <- MCPresets
    MemberCap = 2
    Workers = 2
    AreaStyles = {"water"}
    Sources <- MCSources
    Boxes <- MCBoxes
    Names = {"a", "b"}
INVARIANTS RendersTheSource OutlinesTheCity InterruptedNeverLies PiecesKeptTogether
CHECK_DEADLOCK FALSE
