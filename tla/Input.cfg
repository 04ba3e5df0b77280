SPECIFICATION InputSpec
CONSTANTS
    Screens = {"goodix"}
    Style <- MCStyle
    Keyboards = {"combo"}
    Mice = {"combo"}
    Unwanted = {"bma250"}
    Pluggable = {"combo"}
    MaxDevices = 3
    Areas = {"vkey", "action"}
    QueueSize = 4
    MaxPackets = 5
    MaxPlugs = 1
INVARIANT NothingStuck
PROPERTY ReleaseIsLift
