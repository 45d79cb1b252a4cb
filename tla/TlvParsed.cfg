SPECIFICATION ParseSpec
CONSTANTS
    Messages <- MCMessages
    MaxComponents = 2
    MaxManeuvers = 2
    MaxLanes = 3
    MaxAngles = 3
    LongText = 9
    ShortText = 5
    ExitText = 3
INVARIANTS StaysWithin ReadAsSent
PROPERTY Advances
