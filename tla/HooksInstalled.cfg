SPECIFICATION InstallSpec
CONSTANTS
    Builds <- MCBuilds
    MaxTransport = 3
    RawLimit = 6
    RawHeader = 2
    Frames <- MCFrames
    Packets = 2
    Sessions = 2
INVARIANTS HooksSound LinesNameTheMessage
PROPERTIES StaysDown Arms
