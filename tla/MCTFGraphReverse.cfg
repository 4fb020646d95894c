SPECIFICATION CallerSpec
CONSTANTS
    Tokens = {base, link1, link2}
    Arrow = arrow
    Frames <- OneTokenFrames
    Values = {v1}
    MaxCopies = 2
INVARIANT ReverseLookup
