SPECIFICATION MessageSpec
CONSTANTS
    Tokens = {base, link1, link2}
    Arrow = arrow
    Frames <- OneTokenFrames
    Values = {v1, v2}
    MaxCopies = 2
    MaxTransforms = 2
    Messages <- SmallMessages
INVARIANTS
    MessageTypeOK
    TreeIsLogged
PROPERTIES
    ForestSpec
    TreeIsAdopted
