SPECIFICATION Spec
CONSTANTS
    old = old
    new = new
    NotAnImage = NotAnImage
    NoFile = NoFile
    Addresses = {a1, a2}
    DefaultAddress = a1
    a1 = a1
    a2 = a2
    Images <- TwoImages
    Files <- SomeFiles
    Length <- TwoLengths
    IromLen = 3
    BlockSize = 3
    Blocks = 2
    TrailerLen = 1
    MaxChunk = 2
INVARIANTS
    TypeOK
PROPERTIES
    UploadedImageIsWhole
    OnlyImagesRestart
