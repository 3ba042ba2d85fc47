SPECIFICATION Spec
CONSTANTS
    DecodeBufferSize = 48
    HeaderSize = 4
    IntMax = 111
    RoundedDown <- MCRoundedDown
    Models <- MCModels
    Scripted <- MCScripted
    Images <- MCImages
    NoFile = NoFile
    Arrays <- MCArrays
    MaxFiles = 2
INVARIANTS
    TopDownShown
