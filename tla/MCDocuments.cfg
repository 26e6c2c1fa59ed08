CONSTANTS
    Roots <- MCRoots
    Keys <- MCKeys
    Values <- MCValues
    Arrays <- MCArrays
    Texts <- MCTexts
    Formats <- MCFormats
    MaxChanges = 2
SPECIFICATION Spec
CHECK_DEADLOCK FALSE
INVARIANTS
    JsonFaithful
    XmlFaithful
    AddIsFound
    PutIsFound
