SPECIFICATION Spec
CONSTANTS
    Keys <- MCKeys
    Contents <- MCContents
PROPERTY ChangeIsDetected
