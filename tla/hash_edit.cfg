SPECIFICATION Spec
CONSTANTS
    Keys <- MCKeys
    Contents <- MCContents
INVARIANT OrderIrrelevant
PROPERTY EditIsDetected
