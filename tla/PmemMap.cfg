SPECIFICATION Spec
CONSTANTS
    Rounds <- ThreeRounds
INVARIANTS MapTypeOK LeaksDoNotAdd MeasuresMapped AllReleased
PROPERTIES MapEnds
