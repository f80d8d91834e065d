\* One other member, who may join or leave, one line typed.
SPECIFICATION FairSpec
CONSTANTS
    MaxOthers = 1
    MaxChanges = 1
    MaxTyped = 1
INVARIANTS TypeOK StaleOnlyByTear
PROPERTIES AreStreams SettlesUnlessTorn
CHECK_DEADLOCK FALSE
