SPECIFICATION Spec
INVARIANTS TypeOK StreamsSound
PROPERTIES AllEnds
CHECK_DEADLOCK FALSE
