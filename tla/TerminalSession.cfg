CONSTANT MaxCommands = 3
SPECIFICATION FairSpec
INVARIANTS StatusAgrees TypingIsHeard
PROPERTIES Answered CloseEnds
CHECK_DEADLOCK FALSE
