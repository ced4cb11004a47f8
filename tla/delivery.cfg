CONSTANT MaxFrame = 4
SPECIFICATION Spec
INVARIANTS TypeOK MailboxServed
PROPERTIES BackwardsOnlyByStartupTcp NewestReachesDecoder
CHECK_DEADLOCK FALSE
