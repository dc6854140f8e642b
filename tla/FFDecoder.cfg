CONSTANTS
  rccount = 3
  Sources <- MCSources
SPECIFICATION FairSpec
INVARIANT TypeOK
INVARIANT MembersOwned
INVARIANT ReadyToRead
INVARIANT VideoIndexCurrent
INVARIANT GivesUpAfterAllAttempts
PROPERTY LossIsSettled
CHECK_DEADLOCK FALSE
