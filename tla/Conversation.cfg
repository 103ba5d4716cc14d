SPECIFICATION FairSpec
CONSTANTS
  END_RECOGNIZE = 5
  MaxInFlight = 2
  MaxNumber = 9
  MaxResults = 2
  Programs <- AllPrograms
  Meanings <- AllMeanings
CHECK_DEADLOCK FALSE
INVARIANTS
  TypeOK
  ParametersArrive
  MeaningKept
  ResultsFaithful
  EndedTogether
  OneResultEach
  OneTurn
  MockTurn
  FailsForAReason
PROPERTY
  RecognitionEnds
