SPECIFICATION FairSpec
CONSTANTS
  Names <- MCNames
  MAX_FILES_NUMBER = 4
INVARIANTS
  TypeOK
  Sorted
  ReadsUsedSlots
  LeftOutOnlyWhenFull
PROPERTIES
  AnswersMembership
  SearchEnds
\* A write out of the table ends the model.
CHECK_DEADLOCK FALSE
