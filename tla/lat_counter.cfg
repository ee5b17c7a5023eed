SPECIFICATION Spec
CONSTANTS
  HIST_BUCKETS = 3  CNT_WORD = 4
  Offers <- LastAndClear
  MAX_EDGES = 5  MAX_CLEARS = 1
INVARIANTS TypeOK LastSample AnswersCounted ReadsAfterClear
