SPECIFICATION OcrSpec
CONSTANTS
  ApiKeys = {k1}
  NoKey = NoKey
  EnvKeys <- OnlyOpenAI
  Saves = {s1}
  Extractions = {x1}
  OcrFaults = FALSE
  k1 = k1
INVARIANT TableHasPriority
CHECK_DEADLOCK FALSE
