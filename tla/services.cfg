SPECIFICATION ServicesSpec
CONSTANTS
  Events = {f1, t1, t2, i1, g1}
  KindOf <- EventKinds
  Sender <- AllFromAnn
  LineUsers = {ann}
  LineFaults = {t2, i1}
  MaxByHand = 1
  f1 = f1
  t1 = t1
  t2 = t2
  i1 = i1
  g1 = g1
  ann = ann
  Texts = {ink, toner, cartridge, paper}
  Items = {cartridge, paper}
  Keywords = {ink, toner}
  Within <- Contains
  BuiltIn <- PaperIsKnown
  ClassifyRuns = {r1, r2}
  MaxRules = 2
  ink = ink
  toner = toner
  cartridge = cartridge
  paper = paper
  ApiKeys = {k1}
  NoKey = NoKey
  EnvKeys <- OnlyOpenAI
  Saves = {s1, s2}
  Extractions = {x1}
  OcrFaults = TRUE
  k1 = k1
  s1 = s1
  s2 = s2
  x1 = x1
  TaxNumbers = {n1, n2}
  NoTax = NoTax
  Infos = {named, renamed}
  NoInfo = NoInfo
  n1 = n1
  n2 = n2
  named = named
  renamed = renamed
  Linked = {inv}
  VendorRuns = {v1, v2}
  VendorFaults = TRUE
  Archivable = {d1}
  Schedulers = {p1, p2}
  MaxLogs = 3
  LimitKeys = {key}
  Limit = 2
  Window = 2
  Horizon = 7
  NFiles = 3
  Rerunnable = {2, 3}
  Starters = {old, new}
  Has <- TwoVersions
  old = old
  new = new
  Calls = {c1, c2, c3}
  KindOfCall <- KindsOfCalls
  MaxTokens = 3
  c1 = c1
  c2 = c2
  c3 = c3
INVARIANTS
   SecondConversationOnlyByRaceOrBlind TextsAreKept TextsMoveForward
  LearnedAnswerRepeats
  RunningMatchesTable OneConfigPerExtraction
  LinkFollowsTaxNumber
  OneOpenLogPerProcess
  FilesTakeEffectInOrder ServesOnItsSchema
  AtMostTwiceTheLimit
  QueueHasItsRefresh
PROPERTIES
  LearningOnlyAdds VerifiedInfoStands EveryCallSettles
CHECK_DEADLOCK FALSE
