CONSTANTS
  none = none
  a = a
  b = b
  files = files
  talk = talk
  mail = mail
  Texts <- MCTexts
  Empty = none
  TooShort = {none}
  Categories <- MCCategories
  Providers <- MCProviders
  Paginated = {files}
  External = {mail}
  Compatible = {talk}
  Terms <- MCTerms
  NoTerm = NoTerm
  NoFind = NoFind
  Pages = {"desktop", "mobile", "local"}
  MaxPages = 2
  MaxLate = 1
  MaxInputs = 2
SPECIFICATION ModalSpec
INVARIANT ModalTypeOK
INVARIANT AnswersOfQuery
INVARIANT AwaitedComes
INVARIANT ClosedIsQuiet
PROPERTY PriorityRespected
PROPERTY HighlightStays
PROPERTY ShowsProgressively
PROPERTY CatchesUp
CHECK_DEADLOCK FALSE
