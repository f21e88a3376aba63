SPECIFICATION FairWorkspace

CONSTANTS
  m1 = m1
  m2 = m2
  Names = {m1, m2}
  MaxConvs = 3
  MaxSends = 2
  MaxQuestions = 2
  MaxNavs = 2
  MaxJobs = 2
  MaxSubmits = 2
  MaxTasks = 2
  Letters = {A, B}
  NoLetter = NoLetter
  A = A
  B = B
  Mistakes = {x, y}
  x = x
  y = y
  Blank = Blank
  Nobody = Nobody
  Scenarios <- MCScenarios

INVARIANTS
  WorkspaceTypeOK
  InputComesBack
  OneStreamAtATime
  ViewIsOneConversation
  ScopeIsReady
  IndexInRange
  AnswerMatchesScore
  CorrectionsAreTheirOwn
  FlagsAreReleased

PROPERTIES
  PendingResolves

CHECK_DEADLOCK FALSE
