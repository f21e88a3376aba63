SPECIFICATION FairSessions

CONSTANTS
  Tabs = {t1, t2}
  Calls = {c1, c2}
  Me = Me
  MaxTokens = 3
  MaxClicks = 3
  MaxFaults = 1
  t1 = t1
  t2 = t2
  c1 = c1
  c2 = c2

INVARIANTS
  SessionsTypeOK
  OneUnrevokedToken
  LogoutEndsSession
  OneTabIsNoThief

PROPERTIES
  DisablingEndsSessions
  SessionsEnd
  TabsComeToRest

CHECK_DEADLOCK FALSE
