SPECIFICATION FairSpec
CONSTANTS
  s1 = s1
  Direct = Direct
  NoSession = NoSession
  Sessions = {s1, Direct}
  MaxChats = 2
  MaxRequests = 2
  MaxCommands = 2
  MaxRestarts = 1
CHECK_DEADLOCK FALSE
INVARIANTS
  TypeOK
  RunsAtMostOnce
  AnnouncedIsOwn
  FiledUnderOwnSession
  HonestMismatchIsCharged
  ParkedStaysPending
PROPERTIES
  ApprovalsFinish
