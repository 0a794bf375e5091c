\* Three casts and a closer, or two casts and two closers, of one vote.
SPECIFICATION RacesSpec
CONSTANTS
  CreateReq = {v1}
  CastReq = {b1, b2, b3}
  CloseReq = {k1, k2}
  a1 = a1
  a2 = a2
  o1 = o1
  o2 = o2
  u1 = u1
  u2 = u2
  c1 = c1
  c2 = c2
  b1 = b1
  b2 = b2
  b3 = b3
  Account = {a1, a2}
  Owner = {o1, o2}
  Community = {c1}
  Unit = {u1}
  Option = {x}
  CommunityOf <- AllInOneCommunity
  Links0 <- BothLinked
  Owns0 <- BothOwnU1
  MaxTime = 2
  None = None
SYMMETRY RequestSymmetry
INVARIANTS
  AtMostOneActive
  VotedUnitsKeepABallot
  HistoryIsOneLine
  CastAnswersAreTrue
  ClosedAnswerIsTheRecord
  ResultsCountTheUnitsThatVoted
PROPERTIES
  BallotsAreOnlySuperseded
  ResultsAreFinal
  ImplementsVoteRegister
CHECK_DEADLOCK FALSE
