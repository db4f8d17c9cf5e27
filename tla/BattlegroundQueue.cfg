SPECIFICATION QueueSpec
CONSTANTS
  a1 = a1
  a2 = a2
  h1 = h1
  Players = {a1, a2, h1}
  TeamOf <- MCTeamOf
  MinPlayersPerTeam = 1
  MaxPlayersPerTeam = 2
  AcceptTime = 2
  MaxBattlegrounds = 1
  Leaving = {a1}
INVARIANTS
  InvitedCountExact
PROPERTIES
  InvitationTime
  AbandonedDeleted
CHECK_DEADLOCK FALSE
