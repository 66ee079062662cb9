CONSTANTS
  Route <- AllRoutes
  Url <- Paths
  Rank <- MCRank
  MaxRoutes = 4
SPECIFICATION Spec
INVARIANTS FoundMatches AddedFound
CHECK_DEADLOCK FALSE
