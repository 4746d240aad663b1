\* Two texts, one project, one user and one date range; a user acts while at most
\* one request is in flight.
SPECIFICATION Spec
CONSTANTS
  q1 = q1
  q2 = q2
  proj = proj
  user = user
  week = week
  Blank = Blank
  All = All
  Nothing = Nothing
  Queries <- TwoQueries
  Projects <- OneProject
  Users <- OneUser
  Ranges <- OneRange
  MaxRequests = 2
INVARIANTS
  SpinnersEnd
  ResultsOfQuery
  DashboardIsCurrent
PROPERTIES
  TypedIsShown
