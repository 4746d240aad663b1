\* Two filter settings, three sessions of which one is in no list; a user acts
\* while at most one request is in flight.
SPECIFICATION Spec
CONSTANTS
  all = all
  some = some
  Sessions = {1, 2, 3}
  Linked = {1, 3}
  Filters <- TwoFilters
  NoFilters = all
  Matches <- TwoPages
  PageSize = 1
  Ordinals = {1}
  MaxRequests = 2
INVARIANTS
  TypeOK
  LinksOfShown
  LinksArrive
  SelectedIsShown
  ListIsPrefix
