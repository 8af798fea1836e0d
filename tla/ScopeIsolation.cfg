SPECIFICATION Spec
CONSTANTS
  Main = main
  Tasks = {main, t1, t2}
  People = {alice}
  Nobody = Nobody
  MaxRequests = 2
  MaxCarriers = 1
  MaxScopes = 3
  MaxCrumbs = 1
  MaxDepth = 1
CHECK_DEADLOCK FALSE
SYMMETRY MCSymmetry
INVARIANTS
  TypeOK
  UsersStayHome
  BreadcrumbsStayHome
