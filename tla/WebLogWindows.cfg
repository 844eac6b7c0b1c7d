SPECIFICATION Spec
CONSTANTS
  r1 = r1
  r2 = r2
  ok = ok
  notfound = notfound
  Routes = {r1, r2}
  Classes = {ok, notfound}
  Stamps = {1, 2, 3, 5}
  Sizes = {1, 2}
  Delta = 1
  MaxLog = 4
SYMMETRY AnyRoute
INVARIANTS
  TypeOK
  WindowExact
  SentExact
  RatiosAddUp
  WindowSpan
  BytesExact
