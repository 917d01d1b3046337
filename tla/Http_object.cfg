SPECIFICATION Spec
CONSTANTS
  Pages = {p, q, r}
  Titled = {p}
  Cut = {r}
  MaxRequests = 3
  MaxTitle = 3
INVARIANTS TypeOK KeptComplete TitlesAreKept
