SPECIFICATION Spec
CONSTANTS
  NoOne = NoOne
  r1 = r1
  r2 = r2
  c1 = c1
  Requests = {r1,r2}
  Comments = {c1}
  MaxVersion = 1
  MaxOps = 3
  MaxFaults = 0
PROPERTY ShowsArchive
