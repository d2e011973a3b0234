CONSTANTS
  Jobs = {j1, j2}
  Repos = {r}
  Files = {f, g}
  Revisions = {v}
  Size = 2
  None = None
SYMMETRY JobSymmetry
SPECIFICATION DownSpec
PROPERTY CompletedIsIntact
