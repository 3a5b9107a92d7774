CONSTANTS
  None = None
  Importers = {i1, i2}
  Signers = {s1}
  Keys = {y1, y2}
  MaxVersions = 2
  MaxCalls = 3
  Commands = {c1, c2}
  Sources = {y1, y2}
  Alias = Alias
  Attempts = 2
  MaxDeletes = 1
  Levels = {software, hsm}
  FreshKey = FreshKey
SPECIFICATION FairImportSpec
INVARIANTS VaultKeyAsSaid ReportedIsSource CreatedIsNamed CreatedAsAsked
PROPERTIES CommandEnds
