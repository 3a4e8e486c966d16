SPECIFICATION Spec
CONSTANTS
  Files <- MCFiles
  Stores <- MCStores
  Reserved <- MCReserved
  Sources <- MCSources
  Excludes <- MCExcludes
  PageSizes = {1, 2, 9}
  ServerPageSize = 2
  MaxPageSize = 3
  MaxVersion = 2
INVARIANTS TypeOK PagesComplete ExcludedUntouched
PROPERTIES IndexedAsWalked ObjectsFound MirrorsWalk
