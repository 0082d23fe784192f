SPECIFICATION Spec
CONSTANTS
  Text <- AllText
  Host <- HostOf
  Labels <- SomeLabels
  NewBlocks <- SomeNewBlocks
  Files <- CanonicalFiles
  MaxEdits = 2
INVARIANTS
  WrittenIsCanonical
