SPECIFICATION Spec
CONSTANTS
  Text <- AllText
  Host <- HostOf
  Labels <- SomeLabels
  NewBlocks <- SomeNewBlocks
  Files <- LaidOutFiles
  MaxEdits = 2
INVARIANTS
  TypeOK
  WrittenIsRead
  RewriteSettles
PROPERTIES
  CommentsKept
  ServerKeyKept
  EditsAreListEdits
