SPECIFICATION Spec
CONSTANTS
  Text <- AllText
  Host <- HostOf
  Labels <- SomeLabels
  NewBlocks <- SomeNewBlocks
  Files <- InterfaceLastFiles
  MaxEdits = 1
PROPERTIES
  InterfaceKept
