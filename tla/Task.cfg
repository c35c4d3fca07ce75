SPECIFICATION TaskSpec
CONSTANTS
  Nodes <- MCNodes
  Slots <- MCSlots
  Drafts <- MCDrafts
  WordMax = 255
  Packages <- MCPackages
  Givens <- MCGivens
  NoContents = NoContents
INVARIANTS
  RowsMatchTasks
  EveryCombination
  SubOutputsTaken
  AcceptedRuns
  PublishedRuns
  
  NamedFilesDelivered
  CollectedWhereWritten
  PreviewTold
\* A draft that is rejected, an instance whose nodes are all scheduled, a package that
\* was refused, and a node whose task is sent, stop here.
CHECK_DEADLOCK FALSE
