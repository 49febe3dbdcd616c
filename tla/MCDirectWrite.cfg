SPECIFICATION FairSpec
CONSTANTS
  n1 = n1
  n2 = n2
  Calls = {c1}
  Nodes = {n1, n2}
  Heaps <- MCHeaps
  Depths = {0, 1, 5}
  MaxCallDepth = 8
  MayOverflow = {FALSE}
INVARIANTS
  
  NoPhpCodeAfterHardError
  OutputIsJson
PROPERTIES
  LaterErrorIsFinal
  Terminates
