SPECIFICATION Spec
CONSTANTS
  n1 = n1
  n2 = n2
  Calls = {c1, c2}
  Nodes = {n1, n2}
  Heaps <- NestedHeaps
  Depths = {2}
  MaxCallDepth = 4
  MayOverflow = {TRUE, FALSE}
INVARIANTS
  GuardsExact
