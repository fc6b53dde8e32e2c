CONSTANTS
  Manual = {1, 2, 3}
  Pairs <- MCPairs
SPECIFICATION Spec
INVARIANT ManualPreserved
PROPERTIES OursLast
