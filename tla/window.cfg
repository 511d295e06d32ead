SPECIFICATION Spec
CONSTANTS
  Node = {n1, n2, n3, n4, n5}
  s1 = s1
  s2 = s2
  Symbol <- MCSymbol
  Lists <- MCLists
  Default = s2
  None = none
  MaxTabs = 3
  MaxLists = 2
SYMMETRY NodeSymmetry
INVARIANTS WindowInv EachPanelOnce WindowShowsTrees
PROPERTIES TheClickedGoes WaitsOnlyAfterSplit
