CONSTANTS
  Sep = "/"
  Letters = {"s", "x"}
  SnDir <- MCSnDir
  MaxLen = 8
  PathMax = 5
  ExtLen = 2
  NameMax = 3
  RootLens = {1, 2, 3}
  MaxFds = 2
  Sites <- MCAllSites
SPECIFICATION Spec
INVARIANT DecomposeMatchesSpec WritesFit NoSpuriousNameTooLong
