SPECIFICATION Spec
CONSTANTS
  Overlays <- Lists
  Rotations = {"", "180"}
  Exported <- Nothing
  MaxFaults = 2
INVARIANTS Inv FinalAsAsked
PROPERTIES BaseRecovers
