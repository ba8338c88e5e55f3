SPECIFICATION Spec
CONSTANTS
  NumPlaces = 2
  MaxLevels = 1
  Programs <- ThreeAndFour
INVARIANT WellPlaced
