SPECIFICATION Spec
CONSTANTS
  Characters = {c1, c2}
  NONE = NONE
INVARIANTS
  WayRoundIsOpen
  EverySideIsWithinReach
PROPERTIES
  MovesFollowTheLines
  MovesAreReversibleButOne
