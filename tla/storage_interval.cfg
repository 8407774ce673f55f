SPECIFICATION Spec
CONSTANTS
  Start <- Eves
  MaxMoments = 4
INVARIANTS
  TypeOK
  WholeBounds
  CutBounds
