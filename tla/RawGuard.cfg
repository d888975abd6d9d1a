CONSTANTS
  MaxDepth <- OneLevel
  MaxLength <- SixCharacters
SPECIFICATION Spec
CHECK_DEADLOCK FALSE
INVARIANTS
  TypeOK
  DecoderBounded
  DepthIsExact
  ValidIsClean
