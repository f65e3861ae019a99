SPECIFICATION Spec
CONSTANTS
  Configured <- MCConfigured
  Heard <- MCHeard
  MaxOffset = 2
INVARIANTS
  SkillTypeOK
  StartsExactlyWhenNamed
PROPERTIES
  TransportKeepsPlace
  NeverStartsUnasked
