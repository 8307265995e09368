SPECIFICATION Spec
CONSTANTS
  Base = 3
  PublicKeys <- SomePublicKeys
  PrivateKeys <- SomePrivateKeys
  MaxDamage = 2
CHECK_DEADLOCK FALSE
INVARIANTS NeverPanics WholeOrNothing DecodedIsWritten
