SPECIFICATION Spec
CONSTANTS
  PROTOCOL_VERSION = 1
  W16 = 3
  W8 = 2
  KeyVersions = {1, 2}
  PublicKeys <- SmallKeys
  AnsweredKeys <- SmallAnswers
  Nonces <- SmallNonces
  Measurements = {"ours", "other"}
  Expected = "ours"
  AnyMeasurement = "any"
  MaxAttested = 2
INVARIANTS EncryptedIsAttested HonestIsAccepted
