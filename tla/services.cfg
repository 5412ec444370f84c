\* Every service around the authorization server, one part at a time.
CONSTANTS
  None = None  Unknown = Unknown
  Actor = {p1, p2}
  dir = dir  doc = doc  home = home
SPECIFICATION Spec
SYMMETRY MCSymmetry
INVARIANTS
  TypeOK PasswordsAreAccounted OnlyTheOwnerActs SignInsAreEarned SettingsApply
  TaggedStaysWithheld WritesAreSafe TransfersAreWhole NothingVanishes
  DocumentsAreBounded OneKeyOpens ConversionsAreHonest ChecksTellTheTruth
PROPERTIES
  KeptUntilEnded NothingWithdrawnIsAccepted RequestsAreBounded
CHECK_DEADLOCK FALSE
