SPECIFICATION Spec
CONSTANTS
  Numbers <- TheNumbers
  Addresses <- TheAddresses
  Profiles <- TheProfiles
  MaxLines = 2
  MaxReads = 2
  Faults = {"open", "create"}
  Chars <- TheChars
  Escapes <- TheEscapes
  Newline = "nl"
  Value <- TheValue
  Size = 4
  MaxText = 5
INVARIANTS
  CfgTypeOK
  FacilitiesValid
  TimersArm
  WrittenReadsBack
  ProfileSent
  SetFits
  IssueTypeOK
  ShownWhole
CHECK_DEADLOCK FALSE
