CONSTANTS
  MemorySize = 80
  BytesPerLine = 4
  Count = 6
  Type <- MCType
  EnumValues <- MCEnumValues
  Requires <- MCRequires
  Null = Null
  Token <- MCToken
  Version = 4
  Placeholder = 291
  CommandSize = 4
  WildShift <- MCWildShift
  Variant = {"small", "full"}
  Resource <- MCResource
  Supports <- MCSupports
  Template <- MCTemplate
  Edit <- MCEdit
  GpioItem = 4
  CodeSize = 66
  BlockSize = 33
  Worker = {w1, w2}
  None = None
  MaxChanges = 2
  MaxJobs = 2
SPECIFICATION Spec
INVARIANTS SuccessMeansStarts SuccessMeansConfigured PinsAsWritten FirmwareSupports
PROPERTIES ReloadKeeps CancelledEnds
