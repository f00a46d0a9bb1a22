SPECIFICATION Spec
CONSTANTS
  Blank = ""
  Trimmed <- MCTrimmed
  FileNames <- MCFileNames
  Existing <- MCExisting
  Content <- MCContent
  Lower <- MCLower
  CommandLines <- MCCommandLines
  Names <- MCNames
  Versions <- MCVersions
  Hosts <- MCHosts
  MaxCalls = 3
INVARIANTS EnvFileUsed
\* The bound on client calls ends a behaviour.
CHECK_DEADLOCK FALSE
