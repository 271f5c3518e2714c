\* The claim of the console that its form submits the complete config.
CONSTANTS
  cli = cli
  mcp = mcp
  web = web
  Editors = {cli, mcp, web}
  Kind <- MCKind
  ContentScanEnabled = FALSE
  MaxSaves = 2
  Nobody = Nobody
SPECIFICATION Spec
INVARIANT SaveKeepsTheRest
CHECK_DEADLOCK FALSE
