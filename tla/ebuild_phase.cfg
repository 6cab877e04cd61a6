SPECIFICATION Spec
CONSTANTS
  Phases = {"unpack", "prepare", "configure", "compile", "test", "install"}
  Menu <- MCMenu
  EAPIs = {3, 8}
  Tree <- MCTree
  Archives <- MCArchives
  Ext <- MCExt
  Stem <- MCStem
  Docs <- MCDocs
  HtmlDocs <- MCHtmlDocs
  StandardDocs <- MCStandardDocs
  A <- MCA
  Patches <- MCPatches
  UserPatches <- MCUserPatches
  PatchOf <- MCPatchOf
  MakeInstalls <- MCMakeInstalls
  MaxCalls = 3
  MaxFaults = 1
  MaxWrites = 2
INVARIANTS
  DestinationsAsTold
  DeliveredStays
  DieEndsPhase
CHECK_DEADLOCK FALSE
