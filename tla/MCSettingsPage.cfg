\* One failing access in each boot, one setting that may lack a provider,
\* one that only the remote owner may write.
CONSTANTS
  Pcd <- MCPcd
  Refusable = {"AltBoot"}
  Managed = {"EnableUsbBoot"}
  MaxFaults = 1
SPECIFICATION PageSpec
INVARIANTS
  PageTypeOK
  PageShowsSettings
  TokenIsCurrent
PROPERTIES
  KeepsContract
  OnlyTickedSettingsChange
