\* Images on a disk, an SD card (its own path among them) and USB devices; two options in a
\* boot; the policy built into BDS.
CONSTANTS
  RetrySettings <- MCRetrySettings
  Images <- MCImages
  SdCard <- MCSdCard
  BdsBootPolicy = TRUE
  StartNetworkDefault = TRUE
  MaxTried = 2
SPECIFICATION DeviceSpec
INVARIANTS
  BootTypeOK
  VerdictMatchesAnswers
  OncePerBoot
PROPERTIES
  NoIdleWait
  VerdictReached
  KeysDecideOnce
