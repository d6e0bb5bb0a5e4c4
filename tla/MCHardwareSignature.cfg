\* Two sets of devices, settings and versions; memory maps of up to two descriptors.
CONSTANTS
  UINT32 <- MCWords
  Devices <- MCDevices
  Versions = {1, 2}
  Settings <- MCSettings
  XDsdt <- MCXDsdt
  Descriptors <- MCDescriptors
  MaxMap = 2
SPECIFICATION SignatureSpec
INVARIANTS
  SignatureHoldsRanges
  SignatureTellsMachines
