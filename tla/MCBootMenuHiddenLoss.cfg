\* A hidden option and a deletion in one gesture.
CONSTANTS
  Numbers = {n1, n2, n3}
  NoOption = NoOption
  Hidden = {n2}
  Defaults = {n1}
  MaxShown = 2
  ServiceFailures = FALSE
SPECIFICATION Spec
PROPERTIES
  LossNeedsConsent
