\* Any variable, policy or setting service may fail.
CONSTANTS
  Numbers = {n1, n2}
  NoOption = NoOption
  Hidden = {}
  Defaults = {n1}
  MaxShown = 2
  ServiceFailures = TRUE
SPECIFICATION Spec
INVARIANTS
  ScreenMatchesVariables
PROPERTIES
  LossNeedsConsent
  FlagFollowsCheckbox
