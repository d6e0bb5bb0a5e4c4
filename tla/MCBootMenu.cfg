\* Up to three options, two of them on screen; every service succeeds.
CONSTANTS
  Numbers = {n1, n2, n3}
  NoOption = NoOption
  Hidden = {}
  Defaults = {n1}
  MaxShown = 2
  ServiceFailures = FALSE
SPECIFICATION FairSpec
INVARIANTS
  TypeOK
  OrderNamesOptions
  ConfirmedDeletionDone
  DialogNamesTarget
  NoLockedBootNext
  LockedTogether
PROPERTIES
  LockHonoured
  HandlerReturns
  ContractSpec
