\* Is every Secure Boot violation announced where nothing fails?
CONSTANTS
  MaxOptions = 2
  FaultModes = {FALSE}
SPECIFICATION Spec
INVARIANT ViolationReported
