\* Machines on which nothing fails, and machines on which non-volatile variables may
\* fail and power may be lost at any moment; up to two options in the boot order.
CONSTANTS
  MaxOptions = 2
  FaultModes = {FALSE, TRUE}
SPECIFICATION FairSpec
INVARIANTS
  ToldOnce
  NoFalseAlarm
PROPERTIES
  FrontPageReached
  SecFailKept
  BootNowAlone
