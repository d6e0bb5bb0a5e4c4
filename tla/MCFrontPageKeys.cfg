\* What the header of HandleSecureBootChange says of a failed change.
CONSTANTS
  Passwords <- MCPasswords
  Failures = TRUE
  KeyCount = 2
  AttemptSettings = {0, 1, 2}
SPECIFICATION FrontPageSpec
INVARIANT
  FailedChangeKeepsKeys
