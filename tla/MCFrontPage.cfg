\* Two passwords, two sets of keys; no limit, one attempt or two; services may fail.
CONSTANTS
  Passwords <- MCPasswords
  Failures = TRUE
  KeyCount = 2
  AttemptSettings = {0, 1, 2}
SPECIFICATION FrontPageSpec
INVARIANTS
  FrontPageTypeOK
  FullMenuHasToken
  MenuShowsForms
  PolicyBackBeforeBoot
  StatusNamesKeys
PROPERTIES
  KeysFollowRequest
  PasswordKept
  ChallengeEnds
