SPECIFICATION Spec
CONSTANTS
  Browsers = {b1, b2}
  None = None
  MaxLoginFailures = 2
  LoginWindow = 2
  LoginLockout = 2
  MaxChanges = 3
  MaxErrors = 1
INVARIANT TypeOK
INVARIANT GuessesAreBounded
INVARIANT SessionsFollowPassword
INVARIANT LockEnds
