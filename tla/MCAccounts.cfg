CONSTANTS
  MaxId = 2
  Logins = {ada, bob}
  Mails = {mail}
  Secrets = {old}
  NoSecret = NoSecret
  NoMail = NoMail
  Roles = {"user"}
  Pages = {p1}
  MaxVersion = 3
  MaxBirths = 3
SYMMETRY Symmetry
SPECIFICATION AccountsSpec
INVARIANTS AccountsTypeOK LoginByUsername
PROPERTY AppliedOnWhatWasRead
CHECK_DEADLOCK FALSE
