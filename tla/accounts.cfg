CONSTANTS
  alice = alice
  bob = bob
  code1 = code1
  code2 = code2
  code3 = code3
  id1 = id1
  id2 = id2
  mail = mail
  Forms = {alice, bob}
  EmailOf <- MCEmailOf
  IdOf <- MCIdOf
  CodesFor <- MCCodesFor
  NoCode = NoCode
  Emails = {root, eve}
  SuperAdmin = root
  root = root
  eve = eve
  Workers = {w1, w2}
  StepsMayFail = TRUE
SPECIFICATION MCSpec
CHECK_DEADLOCK FALSE
INVARIANT Typed
INVARIANT OneAccount
INVARIANT StaleCodeRefused
INVARIANT RevocationHolds
INVARIANT MailedPasswordOpens
PROPERTY AdministratorRemains
