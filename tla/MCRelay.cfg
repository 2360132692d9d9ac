SPECIFICATION Spec
CONSTANTS
  o = o
  a = a
  g1 = g1
  c1 = c1
  c2 = c2
  t1 = t1
  Wallets = {o, a}
  Owner = o
  Groups = {g1}
  Ciphertexts = {c1, c2}
  Tokens = {t1}
  SubmitKinds = {"Commit", "Application"}
  RecipientLists <- Audiences
  GrantRoles = {"Admin", "Member"}
  MAX_RECIPIENTS = 2
  MAX_INVITES = 1
  MaxEpoch = 2
  MaxLog = 3
  MaxGrants = 1
  MaxMints = 2
  MaxReferrals = 2
CONSTRAINT Regions
INVARIANTS TotalOrder DeliveredAsOrdered MembershipAccounted
PROPERTIES RefinesOrderedLog
