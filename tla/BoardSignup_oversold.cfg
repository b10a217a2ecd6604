SPECIFICATION Spec
CONSTANTS
  e1 = e1
  e2 = e2
  mail = mail
  at = at
  link = link
  third = third
  account = account
  guest = guest
  guest2 = guest2
  owner = owner
  admin = admin
  Clients = {c1, c2}
  Nobody = nobody
  Refusals = {"registration_closed"}
  Staff = {owner, admin}
  Targets <- MCTargets
  Events = {e1}
  Contacts = {mail, at}
  Profiles = {account, guest}
  Accounts = {account}
  ProfileOf <- MCProfileOf
  WithEmail = {mail}
  Capacity <- MCOneSeat
  Manual = {}
  MaxCancels = 0
INVARIANTS NeverOversold
