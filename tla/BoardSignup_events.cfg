SPECIFICATION FairSpec
CONSTANTS
  e1 = e1
  e2 = e2
  mail = mail
  at = at
  link = link
  third = third
  account = account
  guest = guest
  guest2 = guest2
  owner = owner
  admin = admin
  Clients = {c1, c2}
  Nobody = nobody
  Refusals = {"registration_closed"}
  Staff = {owner, admin}
  Targets <- MCTargets
  Events = {e1, e2}
  Contacts = {at, link}
  Profiles = {guest}
  Accounts = {}
  ProfileOf <- MCProfileOf
  WithEmail = {}
  Capacity <- MCTwoEvents
  Manual = {e2}
  MaxCancels = 0
PROPERTIES EveryRequestIsAnswered
