SPECIFICATION Spec
CONSTANTS
  tg = tg
  email = email
  Ids <- MCTwo
  Channels = {tg, email}
  Configured = {tg, email}
  Mail = email
  ChannelOf <- MCTwoChannelOf
  Poison = {}
  Senders = {r1, r2}
  Limit = 1
  Cap = 1
  MaxFaults = 0
INVARIANTS OneReplicaPerRow
