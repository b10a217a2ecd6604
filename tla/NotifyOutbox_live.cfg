SPECIFICATION FairSpec
CONSTANTS
  tg = tg
  email = email
  Ids <- MCIds
  Channels = {tg, email}
  Configured = {tg, email}
  Mail = email
  ChannelOf <- MCChannelOf
  Poison = {1}
  Senders = {r1}
  Limit = 2
  Cap = 2
  MaxFaults = 0
PROPERTIES ChannelsAreIndependent
