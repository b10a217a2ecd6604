\* Two processes, one guest who comes in at once and one who is let in, a limit of one row per sweep.
CONSTANTS
  Replicas = {r1, r2}
  Nobody = Nobody
  Guests = {"ann", "bob"}
  Events = {"open", "held"}
  EventOf <- MCEventOf
  Manual = {"held"}
  Starts = {3, 4}
  Lead = 2
  Limit = 1
  MaxTicks = 3
  MaxChanges = 4
  MaxFaults = 1
SPECIFICATION FairSpec
INVARIANTS TypeOK MarkedOnceQueuedOnce
PROPERTIES RemindersAreDue EveryoneDueIsReminded
CHECK_DEADLOCK FALSE
