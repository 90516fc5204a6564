SPECIFICATION FairActionsSpec
CONSTANTS
  Users = {u1}
  NRows = 3
  EventRows = {2}
  OncePerPid = {3}
  CountRows = {1}
  KillRows = {1}
  CallerRows = {2}
  Callee = 3
  Startup <- Startups
  Cooldown <- EventCools
  TestRows <- TestEvent
  EditedRows = {2}
  MaxPid = 2
  MaxSeq = 1
  MaxTests = 1
  MaxChanges = 2
PROPERTIES
  EventFiresOnce
  CompletedRests
  KilledIsQuiet
  EventAnswered
