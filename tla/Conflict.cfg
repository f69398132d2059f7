\* Two users edit or delete a task and a third device follows, or three users edit one field.
SPECIFICATION FairSpec
CONSTANTS
  Client = {1, 2, 3}
  MaxClockSize = 8
  Field = {"a", "b"}
  Plain = {"a"}
  Plans <- Mixed
  Crashers = {2}
  MaxTime = 2
  MaxAttempts = 3
  MaxFaults = 1
INVARIANTS TypeOK LiveIsReplay CaughtUpDevicesAgree NewestEditSurvives NeverGivesUp
PROPERTIES Settles
