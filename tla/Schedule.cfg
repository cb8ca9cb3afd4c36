CONSTANTS
  Second = 4
  Day = 8
  Week = 3
  Morning = 2
  Delays = {1, 3}
  Durations = {2, 4}
  Others <- Forms
  Horizon = 96
  None = None
SPECIFICATION Spec
INVARIANTS TypeOK WindowAsAsked ScreenAgrees EndAsShown SpentIsOver GrantHonoured
PROPERTIES PauseNotLost
