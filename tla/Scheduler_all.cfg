SPECIFICATION FairTimerSpec
CONSTANTS
  TimerOptions <- AnyOptions
  Day = 6
  Period = 3
  MaxSince = 5
PROPERTIES CronOnSlot FrequencyApart ScheduleGoesOn
