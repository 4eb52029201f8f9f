SPECIFICATION TimerSpec
CONSTANTS
  TimerOptions <- OnceOrCron
  Day = 6
  Period = 3
  MaxSince = 5
INVARIANTS OnceRunsOnce
PROPERTIES CronAlwaysOnSlot OnceAtOnce
