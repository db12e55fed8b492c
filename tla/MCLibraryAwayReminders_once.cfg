SPECIFICATION Spec
CONSTANTS
  RetryMaxAttempts = 1
  MaxEpisode = 2
  MaxVersion = 1
  MaxLeaves = 2
  MaxFaults = 1
INVARIANT NoWorkForClosedEpisode
PROPERTY ImplementsReminderOnce
