SPECIFICATION FairSpec
CONSTANTS
  RetryMaxAttempts = 2
  MaxEpisode = 1
  MaxVersion = 2
  MaxLeaves = 1
  MaxFaults = 2
INVARIANT WorkMatchesPreference
INVARIANT PublishBudget
PROPERTY RetriesAreKept
PROPERTY EveryReminderSettles
