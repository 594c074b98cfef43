SPECIFICATION Spec
CONSTANTS
  Takers = {fade}
  Makers = {maker}
  Pennies = {penny}
  Desk = fade
  DailyLimit = 1
  MaxConcurrent = 1
  MaxStreak = 1
  MaxRejected = 1
  Bankroll = 3
  MaxHeld = 1
  MaxCloses = 2
  MaxExtra = 1
INVARIANTS
  DailyLossBounded ConcurrencyBounded 
