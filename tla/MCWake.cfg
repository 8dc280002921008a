SPECIFICATION WakeSpec
CONSTANTS
  IdleConfirm <- MCIdleConfirm
  Cooldown <- MCCooldown
  MaxBackoff <- MCMaxBackoff
  MaxGap = 2
  MaxUnread = 2
  MaxRestarts = 1
INVARIANTS
  QuietBeforeWake
PROPERTIES
  IdleMailIsNudged
