CONSTANTS
  s1 = s1
  t1 = t1
  Sockets <- MCSockets
  Timers <- MCTimers
  TickDuration = 2
  Durations <- MCDurations
  U32 <- MCU32Wide
  MaxTime = 12
SPECIFICATION Spec
INVARIANT TranslatePreservesReadiness
