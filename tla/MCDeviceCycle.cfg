CONSTANTS
  Periods <- MCPeriods
  Prescalers <- MCPrescalers
  MaxSince = 13
  uart = uart
  watchdog = watchdog
  Hardware = {uart, watchdog, eeprom, timer, spi}
  Leavers = {eeprom}
  Resetters <- MCResetters
  Timers = {timer, spi}
  Permanent <- MCPermanent
SPECIFICATION DeviceFairSpec
INVARIANTS CalledOnce PermanentCalled MissedOnlyByGaps
PROPERTIES ProtectedByGate NoEarlyReset WarnedBeforeReset HangIsReset
