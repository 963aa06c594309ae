--------------------------- MODULE MCDeviceCycle ---------------------------
(* Instances of DeviceCycle for TLC: two periods and a reserved prescaler; *)
(* a UART and the watchdog are on the list when the program starts.        *)
EXTENDS DeviceCycle, TLC

CONSTANT uart

MCPeriods == 0 :> 3 @@ 1 :> 6
MCPrescalers == {0, 1, 2}
MCPermanent == <<uart, watchdog>>
MCResetters == {watchdog}
=============================================================================
