------------------------------- MODULE MCUart -------------------------------
(* An instance of Uart for TLC: programs that keep the rules, with short   *)
(* frames, two stop bits or nine data bits, and programs that once write   *)
(* the status, the control or the format register against them.            *)
EXTENDS Uart

Size5(parity, two) == [size |-> 5, UPM1 |-> parity, UPM0 |-> FALSE, USBS |-> two]
Enabled == {"RXEN", "TXEN"}

Rules(words, control, formats, rates) ==
  [words |-> words, controls |-> {control}, statuses |-> {}, formats |-> formats,
   rates |-> rates, wild |-> 0, parities |-> {FALSE}]

Wild(controls, statuses, formats, parities) ==
  [words |-> {{0, 3}}, controls |-> controls, statuses |-> statuses, formats |-> formats,
   rates |-> {}, wild |-> 1, parities |-> parities]

MCPrograms ==
  {Rules({{0, 2}, {1, 3, 5, 6}}, Enabled, {Size5(FALSE, FALSE)}, {}),
   Rules({{0, 3}}, Enabled \cup {"TXC", "UDRE"}, {Size5(FALSE, TRUE)}, {1}),
   Rules({{0, 7}}, Enabled \cup {"RXC", "CHR9", "TXB8"}, {}, {}),
   Wild({Enabled}, {{}, Irqs}, {Size5(FALSE, FALSE)}, {FALSE}),
   Wild({Enabled \cup Irqs, {"RXEN"}}, {}, {}, {FALSE}),
   Wild({Enabled}, {}, {Size5(TRUE, FALSE)}, BOOLEAN)}
=============================================================================
