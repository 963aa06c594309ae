------------------------------- MODULE MCSpi -------------------------------
(* An instance of Spi for TLC: both clock phases, polarities and bit       *)
(* orders.  Only the phase changes what is done when; the polarity inverts *)
(* SCK and the order renames the bits.                                     *)
EXTENDS Spi

Mode(dord, cpol, cpha) == [DORD |-> dord, CPOL |-> cpol, CPHA |-> cpha, clkdiv |-> 2]
MCModes == {Mode(FALSE, FALSE, FALSE), Mode(TRUE, TRUE, TRUE)}
MCBytes == {{0, 2, 3, 7}}
=============================================================================
