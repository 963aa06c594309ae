------------------------------ MODULE MCEeprom ------------------------------
(* Instances of Eeprom for TLC: two cells of one bit. *)
EXTENDS Eeprom

MCAddrs == {0, 1}
MCBits == {0}
=============================================================================
