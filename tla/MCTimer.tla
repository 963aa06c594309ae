------------------------------ MODULE MCTimer ------------------------------
(* An instance of Timer for TLC: a two bit counter with one compare unit   *)
(* and five kinds of programs: waveforms, interrupts and input capture.    *)
EXTENDS Timer

MCUnits == {0}

Waveforms(low, high, tcnt, icr) ==
  [low |-> low, high |-> high, com |-> {"CLEAR"}, ocr |-> Counts, tcnt |-> tcnt,
   icr |-> icr, mask |-> {{}}, pin |-> FALSE]

MCPrograms ==
  {Waveforms({1, 3}, {0, 1}, {}, {}),       \* phase correct and fast PWM
   Waveforms({1, 3}, {2}, {0, 2}, {}),          \* with OCRA as top
   Waveforms({2, 3}, {3}, {2}, {1, 2}),      \* fast PWM with ICR or OCRA as top
   [low |-> {0}, high |-> {0, 1}, com |-> {"TOGGLE"}, ocr |-> {2}, tcnt |-> {},
    icr |-> {}, mask |-> SUBSET {TOV, 0}, pin |-> FALSE],   \* normal and CTC
   [low |-> {0}, high |-> {0}, com |-> {"NOOP"}, ocr |-> {}, tcnt |-> {},
    icr |-> {}, mask |-> {{}}, pin |-> TRUE]}
=============================================================================
