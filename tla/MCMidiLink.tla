----------------------------- MODULE MCMidiLink -----------------------------
EXTENDS MidiLink

Run(len) == <<SOX>> \o [k \in 1..(len - 2) |-> k] \o <<EOX>>

MCMessages ==
  {<<\h90, 48, 80>>, <<\hC0, 5>>, <<\hF2, 1, 2>>} \cup {Run(len) : len \in {2, 3, 4, 5, 9}}
=============================================================================
