----------------------------- MODULE MCWaveform -----------------------------
(* Three words, and a DAC that may be armed again at once.                   *)
EXTENDS Waveform

MCTimes == {0, 1}
MCGenerations == 1..3
=============================================================================
