----------------------------- MODULE MCSignals ------------------------------
(* Constants for TLC: three signals, so that a batch of two rows leaves a    *)
(* third one behind.                                                        *)
EXTENDS Signals

CONSTANTS s1, s2, s3
=============================================================================
