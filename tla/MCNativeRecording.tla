------------------------- MODULE MCNativeRecording -------------------------
(* Two recordings and two taps at a time; the flows are interchangeable.   *)
EXTENDS NativeRecording, TLC
CONSTANTS trip1, trip2, tap1, tap2
=============================================================================
