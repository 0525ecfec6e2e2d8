------------------------- MODULE MCStreamRecording -------------------------
(* Small instances of StreamRecording for TLC.                               *)
EXTENDS StreamRecording

=============================================================================
