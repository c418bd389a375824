------------------------------ MODULE MCRecorder ------------------------------
(* A small instance of Recorder for TLC. *)
EXTENDS Recorder

MCCodes == {100, 101, 200, 204, 500}
=============================================================================
