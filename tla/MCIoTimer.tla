------------------------------ MODULE MCIoTimer ------------------------------
(* IoTimer for TLC: its constants are given in the configuration.          *)
EXTENDS IoTimer
=============================================================================
