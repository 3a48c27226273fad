------------------------- MODULE MCTerminalCapture -------------------------
(* A small instance of TerminalCapture: two overlapping runs. *)
EXTENDS TerminalCapture, TLC
=============================================================================
