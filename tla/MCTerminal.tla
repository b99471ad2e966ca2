----------------------------- MODULE MCTerminal -----------------------------
(* Four starts and three size messages: two overlapping starts, and restarts *)
(* of both.                                                                  *)
EXTENDS Terminal
=============================================================================
