---------------------------- MODULE MCRootModel -----------------------------
(* Two metrics and two operators, with ranges that two typed digits leave on *)
(* both sides; four digit keys, which are also the keys of four tabs.        *)
EXTENDS RootModel

MCKeys ==
  {"ctrl+c", "q", "?", "h", "a", "c", "t", "esc", "enter", "up", "down", "backspace",
   ".", "x", "3", "4", "6", "8"}

MCMetrics == <<[key |-> "cpu", min |-> 1, max |-> 60],
               [key |-> "temp", min |-> 20, max |-> 30]>>

MCOps == <<">", ">=">>
=============================================================================
