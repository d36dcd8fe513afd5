---------------------------- MODULE MCWebCapture ----------------------------
(* WebCapture for TLC: the tabs are interchangeable.                       *)
EXTENDS WebCapture, TLC

TabSymmetry == Permutations(Tabs)
=============================================================================
