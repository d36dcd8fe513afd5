----------------------------- MODULE MCWorkspace ----------------------------
(* Workspace for TLC: the tabs are interchangeable, and so are the sections*)
(* of the settings.                                                        *)
EXTENDS Workspace, TLC

Symmetry == Permutations(Tabs) \cup Permutations(Sections)
=============================================================================
