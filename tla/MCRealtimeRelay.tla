-------------------------- MODULE MCRealtimeRelay --------------------------
(***************************************************************************)
(* The instance of RealtimeRelay TLC checks: upgrades that compete for the *)
(* slot of one session.                                                    *)
(***************************************************************************)
EXTENDS RealtimeRelay

CONSTANTS u1, u2, s1

OneSession == [r \in {u1, u2} |-> s1]
=============================================================================
