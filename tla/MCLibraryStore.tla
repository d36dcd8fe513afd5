--------------------------- MODULE MCLibraryStore ---------------------------
(***************************************************************************)
(* The instance of LibraryStore TLC checks: two uploads of one pending     *)
(* save and one upload of another.                                         *)
(***************************************************************************)
EXTENDS LibraryStore

CONSTANTS s1, s2, u1, u2, u3

OneRepeated == [u \in {u1, u2, u3} |-> IF u = u3 THEN s2 ELSE s1]
=============================================================================
