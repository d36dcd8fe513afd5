-------------------------- MODULE TranscriptResult --------------------------
(***************************************************************************)
(* What a recorder is promised by a live transcription session, whatever   *)
(* happens on the network: tokens are shown once each and in the order the *)
(* service produced them, the session ends at most once, and a session     *)
(* that resolves has shown every token, resolves with exactly the text of  *)
(* the final ones, and shows nothing afterwards.  A session that was       *)
(* rejected or abandoned may still show tokens it had heard before.        *)
(***************************************************************************)
EXTENDS Integers, Sequences

VARIABLES
  heard,     (* the kinds of the tokens the service produced, in order      *)
  shown,     (* the tokens shown to the user, by number                     *)
  status,    (* "pending", "resolved", "rejected" or "abandoned"            *)
  text       (* the numbers of the tokens of the resolved text              *)

vars == <<heard, shown, status, text>>

Numbers(n) == [i \in 1..n |-> i]

(* t lists the final tokens of h, each once, in order.                     *)
IsTextOf(t, h) ==
  /\ \A i, j \in DOMAIN t : i < j => t[i] < t[j]
  /\ {t[i] : i \in DOMAIN t} = {i \in DOMAIN h : h[i] = "final"}

Init ==
  /\ heard = <<>>
  /\ shown = <<>>
  /\ status = "pending"
  /\ text = <<>>

(* More tokens come while the session is pending.                          *)
Hear ==
  /\ status = "pending"
  /\ heard' \in {heard, Append(heard, "partial"), Append(heard, "final")}

(* Show some of the tokens heard so far, from where the last batch ended.  *)
Show == \E n \in Len(shown)..Len(heard') : shown' = Numbers(n)

Listen == Hear /\ Show /\ UNCHANGED <<status, text>>

ShowLate ==
  /\ status \in {"rejected", "abandoned"}
  /\ UNCHANGED <<heard, status, text>>
  /\ Show

Resolve ==
  /\ Hear
  /\ status' = "resolved"
  /\ shown' = Numbers(Len(heard'))
  /\ IsTextOf(text', heard')

GiveUp ==
  /\ status = "pending"
  /\ status' \in {"rejected", "abandoned"}
  /\ UNCHANGED <<heard, shown, text>>

Next == Listen \/ ShowLate \/ Resolve \/ GiveUp

Spec == Init /\ [][Next]_vars
=============================================================================
