------------------------------ MODULE RateLimit ----------------------------
(***************************************************************************)
(* The rate limit every request passes (server.ts, rateLimitFor and the    *)
(* onRequest hook): per path and address a window that is opened by the    *)
(* first request, counts those let through, and is given up when it is over*)
(* or when the server keeps too many.                                      *)
(***************************************************************************)
EXTENDS Naturals, Sequences, FiniteSets, Functions

CONSTANTS
  Addresses,        (* the addresses requests come from                     *)
  Limit,            (* sign-in requests let through per address and window  *)
  Window,           (* how long a window lasts                              *)
  MaxWindows,       (* windows the server keeps                             *)
  MaxTime           (* bound on the clock                                   *)

VARIABLES
  now, windows,     (* the clock; the windows, oldest first                 *)
  admitted,         (* per path and address: when requests were let through *)
  dropped           (* whose window was given up for room                   *)

vars == <<now, windows, admitted, dropped>>

(* Requests to sign in are limited more tightly than others; the health    *)
(* check and pages outside /bff/ are not limited at all.                   *)
Paths == {"auth", "settings"}
Clients == Paths \X Addresses
rateLimitFor(path) == IF path = "auth" THEN Limit ELSE Limit + 1

Init ==
  /\ now = 1 /\ windows = <<>> /\ dropped = {}
  /\ admitted = [p \in Clients |-> <<>>]

(* The hook: windows that are over go, then the oldest one if there are too*)
(* many, then the client's own is counted up or opened.                    *)
Live ==
  LET kept[n \in 0 .. Len(windows)] ==
        IF n = 0 THEN <<>>
        ELSE IF windows[n].resetAt > now THEN Append(kept[n - 1], windows[n]) ELSE kept[n - 1]
  IN kept[Len(windows)]
Room == IF Len(Live) >= MaxWindows THEN Tail(Live) ELSE Live
Keys(ws) == {w.key : w \in Range(ws)}
Mine(p) == CHOOSE w \in Range(Room) : w.key = p

(* A hook that forgot to count the requests of an open window:             *)
Uncounted(p) == Mine(p)
Counted(p) == [Mine(p) EXCEPT !.count = @ + 1]

Dropped == dropped' = dropped \cup (Keys(Live) \ Keys(Room))
Let(p) ==
  admitted' = [q \in Clients |-> IF q \in dropped' THEN <<>>
                                 ELSE IF q = p THEN Append(admitted[q], now) ELSE admitted[q]]

Opens(p) ==
  /\ p \notin Keys(Room) /\ Dropped /\ Let(p) /\ UNCHANGED now
  /\ windows' = Append(Room, [key |-> p, count |-> 1, resetAt |-> now + Window])

Counts(p) ==
  /\ p \in Keys(Room) /\ Mine(p).count < rateLimitFor(p[1])
  /\ Dropped /\ Let(p) /\ UNCHANGED now
  /\ windows' = [i \in DOMAIN Room |-> IF Room[i].key = p THEN Counted(p) ELSE Room[i]]

Limited(p) ==
  /\ p \in Keys(Room) /\ Mine(p).count >= rateLimitFor(p[1])
  /\ windows' = Room /\ Dropped /\ UNCHANGED <<now, admitted>>

Tick ==
  /\ now < MaxTime /\ now' = now + 1 /\ UNCHANGED <<windows, admitted, dropped>>

Next == Tick \/ \E p \in Clients : Opens(p) \/ Counts(p) \/ Limited(p)

Spec == Init /\ [][Next]_vars

(* A client whose window was never given up gets at most twice its limit   *)
(* through in any stretch as long as a window, the ends of two windows     *)
(* included, however the other clients come and go.                        *)
AtMostTwiceTheLimit ==
  \A p \in Clients \ dropped :
    \A i, j \in DOMAIN admitted[p] :
      j = i + 2 * rateLimitFor(p[1]) => admitted[p][j] > admitted[p][i] + Window
=============================================================================
