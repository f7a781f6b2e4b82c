---------------------------- MODULE SingleFlight ----------------------------
(***************************************************************************)
(* What coalescing promises, for the link previews (unfurl/service.go) and *)
(* for the listings (handler/singleflight.go): callers who ask for one key *)
(* while it is being fetched go aboard the flight that is out; the flight  *)
(* has one leader, and when it lands everybody aboard gets what the leader *)
(* got, nobody else does, and the key is free again.  A caller who is not  *)
(* the leader may give up.                                                 *)
(***************************************************************************)
CONSTANTS Callers, Keys, Results, Nobody

VARIABLES
  leads,   \* leads[k]: who flies for k, or Nobody
  aboard,  \* aboard[k]: the callers who wait for the flight of k
  result   \* result[c]: what c's last flight brought, or Nobody
sfVars == <<leads, aboard, result>>

Init == /\ leads = [k \in Keys |-> Nobody]
        /\ aboard = [k \in Keys |-> {}]
        /\ result = [c \in Callers |-> Nobody]

Grounded(c) == \A k \in Keys : c \notin aboard[k]

Board(c, k) ==
    /\ Grounded(c)
    /\ leads' = [leads EXCEPT ![k] = IF @ = Nobody THEN c ELSE @]
    /\ aboard' = [aboard EXCEPT ![k] = @ \cup {c}]
    /\ result' = [result EXCEPT ![c] = Nobody]

GiveUp(c, k) ==
    /\ c \in aboard[k] /\ leads[k] # c
    /\ aboard' = [aboard EXCEPT ![k] = @ \ {c}]
    /\ UNCHANGED <<leads, result>>

Land(k, r) ==
    /\ leads[k] # Nobody
    /\ leads' = [leads EXCEPT ![k] = Nobody]
    /\ aboard' = [aboard EXCEPT ![k] = {}]
    /\ result' = [c \in Callers |-> IF c \in aboard[k] THEN r ELSE result[c]]

Next == \E k \in Keys :
    \/ \E c \in Callers : Board(c, k) \/ GiveUp(c, k)
    \/ \E r \in Results : Land(k, r)

Spec == Init /\ [][Next]_sfVars
=============================================================================
