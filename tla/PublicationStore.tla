--------------------------- MODULE PublicationStore ---------------------------
(***************************************************************************)
(* What the cache server promises its clients, without sessions, quota,    *)
(* object storage or garbage collection: a key holds at most one result,   *)
(* the first one published for it, whose bytes are readable for as long as *)
(* the key shows it, and the answer to a publication is true of the store  *)
(* at one instant of the request.                                          *)
(***************************************************************************)
CONSTANTS
    Keys,
    Results,
    Uploads,
    NoResult

VARIABLES
    wanted,     \* [Uploads -> [key : Keys, result : Results]]: what each request publishes
    value,      \* the result a key shows, or NoResult
    readable,   \* the keys whose result can be read back
    told        \* what each request was answered

vars == <<wanted, value, readable, told>>

Init ==
    /\ wanted \in [Uploads -> [key : Keys, result : Results]]
    /\ value = [k \in Keys |-> NoResult]
    /\ readable = {}
    /\ told = [u \in Uploads |-> "nothing"]

Publish(u) ==
    LET k == wanted[u].key IN
    /\ told[u] = "nothing"
    /\ value[k] = NoResult
    /\ value' = [value EXCEPT ![k] = wanted[u].result]
    /\ readable' = readable \cup {k}
    /\ told' = [told EXCEPT ![u] = "created"]
    /\ UNCHANGED wanted

(* A later request learns whether its result is the one the key holds. *)
Compare(u) ==
    LET held == value[wanted[u].key] IN
    /\ told[u] = "nothing"
    /\ held # NoResult
    /\ told' = [told EXCEPT ![u] = IF held = wanted[u].result THEN "same" ELSE "conflict"]
    /\ UNCHANGED <<wanted, value, readable>>

Withdraw(lost) ==
    /\ value' = [k \in Keys |-> IF k \in lost THEN NoResult ELSE value[k]]
    /\ readable' = readable \ lost
    /\ UNCHANGED <<wanted, told>>

Next == (\E u \in Uploads : Publish(u) \/ Compare(u)) \/ \E lost \in SUBSET Keys : Withdraw(lost)

Spec == Init /\ [][Next]_vars
================================================================================
