------------------------------ MODULE OnceOnly ------------------------------
(***************************************************************************)
(* What an Idempotency-Key promises to the clients that send it: each      *)
(* operation behind a key takes effect at most once, and whoever is told   *)
(* that it did had asked for exactly this operation.  A key serves one     *)
(* operation, and no client is told that nothing happened when it did,     *)
(* except after an operation that may fail once it has taken effect.       *)
(***************************************************************************)
CONSTANTS
    Requests,   \* requests that clients send, retries included
    Keys,       \* Idempotency-Keys
    Call,       \* key, scope and body of each request
    MayFailLate \* requests whose operation may fail after it took effect

VARIABLES
    effect,     \* per key: requests that took effect
    told        \* per request: "nothing", "done", "not done" or "unknown"

Init ==
    /\ effect = [k \in Keys |-> {}]
    /\ told = [q \in Requests |-> "nothing"]

\* The key is unused, or used by operations that failed late: nobody was told
\* of a success under it, and this is not one of them tried again.
Perform(q) ==
    /\ \A p \in effect[Call[q].key] : p \in MayFailLate /\ Call[p].scope # Call[q].scope
    /\ \A r \in Requests : Call[r].key = Call[q].key => told[r] # "done"
    /\ effect' = [effect EXCEPT ![Call[q].key] = @ \cup {q}]
    /\ UNCHANGED told

\* "done" only for the very same call, which failed for nobody; "not done"
\* never to the one that did it, unless it failed late.
Tell(q) ==
    /\ told[q] = "nothing"
    /\ \E answer \in {"done", "not done", "unknown"} :
        /\ answer = "done" =>
               \E p \in effect[Call[q].key] : Call[p] = Call[q] /\ told[p] # "not done"
        /\ answer = "not done" => q \notin effect[Call[q].key] \/ q \in MayFailLate
        /\ told' = [told EXCEPT ![q] = answer]
    /\ UNCHANGED effect

Next == \E q \in Requests : Perform(q) \/ Tell(q)

Spec == Init /\ [][Next]_<<effect, told>>
=============================================================================
