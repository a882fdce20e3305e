----------------------------- MODULE PaidService -----------------------------
(***************************************************************************)
(* What the paid routes promise a customer, whatever happens inside: a     *)
(* payment stands for one version of the answer to one request, chosen     *)
(* before its money is taken; it is taken once at most; and only the       *)
(* answer it stands for is kept for it, once it was taken.                 *)
(***************************************************************************)

CONSTANTS Payments, Requests, Versions

VARIABLES
    bound,   \* what each payment stands for: set of <<payment, request, version>>
    taken,   \* the payments whose money was taken
    kept     \* what can be had again by showing the payment

vars == <<bound, taken, kept>>

Init == bound = {} /\ taken = {} /\ kept = {}

Bind(p, r, v) ==
    /\ \A b \in bound : b[1] # p
    /\ bound' = bound \cup {<<p, r, v>>}
    /\ UNCHANGED <<taken, kept>>

Take(p) ==
    /\ p \notin taken
    /\ \E b \in bound : b[1] = p
    /\ taken' = taken \cup {p}
    /\ UNCHANGED <<bound, kept>>

Keep(p, r, v) ==
    /\ <<p, r, v>> \in bound /\ p \in taken
    /\ kept' = kept \cup {<<p, r, v>>}
    /\ UNCHANGED <<bound, taken>>

Next ==
    \/ \E p \in Payments, r \in Requests, v \in Versions : Bind(p, r, v) \/ Keep(p, r, v)
    \/ \E p \in Payments : Take(p)

Spec == Init /\ [][Next]_vars
=============================================================================
