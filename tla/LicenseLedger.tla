---------------------------- MODULE LicenseLedger ----------------------------
(***************************************************************************)
(* What the payment flow promises, without requests, statuses or crashes:  *)
(* a license is issued at most once for an order and only after the        *)
(* customer has sent a receipt; the key kept for the customer is the key   *)
(* of that license; only a kept key is ever sent.                          *)
(***************************************************************************)
CONSTANTS Orders, Keys

VARIABLES
    paid,       \* the orders for which a receipt has arrived
    issued,     \* the licenses: which order has which key
    kept,       \* the licenses whose key is kept for the customer
    sent        \* the keys the customer has been sent

ledger == <<paid, issued, kept, sent>>

Init == paid = {} /\ issued = {} /\ kept = {} /\ sent = {}

Pay(o) == /\ paid' = paid \cup {o}
          /\ UNCHANGED <<issued, kept, sent>>

Issue(o, k) == /\ o \in paid
               /\ \A l \in issued : l.order # o /\ l.key # k
               /\ issued' = issued \cup {[order |-> o, key |-> k]}
               /\ UNCHANGED <<paid, kept, sent>>

Keep(l) == /\ kept' = kept \cup {l}
           /\ UNCHANGED <<paid, issued, sent>>

Send(l) == /\ sent' = sent \cup {l.key}
           /\ UNCHANGED <<paid, issued, kept>>

Next == \/ \E o \in Orders : Pay(o)
        \/ \E o \in Orders, k \in Keys : Issue(o, k)
        \/ \E l \in issued : Keep(l)
        \/ \E l \in kept : Send(l)

Spec == Init /\ [][Next]_ledger
=============================================================================
