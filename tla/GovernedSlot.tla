---------------------------- MODULE GovernedSlot ----------------------------
(***************************************************************************)
(* What the lab promises of governed consequences, with nothing of how.    *)
(* There is one gate and one clock.  A holder may be given standing up to  *)
(* a horizon, and, while that standing lasts, a licence no longer than it. *)
(* A consequence takes place one at a time, only through an open gate,     *)
(* only for a holder whose standing and licence both still run.            *)
(***************************************************************************)
EXTENDS Naturals

CONSTANT Holders

VARIABLES
    clock,          \* the instant of use
    gate,           \* whether the engine may have an effect at all
    standing,       \* [holder -> the instant its standing ends; 0 for none]
    licence,        \* [holder -> the instant its licence ends; 0 for none]
    consequences    \* how many there have been

vars == <<clock, gate, standing, licence, consequences>>

Init ==
    /\ clock \in Nat
    /\ gate = "open"
    /\ standing = [h \in Holders |-> 0]
    /\ licence = [h \in Holders |-> 0]
    /\ consequences = 0

Pass ==
    /\ clock' \in Nat /\ clock' > clock
    /\ UNCHANGED <<gate, standing, licence, consequences>>

Move ==
    /\ gate' \in {"open", "shut"}
    /\ UNCHANGED <<clock, standing, licence, consequences>>

\* Standing is judged afresh: granted, extended, shortened or taken away.
Judge(h) ==
    /\ standing' \in [Holders -> Nat]
    /\ \A other \in Holders \ {h} : standing'[other] = standing[other]
    /\ UNCHANGED <<clock, gate, licence, consequences>>

Grant(h) ==
    /\ clock < standing[h]
    /\ licence' = [licence EXCEPT ![h] = standing[h]]
    /\ UNCHANGED <<clock, gate, standing, consequences>>

Withdraw(h) ==
    /\ licence' = [licence EXCEPT ![h] = 0]
    /\ UNCHANGED <<clock, gate, standing, consequences>>

Consequence(h) ==
    /\ gate = "open"
    /\ clock < standing[h] /\ clock < licence[h]
    /\ consequences' = consequences + 1
    /\ UNCHANGED <<clock, gate, standing, licence>>

Next ==
    \/ Pass
    \/ Move
    \/ \E h \in Holders : Judge(h) \/ Grant(h) \/ Withdraw(h) \/ Consequence(h)

Spec == Init /\ [][Next]_vars

=============================================================================
