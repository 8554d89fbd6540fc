----------------------------- MODULE NetworkBus ------------------------------
(***************************************************************************)
(* What the network components share: the signals that the dispatcher has  *)
(* not handled, the flag that freezes the protocols, and the budget of the *)
(* environment.                                                            *)
(***************************************************************************)
EXTENDS Naturals, SequencesExt

CONSTANTS Budgets \* how often the environment acts, by kind, and which protocols System starts

VARIABLES
    bus,     \* signals the dispatcher has not handled, the oldest first
    frozen,  \* protocol::Base::frozen
    budget

sharedVars == <<bus, frozen, budget>>

Spend(what) == budget[what] > 0 /\ budget' = [budget EXCEPT ![what] = @ - 1]
Traffic(direction) == [kind |-> "traffic", type |-> direction]
Signalled(kind) == \E i \in DOMAIN bus : bus[i].kind = kind
=============================================================================
