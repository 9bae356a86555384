------------------------------ MODULE Payouts ------------------------------
(***************************************************************************)
(* What distributions promise: every distribution has a pot of tokens;     *)
(* a voucher is settled at most once, from the pot of one distribution,    *)
(* for one claimant, and only if the pot has the tokens; whatever has not  *)
(* been paid out may be taken back.                                        *)
(***************************************************************************)
EXTENDS Naturals

CONSTANTS Distributions, Vouchers, Claimants

VARIABLES
    pot,        \* tokens held for each distribution
    settled     \* for each voucher, what it paid, or Unsettled

vars == <<pot, settled>>

Unsettled == [open |-> FALSE]

Settlement(d, claimant, amount) ==
    [open |-> TRUE, distribution |-> d, claimant |-> claimant, amount |-> amount]

Init ==
    /\ pot = [d \in Distributions |-> 0]
    /\ settled = [v \in Vouchers |-> Unsettled]

Deposit(d) ==
    /\ pot' \in [Distributions -> Nat]
    /\ pot'[d] > pot[d]
    /\ \A e \in Distributions \ {d} : pot'[e] = pot[e]
    /\ UNCHANGED settled

Settle(v, d, claimant, amount) ==
    /\ settled[v] = Unsettled
    /\ amount <= pot[d]
    /\ pot' = [pot EXCEPT ![d] = @ - amount]
    /\ settled' = [settled EXCEPT ![v] = Settlement(d, claimant, amount)]

TakeBack(d) ==
    /\ \E n \in 0 .. pot[d] : pot' = [pot EXCEPT ![d] = @ - n]
    /\ UNCHANGED settled

Next ==
    \/ \E d \in Distributions : Deposit(d) \/ TakeBack(d)
    \/ \E v \in Vouchers, d \in Distributions, claimant \in Claimants :
          \E amount \in 0 .. pot[d] : Settle(v, d, claimant, amount)

Spec == Init /\ [][Next]_vars
=============================================================================
