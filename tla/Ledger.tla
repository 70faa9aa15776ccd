------------------------------- MODULE Ledger -------------------------------
(***************************************************************************)
(* What the pool promises a miner about money, with no database, wallet or *)
(* process in sight.  A miner's balance grows by credits; a payout empties *)
(* it and leaves a debt equal to the network fee; the payout then either   *)
(* settles or is refunded in full, once, and never both.                   *)
(*                                                                         *)
(* Module Payments implements this one: see Payments!ImplementsLedger.     *)
(***************************************************************************)
EXTENDS Integers, FiniteSetsExt

CONSTANTS
  Users,      \* the pool's accounts
  Slates,     \* identities of payouts
  Nobody,     \* not a user
  MinPayout,  \* smallest balance that can be paid out
  Fees,       \* the fees the wallet may charge
  Grants      \* the amounts a credit may have

VARIABLES
  balance,    \* [Users -> Int]: what the pool owes (negative: fee debt)
  claim,      \* [Slates -> Claims]: how far a payout has come
  cost,       \* [Slates -> [user, total]]: who was charged how much for it
  granted     \* [Users -> Nat]: all credits so far

vars == <<balance, claim, cost, granted>>

Claims == {"none", "open", "settled", "refunded"}
NoCost == [user |-> Nobody, total |-> 0]

Init ==
  /\ balance = [u \in Users |-> 0]
  /\ claim = [p \in Slates |-> "none"]
  /\ cost = [p \in Slates |-> NoCost]
  /\ granted = [u \in Users |-> 0]

(* The pool credits the user's share of a block. *)
Credit(u, n) ==
  /\ balance' = [balance EXCEPT ![u] = @ + n]
  /\ granted' = [granted EXCEPT ![u] = @ + n]
  /\ UNCHANGED <<claim, cost>>

(* The whole balance is paid out; the fee becomes a debt. *)
Charge(u, p, f) ==
  /\ claim[p] = "none"
  /\ balance[u] >= MinPayout
  /\ claim' = [claim EXCEPT ![p] = "open"]
  /\ cost' = [cost EXCEPT ![p] = [user |-> u, total |-> balance[u] + f]]
  /\ balance' = [balance EXCEPT ![u] = -f]
  /\ UNCHANGED granted

Settle(p) ==
  /\ claim[p] = "open"
  /\ claim' = [claim EXCEPT ![p] = "settled"]
  /\ UNCHANGED <<balance, cost, granted>>

Refund(p) ==
  /\ claim[p] = "open"
  /\ claim' = [claim EXCEPT ![p] = "refunded"]
  /\ balance' = [balance EXCEPT ![cost[p].user] = @ + cost[p].total]
  /\ UNCHANGED <<cost, granted>>

Next ==
  \/ \E u \in Users :
       \/ \E n \in Grants : Credit(u, n)
       \/ \E p \in Slates, f \in Fees : Charge(u, p, f)
  \/ \E p \in Slates : Settle(p) \/ Refund(p)

Spec == Init /\ [][Next]_vars

(* What user u was charged and not given back. *)
Spent(u) ==
  LET Total(p) == cost[p].total IN
  MapThenSumSet(Total,
    {p \in Slates : cost[p].user = u /\ claim[p] \in {"open", "settled"}})

(***************************************************************************)
(* No money is made or lost: what a user was credited is the balance plus  *)
(* the payouts charged and not refunded.  Pool_utxo.amount and the rows of *)
(* pool_payment are written by different jobs; this relates the two.       *)
(***************************************************************************)
Balanced == \A u \in Users : granted[u] = balance[u] + Spent(u)

=============================================================================
