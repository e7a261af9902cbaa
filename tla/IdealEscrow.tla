---------------------------- MODULE IdealEscrow ----------------------------
(***************************************************************************)
(* What an escrow promises, whoever operates it: an account takes deposits *)
(* while it is open, may give part of them back, and is closed once by     *)
(* dividing all it holds between the buyer and the provider.  Module       *)
(* Escrow, the handlers of the replay engine, implements it.               *)
(***************************************************************************)
EXTENDS Integers

CONSTANT Accounts

VARIABLES
  held,       \* credits an account holds
  paidIn,     \* credits deposited in it so far
  toBuyer,    \* credits it has paid to its buyer so far
  toProvider, \* credits it has paid to its provider so far
  open        \* whether it has not been closed

vars == <<held, paidIn, toBuyer, toProvider, open>>

Init ==
  /\ held = [k \in Accounts |-> 0]
  /\ paidIn = [k \in Accounts |-> 0]
  /\ toBuyer = [k \in Accounts |-> 0]
  /\ toProvider = [k \in Accounts |-> 0]
  /\ open = [k \in Accounts |-> TRUE]

Deposit(k, a) ==
  /\ open[k]
  /\ a > 0
  /\ held' = [held EXCEPT ![k] = @ + a]
  /\ paidIn' = [paidIn EXCEPT ![k] = @ + a]
  /\ UNCHANGED <<toBuyer, toProvider, open>>

GiveBack(k, a) ==
  /\ open[k]
  /\ a > 0 /\ a <= held[k]
  /\ held' = [held EXCEPT ![k] = @ - a]
  /\ toBuyer' = [toBuyer EXCEPT ![k] = @ + a]
  /\ UNCHANGED <<paidIn, toProvider, open>>

Close(k, refund, reward) ==
  /\ open[k]
  /\ refund + reward = held[k]
  /\ held' = [held EXCEPT ![k] = 0]
  /\ toBuyer' = [toBuyer EXCEPT ![k] = @ + refund]
  /\ toProvider' = [toProvider EXCEPT ![k] = @ + reward]
  /\ open' = [open EXCEPT ![k] = FALSE]
  /\ UNCHANGED paidIn

\* The amounts are those by which the ledger moves, so that a step can be
\* checked without enumerating numbers.
Next ==
  \E k \in Accounts :
    \/ Deposit(k, paidIn'[k] - paidIn[k])
    \/ GiveBack(k, toBuyer'[k] - toBuyer[k])
    \/ /\ toBuyer'[k] >= toBuyer[k] /\ toProvider'[k] >= toProvider[k]
       /\ Close(k, toBuyer'[k] - toBuyer[k], toProvider'[k] - toProvider[k])

Spec == Init /\ [][Next]_vars
=============================================================================
