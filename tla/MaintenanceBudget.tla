-------------------------- MODULE MaintenanceBudget --------------------------
(***************************************************************************)
(* What HQ promises about maintenance passwords: each one is issued once,  *)
(* for an audience and a number of uses, is spent at most that often and   *)
(* only by its audience, and once closed authorises nothing any more.      *)
(***************************************************************************)
EXTENDS Naturals

CONSTANTS Devices, Passwords, MaxUses

VARIABLES
  fresh,     \* passwords that were never issued
  left,      \* left[p]: uses that p still authorises
  audience,  \* audience[p]: devices p was issued for
  spent      \* spent[p]: how often each device used p

budgetVars == <<fresh, left, audience, spent>>

Init ==
  /\ fresh = Passwords /\ left = [p \in Passwords |-> 0]
  /\ audience = [p \in Passwords |-> {}]
  /\ spent = [p \in Passwords |-> [d \in Devices |-> 0]]

\* A password that no endpoint will ever learn is issued without a use.
Issue(p, n, ds) ==
  /\ p \in fresh
  /\ fresh' = fresh \ {p}
  /\ left' = [left EXCEPT ![p] = n]
  /\ audience' = [audience EXCEPT ![p] = ds]
  /\ UNCHANGED spent

Spend(p, d) ==
  /\ left[p] > 0 /\ d \in audience[p]
  /\ left' = [left EXCEPT ![p] = @ - 1]
  /\ spent' = [spent EXCEPT ![p][d] = @ + 1]
  /\ UNCHANGED <<fresh, audience>>

Close(p) ==
  /\ left' = [left EXCEPT ![p] = 0]
  /\ UNCHANGED <<fresh, audience, spent>>

Next == \E p \in Passwords :
  \/ \E n \in 0..MaxUses, ds \in SUBSET Devices : Issue(p, n, ds)
  \/ \E d \in Devices : Spend(p, d)
  \/ Close(p)

Spec == Init /\ [][Next]_budgetVars
=============================================================================
