--------------------------- MODULE CreditContract ---------------------------
(***************************************************************************)
(* What the credit service promises, with every call atomic and nothing    *)
(* stored but the jobs and the credits ever put on the account: units are  *)
(* promised to a hold only while unpromised, a promise is either charged   *)
(* once or given back once, and a key never names two payloads.            *)
(***************************************************************************)
EXTENDS CreditUnits

CONSTANT InitialCredit

VARIABLES usage, funded

Init ==
  /\ usage = [k \in Keys |-> NoRow]
  /\ funded = InitialCredit

\* Expired holds S are given back, and a new hold takes units nobody was promised.
Reserve(S, k, p) ==
  /\ S \subseteq Held(usage)
  /\ usage[k] = NoRow
  /\ Units[p] <= Unpromised(funded, ReleaseAll(usage, S))
  /\ usage' = [ReleaseAll(usage, S) EXCEPT ![k] = NewRow(p)]
  /\ UNCHANGED funded

Capture(k) ==
  /\ usage[k].hold = "held"
  /\ usage' = [usage EXCEPT ![k] = CapturedRow(usage[k])]
  /\ UNCHANGED funded

Release(S) ==
  /\ S \subseteq Held(usage)
  /\ usage' = ReleaseAll(usage, S)
  /\ UNCHANGED funded

\* An admin changes the funds, but never below what is promised or charged.
Fund ==
  /\ funded' \in Int
  /\ Unpromised(funded', usage) >= 0
  /\ UNCHANGED usage

Next ==
  \/ \E S \in SUBSET Keys, k \in Keys, p \in Payloads : Reserve(S, k, p)
  \/ \E k \in Keys : Capture(k)
  \/ \E S \in SUBSET Keys : Release(S)
  \/ Fund

vars == <<usage, funded>>
Spec == Init /\ [][Next]_vars
=============================================================================
