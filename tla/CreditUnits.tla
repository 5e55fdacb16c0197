----------------------------- MODULE CreditUnits -----------------------------
(***************************************************************************)
(* The rows of usage_jobs and credit_holds and how many credit units they  *)
(* stand for (service_engine/app/modules/billing/models.py).               *)
(***************************************************************************)
EXTENDS Integers, FiniteSets

CONSTANTS
  Keys,       \* idempotency keys of one user: they name the usage jobs
  Payloads,   \* (operation_kind, request_ref, estimated_units) triples
  NoPayload,  \* the payload of a job that does not exist
  Units,      \* estimated_units of a payload
  MaxUnits    \* bound on estimated_units

ASSUME UnitsAssumption ==
  /\ IsFiniteSet(Keys)
  /\ NoPayload \notin Payloads
  /\ MaxUnits \in Nat
  /\ Units \in [Payloads -> 1..MaxUnits]

JobStatus == {"authorized", "succeeded", "failed"}
HoldStatus == {"held", "captured", "released"}

NoRow == [job |-> "none", hold |-> "none", pay |-> NoPayload]
UsageRow == [job : JobStatus, hold : HoldStatus, pay : Payloads] \union {NoRow}

NewRow(p) == [job |-> "authorized", hold |-> "held", pay |-> p]
ReleasedRow(row) == [row EXCEPT !.job = "failed", !.hold = "released"]
CapturedRow(row) == [row EXCEPT !.job = "succeeded", !.hold = "captured"]

ReleaseAll(rowOf, S) == [k \in Keys |-> IF k \in S THEN ReleasedRow(rowOf[k]) ELSE rowOf[k]]

Held(rowOf) == {k \in Keys : rowOf[k].hold = "held"}
Captured(rowOf) == {k \in Keys : rowOf[k].hold = "captured"}

Cost(row) == IF row.pay \in Payloads THEN Units[row.pay] ELSE 0

(***************************************************************************)
(* The total estimated_units of the jobs S, counted as one token per unit  *)
(* so that the laws of cardinality apply to it.                            *)
(***************************************************************************)
Tokens(S, rowOf) == {t \in S \X (1..MaxUnits) : t[2] <= Cost(rowOf[t[1]])}
Total(S, rowOf) == Cardinality(Tokens(S, rowOf))

\* What the account has left for new holds when funded units were put on it.
Unpromised(funds, rowOf) == funds - Total(Captured(rowOf), rowOf) - Total(Held(rowOf), rowOf)
=============================================================================
