-------------------------- MODULE UsageBillingProofs --------------------------
(***************************************************************************)
(* UsageBilling for every number of requests, keys, payloads and costs:    *)
(* the accounts stay right, settled jobs are final, and the transactions   *)
(* implement the atomic CreditContract.                                    *)
(***************************************************************************)
EXTENDS UsageBilling, FiniteSetTheorems, TLAPS

(***************************************************************************)
(* Laws of the unit totals: how a new, a captured and a released job move  *)
(* the totals of the held and of the captured holds.                       *)
(***************************************************************************)
\* A job costs between 0 (no job) and MaxUnits.
LEMMA CostBound ==
  ASSUME NEW row \in UsageRow
  PROVE  Cost(row) \in 0..MaxUnits
BY UnitsAssumption DEF Cost, UsageRow, NoRow

\* Totals are natural numbers because there are finitely many tokens.
LEMMA TotalIsNat ==
  ASSUME NEW S \in SUBSET Keys, NEW f
  PROVE  IsFiniteSet(Tokens(S, f)) /\ Total(S, f) \in Nat
<1>1. IsFiniteSet(S)
  BY FS_Subset, UnitsAssumption
<1>2. IsFiniteSet(1..MaxUnits)
  BY FS_Interval, UnitsAssumption
<1>3. IsFiniteSet(S \X (1..MaxUnits))
  BY <1>1, <1>2, FS_Product
<1>4. Tokens(S, f) \in SUBSET (S \X (1..MaxUnits))
  BY DEF Tokens
<1>5. IsFiniteSet(Tokens(S, f))
  BY <1>3, <1>4, FS_Subset
<1> QED
  BY <1>5, FS_CardinalityType DEF Total

\* No job, no units.
LEMMA TotalEmpty ==
  ASSUME NEW f
  PROVE  Total({}, f) = 0
<1>1. Tokens({}, f) = {}
  BY DEF Tokens
<1> QED
  BY <1>1, FS_EmptySet DEF Total

\* A total depends on the costs of the jobs only.
LEMMA TotalSame ==
  ASSUME NEW S, NEW f, NEW g, \A k \in S : Cost(f[k]) = Cost(g[k])
  PROVE  Total(S, f) = Total(S, g)
<1>1. ASSUME NEW t \in S \X (1..MaxUnits)
      PROVE  (t[2] <= Cost(f[t[1]])) <=> (t[2] <= Cost(g[t[1]]))
  <2>1. t[1] \in S
    OBVIOUS
  <2>2. Cost(f[t[1]]) = Cost(g[t[1]])
    BY <2>1
  <2> QED
    BY <2>2
<1>2. Tokens(S, f) = Tokens(S, g)
  BY <1>1 DEF Tokens
<1> QED
  BY <1>2 DEF Total

\* One job contributes its cost.
LEMMA TotalOne ==
  ASSUME NEW k \in Keys, NEW f, Cost(f[k]) \in 0..MaxUnits
  PROVE  Total({k}, f) = Cost(f[k])
<1> DEFINE c == Cost(f[k])
<1>1. Tokens({k}, f) = {k} \X (1..c)
  <2>0. c \in 0..MaxUnits /\ MaxUnits \in Nat
    BY UnitsAssumption
  <2>1. ASSUME NEW t \in {k} \X (1..MaxUnits)
        PROVE  (t[2] <= Cost(f[t[1]])) <=> t \in {k} \X (1..c)
    <3>1. t[1] = k /\ t[2] \in 1..MaxUnits /\ t = <<t[1], t[2]>>
      OBVIOUS
    <3>2. Cost(f[t[1]]) = c
      BY <3>1
    <3>3. t \in {k} \X (1..c) <=> t[2] \in 1..c
      BY <3>1
    <3> HIDE DEF c
    <3> QED
      BY <2>0, <3>1, <3>2, <3>3
  <2>2. {k} \X (1..c) \subseteq {k} \X (1..MaxUnits)
    <3> HIDE DEF c
    <3> QED
      BY <2>0
  <2> QED
    BY <2>1, <2>2 DEF Tokens
<1>2. IsFiniteSet({k}) /\ Cardinality({k}) = 1
  BY FS_Singleton
<1>3. c \in Nat
  BY UnitsAssumption
<1>4. IsFiniteSet(1..c) /\ Cardinality(1..c) = c
  <2> HIDE DEF c
  <2> QED
    BY <1>3, FS_Interval
<1>5. Cardinality({k} \X (1..c)) = Cardinality({k}) * Cardinality(1..c)
  BY <1>2, <1>4, FS_Product
<1>6. Cardinality({k} \X (1..c)) = c
  <2> HIDE DEF c
  <2> QED
    BY <1>2, <1>3, <1>4, <1>5
<1> QED
  BY <1>1, <1>6 DEF Total

\* Totals of disjoint sets of jobs add up.
LEMMA TotalUnion ==
  ASSUME NEW S \in SUBSET Keys, NEW T \in SUBSET Keys, NEW f, S \intersect T = {}
  PROVE  Total(S \union T, f) = Total(S, f) + Total(T, f)
<1>1. Tokens(S \union T, f) = Tokens(S, f) \union Tokens(T, f)
  BY DEF Tokens
<1>2. Tokens(S, f) \intersect Tokens(T, f) = {}
  BY DEF Tokens
<1>3. IsFiniteSet(Tokens(S, f)) /\ IsFiniteSet(Tokens(T, f))
  BY TotalIsNat
<1>4. Cardinality(Tokens(S, f) \intersect Tokens(T, f)) = 0
  BY <1>2, FS_EmptySet
<1>5. Cardinality(Tokens(S, f)) \in Nat /\ Cardinality(Tokens(T, f)) \in Nat
  BY <1>3, FS_CardinalityType
<1>6. Cardinality(Tokens(S, f) \union Tokens(T, f))
        = Cardinality(Tokens(S, f)) + Cardinality(Tokens(T, f))
            - Cardinality(Tokens(S, f) \intersect Tokens(T, f))
  BY <1>3, FS_Union
<1>7. Cardinality(Tokens(S, f) \union Tokens(T, f))
        = Cardinality(Tokens(S, f)) + Cardinality(Tokens(T, f))
  BY <1>4, <1>5, <1>6
<1> QED
  BY <1>1, <1>7 DEF Total

-----------------------------------------------------------------------------
\* Releasing held holds S takes their units out of the held total and touches
\* nothing that is captured.
LEMMA ReleaseTotals ==
  ASSUME NEW f \in [Keys -> UsageRow], NEW S \in SUBSET Held(f)
  PROVE  /\ ReleaseAll(f, S) \in [Keys -> UsageRow]
         /\ Held(ReleaseAll(f, S)) = Held(f) \ S
         /\ Captured(ReleaseAll(f, S)) = Captured(f)
         /\ Total(Held(ReleaseAll(f, S)), ReleaseAll(f, S)) = Total(Held(f), f) - Total(S, f)
         /\ Total(Captured(f), ReleaseAll(f, S)) = Total(Captured(f), f)
<1> DEFINE g == ReleaseAll(f, S)
<1>0. S \subseteq Keys /\ Held(f) \subseteq Keys /\ Captured(f) \subseteq Keys
  BY DEF Held, Captured
<1>1. ASSUME NEW k \in Keys
      PROVE  /\ g[k] \in UsageRow
             /\ g[k].hold = IF k \in S THEN "released" ELSE f[k].hold
             /\ Cost(g[k]) = Cost(f[k])
  <2>1. CASE k \notin S
    BY <2>1 DEF ReleaseAll
  <2>2. CASE k \in S
    <3>1. f[k] \in UsageRow /\ f[k].hold = "held"
      BY <2>2 DEF Held
    <3>2. f[k] \in [job : JobStatus, hold : HoldStatus, pay : Payloads]
      BY <3>1 DEF UsageRow, NoRow
    <3>3. g[k] = ReleasedRow(f[k])
      BY <2>2 DEF ReleaseAll
    <3> QED
      BY <2>2, <3>2, <3>3 DEF ReleasedRow, Cost, UsageRow, JobStatus, HoldStatus
  <2> QED
    BY <2>1, <2>2
<1>2. g \in [Keys -> UsageRow]
  BY <1>1 DEF ReleaseAll
<1>3. Held(g) = Held(f) \ S
  BY <1>1 DEF Held
<1>4. Captured(g) = Captured(f)
  <2>1. \A k \in S : f[k].hold = "held"
    BY DEF Held
  <2> QED
    BY <1>1, <2>1 DEF Captured
<1>5. Total(Held(f) \ S, g) = Total(Held(f) \ S, f)
  BY <1>0, <1>1, TotalSame
<1>6. Total(Held(f), f) = Total(Held(f) \ S, f) + Total(S, f)
  <2>1. Held(f) = (Held(f) \ S) \union S
    OBVIOUS
  <2>2. Total((Held(f) \ S) \union S, f) = Total(Held(f) \ S, f) + Total(S, f)
    BY <1>0, TotalUnion
  <2> QED
    BY <2>1, <2>2
<1>7. Total(Captured(f), g) = Total(Captured(f), f)
  BY <1>0, <1>1, TotalSame
<1>8. Total(Held(f) \ S, f) \in Nat /\ Total(S, f) \in Nat /\ Total(Held(f), f) \in Nat
  BY <1>0, TotalIsNat
<1>9. Total(Held(g), g) = Total(Held(f), f) - Total(S, f)
  BY <1>3, <1>5, <1>6, <1>8
<1> QED
  BY <1>2, <1>3, <1>4, <1>7, <1>9

\* A new job adds its units to the held total.
LEMMA NewTotals ==
  ASSUME NEW f \in [Keys -> UsageRow], NEW k \in Keys, NEW p \in Payloads, f[k] = NoRow,
         NEW g, g[k] = NewRow(p), \A j \in Keys \ {k} : g[j] = f[j]
  PROVE  /\ Held(g) = Held(f) \union {k}
         /\ Captured(g) = Captured(f)
         /\ Total(Held(g), g) = Total(Held(f), f) + Units[p]
         /\ Total(Captured(g), g) = Total(Captured(f), f)
<1>0. /\ Held(f) \subseteq Keys /\ Captured(f) \subseteq Keys
      /\ k \notin Held(f) /\ k \notin Captured(f)
  BY DEF Held, Captured, NoRow
<1>1. NewRow(p) \in UsageRow /\ Cost(NewRow(p)) = Units[p] /\ NewRow(p).hold = "held"
  BY DEF NewRow, UsageRow, JobStatus, HoldStatus, Cost
<1>2. Held(g) = Held(f) \union {k}
  BY <1>0, <1>1 DEF Held
<1>3. Captured(g) = Captured(f)
  BY <1>0, <1>1 DEF Captured
<1>4. Total(Held(f), g) = Total(Held(f), f)
  <2>1. \A j \in Held(f) : Cost(g[j]) = Cost(f[j])
    BY <1>0
  <2> QED
    BY <2>1, TotalSame
<1>5. Total(Captured(f), g) = Total(Captured(f), f)
  <2>1. \A j \in Captured(f) : Cost(g[j]) = Cost(f[j])
    BY <1>0
  <2> QED
    BY <2>1, TotalSame
<1>6. Total({k}, g) = Units[p]
  <2>1. Cost(g[k]) = Units[p] /\ Cost(g[k]) \in 0..MaxUnits
    BY <1>1, CostBound
  <2> QED
    BY <2>1, TotalOne
<1>7. Total(Held(f) \union {k}, g) = Total(Held(f), g) + Total({k}, g)
  BY <1>0, TotalUnion
<1> QED
  BY <1>2, <1>3, <1>4, <1>5, <1>6, <1>7

\* Capturing a held hold moves its units from the held to the captured total.
LEMMA CaptureTotals ==
  ASSUME NEW f \in [Keys -> UsageRow], NEW k \in Held(f)
  PROVE  LET g == [f EXCEPT ![k] = CapturedRow(f[k])] IN
         /\ g \in [Keys -> UsageRow]
         /\ Held(g) = Held(f) \ {k}
         /\ Captured(g) = Captured(f) \union {k}
         /\ Total(Held(g), g) = Total(Held(f), f) - Cost(f[k])
         /\ Total(Captured(g), g) = Total(Captured(f), f) + Cost(f[k])
         /\ \A j \in Keys : Cost(g[j]) = Cost(f[j])
<1> DEFINE g == [f EXCEPT ![k] = CapturedRow(f[k])]
<1>0. /\ Held(f) \subseteq Keys /\ Captured(f) \subseteq Keys
      /\ k \in Keys /\ f[k].hold = "held" /\ k \notin Captured(f)
  BY DEF Held, Captured
<1>1. f[k] \in [job : JobStatus, hold : HoldStatus, pay : Payloads]
  BY <1>0 DEF UsageRow, NoRow
<1>2. /\ CapturedRow(f[k]) \in UsageRow
      /\ Cost(CapturedRow(f[k])) = Cost(f[k])
      /\ CapturedRow(f[k]).hold = "captured"
  BY <1>1 DEF CapturedRow, UsageRow, JobStatus, HoldStatus, Cost
<1>3. g[k] = CapturedRow(f[k]) /\ \A j \in Keys \ {k} : g[j] = f[j]
  BY <1>0
<1>4. g \in [Keys -> UsageRow]
  BY <1>0, <1>2
<1> HIDE DEF g
<1>5. \A j \in Keys : Cost(g[j]) = Cost(f[j])
  BY <1>2, <1>3
<1>6. Held(g) = Held(f) \ {k}
  BY <1>0, <1>2, <1>3 DEF Held
<1>7. Captured(g) = Captured(f) \union {k}
  BY <1>0, <1>2, <1>3 DEF Captured
<1>8. Total({k}, f) = Cost(f[k])
  BY <1>0, CostBound, TotalOne
<1>9. Total(Held(f), f) = Total(Held(f) \ {k}, f) + Cost(f[k])
  <2>1. Held(f) = (Held(f) \ {k}) \union {k}
    OBVIOUS
  <2>2. Total((Held(f) \ {k}) \union {k}, f) = Total(Held(f) \ {k}, f) + Total({k}, f)
    BY <1>0, TotalUnion
  <2> QED
    BY <1>8, <2>1, <2>2
<1>10. Total(Held(f) \ {k}, g) = Total(Held(f) \ {k}, f)
  BY <1>0, <1>5, TotalSame
<1>11. Total(Captured(f) \union {k}, f) = Total(Captured(f), f) + Cost(f[k])
  BY <1>0, <1>8, TotalUnion
<1>12. Total(Captured(f) \union {k}, g) = Total(Captured(f) \union {k}, f)
  <2>1. \A j \in Captured(f) \union {k} : Cost(g[j]) = Cost(f[j])
    BY <1>0, <1>5
  <2> QED
    BY <2>1, TotalSame
<1>13. Total(Held(f) \ {k}, f) \in Nat /\ Cost(f[k]) \in Int
  BY <1>0, TotalIsNat, CostBound, UnitsAssumption
<1>14. Total(Held(g), g) = Total(Held(f), f) - Cost(f[k])
  BY <1>6, <1>9, <1>10, <1>13
<1>15. Total(Captured(g), g) = Total(Captured(f), f) + Cost(f[k])
  BY <1>7, <1>11, <1>12
<1> QED
  BY <1>4, <1>5, <1>6, <1>7, <1>14, <1>15 DEF g

\* A hold is one of those the total adds up.
LEMMA HeldCost ==
  ASSUME NEW f \in [Keys -> UsageRow], NEW k \in Held(f)
  PROVE  Cost(f[k]) \in Nat /\ Cost(f[k]) <= Total(Held(f), f)
<1> DEFINE g == [f EXCEPT ![k] = CapturedRow(f[k])]
<1>1. Total(Held(g), g) = Total(Held(f), f) - Cost(f[k])
  BY CaptureTotals
<1>2. Total(Held(g), g) \in Nat /\ Total(Held(f), f) \in Nat
  <2> HIDE DEF g
  <2> QED
    BY TotalIsNat DEF Held
<1>3. Cost(f[k]) \in Nat
  BY CostBound, UnitsAssumption DEF Held
<1> HIDE DEF g
<1> QED
  BY <1>1, <1>2, <1>3

-----------------------------------------------------------------------------

\* What a transaction that writes leaves behind.
Committed ==
  /\ account'.version = account.version + 1
  /\ account' \in AccountRow
  /\ usage' \in [Keys -> UsageRow]
  /\ ledger' \subseteq LedgerRow
  /\ funded' \in Int
  /\ Accounting'
  /\ Contract!Next

\* The contract's instance of CreditUnits counts what this module counts.
LEMMA ContractNames ==
  /\ Contract!NoRow = NoRow
  /\ \A f : Contract!Held(f) = Held(f) /\ Contract!Captured(f) = Captured(f)
  /\ \A f, S : Contract!ReleaseAll(f, S) = ReleaseAll(f, S)
  /\ \A f, S : Contract!Total(S, f) = Total(S, f)
  /\ \A p : Contract!NewRow(p) = NewRow(p)
  /\ \A row : Contract!CapturedRow(row) = CapturedRow(row)
<1>1. Contract!NoRow = NoRow
  BY DEF Contract!NoRow, NoRow
<1>2. ASSUME NEW f
      PROVE  Contract!Held(f) = Held(f) /\ Contract!Captured(f) = Captured(f)
  BY DEF Contract!Held, Held, Contract!Captured, Captured
<1>3. ASSUME NEW f, NEW S
      PROVE  Contract!ReleaseAll(f, S) = ReleaseAll(f, S)
  BY DEF Contract!ReleaseAll, ReleaseAll, Contract!ReleasedRow, ReleasedRow
<1>4. ASSUME NEW f, NEW S
      PROVE  Contract!Total(S, f) = Total(S, f)
  <2>1. \A row : Contract!Cost(row) = Cost(row)
    BY DEF Contract!Cost, Cost
  <2>2. Contract!Tokens(S, f) = Tokens(S, f)
    BY <2>1 DEF Contract!Tokens, Tokens
  <2> QED
    BY <2>2 DEF Contract!Total, Total, Contract!Cardinality, Cardinality
<1>5. ASSUME NEW p
      PROVE  Contract!NewRow(p) = NewRow(p)
  BY DEF Contract!NewRow, NewRow
<1>6. ASSUME NEW row
      PROVE  Contract!CapturedRow(row) = CapturedRow(row)
  BY DEF Contract!CapturedRow, CapturedRow
<1> QED
  BY <1>1, <1>2, <1>3, <1>4, <1>5, <1>6

\* Writing through the version column bumps it by one and keeps the row well typed.
LEMMA WritesVersion ==
  ASSUME NEW b \in Int, NEW v \in Int, NEW n \in Nat,
         account' = [balance |-> b, reserved |-> v, version |-> n + 1]
  PROVE  /\ account'.version = n + 1 /\ account' \in AccountRow
         /\ account'.balance = b /\ account'.reserved = v
BY DEF AccountRow

\* Releasing held holds, from account values that are current, keeps the accounts right.
LEMMA ReleaseCommits ==
  ASSUME TypeOK, Accounting, NEW r \in Requests, NEW S \in SUBSET Held(usage),
         snap[r] = account, CommitRelease(r, S)
  PROVE  Committed
<1> USE DEF Accounting
<1>0. S \subseteq Keys /\ Held(usage) \subseteq Keys /\ Captured(usage) \subseteq Keys
  BY DEF Held, Captured
<1>1. usage' = ReleaseAll(usage, S) /\ ledger' = ledger /\ funded' = funded
  BY DEF CommitRelease, AfterRelease
<1>2. usage \in [Keys -> UsageRow] /\ account \in AccountRow /\ funded \in Int
  BY DEF TypeOK
<1>3. Total(S, usage) \in Nat /\ Total(Held(usage), usage) \in Nat
  BY <1>0, TotalIsNat
<1>4. /\ usage' \in [Keys -> UsageRow]
      /\ Held(usage') = Held(usage) \ S
      /\ Captured(usage') = Captured(usage)
      /\ Total(Held(usage'), usage') = Total(Held(usage), usage) - Total(S, usage)
      /\ Total(Captured(usage'), usage') = Total(Captured(usage), usage)
  BY <1>1, <1>2, ReleaseTotals
<1>5. account' = [balance |-> account.balance,
                  reserved |-> account.reserved - Total(S, usage),
                  version |-> account.version + 1]
  BY <1>2 DEF CommitRelease, Writes, AccountAfterRelease, AccountRow
<1>6. /\ account.balance \in Int /\ account.reserved \in Int /\ account.version \in Nat
      /\ account.reserved - Total(S, usage) \in Int
  BY <1>2, <1>3 DEF AccountRow
<1>7. /\ account'.version = account.version + 1 /\ account' \in AccountRow
      /\ account'.balance = account.balance
      /\ account'.reserved = account.reserved - Total(S, usage)
  BY <1>5, <1>6, WritesVersion
<1>8. ReservedIsTotalHeld'
  BY <1>4, <1>7 DEF ReservedIsTotalHeld
<1>9. ReservedWithinBalance'
  <2>1. Total(Held(usage'), usage') \in Nat
    BY <1>4, TotalIsNat DEF Held
  <2> QED
    BY <1>3, <1>4, <1>6, <1>7, <1>8, <2>1 DEF ReservedIsTotalHeld, ReservedWithinBalance
<1>10. BalanceIsFundedLessCaptured'
  BY <1>1, <1>4, <1>7 DEF BalanceIsFundedLessCaptured
<1>11. \A k \in Keys : usage'[k] = IF k \in S THEN ReleasedRow(usage[k]) ELSE usage[k]
  BY <1>1 DEF ReleaseAll
<1>12. LedgerIsCapturedHolds'
  <2>1. \A k \in Captured(usage) : usage'[k] = usage[k]
    BY <1>0, <1>11 DEF Held, Captured
  <2> QED
    BY <1>1, <1>4, <2>1 DEF LedgerIsCapturedHolds
<1>13. JobAndHoldAgree'
  <2>1. ASSUME NEW k \in S
        PROVE  usage'[k].job = "failed" /\ usage'[k].hold = "released"
    <3>1. usage[k] \in [job : JobStatus, hold : HoldStatus, pay : Payloads]
      BY <1>0, <1>2 DEF Held, UsageRow, NoRow
    <3> QED
      BY <1>0, <1>11, <3>1 DEF ReleasedRow
  <2> QED
    BY <1>0, <1>11, <2>1 DEF JobAndHoldAgree
<1>14. Contract!Next
  <2>1. Contract!Release(S)
    BY <1>1, ContractNames DEF Contract!Release
  <2> QED
    BY <1>0, <2>1 DEF Contract!Next
<1> QED
  BY <1>1, <1>2, <1>4, <1>7, <1>8, <1>9, <1>10, <1>12, <1>13, <1>14 DEF Committed, TypeOK

\* Reserving for a new key what the account, after its sweep, does not promise yet.
LEMMA ReserveCommits ==
  ASSUME TypeOK, Accounting, NEW r \in Requests, stale[r] \subseteq Held(usage),
         snap[r] = account, want[r] \in Payloads, ReserveCredit(r)
  PROVE  Committed
<1> USE DEF Accounting
<1> DEFINE k == key[r]
           p == want[r]
           f == ReleaseAll(usage, stale[r])
<1>0. /\ k \in Keys /\ usage \in [Keys -> UsageRow] /\ account \in AccountRow
      /\ funded \in Int /\ ledger \subseteq LedgerRow
      /\ Units[p] \in Nat
  BY UnitsAssumption DEF TypeOK
<1>1. /\ usage[k] = NoRow /\ k \notin stale[r]
  BY DEF ReserveCredit, Held, NoRow
<1>2. f[k] = NoRow
  BY <1>0, <1>1 DEF ReleaseAll
<1>3. /\ f \in [Keys -> UsageRow]
      /\ Captured(f) = Captured(usage)
      /\ Total(Held(f), f) = Total(Held(usage), usage) - Total(stale[r], usage)
      /\ Total(Captured(f), f) = Total(Captured(usage), usage)
  BY <1>0, ReleaseTotals
<1>4. /\ usage' = [f EXCEPT ![k] = NewRow(p)]
      /\ ledger' = ledger /\ funded' = funded
  BY DEF ReserveCredit, AfterRelease
<1> HIDE DEF f
<1>5. /\ usage' \in [Keys -> UsageRow]
      /\ Captured(usage') = Captured(usage)
      /\ Total(Held(usage'), usage') = Total(Held(f), f) + Units[p]
      /\ Total(Captured(usage'), usage') = Total(Captured(usage), usage)
  <2>1. p \in Payloads
    BY DEF p
  <2> HIDE DEF k, p
  <2>2. /\ usage' \in [Keys -> UsageRow]
        /\ Captured(usage') = Captured(f)
        /\ Total(Held(usage'), usage') = Total(Held(f), f) + Units[p]
        /\ Total(Captured(usage'), usage') = Total(Captured(f), f)
    <3>1. usage'[k] = NewRow(p) /\ \A j \in Keys \ {k} : usage'[j] = f[j]
      BY <1>0, <1>3, <1>4
    <3>2. usage' \in [Keys -> UsageRow]
      BY <1>0, <1>3, <1>4, <2>1 DEF NewRow, UsageRow, JobStatus, HoldStatus
    <3> QED
      BY <1>0, <1>2, <1>3, <2>1, <3>1, <3>2, NewTotals
  <2> QED
    BY <1>3, <2>2
<1>6. /\ Total(stale[r], usage) \in Nat /\ Total(Held(f), f) \in Nat
      /\ Total(Held(usage), usage) \in Nat
  BY TotalIsNat DEF Held
<1>7. /\ account.balance \in Int /\ account.reserved \in Int /\ account.version \in Nat
      /\ account.reserved - Total(stale[r], usage) + Units[p] \in Int
  BY <1>0, <1>6 DEF AccountRow
<1>8. /\ Swept(r) = [account EXCEPT !.reserved = @ - Total(stale[r], usage)]
      /\ Swept(r).balance = account.balance
      /\ Swept(r).reserved = account.reserved - Total(stale[r], usage)
  BY <1>0 DEF Swept, AccountAfterRelease, AccountRow
<1>9. account' = [balance |-> account.balance,
                  reserved |-> account.reserved - Total(stale[r], usage) + Units[p],
                  version |-> account.version + 1]
  BY <1>0, <1>8 DEF ReserveCredit, Writes, AccountRow
<1>10. /\ account'.version = account.version + 1 /\ account' \in AccountRow
       /\ account'.balance = account.balance
       /\ account'.reserved = account.reserved - Total(stale[r], usage) + Units[p]
  BY <1>7, <1>9, WritesVersion
<1>11. ReservedIsTotalHeld'
  <2>1. account.reserved = Total(Held(usage), usage)
    BY DEF ReservedIsTotalHeld
  <2> QED
    BY <1>0, <1>3, <1>5, <1>6, <1>7, <1>10, <2>1 DEF ReservedIsTotalHeld
<1>12. ReservedWithinBalance'
  <2>1. Total(Held(usage'), usage') \in Nat
    BY TotalIsNat DEF Held
  <2>2. account.balance - (account.reserved - Total(stale[r], usage)) >= Units[p]
    BY <1>8 DEF ReserveCredit, Enough
  <2>3. account'.reserved <= account'.balance
    BY <1>0, <1>6, <1>7, <1>10, <2>2
  <2>4. 0 <= account'.reserved
    BY <1>11, <2>1 DEF ReservedIsTotalHeld
  <2> QED
    BY <2>3, <2>4 DEF ReservedWithinBalance
<1>13. BalanceIsFundedLessCaptured'
  BY <1>4, <1>5, <1>10 DEF BalanceIsFundedLessCaptured
<1>14. \A j \in Keys : usage'[j] = IF j = k THEN NewRow(p)
                                   ELSE IF j \in stale[r] THEN ReleasedRow(usage[j])
                                   ELSE usage[j]
  BY <1>3, <1>4 DEF ReleaseAll, f
<1>15. LedgerIsCapturedHolds'
  <2>1. \A j \in Captured(usage) : usage'[j] = usage[j]
    BY <1>1, <1>14 DEF Held, Captured, NoRow
  <2> QED
    BY <1>4, <1>5, <2>1 DEF LedgerIsCapturedHolds
<1>16. JobAndHoldAgree'
  <2>1. ASSUME NEW j \in stale[r]
        PROVE  j \in Keys /\ ReleasedRow(usage[j]).job = "failed"
                          /\ ReleasedRow(usage[j]).hold = "released"
    <3>1. j \in Keys /\ usage[j] \in [job : JobStatus, hold : HoldStatus, pay : Payloads]
      BY <1>0 DEF Held, UsageRow, NoRow
    <3> QED
      BY <3>1 DEF ReleasedRow
  <2>2. NewRow(p).job = "authorized" /\ NewRow(p).hold = "held"
    BY DEF NewRow
  <2> QED
    BY <1>14, <2>1, <2>2 DEF JobAndHoldAgree
<1>17. Contract!Next
  <2>1. Units[p] <= funded - Total(Captured(f), f) - Total(Held(f), f)
    <3>1. account.balance - (account.reserved - Total(stale[r], usage)) >= Units[p]
      BY <1>8 DEF ReserveCredit, Enough
    <3>2. /\ account.balance = funded - Total(Captured(f), f)
          /\ account.reserved = Total(Held(usage), usage)
      BY <1>3 DEF BalanceIsFundedLessCaptured, ReservedIsTotalHeld
    <3>3. Total(Captured(f), f) \in Nat
      BY TotalIsNat DEF Captured
    <3> HIDE DEF k, p
    <3> QED
      BY <1>0, <1>3, <1>6, <1>7, <3>1, <3>2, <3>3
  <2>2. Contract!Reserve(stale[r], k, p)
    BY <1>1, <1>4, <2>1, ContractNames DEF Contract!Reserve, Contract!Unpromised, f
  <2>3. stale[r] \in SUBSET Keys /\ k \in Keys /\ p \in Payloads
    BY <1>0 DEF Held
  <2> HIDE DEF k, p
  <2> QED
    BY <2>2, <2>3 DEF Contract!Next
<1> QED
  BY <1>0, <1>4, <1>5, <1>10, <1>11, <1>12, <1>13, <1>15, <1>16, <1>17 DEF Committed

\* Capturing a held hold moves its units from promised to charged, with its ledger row.
LEMMA CaptureCommits ==
  ASSUME TypeOK, Accounting, NEW r \in Requests,
         snap[r] = account, seen[r] = usage[key[r]], CaptureHold(r)
  PROVE  Committed
<1> USE DEF Accounting
<1> DEFINE k == key[r]
           c == Cost(usage[k])
<1>0. /\ k \in Keys /\ usage \in [Keys -> UsageRow] /\ account \in AccountRow
      /\ funded \in Int /\ ledger \subseteq LedgerRow
  BY DEF TypeOK
<1>1. k \in Held(usage) /\ k \notin Captured(usage)
  BY <1>0 DEF CaptureHold, JobAndHoldAgree, Held, Captured
<1>2. c \in Nat
  BY <1>0, CostBound, UnitsAssumption
<1>3. /\ usage' = [usage EXCEPT ![k] = CapturedRow(usage[k])]
      /\ ledger' = ledger \union {[job |-> k, debit |-> c]}
      /\ funded' = funded
  BY DEF CaptureHold
<1>4. /\ usage' \in [Keys -> UsageRow]
      /\ Held(usage') = Held(usage) \ {k}
      /\ Captured(usage') = Captured(usage) \union {k}
      /\ Total(Held(usage'), usage') = Total(Held(usage), usage) - c
      /\ Total(Captured(usage'), usage') = Total(Captured(usage), usage) + c
      /\ \A j \in Keys : Cost(usage'[j]) = Cost(usage[j])
  BY <1>0, <1>1, <1>3, CaptureTotals
<1> HIDE DEF c
<1>5. /\ account.balance \in Int /\ account.reserved \in Int /\ account.version \in Nat
      /\ account.balance - c \in Int /\ account.reserved - c \in Int
  BY <1>0, <1>2 DEF AccountRow
<1>6. account' = [balance |-> account.balance - c, reserved |-> account.reserved - c,
                  version |-> account.version + 1]
  BY <1>0 DEF CaptureHold, Writes, AccountRow, c
<1>7. /\ account'.version = account.version + 1 /\ account' \in AccountRow
      /\ account'.balance = account.balance - c /\ account'.reserved = account.reserved - c
  BY <1>5, <1>6, WritesVersion
<1>8. Total(Held(usage'), usage') \in Nat /\ Total(Captured(usage), usage) \in Nat
      /\ Total(Held(usage), usage) \in Nat
  BY TotalIsNat DEF Held, Captured
<1>9. ReservedIsTotalHeld'
  BY <1>4, <1>7 DEF ReservedIsTotalHeld
<1>10. ReservedWithinBalance'
  <2>1. account'.reserved <= account'.balance
    BY <1>2, <1>5, <1>7 DEF ReservedWithinBalance
  <2> QED
    BY <1>8, <1>9, <2>1 DEF ReservedIsTotalHeld, ReservedWithinBalance
<1>11. BalanceIsFundedLessCaptured'
  <2>1. account.balance = funded - Total(Captured(usage), usage)
    BY DEF BalanceIsFundedLessCaptured
  <2>2. \A b, d, t \in Int : b = d - t => b - c = d - (t + c)
    BY <1>2
  <2>3. account.balance - c = funded - (Total(Captured(usage), usage) + c)
    BY <1>0, <1>5, <1>8, <2>1, <2>2
  <2> QED
    BY <1>3, <1>4, <1>7, <2>3 DEF BalanceIsFundedLessCaptured
<1>12. \A j \in Keys \ {k} : usage'[j] = usage[j]
  BY <1>0, <1>3
<1>13. LedgerIsCapturedHolds'
  <2>1. \A j \in Captured(usage) : Cost(usage'[j]) = Cost(usage[j])
    BY <1>4 DEF Captured
  <2>2. Cost(usage'[k]) = c
    BY <1>0, <1>4 DEF c
  <2>3. {[job |-> j, debit |-> Cost(usage'[j])] : j \in Captured(usage) \union {k}}
          = {[job |-> j, debit |-> Cost(usage[j])] : j \in Captured(usage)}
              \union {[job |-> k, debit |-> c]}
    BY <2>1, <2>2
  <2> QED
    BY <1>3, <1>4, <2>3 DEF LedgerIsCapturedHolds
<1>14. JobAndHoldAgree'
  <2>1. usage[k] \in [job : JobStatus, hold : HoldStatus, pay : Payloads]
    BY <1>0, <1>1 DEF Held, UsageRow, NoRow
  <2>2. usage'[k].job = "succeeded" /\ usage'[k].hold = "captured"
    BY <1>0, <1>3, <2>1 DEF CapturedRow
  <2> QED
    BY <1>12, <2>2 DEF JobAndHoldAgree
<1>15. [job |-> k, debit |-> c] \in LedgerRow
  BY <1>0, <1>2 DEF LedgerRow
<1>16. Contract!Next
  <2>1. Contract!Capture(k)
    BY <1>1, <1>3, ContractNames DEF Contract!Capture, Held
  <2> QED
    BY <1>0, <2>1 DEF Contract!Next
<1> QED
  BY <1>0, <1>3, <1>4, <1>7, <1>9, <1>10, <1>11, <1>13, <1>14, <1>15, <1>16 DEF Committed

\* The admin commands change the funds and the balance together, holds untouched.
LEMMA FundCommits ==
  ASSUME TypeOK, Accounting, NEW r \in Requests, snap[r] = account, Fresh(r),
         \/ GrantCredits(r)
         \/ ResetCredits(r) /\ (stale[r] = {} => Held(usage) = {}),
         ~UNCHANGED rows
  PROVE  Committed
<1> USE DEF Accounting
<1>0. /\ usage \in [Keys -> UsageRow] /\ account \in AccountRow
      /\ funded \in Int /\ ledger \subseteq LedgerRow
      /\ account.balance \in Int /\ account.reserved \in Int /\ account.version \in Nat
  BY DEF TypeOK, AccountRow
<1>1. Total(Captured(usage), usage) \in Nat /\ Total({}, usage) = 0
  BY TotalIsNat, TotalEmpty DEF Captured
<1>2. \E b \in Int, v \in Int :
        /\ account' = [balance |-> b, reserved |-> v, version |-> account.version + 1]
        /\ funded' = funded + b - account.balance
        /\ v = account.reserved
        /\ v <= b
        /\ usage' = usage /\ ledger' = ledger
  <2>1. CASE GrantCredits(r)
    <3>1. PICK n \in Grants : /\ Writes([snap[r] EXCEPT !.balance = @ + n])
                              /\ funded' = funded + n
                              /\ UNCHANGED <<usage, ledger>>
      BY <2>1 DEF GrantCredits, StaleConflict, Refuse, rows
    <3>2. n \in Nat
      BY BillingAssumption
    <3>3. account' = [balance |-> account.balance + n, reserved |-> account.reserved,
                      version |-> account.version + 1]
      BY <1>0, <3>1 DEF Writes, AccountRow
    <3>4. /\ account.balance + n \in Int
          /\ funded' = funded + (account.balance + n) - account.balance
          /\ account.reserved <= account.balance + n
      BY <1>0, <3>1, <3>2 DEF ReservedWithinBalance
    <3> QED
      BY <1>0, <3>1, <3>3, <3>4
  <2>2. CASE ResetCredits(r) /\ (stale[r] = {} => Held(usage) = {})
    <3>1. PICK b \in ResetBalances : /\ stale[r] = {}
                                     /\ Writes([snap[r] EXCEPT !.balance = b, !.reserved = 0])
                                     /\ funded' = funded + b - snap[r].balance
                                     /\ UNCHANGED <<usage, ledger>>
      BY <2>2 DEF ResetCredits, StaleConflict, Refuse, rows
    <3>2. b \in Nat
      BY BillingAssumption
    <3>3. account.reserved = 0
      BY <1>1, <2>2, <3>1 DEF ReservedIsTotalHeld
    <3>4. account' = [balance |-> b, reserved |-> 0, version |-> account.version + 1]
      BY <1>0, <3>1 DEF Writes, AccountRow
    <3> QED
      BY <1>0, <3>1, <3>2, <3>3, <3>4
  <2> QED
    BY <2>1, <2>2
<1>3. PICK b \in Int, v \in Int :
        /\ account' = [balance |-> b, reserved |-> v, version |-> account.version + 1]
        /\ funded' = funded + b - account.balance
        /\ v = account.reserved
        /\ v <= b
        /\ usage' = usage /\ ledger' = ledger
  BY <1>2
<1>4. /\ account'.version = account.version + 1 /\ account' \in AccountRow
      /\ account'.balance = b /\ account'.reserved = v
  BY <1>0, <1>3, WritesVersion
<1>5. ReservedIsTotalHeld' /\ ReservedWithinBalance'
  BY <1>3, <1>4 DEF ReservedIsTotalHeld, ReservedWithinBalance
<1>6. BalanceIsFundedLessCaptured' /\ funded' \in Int
  BY <1>0, <1>1, <1>3, <1>4 DEF BalanceIsFundedLessCaptured
<1>7. LedgerIsCapturedHolds' /\ JobAndHoldAgree'
  BY <1>3 DEF LedgerIsCapturedHolds, JobAndHoldAgree
<1>8. Contract!Next
  <2>1. account'.balance - account'.reserved >= 0
    BY <1>3, <1>4
  <2>2. funded' - Total(Captured(usage), usage) - Total(Held(usage), usage) >= 0
    BY <1>3, <1>5, <1>6, <2>1 DEF BalanceIsFundedLessCaptured, ReservedIsTotalHeld
  <2>3. Contract!Fund
    BY <1>3, <1>6, <2>2, ContractNames DEF Contract!Fund, Contract!Unpromised
  <2> QED
    BY <2>3 DEF Contract!Next
<1> QED
  BY <1>0, <1>3, <1>4, <1>5, <1>6, <1>7, <1>8 DEF Committed
-----------------------------------------------------------------------------
\* The end of a transaction: the answer is given, nothing else of the request changes.
Ends(r) == \E a \in Answers : Reply(r, a)
Reads(r) == BeginRequest(r) \/ SweepStaleHolds(r) \/ CountHeldHolds(r) \/ ReadJob(r)

\* Refusals change no row.
LEMMA Refusals ==
  ASSUME TypeOK, NEW r \in Requests,
         \/ CreateConflict(r) \/ RejectReuse(r) \/ RejectInsufficient(r)
         \/ CaptureExpired(r) \/ CaptureSettled(r) \/ CaptureRefused(r) \/ ReleaseSettled(r)
  PROVE  Ends(r) /\ UNCHANGED rows
<1>1. \E a \in Answers : Refuse(r, a)
  BY DEF CreateConflict, RejectReuse, RejectInsufficient, CaptureExpired, CaptureSettled,
         CaptureRefused, ReleaseSettled, StaleConflict, Answers, JobStatus
<1> QED
  BY <1>1 DEF Refuse, Ends

\* A job answered to a client has a status of the job table.
LEMMA JobAnswers ==
  ASSUME TypeOK, NEW r \in Requests
  PROVE  seen[r].job \in Answers /\ Existing(r).job \in Answers
<1>1. seen[r] \in UsageRow /\ usage[key[r]] \in UsageRow /\ key[r] \in Keys
  BY DEF TypeOK
<1>2. ASSUME NEW row \in UsageRow
      PROVE  row.job \in Answers /\ ReleasedRow(row).job \in Answers
  <2>1. CASE row = NoRow
    BY <2>1 DEF NoRow, Answers, JobStatus, ReleasedRow
  <2>2. CASE row \in [job : JobStatus, hold : HoldStatus, pay : Payloads]
    BY <2>2 DEF Answers, JobStatus, ReleasedRow
  <2> QED
    BY <2>1, <2>2 DEF UsageRow
<1>3. AfterRelease(stale[r])[key[r]] \in {usage[key[r]], ReleasedRow(usage[key[r]])}
  BY <1>1 DEF AfterRelease, ReleaseAll
<1> QED
  BY <1>1, <1>2, <1>3 DEF Existing

\* A job seen authorized by a request that is still current has its hold held.
LEMMA SeenIsHeld ==
  ASSUME TypeOK, Accounting, NEW r \in Requests, RequestInv(r), Fresh(r),
         pc[r] = "read", op[r] \in ByJobId,
         seen[r].job = "authorized" \/ seen[r].hold = "held"
  PROVE  /\ snap[r] = account
         /\ seen[r] = usage[key[r]]
         /\ {key[r]} \subseteq Held(usage)
<1>1. snap[r] = account /\ seen[r] = usage[key[r]] /\ key[r] \in Keys
  BY DEF RequestInv, ReadsAreCurrent, TypeOK
<1>2. usage[key[r]].hold = "held"
  BY <1>1 DEF Accounting, JobAndHoldAgree
<1> QED
  BY <1>1, <1>2 DEF Held

\* Every step of a request only reads, or ends it with no write or with a commit.
LEMMA StepEnds ==
  ASSUME AccountInv, NEW r \in Requests, Step(r)
  PROVE  \/ Reads(r)
         \/ Ends(r) /\ (UNCHANGED rows \/ Committed)
<1> USE DEF AccountInv
<1>0. RequestInv(r)
  OBVIOUS
<1>1. CASE \/ CreateConflict(r) \/ RejectReuse(r) \/ RejectInsufficient(r)
           \/ CaptureExpired(r) \/ CaptureSettled(r) \/ CaptureRefused(r) \/ ReleaseSettled(r)
  BY <1>1, Refusals
<1>2. CASE ReplayCreate(r)
  <2>1. Ends(r)
    BY <1>2, JobAnswers DEF ReplayCreate, Ends
  <2>2. CASE stale[r] = {}
    BY <1>2, <2>1, <2>2 DEF ReplayCreate
  <2>3. CASE stale[r] # {}
    <3>1. /\ Fresh(r) /\ CommitRelease(r, stale[r])
          /\ pc[r] = "swept"
      BY <1>0, <1>2, <2>3 DEF ReplayCreate, SweepHolds, ReadyToCreate, RequestInv
    <3>2. snap[r] = account /\ stale[r] \subseteq Held(usage)
      BY <1>0, <3>1 DEF RequestInv, ReadsAreCurrent
    <3> QED
      BY <2>1, <3>1, <3>2, ReleaseCommits
  <2> QED
    BY <2>2, <2>3
<1>3. CASE ReserveCredit(r)
  <2>1. Ends(r)
    BY <1>3 DEF ReserveCredit, Ends, Answers, JobStatus
  <2>2. Fresh(r) /\ op[r] = "create" /\ (pc[r] = "swept" \/ pc[r] = "read")
    BY <1>3 DEF ReserveCredit, ReadyToCreate
  <2>3. /\ snap[r] = account /\ want[r] \in Payloads
        /\ stale[r] \subseteq Held(usage)
    BY <1>0, <2>2 DEF RequestInv, ReadsAreCurrent
  <2> QED
    BY <1>3, <2>1, <2>3, ReserveCommits
<1>4. CASE CaptureHold(r)
  <2>1. Ends(r)
    BY <1>4 DEF CaptureHold, Ends, Answers, JobStatus
  <2>2. /\ Fresh(r) /\ pc[r] = "read" /\ op[r] \in ByJobId /\ seen[r].job = "authorized"
    BY <1>4 DEF CaptureHold, ReadyTo, ByJobId
  <2> QED
    BY <1>0, <1>4, <2>1, <2>2, SeenIsHeld, CaptureCommits
<1>5. CASE ReleaseHold(r) \/ GetJob(r)
  <2>1. op[r] \in ByJobId /\ pc[r] = "read"
    BY <1>5 DEF ReleaseHold, GetJob, ReadyTo, ByJobId
  <2>2. CASE \E a \in Answers : Refuse(r, a)
    BY <2>2 DEF Refuse, Ends
  <2>3. CASE /\ CommitRelease(r, {key[r]}) /\ Reply(r, "failed")
             /\ seen[r].job = "authorized" \/ seen[r].hold = "held"
    <3>1. Ends(r)
      BY <2>3 DEF Ends, Answers, JobStatus
    <3>2. Fresh(r)
      BY <2>3 DEF CommitRelease
    <3>3. snap[r] = account /\ {key[r]} \in SUBSET Held(usage)
      BY <1>0, <2>1, <2>3, <3>2, SeenIsHeld
    <3> QED
      BY <2>3, <3>1, <3>3, ReleaseCommits
  <2>4. seen[r].job \in Answers /\ "conflict" \in Answers
    BY JobAnswers DEF Answers
  <2> QED
    BY <1>5, <2>2, <2>3, <2>4 DEF ReleaseHold, GetJob, HoldExpired, StaleConflict
<1>6. CASE GrantCredits(r) \/ ResetCredits(r)
  <2>1. Ends(r)
    BY <1>6 DEF GrantCredits, ResetCredits, StaleConflict, Refuse, Ends, Answers
  <2>2. CASE UNCHANGED rows
    BY <2>1, <2>2
  <2>3. CASE ~UNCHANGED rows
    <3>1. Fresh(r) /\ pc[r] # "idle"
      BY <1>6, <2>3 DEF GrantCredits, ResetCredits, StaleConflict, Refuse, ReadyTo
    <3>2. /\ snap[r] = account
          /\ ResetCredits(r) => (stale[r] = {} => Held(usage) = {})
      BY <1>0, <3>1 DEF RequestInv, ReadsAreCurrent, ResetCredits, ReadyTo
    <3> QED
      BY <1>6, <2>1, <2>3, <3>1, <3>2, FundCommits
  <2> QED
    BY <2>2, <2>3
<1>7. CASE Reads(r)
  BY <1>7
<1> QED
  BY <1>1, <1>2, <1>3, <1>4, <1>5, <1>6, <1>7 DEF Step, Reads
-----------------------------------------------------------------------------
\* The request slots stay well typed, and a step of one leaves the others alone.
LEMMA LocalSteps ==
  ASSUME TypeOK, NEW r \in Requests, Reads(r) \/ Ends(r)
  PROVE  /\ overdue' \subseteq Keys
         /\ pc' \in [Requests -> Pcs] /\ op' \in [Requests -> Ops]
         /\ key' \in [Requests -> Keys]
         /\ want' \in [Requests -> Payloads \union {NoPayload}]
         /\ snap' \in [Requests -> AccountRow] /\ stale' \in [Requests -> SUBSET Keys]
         /\ seen' \in [Requests -> UsageRow] /\ answer' \in [Requests -> Answers]
         /\ \A q \in Requests \ {r} :
              /\ pc'[q] = pc[q] /\ op'[q] = op[q] /\ key'[q] = key[q] /\ want'[q] = want[q]
              /\ snap'[q] = snap[q] /\ stale'[q] = stale[q] /\ seen'[q] = seen[q]
              /\ answer'[q] = answer[q]
<1> USE DEF TypeOK
<1>0. "idle" \in Pcs /\ "begun" \in Pcs /\ "swept" \in Pcs /\ "read" \in Pcs
  BY DEF Pcs
<1>1. CASE Ends(r)
  BY <1>0, <1>1 DEF Ends, Reply
<1>2. CASE BeginRequest(r)
  <2>1. PICK o \in Ops, k \in Keys, p \in Payloads \union {NoPayload} : Begin(r, o, k, p)
    BY <1>2 DEF BeginRequest, Ops
  <2>2. NoRow \in UsageRow /\ "none" \in Answers
    BY DEF UsageRow, Answers
  <2> QED
    BY <1>0, <2>1, <2>2 DEF Begin
<1>3. CASE SweepStaleHolds(r)
  <2>1. Held(usage) \intersect overdue \in SUBSET Keys
    OBVIOUS
  <2> QED
    BY <1>0, <1>3, <2>1 DEF SweepStaleHolds
<1>4. CASE CountHeldHolds(r)
  <2>1. Held(usage) \in SUBSET Keys
    BY DEF Held
  <2> QED
    BY <1>0, <1>4, <2>1 DEF CountHeldHolds
<1>5. CASE ReadJob(r)
  <2>1. usage[key[r]] \in UsageRow
    OBVIOUS
  <2> QED
    BY <1>0, <1>5, <2>1 DEF ReadJob
<1> QED
  BY <1>1, <1>2, <1>3, <1>4, <1>5 DEF Reads

\* Reads change no row, and what they read is current while the version is.
LEMMA ReadsKeepInv ==
  ASSUME TypeOK, NEW r \in Requests, RequestInv(r), Reads(r)
  PROVE  UNCHANGED rows /\ RequestInv(r)'
<1> USE DEF TypeOK
<1>1. UNCHANGED rows
  BY DEF Reads, BeginRequest, Begin, SweepStaleHolds, CountHeldHolds, ReadJob
<1>2. Held(usage') = Held(usage) /\ account' = account /\ usage' = usage
  BY <1>1 DEF Held, rows
<1>3. account.version \in Nat
  BY DEF AccountRow
<1>4. CASE BeginRequest(r)
  <2>1. PICK o \in Ops, k \in Keys, p \in Payloads \union {NoPayload} :
          Begin(r, o, k, p) /\ (o = "create" => p \in Payloads)
    BY <1>4 DEF BeginRequest, Ops
  <2>2. /\ pc'[r] = "begun" /\ op'[r] = o /\ want'[r] = p /\ snap'[r] = account
    BY <2>1 DEF Begin
  <2> QED
    BY <1>1, <1>2, <1>3, <2>1, <2>2 DEF RequestInv, ReadsAreCurrent, Fresh
<1>5. CASE SweepStaleHolds(r)
  <2>1. /\ pc[r] = "begun" /\ pc'[r] = "swept" /\ op[r] = "create"
        /\ stale'[r] \subseteq Held(usage)
        /\ op' = op /\ want' = want /\ snap' = snap
    BY <1>5 DEF SweepStaleHolds
  <2> QED
    BY <1>1, <1>2, <2>1 DEF RequestInv, ReadsAreCurrent, Fresh
<1>6. CASE CountHeldHolds(r)
  <2>1. /\ pc[r] = "begun" /\ pc'[r] = "read" /\ op[r] = "reset"
        /\ stale'[r] = Held(usage)
        /\ op' = op /\ want' = want /\ snap' = snap
    BY <1>6 DEF CountHeldHolds
  <2> QED
    BY <1>1, <1>2, <2>1 DEF RequestInv, ReadsAreCurrent, Fresh, ByJobId
<1>7. CASE ReadJob(r)
  <2>1. /\ pc[r] # "idle" /\ pc'[r] = "read" /\ op[r] # "reset"
        /\ op[r] = "create" => stale[r] = {}
        /\ seen'[r] = usage[key[r]]
        /\ op' = op /\ want' = want /\ snap' = snap /\ stale' = stale /\ key' = key
    BY <1>7 DEF ReadJob
  <2> QED
    BY <1>1, <1>2, <2>1 DEF RequestInv, ReadsAreCurrent, Fresh
<1> QED
  BY <1>1, <1>4, <1>5, <1>6, <1>7 DEF Reads

\* A request that did not move keeps its invariant: the rows are the ones it may
\* have read, or a commit has moved the version away from its reads.
LEMMA OthersKeepInv ==
  ASSUME TypeOK, NEW q \in Requests, RequestInv(q),
         pc'[q] = pc[q], op'[q] = op[q], key'[q] = key[q], want'[q] = want[q],
         snap'[q] = snap[q], stale'[q] = stale[q], seen'[q] = seen[q],
         UNCHANGED rows \/ Committed
  PROVE  RequestInv(q)'
<1>1. CASE UNCHANGED rows
  BY <1>1 DEF RequestInv, ReadsAreCurrent, Fresh, rows, Held
<1>2. CASE Committed
  <2>1. snap[q].version \in Nat /\ account.version \in Nat
    BY DEF TypeOK, AccountRow
  <2>2. snap'[q].version <= account'.version /\ snap'[q].version # account'.version
    BY <1>2, <2>1 DEF RequestInv, Committed
  <2> QED
    BY <2>2 DEF RequestInv, Fresh
<1> QED
  BY <1>1, <1>2

\* So does a request that just ended.
LEMMA EndKeepsInv ==
  ASSUME TypeOK, NEW r \in Requests, RequestInv(r), Ends(r), UNCHANGED rows \/ Committed
  PROVE  RequestInv(r)'
<1>1. pc'[r] = "idle" /\ snap' = snap
  BY DEF Ends, Reply, TypeOK
<1>2. snap[r].version <= account'.version
  <2>1. snap[r].version \in Nat /\ account.version \in Nat
    BY DEF TypeOK, AccountRow
  <2>2. account'.version = account.version \/ account'.version = account.version + 1
    BY DEF rows, Committed
  <2> QED
    BY <2>1, <2>2 DEF RequestInv
<1> QED
  BY <1>1, <1>2 DEF RequestInv

\* Unchanged rows keep the accounts right and implement a stuttering step.
LEMMA UnchangedRows ==
  ASSUME TypeOK, Accounting, UNCHANGED rows
  PROVE  /\ account' \in AccountRow /\ usage' \in [Keys -> UsageRow]
         /\ ledger' \subseteq LedgerRow /\ funded' \in Int
         /\ Accounting'
         /\ UNCHANGED Contract!vars
BY DEF TypeOK, rows, Accounting, ReservedIsTotalHeld, ReservedWithinBalance, Held, Captured,
       BalanceIsFundedLessCaptured, LedgerIsCapturedHolds, JobAndHoldAgree, Contract!vars

-----------------------------------------------------------------------------
\* The accounts are right at first.
LEMMA AccountInit == Init => AccountInv
<1> SUFFICES ASSUME Init
             PROVE  AccountInv
  OBVIOUS
<1> USE BillingAssumption DEF Init
<1>1. TypeOK
  BY DEF TypeOK, AccountRow, UsageRow, LedgerRow, Pcs, Ops, Answers
<1>2. Held(usage) = {} /\ Captured(usage) = {}
  BY DEF Held, Captured, NoRow
<1>3. Total({}, usage) = 0
  BY TotalEmpty
<1>4. Accounting
  <2>1. ReservedIsTotalHeld /\ ReservedWithinBalance
    BY <1>2, <1>3 DEF ReservedIsTotalHeld, ReservedWithinBalance
  <2>2. BalanceIsFundedLessCaptured
    <3>1. account.balance = InitialCredit /\ funded = InitialCredit /\ InitialCredit \in Int
      OBVIOUS
    <3>2. account.balance = funded - 0
      BY <3>1
    <3> QED
      BY <1>2, <1>3, <3>2 DEF BalanceIsFundedLessCaptured
  <2>3. LedgerIsCapturedHolds /\ JobAndHoldAgree
    BY <1>2 DEF LedgerIsCapturedHolds, JobAndHoldAgree, NoRow
  <2> QED
    BY <2>1, <2>2, <2>3 DEF Accounting
<1>5. \A r \in Requests : RequestInv(r)
  BY DEF RequestInv
<1> QED
  BY <1>1, <1>4, <1>5 DEF AccountInv

\* One step keeps the invariant and is a step of the contract or a stutter.
LEMMA NextInv ==
  ASSUME AccountInv, [Next]_vars
  PROVE  AccountInv' /\ [Contract!Next]_(Contract!vars)
<1>0. TypeOK /\ Accounting /\ \A q \in Requests : RequestInv(q)
  BY DEF AccountInv
<1>1. CASE UNCHANGED vars
  <2>1. UNCHANGED rows
    BY <1>1 DEF vars, rows
  <2>2. TypeOK'
    BY <1>0, <1>1 DEF TypeOK, vars
  <2>3. \A q \in Requests : RequestInv(q)'
    BY <1>0, <1>1, <2>1, OthersKeepInv DEF vars
  <2> QED
    BY <1>0, <2>1, <2>2, <2>3, UnchangedRows DEF AccountInv
<1>2. ASSUME NEW k \in Keys, HoldTtlPasses(k)
      PROVE  AccountInv' /\ [Contract!Next]_(Contract!vars)
  <2>1. UNCHANGED rows /\ UNCHANGED local /\ overdue' \subseteq Keys
    BY <1>0, <1>2 DEF HoldTtlPasses, TypeOK
  <2>2. TypeOK'
    BY <1>0, <2>1 DEF TypeOK, rows, local
  <2>3. \A q \in Requests : RequestInv(q)'
    BY <1>0, <2>1, OthersKeepInv DEF local
  <2> QED
    BY <1>0, <2>1, <2>2, <2>3, UnchangedRows DEF AccountInv
<1>3. ASSUME NEW r \in Requests, Step(r)
      PROVE  AccountInv' /\ [Contract!Next]_(Contract!vars)
  <2>1. (Reads(r) \/ Ends(r)) /\ (UNCHANGED rows \/ Committed) /\ RequestInv(r)'
    BY <1>0, <1>3, StepEnds, ReadsKeepInv, EndKeepsInv
  <2>2. /\ account' \in AccountRow /\ usage' \in [Keys -> UsageRow]
        /\ ledger' \subseteq LedgerRow /\ funded' \in Int
        /\ Accounting'
        /\ [Contract!Next]_(Contract!vars)
    BY <1>0, <2>1, UnchangedRows DEF Committed
  <2>3. TypeOK'
    BY <1>0, <2>1, <2>2, LocalSteps DEF TypeOK
  <2>4. ASSUME NEW q \in Requests \ {r}
        PROVE  RequestInv(q)'
    <3>1. /\ pc'[q] = pc[q] /\ op'[q] = op[q] /\ key'[q] = key[q] /\ want'[q] = want[q]
          /\ snap'[q] = snap[q] /\ stale'[q] = stale[q] /\ seen'[q] = seen[q]
      BY <1>0, <2>1, LocalSteps
    <3> QED
      BY <1>0, <2>1, <3>1, OthersKeepInv
  <2> QED
    BY <2>1, <2>2, <2>3, <2>4 DEF AccountInv
<1> QED
  BY <1>1, <1>2, <1>3 DEF Next

\* The accounts are right in every reachable state: the version check makes the
\* unlocked first read of the account safe.
THEOREM AccountInvariant == Spec => []AccountInv
<1>1. Init => AccountInv
  BY AccountInit
<1>2. AccountInv /\ [Next]_vars => AccountInv'
  BY NextInv
<1> QED
  BY <1>1, <1>2, PTL DEF Spec

\* Every variable keeps its type.
THEOREM TypeCorrect == Spec => []TypeOK
<1>1. AccountInv => TypeOK
  BY DEF AccountInv
<1> QED
  BY <1>1, AccountInvariant, PTL

\* The reserved counter is the total of the held holds, whatever interleaves.
THEOREM ReservedCorrect == Spec => []ReservedIsTotalHeld
<1>1. AccountInv => ReservedIsTotalHeld
  BY DEF AccountInv, Accounting
<1> QED
  BY <1>1, AccountInvariant, PTL

\* No unit of the balance is promised to two holds.
THEOREM NeverOvercommitted == Spec => []ReservedWithinBalance
<1>1. AccountInv => ReservedWithinBalance
  BY DEF AccountInv, Accounting
<1> QED
  BY <1>1, AccountInvariant, PTL

\* The ledger has one row for each captured hold and no other.
THEOREM LedgerCorrect == Spec => []LedgerIsCapturedHolds
<1>1. AccountInv => LedgerIsCapturedHolds
  BY DEF AccountInv, Accounting
<1> QED
  BY <1>1, AccountInvariant, PTL

\* The balance is what was funded less what captured jobs cost.
THEOREM BalanceCorrect == Spec => []BalanceIsFundedLessCaptured
<1>1. AccountInv => BalanceIsFundedLessCaptured
  BY DEF AccountInv, Accounting
<1> QED
  BY <1>1, AccountInvariant, PTL

\* The transactions implement the atomic contract.
THEOREM Implementation == Spec => ImplementsContract
<1>1. Init => Contract!Init
  BY ContractNames DEF Init, Contract!Init
<1>2. AccountInv /\ [Next]_vars => [Contract!Next]_(Contract!vars)
  BY NextInv
<1> QED
  BY <1>1, <1>2, AccountInvariant, PTL DEF Spec, ImplementsContract, Contract!Spec

\* A step of the contract keeps settled jobs and the payloads of all jobs.
LEMMA ContractSettles ==
  ASSUME TypeOK, [Contract!Next]_(Contract!vars), NEW k \in Keys
  PROVE  /\ usage[k].hold \in {"captured", "released"} => usage'[k] = usage[k]
         /\ usage[k] # NoRow => usage'[k].pay = usage[k].pay
<1>0. usage \in [Keys -> UsageRow] /\ usage[k] \in UsageRow
  BY DEF TypeOK
<1>1. ASSUME usage[k].hold = "held"
      PROVE  ReleasedRow(usage[k]).pay = usage[k].pay /\ CapturedRow(usage[k]).pay = usage[k].pay
  <2>1. usage[k] \in [job : JobStatus, hold : HoldStatus, pay : Payloads]
    BY <1>0, <1>1 DEF UsageRow, NoRow
  <2> QED
    BY <2>1 DEF ReleasedRow, CapturedRow
<1>2. ASSUME NEW S \in SUBSET Keys, S \subseteq Held(usage)
      PROVE  ReleaseAll(usage, S)[k] =
               IF k \in S THEN ReleasedRow(usage[k]) ELSE usage[k]
  BY DEF ReleaseAll
<1>3. CASE \E S \in SUBSET Keys, j \in Keys, p \in Payloads : Contract!Reserve(S, j, p)
  <2>1. PICK S \in SUBSET Keys, j \in Keys, p \in Payloads : Contract!Reserve(S, j, p)
    BY <1>3
  <2>2. /\ S \subseteq Held(usage) /\ usage[j] = NoRow
        /\ usage' = [ReleaseAll(usage, S) EXCEPT ![j] = NewRow(p)]
    BY <2>1, ContractNames DEF Contract!Reserve
  <2>3. k # j => usage'[k] = ReleaseAll(usage, S)[k]
    BY <2>2 DEF ReleaseAll
  <2>4. k \in S => usage[k].hold = "held"
    BY <2>2 DEF Held
  <2> QED
    BY <1>1, <1>2, <2>2, <2>3, <2>4 DEF NoRow
<1>4. CASE \E j \in Keys : Contract!Capture(j)
  <2>1. PICK j \in Keys : Contract!Capture(j)
    BY <1>4
  <2>2. usage[j].hold = "held" /\ usage' = [usage EXCEPT ![j] = CapturedRow(usage[j])]
    BY <2>1, ContractNames DEF Contract!Capture
  <2> QED
    BY <1>0, <1>1, <2>2
<1>5. CASE \E S \in SUBSET Keys : Contract!Release(S)
  <2>1. PICK S \in SUBSET Keys : S \subseteq Held(usage) /\ usage' = ReleaseAll(usage, S)
    BY <1>5, ContractNames DEF Contract!Release
  <2>2. k \in S => usage[k].hold = "held"
    BY <2>1 DEF Held
  <2> QED
    BY <1>1, <1>2, <2>1, <2>2
<1>6. CASE Contract!Fund \/ UNCHANGED Contract!vars
  BY <1>6 DEF Contract!Fund, Contract!vars
<1> QED
  BY <1>3, <1>4, <1>5, <1>6 DEF Contract!Next

\* A captured or released hold is never reopened, and a key never changes payload.
THEOREM Settled == Spec => SettledIsFinal
<1>1. AccountInv /\ [Next]_vars
        => [\A k \in Keys :
              /\ usage[k].hold \in {"captured", "released"} => usage'[k] = usage[k]
              /\ usage[k] # NoRow => usage'[k].pay = usage[k].pay]_vars
  BY NextInv, ContractSettles DEF AccountInv
<1> QED
  BY <1>1, AccountInvariant, PTL DEF Spec, SettledIsFinal
-----------------------------------------------------------------------------
\* One step only advances a job: it keeps its payload, stays once settled, and does
\* not become held again.
LEMMA RowsAdvance ==
  ASSUME AccountInv, [Next]_vars, NEW k \in Keys
  PROVE  /\ usage[k] # NoRow => usage'[k] # NoRow /\ usage'[k].pay = usage[k].pay
         /\ usage[k].hold \in {"captured", "released"} => usage'[k] = usage[k]
         /\ usage[k] # NoRow /\ usage'[k].hold = "held" => usage[k].hold = "held"
<1>1. AccountInv' /\ [Contract!Next]_(Contract!vars)
  BY NextInv
<1>2. /\ usage[k].hold \in {"captured", "released"} => usage'[k] = usage[k]
      /\ usage[k] # NoRow => usage'[k].pay = usage[k].pay
  BY <1>1, ContractSettles DEF AccountInv
<1>3. usage[k] \in UsageRow
  BY DEF AccountInv, TypeOK
<1>4. CASE usage[k] = NoRow
  BY <1>2, <1>4
<1>5. CASE usage[k] \in [job : JobStatus, hold : HoldStatus, pay : Payloads]
  <2>1. usage[k].pay # NoRow.pay
    BY <1>5, UnitsAssumption DEF NoRow
  <2>2. usage[k].hold \in HoldStatus
    BY <1>5
  <2> QED
    BY <1>2, <2>1, <2>2 DEF HoldStatus
<1> QED
  BY <1>3, <1>4, <1>5 DEF UsageRow

\* A request that did not move keeps its part of the invariant.
LEMMA OthersKeepClient ==
  ASSUME AccountInv, [Next]_vars, NEW q \in Requests, ClientInv(q),
         pc'[q] = pc[q], op'[q] = op[q], key'[q] = key[q], want'[q] = want[q],
         snap'[q] = snap[q], seen'[q] = seen[q], answer'[q] = answer[q]
  PROVE  ClientInv(q)'
<1> USE DEF ClientInv
<1> DEFINE k == key[q]
<1>1. k \in Keys /\ k = key'[q]
  BY DEF AccountInv, TypeOK
<1>2. /\ usage[k] # NoRow => usage'[k] # NoRow /\ usage'[k].pay = usage[k].pay
      /\ usage[k].hold \in {"captured", "released"} => usage'[k] = usage[k]
      /\ usage[k] # NoRow /\ usage'[k].hold = "held" => usage[k].hold = "held"
  BY <1>1, RowsAdvance
<1>3. HoldCovers(q)'
  BY <1>1, <1>2 DEF HoldCovers, Cost
<1>4. ReadLasts(q)'
  <2>1. seen[q] # NoRow => seen[q].pay \in Payloads
    BY DEF AccountInv, TypeOK, UsageRow
  <2>2. NoRow.pay \notin Payloads
    BY UnitsAssumption DEF NoRow
  <2> QED
    BY <1>1, <1>2, <2>1, <2>2 DEF ReadLasts
<1>5. AnswerStands(q)'
  <2>1. NoRow.pay \notin Payloads
    BY UnitsAssumption DEF NoRow
  <2>2. op[q] = "create" /\ usage[k].pay = want[q] => usage[k] # NoRow
    BY <2>1 DEF AnswerStands
  <2> QED
    BY <1>1, <1>2, <2>2 DEF AnswerStands
<1> QED
  BY <1>3, <1>4, <1>5

\* What a request reads agrees with the rows, and its balance covers its hold.
LEMMA ReadsKeepClient ==
  ASSUME AccountInv, NEW r \in Requests, ClientInv(r), Reads(r)
  PROVE  ClientInv(r)'
<1> USE DEF AccountInv, TypeOK, ClientInv
<1>0. UNCHANGED rows
  BY DEF Reads, BeginRequest, Begin, SweepStaleHolds, CountHeldHolds, ReadJob
<1>1. CASE BeginRequest(r)
  <2>1. PICK o \in Ops, k \in Keys, p \in Payloads \union {NoPayload} :
          /\ Begin(r, o, k, p)
          /\ o = "create" => p \in Payloads
          /\ o = "capture" => usage[k] # NoRow
    BY <1>1 DEF BeginRequest, Ops
  <2>2. /\ pc'[r] = "begun" /\ op'[r] = o /\ key'[r] = k /\ want'[r] = p
        /\ snap'[r] = account /\ answer'[r] = "none"
    BY <2>1 DEF Begin
  <2>3. usage[k].hold = "held" => Cost(usage[k]) <= account.balance
    <3>1. SUFFICES ASSUME usage[k].hold = "held"
                   PROVE  Cost(usage[k]) <= account.balance
      OBVIOUS
    <3>2. Cost(usage[k]) \in Nat /\ Cost(usage[k]) <= Total(Held(usage), usage)
      BY <3>1, HeldCost DEF Held
    <3>3. /\ account.reserved = Total(Held(usage), usage)
          /\ account.reserved <= account.balance
      BY DEF Accounting, ReservedIsTotalHeld, ReservedWithinBalance
    <3>4. account.reserved \in Int /\ account.balance \in Int
      BY DEF AccountRow
    <3> QED
      BY <3>2, <3>3, <3>4
  <2>4. HoldCovers(r)'
    BY <1>0, <2>1, <2>2, <2>3 DEF HoldCovers, rows
  <2>5. ReadLasts(r)' /\ AnswerStands(r)'
    BY <2>1, <2>2 DEF ReadLasts, AnswerStands, JobStatus
  <2> QED
    BY <2>4, <2>5
<1>2. CASE SweepStaleHolds(r) \/ CountHeldHolds(r)
  <2>1. /\ op[r] # "capture" /\ op[r] \notin ByJobId
        /\ pc'[r] = "read" => op[r] # "create"
        /\ pc'[r] # "idle"
        /\ op' = op /\ want' = want /\ answer' = answer
    BY <1>2 DEF SweepStaleHolds, CountHeldHolds, ByJobId
  <2> QED
    BY <2>1 DEF HoldCovers, ReadLasts, AnswerStands, ByJobId
<1>3. CASE ReadJob(r)
  <2>1. /\ pc'[r] = "read" /\ seen'[r] = usage[key[r]] /\ pc[r] # "idle"
        /\ op[r] = "capture" => pc[r] = "begun"
        /\ op' = op /\ key' = key /\ want' = want /\ snap' = snap /\ answer' = answer
    BY <1>3 DEF ReadJob
  <2>2. /\ usage[key[r]].job = "authorized" => usage[key[r]].hold = "held"
        /\ usage[key[r]].job = "succeeded" => usage[key[r]].hold = "captured"
        /\ usage[key[r]].job = "failed" => usage[key[r]].hold = "released"
    BY DEF Accounting, JobAndHoldAgree
  <2> QED
    BY <1>0, <2>1, <2>2 DEF HoldCovers, ReadLasts, AnswerStands, rows
<1> QED
  BY <1>1, <1>2, <1>3 DEF Reads

\* The answers a transaction may end with: what it says of the job is so when it ends.
RightAnswer(r, a) ==
  /\ a = "insufficient" => op[r] = "create"
  /\ a = "succeeded" => usage'[key[r]].hold = "captured"
  /\ a = "failed" => usage'[key[r]].hold = "released"
  /\ op[r] = "create" /\ a \in JobStatus => usage'[key[r]].pay = want[r]

\* The answer for a job read earlier, which may have changed since, is still right.
LEMMA SeenAnswer ==
  ASSUME AccountInv, NEW r \in Requests, ClientInv(r), pc[r] = "read",
         op[r] \in ByJobId \/ (op[r] = "create" /\ seen[r].pay = want[r] /\ seen[r] # NoRow),
         UNCHANGED usage
  PROVE  RightAnswer(r, seen[r].job)
<1>1. seen[r] \in UsageRow
  BY DEF AccountInv, TypeOK
<1>2. seen[r].job \in JobStatus \union {"none"} /\ (seen[r] = NoRow => seen[r].job = "none")
  BY <1>1 DEF UsageRow, NoRow
<1>3. CASE seen[r] = NoRow
  BY <1>2, <1>3 DEF RightAnswer, JobStatus, ByJobId
<1>4. CASE seen[r] # NoRow
  BY <1>2, <1>4 DEF RightAnswer, JobStatus, ByJobId, ClientInv, ReadLasts
<1> QED
  BY <1>3, <1>4

\* Every transaction that ends gives a right answer.
LEMMA EndsRightly ==
  ASSUME AccountInv, AccountInv', NEW r \in Requests, ClientInv(r), Step(r), ~Reads(r)
  PROVE  \E a \in Answers : Reply(r, a) /\ RightAnswer(r, a)
<1>0. /\ key[r] \in Keys /\ usage \in [Keys -> UsageRow] /\ seen[r] \in UsageRow
      /\ seen[r].job \in Answers /\ Existing(r).job \in Answers
      /\ snap[r].balance \in Int
  BY JobAnswers DEF AccountInv, TypeOK, AccountRow
<1>1. /\ usage'[key[r]].job = "succeeded" => usage'[key[r]].hold = "captured"
      /\ usage'[key[r]].job = "failed" => usage'[key[r]].hold = "released"
  BY <1>0 DEF AccountInv, Accounting, JobAndHoldAgree
<1>2. ASSUME NEW a \in {"conflict", "mismatch", "expired", "usage_conflict", "refused", "done"}
      PROVE  a \in Answers /\ RightAnswer(r, a)
  BY <1>2 DEF RightAnswer, Answers, JobStatus
<1>3. CASE CreateConflict(r) \/ RejectReuse(r) \/ RejectInsufficient(r)
  <2>1. op[r] = "create"
    BY <1>3 DEF CreateConflict, RejectReuse, RejectInsufficient, ReadyToCreate
  <2>2. "insufficient" \in Answers /\ RightAnswer(r, "insufficient")
    BY <2>1 DEF RightAnswer, Answers, JobStatus
  <2> QED
    BY <1>2, <1>3, <2>2 DEF CreateConflict, RejectReuse, RejectInsufficient, StaleConflict, Refuse
<1>4. CASE ReplayCreate(r)
  <2>1. /\ Reply(r, Existing(r).job) /\ op[r] = "create"
        /\ Existing(r) # NoRow /\ Existing(r).pay = want[r]
    BY <1>4 DEF ReplayCreate, ReadyToCreate
  <2>2. CASE stale[r] = {}
    <3>1. Existing(r) = seen[r] /\ pc[r] = "read" /\ UNCHANGED usage
      BY <1>4, <2>2 DEF ReplayCreate, ReadyToCreate, Existing, rows
    <3>2. RightAnswer(r, seen[r].job)
      BY <2>1, <3>1, SeenAnswer
    <3> QED
      BY <1>0, <2>1, <3>1, <3>2
  <2>3. CASE stale[r] # {}
    <3>1. Existing(r) = usage'[key[r]]
      BY <1>4, <2>3 DEF ReplayCreate, Existing, CommitRelease
    <3>2. Existing(r) \in UsageRow
      BY <1>0, <3>1 DEF AccountInv, TypeOK
    <3>3. Existing(r).job \in JobStatus
      BY <2>1, <3>2 DEF UsageRow
    <3>4. RightAnswer(r, Existing(r).job)
      BY <1>1, <2>1, <3>1, <3>3 DEF RightAnswer, JobStatus
    <3> QED
      BY <1>0, <2>1, <3>4
  <2> QED
    BY <2>2, <2>3
<1>5. CASE ReserveCredit(r)
  <2>1. usage'[key[r]] = NewRow(want[r]) /\ Reply(r, "authorized")
    <3>1. AfterRelease(stale[r]) = [k \in Keys |-> AfterRelease(stale[r])[k]]
      BY DEF AfterRelease, ReleaseAll
    <3> QED
      BY <1>0, <1>5, <3>1 DEF ReserveCredit
  <2>2. "authorized" \in Answers /\ RightAnswer(r, "authorized")
    BY <2>1 DEF RightAnswer, Answers, JobStatus, NewRow
  <2> QED
    BY <2>1, <2>2
<1>6. CASE CaptureExpired(r) \/ CaptureSettled(r) \/ ReleaseSettled(r)
  <2>1. CASE \E a \in {"conflict", "expired", "usage_conflict"} : Refuse(r, a)
    BY <1>2, <2>1 DEF Refuse
  <2>2. CASE Refuse(r, seen[r].job) /\ op[r] \in ByJobId /\ pc[r] = "read"
    <3>1. RightAnswer(r, seen[r].job)
      BY <2>2, SeenAnswer DEF Refuse, rows
    <3> QED
      BY <1>0, <2>2, <3>1 DEF Refuse
  <2> QED
    BY <1>6, <2>1, <2>2
       DEF CaptureExpired, CaptureSettled, ReleaseSettled, StaleConflict, ReadyTo, ByJobId
<1>7. CASE CaptureHold(r)
  <2>1. usage'[key[r]].hold = "captured" /\ op[r] = "capture" /\ Reply(r, "succeeded")
    <3>1. seen[r] \in [job : JobStatus, hold : HoldStatus, pay : Payloads]
      BY <1>0, <1>7 DEF CaptureHold, UsageRow, NoRow
    <3> QED
      BY <1>0, <1>7, <3>1 DEF CaptureHold, CapturedRow, ReadyTo
  <2>2. "succeeded" \in Answers /\ RightAnswer(r, "succeeded")
    BY <2>1 DEF RightAnswer, Answers, JobStatus
  <2> QED
    BY <2>1, <2>2
<1>8. CASE CaptureRefused(r)
  <2>1. Cost(seen[r]) <= snap[r].balance /\ Cost(seen[r]) \in Nat
    BY <1>0, <1>8, CostBound, UnitsAssumption DEF CaptureRefused, ReadyTo, ClientInv, HoldCovers
  <2>2. ~(snap[r].balance < Cost(seen[r]))
    BY <1>0, <2>1
  <2> QED
    BY <1>2, <1>8, <2>2 DEF CaptureRefused, StaleConflict, Refuse
<1>9. CASE ReleaseHold(r) \/ GetJob(r)
  <2>0. op[r] \in ByJobId /\ pc[r] = "read"
    BY <1>9 DEF ReleaseHold, GetJob, ReadyTo, ByJobId
  <2>1. CASE Refuse(r, "conflict")
    BY <1>2, <2>1 DEF Refuse
  <2>2. CASE Refuse(r, seen[r].job)
    <3>1. RightAnswer(r, seen[r].job)
      BY <2>0, <2>2, SeenAnswer DEF Refuse, rows
    <3> QED
      BY <1>0, <2>2, <3>1 DEF Refuse
  <2>3. CASE CommitRelease(r, {key[r]}) /\ Reply(r, "failed")
    <3>1. usage'[key[r]] = ReleasedRow(usage[key[r]])
      BY <1>0, <2>3 DEF CommitRelease, AfterRelease, ReleaseAll
    <3>2. usage[key[r]] \in [job : JobStatus, hold : HoldStatus, pay : Payloads]
      <4>1. usage'[key[r]].pay \in Payloads \/ usage'[key[r]] = NoRow
        BY <1>0 DEF AccountInv, TypeOK, UsageRow
      <4>2. ReleasedRow(NoRow).pay = NoPayload /\ ReleasedRow(NoRow).job = "failed"
        BY DEF ReleasedRow, NoRow
      <4>3. usage[key[r]] # NoRow
        BY <3>1, <4>1, <4>2, UnitsAssumption DEF NoRow
      <4> QED
        BY <1>0, <4>3 DEF UsageRow
    <3>3. usage'[key[r]].hold = "released"
      BY <3>1, <3>2 DEF ReleasedRow
    <3>4. "failed" \in Answers /\ RightAnswer(r, "failed")
      BY <2>0, <3>3 DEF RightAnswer, Answers, JobStatus, ByJobId
    <3> QED
      BY <2>3, <3>4
  <2> QED
    BY <1>9, <2>1, <2>2, <2>3 DEF ReleaseHold, GetJob, StaleConflict
<1>10. CASE GrantCredits(r) \/ ResetCredits(r)
  BY <1>2, <1>10 DEF GrantCredits, ResetCredits, StaleConflict, Refuse
<1> QED
  BY <1>3, <1>4, <1>5, <1>6, <1>7, <1>8, <1>9, <1>10 DEF Step, Reads

\* A request that ended has nothing left to rely on but its answer.
LEMMA EndKeepsClient ==
  ASSUME AccountInv, AccountInv', NEW r \in Requests, ClientInv(r), Step(r), ~Reads(r)
  PROVE  ClientInv(r)'
<1>1. PICK a \in Answers : Reply(r, a) /\ RightAnswer(r, a)
  BY EndsRightly
<1>2. /\ pc'[r] = "idle" /\ answer'[r] = a
      /\ op' = op /\ key' = key /\ want' = want
  BY <1>1 DEF Reply, AccountInv, TypeOK
<1> QED
  BY <1>1, <1>2 DEF ClientInv, HoldCovers, ReadLasts, AnswerStands, RightAnswer

\* One step keeps what the requests rely on.
LEMMA NextClient ==
  ASSUME IInv, [Next]_vars
  PROVE  IInv'
<1>0. AccountInv /\ AccountInv' /\ \A q \in Requests : ClientInv(q)
  BY NextInv DEF IInv
<1>1. CASE UNCHANGED vars
  BY <1>0, <1>1, OthersKeepClient DEF IInv, vars
<1>2. ASSUME NEW k \in Keys, HoldTtlPasses(k)
      PROVE  IInv'
  BY <1>0, <1>2, OthersKeepClient DEF IInv, HoldTtlPasses, local
<1>3. ASSUME NEW r \in Requests, Step(r)
      PROVE  IInv'
  <2>1. ClientInv(r)'
    BY <1>0, <1>3, ReadsKeepClient, EndKeepsClient
  <2>2. Reads(r) \/ Ends(r)
    BY <1>0, <1>3, StepEnds
  <2>3. ASSUME NEW q \in Requests \ {r}
        PROVE  ClientInv(q)'
    <3>1. /\ pc'[q] = pc[q] /\ op'[q] = op[q] /\ key'[q] = key[q] /\ want'[q] = want[q]
          /\ snap'[q] = snap[q] /\ seen'[q] = seen[q] /\ answer'[q] = answer[q]
      BY <1>0, <2>2, LocalSteps DEF AccountInv
    <3> QED
      BY <1>0, <3>1, OthersKeepClient
  <2> QED
    BY <1>0, <2>1, <2>3 DEF IInv
<1> QED
  BY <1>1, <1>2, <1>3 DEF Next

\* The whole inductive invariant: the accounts, and what the requests rely on.
THEOREM InductiveInvariant == Spec => []IInv
<1>1. Init => IInv
  <2>1. Init => \A r \in Requests : ClientInv(r)
    BY DEF Init, ClientInv, HoldCovers, ReadLasts, AnswerStands, JobStatus
  <2> QED
    BY <2>1, AccountInit DEF IInv
<1>2. IInv /\ [Next]_vars => IInv'
  BY NextClient
<1> QED
  BY <1>1, <1>2, PTL DEF Spec

\* Whoever comes second is refused by the version of the account, not by a unique key: what a
\* request of the current version has read is what the rows are.
THEOREM SecondIsRefused == Spec => []LoserIsStale
<1>1. AccountInv => LoserIsStale
  <2>1. SUFFICES ASSUME AccountInv, NEW r \in Requests, pc[r] # "idle", Fresh(r)
                 PROVE  /\ ReadyToCreate(r) /\ Existing(r) = NoRow => usage[key[r]] = NoRow
                        /\ pc[r] = "read" /\ op[r] \in ByJobId /\ seen[r].hold = "held"
                             => usage[key[r]].hold = "held"
                        /\ ReadyTo("reset", r) /\ stale[r] = {} => Held(usage) = {}
    BY <2>1 DEF LoserIsStale
  <2>2. ReadsAreCurrent(r) /\ key[r] \in Keys /\ (pc[r] = "read" /\ op[r] = "create" => stale[r] = {})
    BY <2>1 DEF AccountInv, RequestInv, TypeOK
  <2>3. ASSUME ReadyToCreate(r), Existing(r) = NoRow
        PROVE  usage[key[r]] = NoRow
    <3>1. CASE stale[r] = {}
      BY <2>2, <2>3, <3>1 DEF ReadyToCreate, Existing, ReadsAreCurrent
    <3>2. CASE stale[r] # {}
      <4>1. AfterRelease(stale[r])[key[r]] = NoRow
        BY <2>3, <3>2 DEF Existing
      <4>2. key[r] \notin stale[r]
        BY <2>2, <4>1 DEF AfterRelease, ReleaseAll, ReleasedRow, NoRow
      <4> QED
        BY <2>2, <4>1, <4>2 DEF AfterRelease, ReleaseAll
    <3> QED
      BY <3>1, <3>2
  <2>4. pc[r] = "read" /\ op[r] \in ByJobId /\ seen[r].hold = "held" => usage[key[r]].hold = "held"
    BY <2>2 DEF ReadsAreCurrent
  <2>5. ReadyTo("reset", r) /\ stale[r] = {} => Held(usage) = {}
    BY <2>2 DEF ReadsAreCurrent, ReadyTo
  <2> QED
    BY <2>3, <2>4, <2>5
<1> QED
  BY <1>1, AccountInvariant, PTL

\* No capture is refused for lack of credits, whatever happened since the reserve.
THEOREM HoldsGuaranteeCapture == Spec => []HoldGuaranteesCapture
<1>1. IInv => HoldGuaranteesCapture
  BY DEF IInv, ClientInv, AnswerStands, HoldGuaranteesCapture
<1> QED
  BY <1>1, InductiveInvariant, PTL

\* An answer a client got about a job is true from then on.
THEOREM AnswersDurable == Spec => []AnswersAreDurable
<1>1. IInv => AnswersAreDurable
  BY DEF IInv, ClientInv, AnswerStands, AnswersAreDurable
<1> QED
  BY <1>1, InductiveInvariant, PTL
=============================================================================
