---------------------------- MODULE ModelJobsProofs ----------------------------
(***************************************************************************)
(* ModelJobs for any number of sessions, keys, callers and jobs: a key     *)
(* never has two jobs, a caller gets the job of its own request, and a     *)
(* usage job is charged exactly for work that was done, whatever answers   *)
(* are lost and wherever the process restarts.                             *)
(***************************************************************************)
EXTENDS ModelJobs, FiniteSetTheorems, TLAPS

\* What any step leaves of the usage jobs: payloads stay, settled ones do not change.
Advances ==
  /\ usage' \in [Keys -> UsageRow] /\ funded' \in Int
  /\ \A k \in Keys :
       /\ usage[k] # NoRow => usage'[k].pay = usage[k].pay
       /\ usage[k].hold \in {"captured", "released"} => usage'[k] = usage[k]

\* The service's instance of CreditUnits names what this module names.
LEMMA ServiceNames ==
  /\ Service!NoRow = NoRow
  /\ \A f : Service!Held(f) = Held(f)
  /\ \A f, S : Service!ReleaseAll(f, S) = ReleaseAll(f, S)
  /\ \A p : Service!NewRow(p) = NewRow(p)
  /\ \A row : Service!CapturedRow(row) = CapturedRow(row)
<1>1. Service!NoRow = NoRow
  BY DEF Service!NoRow, NoRow
<1>2. ASSUME NEW f
      PROVE  Service!Held(f) = Held(f)
  BY DEF Service!Held, Held
<1>3. ASSUME NEW f, NEW S
      PROVE  Service!ReleaseAll(f, S) = ReleaseAll(f, S)
  BY DEF Service!ReleaseAll, ReleaseAll, Service!ReleasedRow, ReleasedRow
<1>4. ASSUME NEW p
      PROVE  Service!NewRow(p) = NewRow(p)
  BY DEF Service!NewRow, NewRow
<1>5. ASSUME NEW row
      PROVE  Service!CapturedRow(row) = CapturedRow(row)
  BY DEF Service!CapturedRow, CapturedRow
<1> QED
  BY <1>1, <1>2, <1>3, <1>4, <1>5

\* Nothing advances when the service is not called.
LEMMA StutterAdvances ==
  ASSUME TypeOK, UNCHANGED service
  PROVE  Advances /\ Captured(usage') = Captured(usage)
BY DEF TypeOK, Advances, service

\* A row that has a hold is a job of the table, and settling it keeps its payload.
LEMMA HeldRow ==
  ASSUME TypeOK, NEW k \in Held(usage)
  PROVE  /\ ReleasedRow(usage[k]) \in UsageRow /\ ReleasedRow(usage[k]).pay = usage[k].pay
         /\ ReleasedRow(usage[k]).hold = "released"
         /\ CapturedRow(usage[k]) \in UsageRow /\ CapturedRow(usage[k]).pay = usage[k].pay
         /\ CapturedRow(usage[k]).hold = "captured"
<1>1. usage[k] \in [job : JobStatus, hold : HoldStatus, pay : Payloads]
  BY DEF TypeOK, Held, UsageRow, NoRow
<1> QED
  BY <1>1 DEF ReleasedRow, CapturedRow, UsageRow, JobStatus, HoldStatus

\* Releasing held holds keeps the rows, and charges nothing.
LEMMA ReleaseRows ==
  ASSUME TypeOK, NEW S \in SUBSET Held(usage)
  PROVE  /\ ReleaseAll(usage, S) \in [Keys -> UsageRow]
         /\ Captured(ReleaseAll(usage, S)) = Captured(usage)
<1>1. ASSUME NEW k \in Keys
      PROVE  /\ ReleaseAll(usage, S)[k] \in UsageRow
             /\ ReleaseAll(usage, S)[k].hold = IF k \in S THEN "released" ELSE usage[k].hold
  <2>1. k \in S => k \in Held(usage)
    OBVIOUS
  <2> QED
    BY <1>1, <2>1, HeldRow DEF ReleaseAll, TypeOK
<1>2. \A k \in S : usage[k].hold = "held"
  BY DEF Held
<1> QED
  BY <1>1, <1>2 DEF ReleaseAll, Captured

\* Releasing held holds.
LEMMA ReleaseAdvances ==
  ASSUME TypeOK, NEW S, Service!Release(S)
  PROVE  /\ Advances /\ S \subseteq Held(usage)
         /\ Captured(usage') \subseteq Captured(usage)
         /\ \A k \in S : usage'[k].hold = "released"
<1>1. S \subseteq Held(usage) /\ usage' = ReleaseAll(usage, S) /\ funded' = funded
  BY ServiceNames DEF Service!Release
<1>2. /\ usage' \in [Keys -> UsageRow] /\ Captured(usage') = Captured(usage)
  BY <1>1, ReleaseRows
<1>3. \A k \in Keys : usage'[k] = IF k \in S THEN ReleasedRow(usage[k]) ELSE usage[k]
  BY <1>1 DEF ReleaseAll
<1>4. \A k \in S : k \in Keys /\ usage[k].hold = "held"
  BY <1>1 DEF Held
<1>5. \A k \in S : ReleasedRow(usage[k]).pay = usage[k].pay
                   /\ ReleasedRow(usage[k]).hold = "released"
  BY <1>1, HeldRow
<1> QED
  BY <1>1, <1>2, <1>3, <1>4, <1>5 DEF Advances, TypeOK

\* Reserving for a key that has no usage job.
LEMMA ReserveAdvances ==
  ASSUME TypeOK, NEW S, NEW k \in Keys, NEW p \in Payloads, Service!Reserve(S, k, p)
  PROVE  /\ Advances
         /\ Captured(usage') \subseteq Captured(usage)
         /\ usage'[k] = NewRow(p)
<1> DEFINE f == ReleaseAll(usage, S)
<1>1. /\ S \subseteq Held(usage) /\ usage[k] = NoRow /\ funded' = funded
      /\ usage' = [f EXCEPT ![k] = NewRow(p)]
  BY ServiceNames DEF Service!Reserve
<1>2. f \in [Keys -> UsageRow] /\ Captured(f) = Captured(usage)
  BY <1>1, ReleaseRows
<1>3. \A j \in Keys : f[j] = IF j \in S THEN ReleasedRow(usage[j]) ELSE usage[j]
  BY DEF ReleaseAll
<1> HIDE DEF f
<1>4. NewRow(p) \in UsageRow /\ NewRow(p).hold = "held"
  BY DEF NewRow, UsageRow, JobStatus, HoldStatus
<1>5. usage'[k] = NewRow(p) /\ \A j \in Keys \ {k} : usage'[j] = f[j]
  BY <1>1, <1>2
<1>6. Captured(usage') \subseteq Captured(usage)
  BY <1>2, <1>4, <1>5 DEF Captured
<1>7. \A j \in S : ReleasedRow(usage[j]).pay = usage[j].pay /\ usage[j].hold = "held"
  BY <1>1, HeldRow DEF Held
<1>8. ASSUME NEW j \in Keys
      PROVE  /\ usage[j] # NoRow => usage'[j].pay = usage[j].pay
             /\ usage[j].hold \in {"captured", "released"} => usage'[j] = usage[j]
  BY <1>1, <1>3, <1>5, <1>7 DEF NoRow
<1>9. usage' \in [Keys -> UsageRow] /\ funded' \in Int
  BY <1>1, <1>2, <1>4 DEF TypeOK
<1> QED
  BY <1>5, <1>6, <1>8, <1>9 DEF Advances

\* Capturing a held hold.
LEMMA CaptureAdvances ==
  ASSUME TypeOK, NEW k \in Keys, Service!Capture(k)
  PROVE  /\ Advances
         /\ Captured(usage') \subseteq Captured(usage) \union {k}
         /\ usage'[k].hold = "captured"
<1>1. /\ usage[k].hold = "held" /\ funded' = funded
      /\ usage' = [usage EXCEPT ![k] = CapturedRow(usage[k])]
  BY ServiceNames DEF Service!Capture
<1>2. k \in Held(usage)
  BY <1>1 DEF Held
<1>3. /\ CapturedRow(usage[k]) \in UsageRow /\ CapturedRow(usage[k]).pay = usage[k].pay
      /\ CapturedRow(usage[k]).hold = "captured"
  BY <1>2, HeldRow
<1>4. usage'[k] = CapturedRow(usage[k]) /\ \A j \in Keys \ {k} : usage'[j] = usage[j]
  BY <1>1 DEF TypeOK
<1>5. usage' \in [Keys -> UsageRow] /\ funded' \in Int
  BY <1>1, <1>3 DEF TypeOK
<1> QED
  BY <1>1, <1>3, <1>4, <1>5 DEF Advances, Captured

-----------------------------------------------------------------------------
\* What was asked of the service for a submission stays true of it.
LEMMA HoldStays ==
  ASSUME NEW s \in Submission, NEW h, HoldInv(s, h), Advances
  PROVE  /\ Billed(s) <=> h # "none"
         /\ Billed(s) => usage'[s.key].pay = PayloadOf[s.print]
<1>1. s.key \in Keys /\ s.print \in Prints /\ PayloadOf[s.print] \in Payloads \union {NoPayload}
  BY JobsAssumption DEF Submission
<1>2. NoRow.pay = NoPayload /\ NoPayload \notin Payloads
  BY UnitsAssumption DEF NoRow
<1> QED
  BY <1>1, <1>2 DEF HoldInv, Billed, Advances

\* While the jobs are not touched, they keep what they have at the service.
LEMMA JobsKeep ==
  ASSUME IInv, Advances, UNCHANGED <<job, worker>>, delivered \subseteq delivered'
  PROVE  (\A j \in JobIds : JobInv(j)') /\ StoredIsSettled'
<1> USE DEF IInv
<1>1. ASSUME NEW j \in JobIds, job[j] # NoJob
      PROVE  job[j].sub \in Submission /\ job[j].sub.key \in Keys
  BY <1>1 DEF TypeOK, JobRow, Submission
<1>2. ASSUME NEW j \in JobIds
      PROVE  JobInv(j)'
  <2>1. JobInv(j) /\ job'[j] = job[j] /\ worker'[j] = worker[j]
    OBVIOUS
  <2>2. job[j] # NoJob => HoldInv(job[j].sub, job[j].hold)'
    BY <1>1, <2>1, HoldStays DEF JobInv, HoldInv, Billed
  <2> QED
    BY <2>1, <2>2 DEF JobInv, HoldInv, Billed
<1>3. StoredIsSettled'
  BY <1>1 DEF StoredIsSettled, Advances, Jobs, Billed
<1> QED
  BY <1>2, <1>3

\* A caller that does not move keeps its part while the jobs keep their submissions.
LEMMA CallerKeeps ==
  ASSUME TypeOK, Advances, NEW c \in Callers, CallerInv(c),
         pc'[c] = pc[c], sub'[c] = sub[c], granted'[c] = granted[c], reply'[c] = reply[c],
         \A j \in JobIds : job[j] # NoJob => job'[j] # NoJob /\ job'[j].sub = job[j].sub
  PROVE  CallerInv(c)'
<1>1. pc[c] = "register" => HoldInv(sub[c], granted[c])'
  <2>1. pc[c] = "register" => sub[c] \in Submission /\ HoldInv(sub[c], granted[c])
    BY DEF CallerInv
  <2> QED
    BY <2>1, HoldStays DEF HoldInv, Billed
<1>2. reply[c] \in JobIds \union {NoId}
  BY DEF TypeOK
<1> QED
  BY <1>1, <1>2 DEF CallerInv, Billed

\* The callers inside create_job are finitely many; one enters or leaves at a time.
LEMMA InsideCount ==
  ASSUME NEW c \in Callers
  PROVE  /\ IsFiniteSet(Inside) /\ Cardinality(Inside) \in Nat
         /\ Inside' \subseteq Inside
              => Cardinality(Inside') \in Nat /\ Cardinality(Inside') <= Cardinality(Inside)
         /\ Inside' \subseteq Inside \union {c}
              => Cardinality(Inside') \in Nat /\ Cardinality(Inside') <= Cardinality(Inside) + 1
         /\ c \in Inside /\ Inside' = Inside \ {c}
              => /\ Cardinality(Inside') = Cardinality(Inside) - 1
                 /\ Cardinality(Inside') \in Nat
<1>1. IsFiniteSet(Callers)
  BY JobsAssumption
<1>2. IsFiniteSet(Inside)
  BY <1>1, FS_Subset DEF Inside
<1>3. /\ IsFiniteSet(Inside \union {c})
      /\ Cardinality(Inside \union {c}) \in {Cardinality(Inside), Cardinality(Inside) + 1}
  BY <1>2, FS_AddElement
<1>4. Cardinality(Inside) \in Nat /\ Cardinality(Inside \union {c}) \in Nat
  BY <1>2, <1>3, FS_CardinalityType
<1>5. ASSUME NEW T, Inside' \subseteq T, IsFiniteSet(T)
      PROVE  Cardinality(Inside') \in Nat /\ Cardinality(Inside') <= Cardinality(T)
  BY <1>5, FS_Subset, FS_CardinalityType
<1>6. ASSUME c \in Inside, Inside' = Inside \ {c}
      PROVE  /\ Cardinality(Inside') = Cardinality(Inside) - 1
             /\ Cardinality(Inside') \in Nat
  <2>1. IsFiniteSet(Inside \ {c}) /\ Cardinality(Inside \ {c}) = Cardinality(Inside) - 1
    BY <1>2, <1>6, FS_RemoveElement
  <2> QED
    BY <1>6, <2>1, FS_CardinalityType
<1> QED
  BY <1>2, <1>3, <1>4, <1>5, <1>6

-----------------------------------------------------------------------------
\* A step of one caller that leaves the jobs alone.
LEMMA CallerStepKeeps ==
  ASSUME IInv, NEW c \in Callers, UNCHANGED memory,
         Advances, Captured(usage') \subseteq Captured(usage),
         NEW at \in {"idle", "authorize", "register"}, pc' = [pc EXCEPT ![c] = at],
         sub' \in [Callers -> Submission \union {NoSubmission}],
         granted' \in [Callers -> JobStatus \union {"none"}],
         reply' \in [Callers -> JobIds \union {NoId}],
         \A q \in Callers \ {c} :
           sub'[q] = sub[q] /\ granted'[q] = granted[q] /\ reply'[q] = reply[q],
         pc[c] = "idle" => IdsLeft,
         CallerInv(c)'
  PROVE  IInv'
<1> USE DEF IInv
<1>1. TypeOK'
  BY DEF TypeOK, Advances, memory
<1>2. (\A j \in JobIds : JobInv(j)') /\ StoredIsSettled'
  BY JobsKeep DEF memory
<1>3. ASSUME NEW q \in Callers \ {c}
      PROVE  CallerInv(q)'
  BY CallerKeeps DEF TypeOK, memory
<1>4. ChargedForWork'
  BY DEF ChargedForWork, memory
<1>5. nextId' + Cardinality(Inside') <= MaxJobs + 1
  <2>1. nextId' = nextId /\ nextId \in Nat /\ MaxJobs \in Nat
    BY JobsAssumption DEF TypeOK, memory
  <2>2. nextId + Cardinality(Inside) <= MaxJobs + 1 /\ Cardinality(Inside) \in Nat
    BY InsideCount DEF IndexInv
  <2>3. CASE pc[c] = "idle"
    <3>1. Inside' \subseteq Inside \union {c}
      BY DEF Inside, TypeOK
    <3>2. Cardinality(Inside') \in Nat /\ Cardinality(Inside') <= Cardinality(Inside) + 1
      BY <3>1, InsideCount
    <3> QED
      BY <2>1, <2>2, <2>3, <3>2 DEF IdsLeft
  <2>4. CASE pc[c] # "idle"
    <3>1. Inside' \subseteq Inside
      BY <2>4 DEF Inside, TypeOK
    <3>2. Cardinality(Inside') \in Nat /\ Cardinality(Inside') <= Cardinality(Inside)
      BY <3>1, InsideCount
    <3> QED
      BY <2>1, <2>2, <3>2
  <2> QED
    BY <2>3, <2>4
<1>6. IndexInv'
  BY <1>5 DEF IndexInv, Jobs, memory
<1> QED
  BY <1>1, <1>2, <1>3, <1>4, <1>6

\* The idempotency lookup answers with the job of the same submission or with an error.
LEMMA ReplayAnswer ==
  ASSUME IInv, NEW c \in Callers, NEW s \in Submission, Replay(c, s)
  PROVE  \E r \in JobIds \union {NoId} :
           /\ Return(c, r)
           /\ r # NoId => job[r] # NoJob /\ job[r].sub = s
<1> DEFINE j == byKey[Slot(s)]
<1>1. Slot(s) \in Scopes \X Keys /\ j \in JobIds /\ j # NoId
  BY DEF Slot, Submission, IInv, TypeOK, Replay
<1>2. job[j] # NoJob /\ Slot(job[j].sub) = Slot(s)
  BY <1>1 DEF IInv, IndexInv
<1>3. job[j].sub \in Submission
  BY <1>1, <1>2 DEF IInv, TypeOK, JobRow
<1>4. job[j].sub.print = s.print => job[j].sub = s
  BY <1>2, <1>3 DEF Slot, Submission
<1> QED
  BY <1>1, <1>2, <1>4 DEF Replay

\* create_job begins: the first critical section.
LEMMA SubmitKeeps ==
  ASSUME IInv, NEW c \in Callers, NEW s \in Submission, Submit(c, s)
  PROVE  IInv'
<1>1. /\ pc[c] = "idle" /\ IdsLeft /\ UNCHANGED memory /\ UNCHANGED service
      /\ sub' = [sub EXCEPT ![c] = s] /\ granted' = [granted EXCEPT ![c] = "none"]
  BY DEF Submit
<1>2. TypeOK /\ sub' \in [Callers -> Submission \union {NoSubmission}] /\ sub'[c] = s
      /\ granted' \in [Callers -> JobStatus \union {"none"}] /\ granted'[c] = "none"
      /\ \A q \in Callers \ {c} : sub'[q] = sub[q] /\ granted'[q] = granted[q]
  BY <1>1 DEF IInv, TypeOK
<1>3. Advances /\ Captured(usage') = Captured(usage)
  BY <1>1, <1>2, StutterAdvances
<1>4. CASE Replay(c, s)
  <2>1. PICK r \in JobIds \union {NoId} :
          /\ Return(c, r)
          /\ r # NoId => job[r] # NoJob /\ job[r].sub = s
    BY <1>4, ReplayAnswer
  <2>2. /\ pc' = [pc EXCEPT ![c] = "idle"] /\ pc'[c] = "idle"
        /\ reply' \in [Callers -> JobIds \union {NoId}] /\ reply'[c] = r
        /\ \A q \in Callers \ {c} : reply'[q] = reply[q]
    BY <1>2, <2>1 DEF Return, TypeOK
  <2>3. CallerInv(c)'
    BY <1>1, <1>2, <2>1, <2>2 DEF CallerInv, memory
  <2> QED
    BY <1>1, <1>2, <1>3, <2>2, <2>3, CallerStepKeeps
<1>5. CASE pc' = [pc EXCEPT ![c] = IF Billed(s) THEN "authorize" ELSE "register"]
           /\ UNCHANGED reply
  <2>1. PICK at \in {"authorize", "register"} :
          /\ pc' = [pc EXCEPT ![c] = at]
          /\ at = "authorize" <=> Billed(s)
    BY <1>5
  <2>2. pc'[c] = at
    BY <1>2, <2>1 DEF TypeOK
  <2>3. CallerInv(c)'
    BY <1>2, <2>1, <2>2 DEF CallerInv, HoldInv, Billed
  <2>4. reply' \in [Callers -> JobIds \union {NoId}] /\ reply' = reply
    BY <1>2, <1>5 DEF TypeOK
  <2> QED
    BY <1>1, <1>2, <1>3, <2>1, <2>3, <2>4, CallerStepKeeps
<1> QED
  BY <1>4, <1>5 DEF Submit

\* The service found a usage job for the key, of the payload that was asked for.
LEMMA Granted ==
  ASSUME TypeOK, NEW s \in Submission, Billed(s),
         GrantHold(s.key, PayloadOf[s.print]) \/ FindHold(s.key, PayloadOf[s.print])
  PROVE  /\ Advances /\ Captured(usage') \subseteq Captured(usage)
         /\ usage'[s.key].job \in JobStatus
         /\ usage'[s.key].pay = PayloadOf[s.print]
<1> DEFINE k == s.key
           p == PayloadOf[s.print]
<1>1. k \in Keys /\ p \in Payloads /\ usage[k] \in UsageRow
  BY JobsAssumption DEF Submission, Billed, TypeOK
<1>2. CASE GrantHold(k, p)
  <2>1. PICK S \in SUBSET Held(usage) : Service!Reserve(S, k, p)
    BY <1>2 DEF GrantHold
  <2>2. Advances /\ Captured(usage') \subseteq Captured(usage) /\ usage'[k] = NewRow(p)
    BY <1>1, <2>1, ReserveAdvances
  <2> QED
    BY <2>2 DEF NewRow, JobStatus
<1>3. CASE FindHold(k, p)
  <2>1. PICK S \in SUBSET Held(usage) : usage[k].pay = p /\ Service!Release(S)
    BY <1>3 DEF FindHold
  <2>2. Advances /\ Captured(usage') \subseteq Captured(usage)
    BY <2>1, ReleaseAdvances
  <2>3. usage[k] # NoRow
    BY <1>1, <2>1, UnitsAssumption DEF NoRow
  <2>4. usage'[k].pay = p /\ usage'[k] \in UsageRow
    BY <1>1, <2>1, <2>2, <2>3 DEF Advances
  <2>5. usage'[k].job \in JobStatus
    BY <1>1, <2>4, UnitsAssumption DEF UsageRow, NoRow
  <2> QED
    BY <2>2, <2>4, <2>5
<1> QED
  BY <1>2, <1>3

\* POST /usage/jobs, answered or not.
LEMMA AuthorizeKeeps ==
  ASSUME IInv, NEW c \in Callers, Authorize(c) \/ AuthorizeFails(c)
  PROVE  IInv'
<1> DEFINE s == sub[c]
<1>1. /\ pc[c] = "authorize" /\ UNCHANGED memory /\ sub' = sub
      /\ TypeOK /\ s \in Submission /\ Billed(s)
  BY DEF Authorize, AuthorizeFails, IInv, CallerInv
<1>2. sub' \in [Callers -> Submission \union {NoSubmission}]
  BY <1>1 DEF TypeOK
<1>3. CASE Authorize(c)
  <2>1. /\ GrantHold(s.key, PayloadOf[s.print]) \/ FindHold(s.key, PayloadOf[s.print])
        /\ granted' = [granted EXCEPT ![c] = usage'[s.key].job]
        /\ pc' = [pc EXCEPT ![c] = "register"] /\ reply' = reply
    BY <1>3 DEF Authorize
  <2>2. /\ Advances /\ Captured(usage') \subseteq Captured(usage)
        /\ usage'[s.key].job \in JobStatus
        /\ usage'[s.key].pay = PayloadOf[s.print]
    BY <1>1, <2>1, Granted
  <2>3. /\ granted' \in [Callers -> JobStatus \union {"none"}]
        /\ reply' \in [Callers -> JobIds \union {NoId}]
        /\ granted'[c] \in JobStatus /\ pc'[c] = "register"
        /\ \A q \in Callers \ {c} : granted'[q] = granted[q]
    BY <1>1, <2>1, <2>2 DEF TypeOK
  <2>4. CallerInv(c)'
    BY <1>1, <2>2, <2>3 DEF CallerInv, HoldInv, Billed, JobStatus
  <2> QED
    BY <1>1, <1>2, <2>1, <2>2, <2>3, <2>4, CallerStepKeeps
<1>4. CASE AuthorizeFails(c)
  <2>1. /\ UNCHANGED service \/ GrantHold(s.key, PayloadOf[s.print])
        /\ Return(c, NoId) /\ granted' = granted
    BY <1>4 DEF AuthorizeFails
  <2>2. Advances /\ Captured(usage') \subseteq Captured(usage)
    BY <1>1, <2>1, Granted, StutterAdvances
  <2>3. /\ granted' \in [Callers -> JobStatus \union {"none"}]
        /\ reply' \in [Callers -> JobIds \union {NoId}]
        /\ pc' = [pc EXCEPT ![c] = "idle"]
        /\ reply'[c] = NoId /\ pc'[c] = "idle"
        /\ \A q \in Callers \ {c} : reply'[q] = reply[q]
    BY <1>1, <2>1 DEF TypeOK, Return
  <2>4. CallerInv(c)'
    BY <2>3 DEF CallerInv
  <2> QED
    BY <1>1, <1>2, <2>1, <2>2, <2>3, <2>4, CallerStepKeeps
<1> QED
  BY <1>3, <1>4

\* The second critical section.  The slot is free and the id is new, so the insert
\* gives the slot its only job.
LEMMA RegisterKeeps ==
  ASSUME IInv, NEW c \in Callers, Register(c)
  PROVE  IInv'
<1> DEFINE s == sub[c]
           n == nextId
<1>1. /\ pc[c] = "register" /\ UNCHANGED service /\ sub' = sub /\ granted' = granted
      /\ TypeOK /\ s \in Submission /\ HoldInv(s, granted[c]) /\ granted[c] \in JobStatus \union {"none"}
  BY DEF Register, IInv, CallerInv, TypeOK
<1>2. Advances /\ Captured(usage') = Captured(usage)
  BY <1>1, StutterAdvances
<1>3. CASE Replay(c, s) /\ UNCHANGED memory
  <2>1. PICK r \in JobIds \union {NoId} :
          /\ Return(c, r)
          /\ r # NoId => job[r] # NoJob /\ job[r].sub = s
    BY <1>1, <1>3, ReplayAnswer
  <2>2. /\ pc' = [pc EXCEPT ![c] = "idle"] /\ pc'[c] = "idle"
        /\ reply' \in [Callers -> JobIds \union {NoId}] /\ reply'[c] = r
        /\ \A q \in Callers \ {c} : reply'[q] = reply[q]
        /\ sub' \in [Callers -> Submission \union {NoSubmission}]
        /\ granted' \in [Callers -> JobStatus \union {"none"}]
    BY <1>1, <2>1 DEF Return, TypeOK
  <2>3. CallerInv(c)'
    BY <1>1, <1>3, <2>1, <2>2 DEF CallerInv, memory
  <2> QED
    BY <1>1, <1>2, <1>3, <2>2, <2>3, CallerStepKeeps
<1>4. CASE ~(Replay(c, s) /\ UNCHANGED memory)
  <2> DEFINE row == [status |-> "queued", sub |-> s, hold |-> granted[c], billing |-> "ok"]
  <2>0. PICK w \in {"start", "unstarted"}, r \in {n, NoId} :
             worker' = [worker EXCEPT ![n] = w] /\ Return(c, r)
    BY <1>1, <1>4 DEF Register, StartThread
  <2>1. /\ byKey[Slot(s)] = NoId
        /\ job' = [job EXCEPT ![n] = row]
        /\ byKey' = [byKey EXCEPT ![Slot(s)] = n]
        /\ worker' = [worker EXCEPT ![n] = w]
        /\ nextId' = n + 1
        /\ Return(c, r)
        /\ UNCHANGED <<delivered, restarts>>
    BY <1>1, <1>4, <2>0 DEF Register
  <2>2. c \in Inside /\ Inside' = Inside \ {c}
    BY <1>1, <2>1 DEF Inside, Return, TypeOK
  <2>3. /\ Cardinality(Inside) \in Nat /\ Cardinality(Inside') = Cardinality(Inside) - 1
        /\ Cardinality(Inside') \in Nat
        /\ n \in Nat \ {0} /\ MaxJobs \in Nat
        /\ n + Cardinality(Inside) <= MaxJobs + 1
    BY <2>2, InsideCount, JobsAssumption DEF IInv, IndexInv, TypeOK
  <2>4. n \in JobIds /\ nextId' + Cardinality(Inside') <= MaxJobs + 1
    <3> DEFINE a == Cardinality(Inside)
               b == Cardinality(Inside')
    <3>1. /\ a \in Nat /\ b \in Nat /\ b = a - 1 /\ n + a <= MaxJobs + 1 /\ nextId' = n + 1
      BY <2>1, <2>3
    <3> HIDE DEF a, b, n
    <3>2. n \in 1..MaxJobs /\ nextId' + b <= MaxJobs + 1
      BY <2>3, <3>1
    <3> QED
      BY <3>2 DEF JobIds, b
  <2>5. job[n] = NoJob /\ Slot(s) \in Scopes \X Keys
    BY <1>1, <2>3, <2>4 DEF IInv, IndexInv, Slot, Submission
  <2>6. row \in JobRow /\ row # NoJob
    <3>1. row.status # NoJob.status
      BY DEF NoJob
    <3> QED
      BY <1>1, <3>1 DEF JobRow, Terminal
  <2> HIDE DEF row
  <2>7. /\ job'[n] = row /\ \A j \in JobIds \ {n} : job'[j] = job[j]
        /\ worker'[n] = w /\ \A j \in JobIds \ {n} : worker'[j] = worker[j]
        /\ byKey'[Slot(s)] = n /\ \A t \in (Scopes \X Keys) \ {Slot(s)} : byKey'[t] = byKey[t]
        /\ pc'[c] = "idle" /\ \A q \in Callers \ {c} : pc'[q] = pc[q]
        /\ reply'[c] = r /\ \A q \in Callers \ {c} : reply'[q] = reply[q]
        /\ row.sub = s /\ row.status = "queued" /\ row.hold = granted[c]
    BY <1>1, <2>1, <2>4, <2>5 DEF TypeOK, Return, row
  <2>8. TypeOK'
    <3>1. /\ job' \in [JobIds -> JobRow]
          /\ byKey' \in [Scopes \X Keys -> JobIds \union {NoId}]
          /\ worker' \in [JobIds -> {"none", "start", "run", "done"} \union Lost \union Terminal]
      BY <1>1, <2>1, <2>4, <2>5, <2>6 DEF TypeOK, Lost
    <3>2. nextId' \in Nat \ {0}
      BY <2>1, <2>3
    <3>3. /\ pc' \in [Callers -> {"idle", "authorize", "register"}]
          /\ reply' \in [Callers -> JobIds \union {NoId}]
      BY <1>1, <2>1, <2>4 DEF TypeOK, Return
    <3> QED
      BY <1>1, <1>2, <2>1, <3>1, <3>2, <3>3 DEF TypeOK, Advances
  <2>9. IndexInv'
    <3>1. ASSUME NEW slot \in Scopes \X Keys, byKey'[slot] # NoId
          PROVE  job'[byKey'[slot]] # NoJob /\ Slot(job'[byKey'[slot]].sub) = slot
      <4>1. CASE slot = Slot(s)
        BY <2>6, <2>7, <4>1
      <4>2. CASE slot # Slot(s)
        <5>1. byKey'[slot] = byKey[slot] /\ byKey[slot] \in JobIds
          BY <1>1, <2>7, <3>1, <4>2 DEF TypeOK
        <5>2. job[byKey[slot]] # NoJob /\ Slot(job[byKey[slot]].sub) = slot
          BY <3>1, <5>1 DEF IInv, IndexInv
        <5> QED
          BY <2>5, <2>7, <5>1, <5>2
      <4> QED
        BY <4>1, <4>2
    <3>2. ASSUME NEW j \in JobIds, job'[j] # NoJob
          PROVE  byKey'[Slot(job'[j].sub)] = j
      <4>1. CASE j = n
        BY <2>7, <4>1
      <4>2. CASE j # n
        <5>1. job[j] # NoJob /\ job'[j] = job[j]
          BY <2>7, <3>2, <4>2
        <5>2. byKey[Slot(job[j].sub)] = j /\ j # NoId
          BY <5>1, JobsAssumption DEF IInv, IndexInv, Jobs, JobIds
        <5>3. Slot(job[j].sub) \in Scopes \X Keys
          BY <1>1, <5>1 DEF TypeOK, JobRow, Slot, Submission
        <5> QED
          BY <2>1, <2>7, <5>1, <5>2, <5>3
      <4> QED
        BY <4>1, <4>2
    <3>3. ASSUME NEW j \in JobIds, j >= nextId'
          PROVE  job'[j] = NoJob
      <4>1. j \in Int /\ n \in Int /\ nextId' = n + 1
        BY <2>1, <2>3 DEF JobIds
      <4>2. j # n /\ j >= n
        <5> HIDE DEF n
        <5> QED
          BY <3>3, <4>1
      <4> QED
        BY <2>7, <4>2 DEF IInv, IndexInv
    <3> QED
      BY <2>4, <3>1, <3>2, <3>3 DEF IndexInv, Jobs
  <2>10. ASSUME NEW q \in Callers
         PROVE  CallerInv(q)'
    <3>1. CASE q = c
      BY <1>1, <2>6, <2>7, <3>1 DEF CallerInv
    <3>2. CASE q # c
      <4>1. \A j \in JobIds : job[j] # NoJob => job'[j] # NoJob /\ job'[j].sub = job[j].sub
        BY <2>5, <2>7
      <4>2. CallerInv(q)
        BY DEF IInv
      <4> QED
        BY <1>1, <1>2, <2>7, <3>2, <4>1, <4>2, CallerKeeps
    <3> QED
      BY <3>1, <3>2
  <2>11. ASSUME NEW j \in JobIds
         PROVE  JobInv(j)'
    <3>0. usage' = usage /\ delivered' = delivered
      BY <1>1, <2>1 DEF service
    <3>1. CASE j = n
      BY <1>1, <2>6, <2>7, <3>0, <3>1 DEF JobInv, HoldInv, Billed, Terminal
    <3>2. CASE j # n
      <4>1. JobInv(j) /\ job'[j] = job[j] /\ worker'[j] = worker[j]
        BY <2>7, <3>2 DEF IInv
      <4> QED
        BY <3>0, <4>1 DEF JobInv, HoldInv, Billed
    <3> QED
      BY <3>1, <3>2
  <2>12. StoredIsSettled'
    <3>1. usage' = usage
      BY <1>1 DEF service
    <3>2. row.status \notin Terminal
      BY <2>7 DEF Terminal
    <3> QED
      BY <2>7, <3>1, <3>2 DEF IInv, StoredIsSettled, Jobs, Billed
  <2>13. ChargedForWork'
    BY <1>2, <2>1 DEF IInv, ChargedForWork
  <2> QED
    BY <2>8, <2>9, <2>10, <2>11, <2>12, <2>13 DEF IInv
<1> QED
  BY <1>3, <1>4

-----------------------------------------------------------------------------
\* A step of one thread: it moves its worker and may store a status and a billing
\* mark, never the submission or the hold of its job.
LEMMA ThreadStepKeeps ==
  ASSUME IInv, NEW j \in JobIds, worker[j] # "none", UNCHANGED callers,
         UNCHANGED <<byKey, nextId, restarts>>,
         Advances, Captured(usage') \subseteq delivered',
         delivered \subseteq delivered', delivered' \subseteq Keys,
         NEW row \in JobRow, job' = [job EXCEPT ![j] = row],
         row # NoJob, row.sub = job[j].sub, row.hold = job[j].hold,
         NEW at \in {"run", "done", "stopped", "unanswered"} \union Terminal,
         worker' = [worker EXCEPT ![j] = at],
         at # "done" => row.status = "running",
         row.status = "succeeded" => row.billing = "ok",
         at \in {"succeeded", "partial"} => job[j].sub.key \in delivered',
         at = "done" /\ row.billing = "ok" /\ Billed(job[j].sub) =>
           usage'[job[j].sub.key].hold = IF row.status = "failed" THEN "released" ELSE "captured"
  PROVE  IInv'
<1> USE DEF IInv
<1>1. /\ TypeOK /\ job[j] # NoJob
      /\ job'[j] = row /\ \A i \in JobIds \ {j} : job'[i] = job[i]
      /\ worker'[j] = at /\ \A i \in JobIds \ {j} : worker'[i] = worker[i]
  BY DEF TypeOK, JobInv
<1>2. TypeOK'
  <2>1. /\ job' \in [JobIds -> JobRow]
        /\ worker' \in [JobIds -> {"none", "start", "run", "done"} \union Lost \union Terminal]
    BY <1>1 DEF TypeOK, Lost
  <2> QED
    BY <1>1, <2>1 DEF TypeOK, Advances, callers
<1>3. \A i \in JobIds : /\ job'[i] = NoJob <=> job[i] = NoJob
                        /\ job'[i].sub = job[i].sub /\ job'[i].hold = job[i].hold
  BY <1>1
<1>4. IndexInv'
  <2>1. Inside' = Inside
    BY DEF Inside, callers
  <2>2. \A slot \in Scopes \X Keys : byKey[slot] \in JobIds \union {NoId}
    BY <1>1 DEF TypeOK
  <2> QED
    BY <1>3, <2>1, <2>2 DEF IndexInv, Jobs
<1>5. ASSUME NEW c \in Callers
      PROVE  CallerInv(c)'
  BY <1>1, <1>3, CallerKeeps DEF callers
<1>6. ASSUME NEW i \in JobIds
      PROVE  JobInv(i)'
  <2>1. job[i] # NoJob =>
          /\ Billed(job[i].sub) <=> job[i].hold # "none"
          /\ Billed(job[i].sub) => usage'[job[i].sub.key].pay = PayloadOf[job[i].sub.print]
    <3>1. job[i] # NoJob => job[i].sub \in Submission /\ HoldInv(job[i].sub, job[i].hold)
      BY <1>1 DEF TypeOK, JobRow, JobInv
    <3> QED
      BY <3>1, HoldStays
  <2>2. job'[i] # NoJob => HoldInv(job[i].sub, job[i].hold)'
    BY <1>3, <2>1 DEF HoldInv, Billed
  <2>3. CASE i = j
    BY <1>1, <1>3, <2>2, <2>3 DEF JobInv, HoldInv, Billed, Terminal
  <2>4. CASE i # j
    BY <1>1, <1>3, <2>2, <2>4 DEF JobInv, HoldInv, Billed
  <2> QED
    BY <2>3, <2>4
<1>7. StoredIsSettled'
  <2>1. ASSUME NEW i \in Jobs', Billed(job'[i].sub),
               \/ job'[i].status = "succeeded"
               \/ job'[i].status \in Terminal /\ job'[i].billing = "ok"
        PROVE  usage'[job'[i].sub.key].hold
                 = IF job'[i].status = "failed" THEN "released" ELSE "captured"
    <3>1. i \in JobIds /\ job[i] # NoJob
      BY <1>3 DEF Jobs
    <3>2. CASE i = j
      BY <1>1, <2>1, <3>2 DEF Terminal
    <3>3. CASE i # j
      <4>1. job'[i] = job[i] /\ job[i].sub.key \in Keys
        BY <1>1, <3>1, <3>3 DEF TypeOK, JobRow, Submission
      <4> QED
        BY <2>1, <3>1, <4>1 DEF StoredIsSettled, Jobs, Advances
    <3> QED
      BY <3>2, <3>3
  <2> QED
    BY <2>1 DEF StoredIsSettled, Billed
<1> QED
  BY <1>2, <1>4, <1>5, <1>6, <1>7 DEF ChargedForWork

\* A job in memory that a thread still works on has its row.
LEMMA Worked ==
  ASSUME IInv, NEW j \in JobIds, worker[j] # "none"
  PROVE  /\ TypeOK /\ job[j] # NoJob
         /\ job[j] \in [status : {"queued", "running"} \union Terminal, sub : Submission,
                        hold : JobStatus \union {"none"}, billing : {"ok", "failed"}]
         /\ job[j].sub.key \in Keys
         /\ job[j] = [status |-> job[j].status, sub |-> job[j].sub,
                      hold |-> job[j].hold, billing |-> job[j].billing]
BY DEF IInv, TypeOK, JobInv, JobRow, Submission

\* The thread starts and runs the job.
LEMMA RunKeeps ==
  ASSUME IInv, NEW j \in JobIds, StartJob(j) \/ Execute(j)
  PROVE  IInv'
<1>1. /\ worker[j] # "none" /\ UNCHANGED <<service, callers, byKey, nextId, restarts>>
      /\ worker[j] \in {"start", "run"}
  BY DEF StartJob, Execute
<1>2. /\ TypeOK /\ job[j] # NoJob
      /\ job[j] \in [status : {"queued", "running"} \union Terminal, sub : Submission,
                     hold : JobStatus \union {"none"}, billing : {"ok", "failed"}]
      /\ job[j].sub.key \in Keys
  BY <1>1, Worked
<1>3. Advances /\ Captured(usage') = Captured(usage)
  BY <1>1, <1>2, StutterAdvances
<1>4. CASE StartJob(j)
  <2> DEFINE row == [job[j] EXCEPT !.status = "running"]
  <2>1. PICK at \in {"run", "stopped"} :
          job' = [job EXCEPT ![j] = row] /\ worker' = [worker EXCEPT ![j] = at] /\ delivered' = delivered
    BY <1>2, <1>4 DEF StartJob, TypeOK
  <2>2. /\ row \in JobRow /\ row.status = "running" /\ row.sub = job[j].sub
        /\ row.hold = job[j].hold /\ row # NoJob
    <3>1. row.status # NoJob.status
      BY <1>2 DEF NoJob
    <3> QED
      BY <1>2, <3>1 DEF JobRow
  <2> HIDE DEF row
  <2> QED
    BY <1>1, <1>2, <1>3, <2>1, <2>2, ThreadStepKeeps DEF IInv, ChargedForWork, TypeOK, Terminal
<1>5. CASE Execute(j)
  <2>1. PICK result \in Terminal \union {"stopped"} :
          /\ worker' = [worker EXCEPT ![j] = result]
          /\ delivered' = IF result \in {"failed", "stopped"} THEN delivered
                          ELSE delivered \union {job[j].sub.key}
    BY <1>5 DEF Execute
  <2>2. job' = [job EXCEPT ![j] = job[j]] /\ job[j] \in JobRow /\ job[j].status = "running"
    BY <1>1, <1>2, <1>5 DEF Execute, IInv, JobInv, TypeOK
  <2>3. /\ delivered \subseteq delivered' /\ delivered' \subseteq Keys
        /\ result \in {"succeeded", "partial"} => job[j].sub.key \in delivered'
        /\ Captured(usage') \subseteq delivered'
    BY <1>2, <1>3, <2>1 DEF IInv, ChargedForWork, TypeOK
  <2>4. result \in {"run", "done", "stopped", "unanswered"} \union Terminal /\ result # "done"
    BY <2>1 DEF Terminal
  <2> QED
    BY <1>1, <1>2, <1>3, <2>1, <2>2, <2>3, <2>4, ThreadStepKeeps
<1> QED
  BY <1>4, <1>5

\* A settled usage job is charged only for a success, which was delivered.
LEMMA SettlesRightly ==
  ASSUME IInv, NEW j \in JobIds, worker[j] \in Terminal, Settles(j)
  PROVE  /\ Advances /\ Captured(usage') \subseteq delivered
         /\ usage'[job[j].sub.key].hold
              = IF worker[j] = "failed" THEN "released" ELSE "captured"
<1> DEFINE k == job[j].sub.key
<1>1. TypeOK /\ k \in Keys /\ Captured(usage) \subseteq delivered
  BY Worked DEF Terminal, IInv, ChargedForWork
<1>2. CASE worker[j] \in {"succeeded", "partial"}
  <2>1. k \in delivered
    BY <1>2 DEF IInv, JobInv
  <2>2. Service!Capture(k) \/ (usage[k].hold = "captured" /\ UNCHANGED service)
    BY <1>2 DEF Settles
  <2>3. CASE Service!Capture(k)
    BY <1>1, <1>2, <2>1, <2>3, CaptureAdvances
  <2>4. CASE usage[k].hold = "captured" /\ UNCHANGED service
    BY <1>1, <1>2, <2>4, StutterAdvances DEF service
  <2> QED
    BY <2>2, <2>3, <2>4
<1>3. CASE worker[j] = "failed"
  <2>1. Service!Release({k}) \/ (usage[k].hold = "released" /\ UNCHANGED service)
    BY <1>3 DEF Settles
  <2>2. CASE Service!Release({k})
    BY <1>1, <1>3, <2>2, ReleaseAdvances
  <2>3. CASE usage[k].hold = "released" /\ UNCHANGED service
    BY <1>1, <1>3, <2>3, StutterAdvances DEF service
  <2> QED
    BY <2>1, <2>2, <2>3
<1> QED
  BY <1>2, <1>3 DEF Terminal

\* The row a thread stores keeps the submission and the hold.
LEMMA StoredRow ==
  ASSUME IInv, NEW j \in JobIds, worker[j] \in Terminal, NEW billing \in {"ok", "failed"},
         Store(j, billing)
  PROVE  \E row \in JobRow :
           /\ job' = [job EXCEPT ![j] = row] /\ worker' = [worker EXCEPT ![j] = "done"]
           /\ row # NoJob /\ row.sub = job[j].sub /\ row.hold = job[j].hold
           /\ row.billing = billing
           /\ billing = "ok" => row.status = worker[j]
           /\ row.status = "succeeded" => row.billing = "ok"
<1> DEFINE status == IF billing = "failed" /\ worker[j] = "succeeded" THEN "partial"
                     ELSE worker[j]
           row == [job[j] EXCEPT !.status = status, !.billing = billing]
<1>1. /\ TypeOK /\ job[j] \in [status : {"queued", "running"} \union Terminal, sub : Submission,
                               hold : JobStatus \union {"none"}, billing : {"ok", "failed"}]
  BY Worked DEF Terminal
<1>2. /\ status \in Terminal /\ (billing = "ok" => status = worker[j])
      /\ status = "succeeded" => billing = "ok"
  BY DEF Terminal
<1>3. job' = [job EXCEPT ![j] = row] /\ worker' = [worker EXCEPT ![j] = "done"]
  BY <1>1 DEF Store, TypeOK
<1> HIDE DEF status
<1>4. /\ row \in JobRow /\ row.sub = job[j].sub /\ row.hold = job[j].hold
      /\ row.billing = billing /\ row.status = status
  BY <1>1, <1>2 DEF JobRow
<1>5. row # NoJob
  <2>1. NoJob.status \notin Terminal
    BY DEF NoJob, Terminal
  <2> QED
    BY <1>2, <1>4, <2>1
<1> QED
  BY <1>2, <1>3, <1>4, <1>5

\* The thread ends: with a settled hold, with a billing error, or unanswered.
LEMMA FinishKeeps ==
  ASSUME IInv, NEW j \in JobIds,
         FinishUnbilled(j) \/ Settle(j) \/ SettleRefused(j) \/ SettleUnanswered(j)
  PROVE  IInv'
<1>1. /\ worker[j] \in Terminal /\ worker[j] # "none"
      /\ UNCHANGED callers /\ UNCHANGED <<byKey, nextId, restarts>> /\ delivered' = delivered
  BY DEF FinishUnbilled, Settle, SettleRefused, SettleUnanswered, Terminal
<1>2. /\ TypeOK /\ job[j] # NoJob /\ job[j] \in JobRow
      /\ Captured(usage) \subseteq delivered /\ delivered \subseteq Keys
      /\ Billed(job[j].sub) <=> job[j].hold # "none"
      /\ job[j].status = "running"
  BY <1>1 DEF IInv, ChargedForWork, TypeOK, JobInv, HoldInv
<1>3. CASE FinishUnbilled(j)
  <2>1. Store(j, "ok") /\ UNCHANGED service /\ ~Billed(job[j].sub)
    BY <1>2, <1>3 DEF FinishUnbilled
  <2>2. Advances /\ Captured(usage') \subseteq delivered'
    BY <1>1, <1>2, <2>1, StutterAdvances
  <2>3. PICK row \in JobRow :
           /\ job' = [job EXCEPT ![j] = row] /\ worker' = [worker EXCEPT ![j] = "done"]
           /\ row # NoJob /\ row.sub = job[j].sub /\ row.hold = job[j].hold
           /\ row.status = "succeeded" => row.billing = "ok"
    BY <1>1, <2>1, StoredRow
  <2> QED
    BY <1>1, <1>2, <2>1, <2>2, <2>3, ThreadStepKeeps
<1>4. CASE Settle(j)
  <2>1. Store(j, "ok") /\ Settles(j)
    BY <1>4 DEF Settle
  <2>2. /\ Advances /\ Captured(usage') \subseteq delivered'
        /\ usage'[job[j].sub.key].hold
             = IF worker[j] = "failed" THEN "released" ELSE "captured"
    BY <1>1, <2>1, SettlesRightly
  <2>3. PICK row \in JobRow :
           /\ job' = [job EXCEPT ![j] = row] /\ worker' = [worker EXCEPT ![j] = "done"]
           /\ row # NoJob /\ row.sub = job[j].sub /\ row.hold = job[j].hold
           /\ row.status = worker[j] /\ (row.status = "succeeded" => row.billing = "ok")
    BY <1>1, <2>1, StoredRow
  <2> QED
    BY <1>1, <1>2, <2>2, <2>3, ThreadStepKeeps
<1>5. CASE SettleRefused(j)
  <2>1. Store(j, "failed") /\ UNCHANGED service
    BY <1>5 DEF SettleRefused
  <2>2. Advances /\ Captured(usage') \subseteq delivered'
    BY <1>1, <1>2, <2>1, StutterAdvances
  <2>3. PICK row \in JobRow :
           /\ job' = [job EXCEPT ![j] = row] /\ worker' = [worker EXCEPT ![j] = "done"]
           /\ row # NoJob /\ row.sub = job[j].sub /\ row.hold = job[j].hold
           /\ row.billing = "failed" /\ (row.status = "succeeded" => row.billing = "ok")
    BY <1>1, <2>1, StoredRow
  <2> QED
    BY <1>1, <1>2, <2>2, <2>3, ThreadStepKeeps
<1>6. CASE SettleUnanswered(j)
  <2>1. /\ Settles(j) \/ UNCHANGED service
        /\ worker' = [worker EXCEPT ![j] = "unanswered"] /\ job' = [job EXCEPT ![j] = job[j]]
    BY <1>2, <1>6 DEF SettleUnanswered, TypeOK
  <2>2. Advances /\ Captured(usage') \subseteq delivered'
    BY <1>1, <1>2, <2>1, SettlesRightly, StutterAdvances
  <2> QED
    BY <1>1, <1>2, <2>1, <2>2, ThreadStepKeeps
<1> QED
  BY <1>3, <1>4, <1>5, <1>6

-----------------------------------------------------------------------------
\* A hold that expires at the service was not captured, so nothing settled moves.
LEMMA ExpiryKeeps ==
  ASSUME IInv, NEW k \in Keys, HoldExpires(k)
  PROVE  IInv'
<1>1. /\ TypeOK /\ Service!Release({k}) /\ UNCHANGED memory /\ UNCHANGED callers
  BY DEF IInv, HoldExpires
<1>2. Advances /\ Captured(usage') \subseteq Captured(usage)
  BY <1>1, ReleaseAdvances
<1>3. TypeOK'
  BY <1>1, <1>2 DEF TypeOK, Advances, memory, callers
<1>4. (\A j \in JobIds : JobInv(j)') /\ StoredIsSettled'
  BY <1>1, <1>2, JobsKeep DEF memory
<1>5. ASSUME NEW c \in Callers
      PROVE  CallerInv(c)'
  BY <1>1, <1>2, CallerKeeps DEF memory, callers, IInv
<1>6. IndexInv'
  <2>1. Inside' = Inside
    BY <1>1 DEF Inside, callers
  <2> QED
    BY <1>1, <2>1 DEF IInv, IndexInv, Jobs, memory
<1> QED
  BY <1>1, <1>2, <1>3, <1>4, <1>5, <1>6 DEF IInv, ChargedForWork, memory

\* A restart forgets jobs and callers; the ids it will give out are new ones.
LEMMA RestartKeeps ==
  ASSUME IInv, Restart
  PROVE  IInv'
<1>1. /\ TypeOK /\ usage' = usage /\ funded' = funded /\ nextId' = nextId
      /\ delivered' = delivered /\ sub' = sub /\ granted' = granted
      /\ restarts' = restarts + 1
      /\ job' = [j \in JobIds |-> NoJob] /\ byKey' = [slot \in Scopes \X Keys |-> NoId]
      /\ worker' = [j \in JobIds |-> "none"]
      /\ pc' = [c \in Callers |-> "idle"] /\ reply' = [c \in Callers |-> NoId]
  BY DEF IInv, Restart, service
<1>2. TypeOK'
  BY <1>1 DEF TypeOK, JobRow
<1>3. nextId' + Cardinality(Inside') <= MaxJobs + 1
  <2>1. Inside' = {}
    BY <1>1 DEF Inside
  <2>2. Cardinality(Inside') = 0
    BY <2>1, FS_EmptySet
  <2>3. Cardinality(Inside) \in Nat
    BY JobsAssumption, FS_Subset, FS_CardinalityType DEF Inside
  <2>4. nextId + Cardinality(Inside) <= MaxJobs + 1 /\ nextId \in Nat /\ MaxJobs \in Nat
    BY <1>1, JobsAssumption DEF IInv, IndexInv, TypeOK
  <2> QED
    BY <1>1, <2>2, <2>3, <2>4
<1>4. Jobs' = {}
  BY <1>1 DEF Jobs
<1>5. IndexInv' /\ StoredIsSettled'
  BY <1>1, <1>3, <1>4 DEF IndexInv, StoredIsSettled
<1>6. (\A j \in JobIds : JobInv(j)') /\ (\A c \in Callers : CallerInv(c)')
  BY <1>1 DEF JobInv, CallerInv, Terminal
<1> QED
  BY <1>1, <1>2, <1>5, <1>6 DEF IInv, ChargedForWork, Captured

\* Initially there is nothing anywhere.
LEMMA InitJobs == Init => IInv
<1> SUFFICES ASSUME Init
             PROVE  IInv
  OBVIOUS
<1> USE JobsAssumption
<1>1. usage = [k \in Keys |-> NoRow] /\ funded = InitialCredit
  BY ServiceNames DEF Init, Service!Init
<1>2. TypeOK
  BY <1>1 DEF Init, TypeOK, UsageRow, JobRow
<1>3. Jobs = {} /\ Inside = {} /\ Captured(usage) = {}
  BY <1>1 DEF Init, Jobs, Inside, Captured, NoRow
<1>4. nextId + Cardinality(Inside) <= MaxJobs + 1
  <2>1. Cardinality(Inside) = 0 /\ nextId = 1
    BY <1>3, FS_EmptySet DEF Init
  <2> QED
    BY <2>1
<1>5. IndexInv /\ StoredIsSettled /\ ChargedForWork
  BY <1>3, <1>4 DEF Init, IndexInv, StoredIsSettled, ChargedForWork
<1>6. (\A j \in JobIds : JobInv(j)) /\ (\A c \in Callers : CallerInv(c))
  BY DEF Init, JobInv, CallerInv, Terminal
<1> QED
  BY <1>2, <1>5, <1>6 DEF IInv

\* Every step keeps the invariant.
LEMMA NextJobs ==
  ASSUME IInv, [Next]_vars
  PROVE  IInv'
<1>1. CASE UNCHANGED vars
  <2>1. UNCHANGED service /\ UNCHANGED memory /\ UNCHANGED callers
    BY <1>1 DEF vars
  <2>2. TypeOK /\ Inside' = Inside /\ usage' = usage
    BY <2>1 DEF IInv, Inside, callers, service
  <2>3. Advances
    BY <2>1, <2>2, StutterAdvances
  <2>4. (\A j \in JobIds : JobInv(j)') /\ StoredIsSettled'
    BY <2>1, <2>3, JobsKeep DEF memory
  <2>5. ASSUME NEW c \in Callers
        PROVE  CallerInv(c)'
    BY <2>1, <2>2, <2>3, CallerKeeps DEF memory, callers, IInv
  <2>6. TypeOK' /\ IndexInv' /\ ChargedForWork'
    BY <2>1, <2>2 DEF IInv, TypeOK, IndexInv, ChargedForWork, Jobs, Captured,
                      memory, callers, service
  <2> QED
    BY <2>4, <2>5, <2>6 DEF IInv
<1>2. ASSUME NEW c \in Callers, Create(c)
      PROVE  IInv'
  BY <1>2, SubmitKeeps, AuthorizeKeeps, RegisterKeeps DEF Create
<1>3. ASSUME NEW j \in JobIds, RunJob(j)
      PROVE  IInv'
  BY <1>3, RunKeeps, FinishKeeps DEF RunJob
<1> QED
  BY <1>1, <1>2, <1>3, ExpiryKeeps, RestartKeeps DEF Next

\* Index, jobs, callers, threads and the service's usage jobs agree in every
\* reachable state.
THEOREM InductiveInvariant == Spec => []IInv
<1>1. Init => IInv
  BY InitJobs
<1>2. IInv /\ [Next]_vars => IInv'
  BY NextJobs
<1> QED
  BY <1>1, <1>2, PTL DEF Spec

\* Retries and concurrent callers of one key share one job.
THEOREM NoDuplicateJobs == Spec => []OneJobPerKey
<1>1. IInv => OneJobPerKey
  BY DEF IInv, IndexInv, OneJobPerKey, Jobs
<1> QED
  BY <1>1, InductiveInvariant, PTL

\* The id a caller was given is that of its own request.
THEOREM AnswersAreRight == Spec => []AnswersNameTheJob
<1>1. IInv => AnswersNameTheJob
  BY JobsAssumption DEF IInv, IndexInv, CallerInv, AnswersNameTheJob, Jobs, JobIds
<1> QED
  BY <1>1, InductiveInvariant, PTL

\* A billed job has a usage job of its own operation and cost at the service.
THEOREM BilledJobsAreKnown == Spec => []BilledJobHasUsageJob
<1>1. IInv => BilledJobHasUsageJob
  BY DEF IInv, JobInv, HoldInv, BilledJobHasUsageJob, Jobs
<1> QED
  BY <1>1, InductiveInvariant, PTL

\* Nothing is charged but work that was delivered.
THEOREM OnlyWorkIsCharged == Spec => []ChargedForWork
<1>1. IInv => ChargedForWork
  BY DEF IInv
<1> QED
  BY <1>1, InductiveInvariant, PTL

\* A result stored without a billing error is settled accordingly.
THEOREM ResultsAreSettled == Spec => []StoredIsSettled
<1>1. IInv => StoredIsSettled
  BY DEF IInv
<1> QED
  BY <1>1, InductiveInvariant, PTL
=============================================================================
