------------------------------ MODULE ModelJobs ------------------------------
(***************************************************************************)
(* The job manager of the model engine (model_engine/api/jobs.py) and the  *)
(* calls it makes to the usage billing of the service engine.              *)
(*                                                                         *)
(* create_job looks the idempotency key up under the lock, asks the        *)
(* service for a credit hold without the lock, and looks again under the   *)
(* lock before it inserts the job and starts its thread.  The thread runs  *)
(* the job, captures or releases the hold and stores the result.  All of   *)
(* this is in memory and is lost when the process restarts; the usage jobs *)
(* are not.                                                                *)
(*                                                                         *)
(* The service is its contract, CreditContract: a call that reaches it is  *)
(* one of its atomic steps, and the answer may be lost.  Holds expire at   *)
(* the service whenever another request of the user sweeps them.           *)
(***************************************************************************)
EXTENDS CreditUnits

CONSTANTS
  InitialCredit,  \* units on the account
  Scopes,         \* owner scopes: the sessions of one user
  Prints,         \* request fingerprints
  PayloadOf,      \* the usage payload of a fingerprint; NoPayload: not billed
  Callers,        \* threads that may be inside create_job
  NoId,           \* no job, or no submission yet
  MaxJobs,        \* bound on the job ids ever created
  MaxRestarts     \* bound on restarts of the process

ASSUME JobsAssumption ==
  /\ InitialCredit \in Nat
  /\ PayloadOf \in [Prints -> Payloads \union {NoPayload}]
  /\ MaxJobs \in Nat /\ MaxRestarts \in Nat
  /\ NoId \notin 1..MaxJobs
  /\ IsFiniteSet(Callers)

VARIABLES
  usage, funded,  \* the service: see CreditContract
  job,            \* _jobs_by_id
  byKey,          \* _job_ids_by_idempotency
  nextId,         \* the id the next job gets
  pc,             \* where a caller is in create_job
  sub,            \* the submission of a caller
  granted,        \* status of the usage job that answered the caller's POST /usage/jobs
  reply,          \* the job id create_job returned, NoId for an error
  worker,         \* where the thread of a job is
  restarts,       \* number of restarts so far
  delivered       \* history: keys whose usage job some run produced a result for

service == <<usage, funded>>
memory == <<job, byKey, nextId, worker, delivered, restarts>>
callers == <<pc, sub, granted, reply>>
vars == <<service, memory, callers>>

Service == INSTANCE CreditContract

JobIds == 1..MaxJobs
Submission == [scope : Scopes, key : Keys, print : Prints]
Terminal == {"succeeded", "partial", "failed"}
Lost == {"unstarted", "stopped", "unanswered"}  \* where a job has no thread and no result

NoJob == [status |-> "none"]
JobRow == {NoJob} \union
  [status : {"queued", "running"} \union Terminal, sub : Submission,
   hold : JobStatus \union {"none"}, billing : {"ok", "failed"}]

NoSubmission == [scope |-> NoId, key |-> NoId, print |-> NoId]
Billed(s) == PayloadOf[s.print] # NoPayload
Slot(s) == <<s.scope, s.key>>

Init ==
  /\ Service!Init
  /\ job = [j \in JobIds |-> NoJob]
  /\ byKey = [slot \in Scopes \X Keys |-> NoId]
  /\ nextId = 1
  /\ pc = [c \in Callers |-> "idle"]
  /\ sub = [c \in Callers |-> NoSubmission]
  /\ granted = [c \in Callers |-> "none"]
  /\ reply = [c \in Callers |-> NoId]
  /\ worker = [j \in JobIds |-> "none"]
  /\ restarts = 0
  /\ delivered = {}

-----------------------------------------------------------------------------
(***************************************************************************)
(* create_job.                                                             *)
(***************************************************************************)
Return(c, r) ==
  /\ pc' = [pc EXCEPT ![c] = "idle"]
  /\ reply' = [reply EXCEPT ![c] = r]

\* An id is left for everyone inside create_job.
Inside == {c \in Callers : pc[c] # "idle"}
IdsLeft == nextId + Cardinality(Inside) <= MaxJobs

\* The idempotency lookup both critical sections do: a job of this slot answers.
Replay(c, s) ==
  /\ byKey[Slot(s)] # NoId
  /\ Return(c, IF job[byKey[Slot(s)]].sub.print = s.print THEN byKey[Slot(s)] ELSE NoId)

\* Validation passed; first critical section.
Submit(c, s) ==
  /\ pc[c] = "idle"
  /\ IdsLeft
  /\ sub' = [sub EXCEPT ![c] = s]
  /\ granted' = [granted EXCEPT ![c] = "none"]
  /\ \/ Replay(c, s)
     \/ /\ byKey[Slot(s)] = NoId
        /\ pc' = [pc EXCEPT ![c] = IF Billed(s) THEN "authorize" ELSE "register"]
        /\ UNCHANGED reply
  /\ UNCHANGED <<service, memory>>

\* POST /usage/jobs at the service: a new hold, after the sweep of expired holds S,
\* or the usage job the key already has, whatever its status is by then.
(* Mutation: the payload of the existing usage job is not compared. *)
FindAnyHold(k, p) == \E S \in SUBSET Held(usage) : usage[k] # NoRow /\ Service!Release(S)
GrantHold(k, p) == \E S \in SUBSET Held(usage) : Service!Reserve(S, k, p)
FindHold(k, p) == \E S \in SUBSET Held(usage) : usage[k].pay = p /\ Service!Release(S)

\* _authorize_usage_hold takes the job id of the answer and ignores its status.
Authorize(c) ==
  LET k == sub[c].key
      p == PayloadOf[sub[c].print]
  IN
  /\ pc[c] = "authorize"
  /\ GrantHold(k, p) \/ FindHold(k, p)
  /\ granted' = [granted EXCEPT ![c] = usage'[k].job]
  /\ pc' = [pc EXCEPT ![c] = "register"]
  /\ UNCHANGED <<memory, sub, reply>>

\* The service answers with an error or cannot be reached, or it did create the
\* hold but the answer is lost: create_job raises either way.
AuthorizeFails(c) ==
  /\ pc[c] = "authorize"
  /\ \/ Return(c, NoId) /\ UNCHANGED service
     \/ Return(c, NoId) /\ GrantHold(sub[c].key, PayloadOf[sub[c].print])
  /\ UNCHANGED <<memory, sub, granted>>

\* The thread is started when the job is registered already: if the system has none to give,
\* create_job raises and the job stays behind.
StartThread(c) ==
  \/ worker' = [worker EXCEPT ![nextId] = "start"] /\ Return(c, nextId)
  \/ worker' = [worker EXCEPT ![nextId] = "unstarted"] /\ Return(c, NoId)

(* Mutation: the second lookup is left out. *)
RegisterBlindly(c) ==
  LET s == sub[c] IN
  /\ pc[c] = "register"
  /\ job' = [job EXCEPT ![nextId] = [status |-> "queued", sub |-> s,
                                     hold |-> granted[c], billing |-> "ok"]]
  /\ byKey' = [byKey EXCEPT ![Slot(s)] = nextId]
  /\ nextId' = nextId + 1
  /\ StartThread(c)
  /\ UNCHANGED <<service, delivered, restarts, sub, granted>>
\* Second critical section: another caller's job of the same slot, or insert and start.
Register(c) ==
  LET s == sub[c] IN
  /\ pc[c] = "register"
  /\ \/ Replay(c, s) /\ UNCHANGED memory
     \/ /\ byKey[Slot(s)] = NoId
        /\ job' = [job EXCEPT ![nextId] = [status |-> "queued", sub |-> s,
                                           hold |-> granted[c], billing |-> "ok"]]
        /\ byKey' = [byKey EXCEPT ![Slot(s)] = nextId]
        /\ nextId' = nextId + 1
        /\ StartThread(c)
        /\ UNCHANGED <<delivered, restarts>>
  /\ UNCHANGED <<service, sub, granted>>

-----------------------------------------------------------------------------
(***************************************************************************)
(* _run_job, the thread of a job.                                          *)
(***************************************************************************)
\* The job is running before the document is copied and its workspace made; an exception of
\* either is caught by nobody and ends the thread.
StartJob(j) ==
  /\ worker[j] = "start"
  /\ job' = [job EXCEPT ![j].status = "running"]
  /\ \E next \in {"run", "stopped"} : worker' = [worker EXCEPT ![j] = next]
  /\ UNCHANGED <<service, callers, byKey, nextId, delivered, restarts>>

(* Mutation: an exception of the executor ends the thread. *)
ExecuteUncaught(j) ==
  /\ worker[j] = "run"
  /\ \E result \in Terminal \union {"stopped", "done"} :
       /\ worker' = [worker EXCEPT ![j] = result]
       /\ delivered' = IF result \in {"failed", "stopped"} THEN delivered
                       ELSE delivered \union {job[j].sub.key}
  /\ UNCHANGED <<service, callers, job, byKey, nextId, restarts>>
\* The executor returns a status, or raises and the job counts as failed; its document is
\* copied once more then, by the handler, which may raise itself.
Execute(j) ==
  /\ worker[j] = "run"
  /\ \E result \in Terminal \union {"stopped"} :
       /\ worker' = [worker EXCEPT ![j] = result]
       /\ delivered' = IF result \in {"failed", "stopped"} THEN delivered
                       ELSE delivered \union {job[j].sub.key}
  /\ UNCHANGED <<service, callers, job, byKey, nextId, restarts>>

(* Mutation: a billing error becomes the status. *)
StoreError(j, billing) ==
  /\ job' = [job EXCEPT
       ![j].status = IF billing = "failed" THEN "billing_sync_failed" ELSE worker[j],
       ![j].billing = billing]
  /\ worker' = [worker EXCEPT ![j] = "done"]
\* Stores the result; a billing error turns a success into a partial success.
Store(j, billing) ==
  /\ job' = [job EXCEPT
       ![j].status = IF billing = "failed" /\ worker[j] = "succeeded" THEN "partial" ELSE worker[j],
       ![j].billing = billing]
  /\ worker' = [worker EXCEPT ![j] = "done"]

FinishUnbilled(j) ==
  /\ worker[j] \in Terminal
  /\ job[j].hold = "none"
  /\ Store(j, "ok")
  /\ UNCHANGED <<service, callers, byKey, nextId, delivered, restarts>>

(* Mutation: a failed job is captured like any other. *)
CapturesAlways(j) ==
  LET k == job[j].sub.key IN
  Service!Capture(k) \/ (usage[k].hold = "captured" /\ UNCHANGED service)
(* Mutation: only a complete success is captured, anything else is released. *)
SettlesUnlessPartial(j) ==
  LET k == job[j].sub.key IN
  IF worker[j] = "succeeded"
  THEN Service!Capture(k) \/ (usage[k].hold = "captured" /\ UNCHANGED service)
  ELSE Service!Release({k}) \/ (usage[k].hold = "released" /\ UNCHANGED service)
\* POST capture for a success or a partial one, POST release for a failure, both
\* idempotent at the service.
Settles(j) ==
  LET k == job[j].sub.key IN
  IF worker[j] \in {"succeeded", "partial"}
  THEN Service!Capture(k) \/ (usage[k].hold = "captured" /\ UNCHANGED service)
  ELSE Service!Release({k}) \/ (usage[k].hold = "released" /\ UNCHANGED service)

Settle(j) ==
  /\ worker[j] \in Terminal
  /\ job[j].hold # "none"
  /\ Settles(j)
  /\ Store(j, "ok")
  /\ UNCHANGED <<callers, byKey, nextId, delivered, restarts>>

\* An HTTP error or an unreachable service: _finalize_billing reports it, and does
\* not try again.
SettleRefused(j) ==
  /\ worker[j] \in Terminal
  /\ job[j].hold # "none"
  /\ Store(j, "failed")
  /\ UNCHANGED <<service, callers, byKey, nextId, delivered, restarts>>

\* The call reaches the service, or not, and the answer times out.  urllib wraps
\* only the errors of sending in URLError: a timeout of the answer is caught by
\* nobody and ends the thread.
SettleUnanswered(j) ==
  /\ worker[j] \in Terminal
  /\ job[j].hold # "none"
  /\ Settles(j) \/ UNCHANGED service
  /\ worker' = [worker EXCEPT ![j] = "unanswered"]
  /\ UNCHANGED <<callers, job, byKey, nextId, delivered, restarts>>

-----------------------------------------------------------------------------
\* Some other request of the user finds the hold expired.
HoldExpires(k) ==
  /\ usage[k].hold = "held"
  /\ Service!Release({k})
  /\ UNCHANGED <<memory, callers>>

\* The process restarts: the dictionaries, the threads and the calls are gone.
Restart ==
  /\ restarts < MaxRestarts
  /\ restarts' = restarts + 1
  /\ job' = [j \in JobIds |-> NoJob]
  /\ byKey' = [slot \in Scopes \X Keys |-> NoId]
  /\ worker' = [j \in JobIds |-> "none"]
  /\ pc' = [c \in Callers |-> "idle"]
  /\ reply' = [c \in Callers |-> NoId]
  /\ UNCHANGED <<service, nextId, delivered, sub, granted>>

Create(c) == (\E s \in Submission : Submit(c, s)) \/ Authorize(c) \/ AuthorizeFails(c) \/ Register(c)
RunJob(j) ==
  StartJob(j) \/ Execute(j) \/ FinishUnbilled(j) \/ Settle(j) \/ SettleRefused(j) \/ SettleUnanswered(j)

Next ==
  \/ \E c \in Callers : Create(c)
  \/ \E j \in JobIds : RunJob(j)
  \/ \E k \in Keys : HoldExpires(k)
  \/ Restart

Spec == Init /\ [][Next]_vars

\* A started thread is scheduled, and the executor and the HTTP calls return.
FairSpec == Spec /\ \A j \in JobIds : WF_vars(RunJob(j))

-----------------------------------------------------------------------------
\* Types of the variables.
TypeOK ==
  /\ usage \in [Keys -> UsageRow] /\ funded \in Int
  /\ job \in [JobIds -> JobRow]
  /\ byKey \in [Scopes \X Keys -> JobIds \union {NoId}]
  /\ nextId \in Nat \ {0}
  /\ pc \in [Callers -> {"idle", "authorize", "register"}]
  /\ sub \in [Callers -> Submission \union {NoSubmission}]
  /\ granted \in [Callers -> JobStatus \union {"none"}]
  /\ reply \in [Callers -> JobIds \union {NoId}]
  /\ worker \in [JobIds -> {"none", "start", "run", "done"} \union Lost \union Terminal]
  /\ restarts \in Nat
  /\ delivered \subseteq Keys

Jobs == {j \in JobIds : job[j] # NoJob}

\* Of the jobs in memory no two share a scope and a key, so a retry during the call
\* to the service never starts the work twice.
OneJobPerKey == \A i, j \in Jobs : Slot(job[i].sub) = Slot(job[j].sub) => i = j

\* The job id a caller was given is the job its key stands for, with its request.
AnswersNameTheJob ==
  \A c \in Callers :
    pc[c] = "idle" /\ reply[c] \in JobIds =>
      /\ byKey[Slot(sub[c])] = reply[c]
      /\ job[reply[c]].sub = sub[c]

\* A billed job refers to a usage job of the same operation and cost.
BilledJobHasUsageJob ==
  \A j \in Jobs : Billed(job[j].sub) => usage[job[j].sub.key].pay = PayloadOf[job[j].sub.print]

\* Credits are charged only for work some run completed, fully or in part.
ChargedForWork == Captured(usage) \subseteq delivered

\* A stored result without a billing error is settled at the service: charged when
\* it has something to show for it, given back when not.  And a job that is stored as
\* succeeded is charged, whatever became of the call.
StoredIsSettled ==
  \A j \in Jobs :
    Billed(job[j].sub) /\ (job[j].status = "succeeded" \/ (job[j].status \in Terminal /\ job[j].billing = "ok")) =>
      usage[job[j].sub.key].hold = IF job[j].status = "failed" THEN "released" ELSE "captured"

(***************************************************************************)
(* The inductive invariant: the index and the jobs are inverse to each     *)
(* other, and every caller and thread knows what the service has.          *)
(***************************************************************************)
\* The index has every job under its slot, and ids not given out yet have none.
IndexInv ==
  /\ \A slot \in Scopes \X Keys : byKey[slot] # NoId =>
       job[byKey[slot]] # NoJob /\ Slot(job[byKey[slot]].sub) = slot
  /\ \A j \in Jobs : byKey[Slot(job[j].sub)] = j
  /\ \A j \in JobIds : j >= nextId => job[j] = NoJob
  /\ nextId + Cardinality(Inside) <= MaxJobs + 1

\* A hold was asked for exactly if the submission is billed, and is of its payload.
HoldInv(s, hold) ==
  /\ Billed(s) <=> hold # "none"
  /\ Billed(s) => usage[s.key].pay = PayloadOf[s.print]

CallerInv(c) ==
  /\ pc[c] # "idle" => sub[c] \in Submission
  /\ pc[c] = "authorize" => Billed(sub[c])
  /\ pc[c] = "register" => HoldInv(sub[c], granted[c])
  /\ pc[c] = "idle" /\ reply[c] # NoId => job[reply[c]] # NoJob /\ job[reply[c]].sub = sub[c]

JobInv(j) ==
  /\ job[j] = NoJob <=> worker[j] = "none"
  /\ worker[j] \in {"start", "unstarted"} => job[j].status = "queued"
  /\ worker[j] \in {"run", "stopped", "unanswered"} \union Terminal => job[j].status = "running"
  /\ worker[j] \in {"succeeded", "partial"} => job[j].sub.key \in delivered
  /\ job[j] # NoJob => HoldInv(job[j].sub, job[j].hold)

IInv ==
  /\ TypeOK /\ IndexInv
  /\ \A c \in Callers : CallerInv(c)
  /\ \A j \in JobIds : JobInv(j)
  /\ ChargedForWork /\ StoredIsSettled

\* A registered job ends, unless the process restarted or one of three things befell it: no
\* thread could be started for it, the thread died before the executor ran or in its handler,
\* or the billing call was not answered.  Nothing else leaves a job behind.
JobsEnd ==
  \A j \in JobIds :
    job[j].status = "queued" ~> (job[j].status \in Terminal \union {"none"} \/ worker[j] \in Lost)

\* Without the exception it does not hold: LostThread.cfg.
AcceptedJobsEnd ==
  \A j \in JobIds : job[j].status = "queued" ~> job[j].status \in Terminal \union {"none"}

\* SESSION_AND_CREDENTIAL_IMPLEMENTATION.md: a billed SaaS job must not run without
\* a usage hold.  The usage job of a retried key may be settled already.
\* The code refutes it: UnheldRun.cfg.
BilledRunHasHold ==
  \A j \in Jobs : job[j].status = "running" /\ Billed(job[j].sub) => job[j].hold = "authorized"
=============================================================================
