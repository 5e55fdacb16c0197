---------------------------- MODULE UsageBilling ----------------------------
(***************************************************************************)
(* Credit accounting of the service engine for one account                 *)
(* (service_engine/app/modules/billing): usage jobs, the credit hold of    *)
(* each job, the append-only credit ledger and the account's balance and   *)
(* reserved counters.                                                      *)
(*                                                                         *)
(* Every API call and admin command is one READ COMMITTED transaction.  It *)
(* reads the account row first and without a lock (while it authenticates  *)
(* the session token), then the holds and jobs it needs, and only then     *)
(* locks the account.  The lock does not refresh the attributes already    *)
(* loaded, so what is written is computed from the first read and is       *)
(* accepted only if the row's version is still the one read.  The steps of *)
(* a request here are those reads and one final step: from the lock to     *)
(* the commit no other request can write, so that part is one action.      *)
(*                                                                         *)
(* All statements filter on the user, so one account is modelled; a usage  *)
(* job is named by its idempotency key, which is unique per user.          *)
(***************************************************************************)
EXTENDS CreditUnits

CONSTANTS
  Requests,       \* request slots: how many transactions run concurrently
  InitialCredit,  \* balance a new account starts with
  Grants,         \* amounts an admin grants
  ResetBalances,  \* balances an admin resets to
  MaxVersion      \* bound: no request starts once the account has this version

ASSUME BillingAssumption ==
  /\ InitialCredit \in Nat
  /\ Grants \subseteq Nat \ {0}
  /\ ResetBalances \subseteq Nat
  /\ MaxVersion \in Nat

VARIABLES
  account,  \* the credit_accounts row
  usage,    \* usage_jobs joined with credit_holds, by idempotency key
  ledger,   \* credit_ledger rows: the key of the captured job and the units debited
  overdue,  \* keys whose hold has expires_at in the past
  funded,   \* history: credits ever put on the account, by signup or an admin
  pc,       \* how far the transaction of each request slot has come
  op,       \* the operation the request performs
  key,      \* the idempotency key (create) or the job (capture, release, get)
  want,     \* the payload a create asks for
  snap,     \* the account row as read at authentication
  stale,    \* the expired held holds a create found, or the held holds a reset counted
  seen,     \* the job row as read by this transaction
  answer    \* the response to the latest request of the slot

rows == <<account, usage, ledger, funded>>
local == <<pc, op, key, want, snap, stale, seen, answer>>
vars == <<account, usage, ledger, overdue, funded,
          pc, op, key, want, snap, stale, seen, answer>>

-----------------------------------------------------------------------------
AccountRow == [balance : Int, reserved : Int, version : Nat]
LedgerRow == [job : Keys, debit : Nat]

Ops == {"create", "capture", "release", "get", "grant", "reset"}
Pcs == {"idle", "begun", "swept", "read"}
Answers == {"none"} \union JobStatus
             \union {"not_found", "mismatch", "insufficient", "usage_conflict",
                     "expired", "conflict", "refused", "done"}

-----------------------------------------------------------------------------
Init ==
  /\ account = [balance |-> InitialCredit, reserved |-> 0, version |-> 1]
  /\ usage = [k \in Keys |-> NoRow]
  /\ ledger = {}
  /\ overdue = {}
  /\ funded = InitialCredit
  /\ pc = [r \in Requests |-> "idle"]
  /\ op = [r \in Requests |-> "get"]
  /\ key \in [Requests -> Keys]
  /\ want = [r \in Requests |-> NoPayload]
  /\ snap = [r \in Requests |-> account]
  /\ stale = [r \in Requests |-> {}]
  /\ seen = [r \in Requests |-> NoRow]
  /\ answer = [r \in Requests |-> "none"]

(***************************************************************************)
(* Reads.                                                                  *)
(***************************************************************************)

\* The clock passes expires_at of a hold.  Nothing in the service runs then.
HoldTtlPasses(k) ==
  /\ usage[k].hold = "held"
  /\ k \notin overdue
  /\ overdue' = overdue \union {k}
  /\ UNCHANGED <<rows, local>>

\* authenticate_session_token, or _load_user of the admin commands: the account
\* row enters the identity map of the transaction.
Begin(r, o, k, p) ==
  /\ pc[r] = "idle"
  /\ account.version < MaxVersion
  /\ pc' = [pc EXCEPT ![r] = "begun"]
  /\ op' = [op EXCEPT ![r] = o]
  /\ key' = [key EXCEPT ![r] = k]
  /\ want' = [want EXCEPT ![r] = p]
  /\ snap' = [snap EXCEPT ![r] = account]
  /\ stale' = [stale EXCEPT ![r] = {}]
  /\ seen' = [seen EXCEPT ![r] = NoRow]
  /\ answer' = [answer EXCEPT ![r] = "none"]
  /\ UNCHANGED <<rows, overdue>>

\* expire_stale_holds_for_user selects the expired held holds of the user.
SweepStaleHolds(r) ==
  /\ pc[r] = "begun"
  /\ op[r] = "create"
  /\ stale' = [stale EXCEPT ![r] = Held(usage) \intersect overdue]
  /\ pc' = [pc EXCEPT ![r] = "swept"]
  /\ UNCHANGED <<rows, overdue, op, key, want, snap, seen, answer>>

\* reset_credits counts the held holds.
CountHeldHolds(r) ==
  /\ pc[r] = "begun"
  /\ op[r] = "reset"
  /\ stale' = [stale EXCEPT ![r] = Held(usage)]
  /\ pc' = [pc EXCEPT ![r] = "read"]
  /\ UNCHANGED <<rows, overdue, op, key, want, snap, seen, answer>>

\* The job row: looked up by key in create (before any lock when no stale hold
\* was found), by id in capture, release and get.
ReadJob(r) ==
  /\ \/ op[r] = "create" /\ pc[r] = "swept" /\ stale[r] = {}
     \/ op[r] \in {"capture", "release", "get"} /\ pc[r] = "begun"
  /\ seen' = [seen EXCEPT ![r] = usage[key[r]]]
  /\ pc' = [pc EXCEPT ![r] = "read"]
  /\ UNCHANGED <<rows, overdue, op, key, want, snap, stale, answer>>

(***************************************************************************)
(* Ends of a transaction.                                                  *)
(***************************************************************************)
(* Mutation: the row lock alone, no version check. *)
FreshWithoutVersion(r) == TRUE
Fresh(r) == snap[r].version = account.version

Reply(r, a) ==
  /\ pc' = [pc EXCEPT ![r] = "idle"]
  /\ answer' = [answer EXCEPT ![r] = a]
  /\ UNCHANGED <<overdue, op, key, want, snap, stale, seen>>

\* An error or a pure read: rolled back, or committed with nothing written.
Refuse(r, a) == Reply(r, a) /\ UNCHANGED rows

\* The flush updates the account row where its version is the one read; zero rows
\* raise StaleDataError, which the API answers with 409 concurrent_update_conflict.
StaleConflict(r) == ~Fresh(r) /\ Refuse(r, "conflict")

Writes(acc) == account' = [acc EXCEPT !.version = @ + 1]

\* release_credit_hold on each hold of S.
AfterRelease(S) == ReleaseAll(usage, S)
AccountAfterRelease(acc, S) == [acc EXCEPT !.reserved = @ - Total(S, usage)]

(* Mutation: the counter is written by an UPDATE that leaves the version as it is. *)
CommitReleaseInBulk(r, S) ==
  /\ Fresh(r)
  /\ usage' = AfterRelease(S)
  /\ account' = AccountAfterRelease(snap[r], S)
  /\ UNCHANGED <<ledger, funded>>
CommitRelease(r, S) ==
  /\ Fresh(r)
  /\ usage' = AfterRelease(S)
  /\ Writes(AccountAfterRelease(snap[r], S))
  /\ UNCHANGED <<ledger, funded>>

-----------------------------------------------------------------------------
(***************************************************************************)
(* POST /usage/jobs.  With stale holds the account is locked, and its      *)
(* version checked, by the first release; otherwise only by the reserve.   *)
(***************************************************************************)
ReadyToCreate(r) ==
  /\ op[r] = "create"
  /\ pc[r] = "read" \/ (pc[r] = "swept" /\ stale[r] # {})

Existing(r) == IF stale[r] = {} THEN seen[r] ELSE AfterRelease(stale[r])[key[r]]
Swept(r) == AccountAfterRelease(snap[r], stale[r])
(* Mutation: the balance is compared without what is already reserved. *)
EnoughBalance(r) == Swept(r).balance >= Units[want[r]]
Enough(r) == Swept(r).balance - Swept(r).reserved >= Units[want[r]]
SweepHolds(r) == stale[r] = {} \/ Fresh(r)

CreateConflict(r) ==
  /\ ReadyToCreate(r)
  /\ stale[r] # {} \/ (Existing(r) = NoRow /\ Enough(r))
  /\ StaleConflict(r)

(* Mutation: the payload of the existing job is not compared. *)
ReplayAnyPayload(r) ==
  /\ ReadyToCreate(r)
  /\ SweepHolds(r)
  /\ Existing(r) # NoRow
  /\ Reply(r, Existing(r).job)
  /\ IF stale[r] = {} THEN UNCHANGED rows ELSE CommitRelease(r, stale[r])
\* The job exists with the same payload: its id is returned whatever its status,
\* and the releases of stale holds are committed.
ReplayCreate(r) ==
  /\ ReadyToCreate(r)
  /\ SweepHolds(r)
  /\ Existing(r) # NoRow
  /\ Existing(r).pay = want[r]
  /\ Reply(r, Existing(r).job)
  /\ IF stale[r] = {} THEN UNCHANGED rows ELSE CommitRelease(r, stale[r])

\* IdempotencyPayloadMismatchError and InsufficientCreditsError leave the
\* transaction block, so the releases of stale holds are rolled back with it.
RejectReuse(r) ==
  /\ ReadyToCreate(r)
  /\ SweepHolds(r)
  /\ Existing(r) # NoRow
  /\ Existing(r).pay # want[r]
  /\ Refuse(r, "mismatch")

RejectInsufficient(r) ==
  /\ ReadyToCreate(r)
  /\ SweepHolds(r)
  /\ Existing(r) = NoRow
  /\ ~Enough(r)
  /\ Refuse(r, "insufficient")

\* reserve_credit_for_job.  The unique key on (user_id, idempotency_key) refuses a
\* second job of the same key.
ReserveCredit(r) ==
  /\ ReadyToCreate(r)
  /\ Existing(r) = NoRow
  /\ Enough(r)
  /\ Fresh(r)
  /\ usage[key[r]] = NoRow
  /\ usage' = [AfterRelease(stale[r]) EXCEPT
                 ![key[r]] = NewRow(want[r])]
  /\ Writes([Swept(r) EXCEPT !.reserved = @ + Units[want[r]]])
  /\ Reply(r, "authorized")
  /\ UNCHANGED <<ledger, funded>>

-----------------------------------------------------------------------------
(***************************************************************************)
(* POST /usage/jobs/{id}/capture, /release and GET /usage/jobs/{id}.       *)
(***************************************************************************)
ReadyTo(o, r) == op[r] = o /\ pc[r] = "read"

\* expire_job_hold_if_needed: a held hold past its time is released first.
HoldExpired(r) == seen[r].hold = "held" /\ key[r] \in overdue

\* The release of the expired hold marks the job failed, capture_usage_job then
\* raises UsageJobConflictError, and the transaction block rolls the release back.
CaptureExpired(r) ==
  /\ ReadyTo("capture", r)
  /\ HoldExpired(r)
  /\ \/ StaleConflict(r)
     \/ Fresh(r) /\ Refuse(r, "expired")

CaptureSettled(r) ==
  /\ ReadyTo("capture", r)
  /\ seen[r].job # "authorized"
  /\ Refuse(r, IF seen[r].job = "succeeded" THEN "succeeded" ELSE "usage_conflict")

\* capture_credit_hold.  The ledger row's key usage-capture:<job id> is unique.
CaptureHold(r) ==
  /\ ReadyTo("capture", r)
  /\ ~HoldExpired(r)
  /\ seen[r].job = "authorized"
  /\ snap[r].balance >= Cost(seen[r])
  /\ Fresh(r)
  /\ \A e \in ledger : e.job # key[r]
  /\ usage' = [usage EXCEPT ![key[r]] = CapturedRow(seen[r])]
  /\ ledger' = ledger \union {[job |-> key[r], debit |-> Cost(seen[r])]}
  /\ Writes([snap[r] EXCEPT !.balance = @ - Cost(seen[r]), !.reserved = @ - Cost(seen[r])])
  /\ Reply(r, "succeeded")
  /\ UNCHANGED funded

\* InsufficientCreditsError of capture_credit_hold, or the version conflict.
CaptureRefused(r) ==
  /\ ReadyTo("capture", r)
  /\ ~HoldExpired(r)
  /\ seen[r].job = "authorized"
  /\ IF snap[r].balance < Cost(seen[r]) THEN Refuse(r, "insufficient") ELSE StaleConflict(r)

ReleaseSettled(r) ==
  /\ ReadyTo("release", r)
  /\ seen[r].job # "authorized"
  /\ Refuse(r, IF seen[r].job = "failed" THEN "failed" ELSE "usage_conflict")

\* Expired or not, the hold is released; only the error code of the job differs.
ReleaseHold(r) ==
  /\ ReadyTo("release", r)
  /\ seen[r].job = "authorized"
  /\ \/ StaleConflict(r)
     \/ CommitRelease(r, {key[r]}) /\ Reply(r, "failed")

GetJob(r) ==
  /\ ReadyTo("get", r)
  /\ \/ ~HoldExpired(r) /\ Refuse(r, seen[r].job)
     \/ HoldExpired(r) /\ StaleConflict(r)
     \/ HoldExpired(r) /\ CommitRelease(r, {key[r]}) /\ Reply(r, "failed")

-----------------------------------------------------------------------------
(***************************************************************************)
(* The admin commands grant-credits and reset-credits write no ledger row. *)
(***************************************************************************)
GrantCredits(r) ==
  /\ op[r] = "grant"
  /\ pc[r] = "begun"
  /\ \/ StaleConflict(r)
     \/ \E n \in Grants :
          /\ Fresh(r)
          /\ Writes([snap[r] EXCEPT !.balance = @ + n])
          /\ funded' = funded + n
          /\ Reply(r, "done")
          /\ UNCHANGED <<usage, ledger>>

(* Mutation: the held holds are not looked at. *)
ResetAnyway(r) ==
  /\ ReadyTo("reset", r)
  /\ \/ StaleConflict(r)
     \/ \E b \in ResetBalances :
          /\ Fresh(r)
          /\ Writes([snap[r] EXCEPT !.balance = b, !.reserved = 0])
          /\ funded' = funded + b - snap[r].balance
          /\ Reply(r, "done")
          /\ UNCHANGED <<usage, ledger>>
ResetCredits(r) ==
  /\ ReadyTo("reset", r)
  /\ \/ stale[r] # {} /\ Refuse(r, "refused")
     \/ stale[r] = {} /\ StaleConflict(r)
     \/ \E b \in ResetBalances :
          /\ stale[r] = {}
          /\ Fresh(r)
          /\ Writes([snap[r] EXCEPT !.balance = b, !.reserved = 0])
          /\ funded' = funded + b - snap[r].balance
          /\ Reply(r, "done")
          /\ UNCHANGED <<usage, ledger>>

-----------------------------------------------------------------------------
\* A client knows the id of a job only once the job exists.
BeginRequest(r) ==
  \E k \in Keys :
    \/ \E p \in Payloads : Begin(r, "create", k, p)
    \/ \E o \in {"capture", "release", "get"} : usage[k] # NoRow /\ Begin(r, o, k, NoPayload)
    \/ \E o \in {"grant", "reset"} : Begin(r, o, k, NoPayload)

Step(r) ==
  \/ BeginRequest(r)
  \/ SweepStaleHolds(r) \/ CountHeldHolds(r) \/ ReadJob(r)
  \/ CreateConflict(r) \/ ReplayCreate(r) \/ RejectReuse(r) \/ RejectInsufficient(r)
  \/ ReserveCredit(r)
  \/ CaptureExpired(r) \/ CaptureSettled(r) \/ CaptureHold(r) \/ CaptureRefused(r)
  \/ ReleaseSettled(r) \/ ReleaseHold(r) \/ GetJob(r)
  \/ GrantCredits(r) \/ ResetCredits(r)

Next == (\E k \in Keys : HoldTtlPasses(k)) \/ (\E r \in Requests : Step(r))

Spec == Init /\ [][Next]_vars

-----------------------------------------------------------------------------
\* Types of the variables; the counters of the account may be any integers here,
\* their bounds are what the invariants below state.
TypeOK ==
  /\ account \in AccountRow
  /\ usage \in [Keys -> UsageRow]
  /\ ledger \subseteq LedgerRow
  /\ overdue \subseteq Keys
  /\ funded \in Int
  /\ pc \in [Requests -> Pcs]
  /\ op \in [Requests -> Ops]
  /\ key \in [Requests -> Keys]
  /\ want \in [Requests -> Payloads \union {NoPayload}]
  /\ snap \in [Requests -> AccountRow]
  /\ stale \in [Requests -> SUBSET Keys]
  /\ seen \in [Requests -> UsageRow]
  /\ answer \in [Requests -> Answers]

\* The reserved counter, written from values read before the lock, is the total of
\* the holds still held: no interleaving of creates, captures, releases, expiries
\* and admin commands loses or repeats an update of it.
ReservedIsTotalHeld == account.reserved = Total(Held(usage), usage)

\* Credit is never promised twice: everything reserved is covered by the balance,
\* so the CHECK constraints on credit_accounts never fire.
ReservedWithinBalance == 0 <= account.reserved /\ account.reserved <= account.balance

\* The balance is what was put on the account less what captured jobs cost.
BalanceIsFundedLessCaptured == account.balance = funded - Total(Captured(usage), usage)

\* The ledger has exactly one row for each captured hold, with the units of the
\* job, and none for a hold that is held or released.
LedgerIsCapturedHolds ==
  ledger = {[job |-> k, debit |-> Cost(usage[k])] : k \in Captured(usage)}

\* Status of a job and of its hold move together (a part of the invariant below).
JobAndHoldAgree ==
  \A k \in Keys :
    <<usage[k].job, usage[k].hold>> \in
      {<<"none", "none">>, <<"authorized", "held">>,
       <<"succeeded", "captured">>, <<"failed", "released">>}

\* A capture is never answered insufficient_credits: the hold guarantees its units
\* even if the account was granted to, reset or charged since.
HoldGuaranteesCapture == \A r \in Requests : answer[r] = "insufficient" => op[r] = "create"

ByJobId == {"capture", "release", "get"}

\* Of two transactions that both found a key free, or a hold held, or none held to reset over,
\* the one that comes second has read an account of an older version.  It is the version that
\* refuses it, before a second job of the key or a second settlement is written: the unique keys
\* of usage_jobs and credit_ledger never have to.
LoserIsStale ==
  \A r \in Requests : pc[r] # "idle" /\ Fresh(r) =>
    /\ ReadyToCreate(r) /\ Existing(r) = NoRow => usage[key[r]] = NoRow
    /\ pc[r] = "read" /\ op[r] \in ByJobId /\ seen[r].hold = "held" => usage[key[r]].hold = "held"
    /\ ReadyTo("reset", r) /\ stale[r] = {} => Held(usage) = {}

(***************************************************************************)
(* The inductive invariant: the accounts are right, and the reads of a     *)
(* request whose version is still current are the rows themselves.         *)
(***************************************************************************)
Accounting ==
  /\ ReservedIsTotalHeld
  /\ ReservedWithinBalance
  /\ BalanceIsFundedLessCaptured
  /\ LedgerIsCapturedHolds
  /\ JobAndHoldAgree

\* What the version check of a request proves about its earlier, unlocked reads.
ReadsAreCurrent(r) ==
  /\ snap[r] = account
  /\ pc[r] = "swept" => stale[r] \subseteq Held(usage)
  /\ pc[r] = "read" /\ op[r] \in ByJobId \union {"create"} => seen[r] = usage[key[r]]
  /\ pc[r] = "read" /\ op[r] = "reset" => stale[r] = Held(usage)

RequestInv(r) ==
  /\ snap[r].version <= account.version
  /\ pc[r] # "idle" /\ op[r] = "create" => want[r] \in Payloads
  /\ pc[r] = "read" /\ op[r] = "create" => stale[r] = {}
  /\ pc[r] # "idle" /\ Fresh(r) => ReadsAreCurrent(r)

\* Everything about the accounts and the reads: it is inductive by itself.
AccountInv == TypeOK /\ Accounting /\ \A r \in Requests : RequestInv(r)

\* A capture under way has a job, and the balance it read covers the units of the
\* hold, which nobody can have spent since the hold was reserved.
HoldCovers(r) ==
  pc[r] # "idle" /\ op[r] = "capture" =>
    /\ usage[key[r]] # NoRow
    /\ pc[r] = "begun" /\ usage[key[r]].hold = "held"
         => Cost(usage[key[r]]) <= snap[r].balance
    /\ pc[r] = "read" /\ seen[r].job = "authorized" => Cost(seen[r]) <= snap[r].balance

\* However old a read of a job is, its payload is still right, and so is its outcome
\* once it had one.
ReadLasts(r) ==
  pc[r] = "read" /\ op[r] \in ByJobId \union {"create"} /\ seen[r] # NoRow =>
    /\ usage[key[r]].pay = seen[r].pay
    /\ seen[r].job = "succeeded" => usage[key[r]].hold = "captured"
    /\ seen[r].job = "failed" => usage[key[r]].hold = "released"

\* A create was for a payload, and what it was answered stands.
AnswerStands(r) ==
  /\ op[r] = "create" => want[r] \in Payloads
  /\ answer[r] = "insufficient" => op[r] = "create"
  /\ pc[r] = "idle" /\ answer[r] = "succeeded" => usage[key[r]].hold = "captured"
  /\ pc[r] = "idle" /\ answer[r] = "failed" => usage[key[r]].hold = "released"
  /\ pc[r] = "idle" /\ op[r] = "create" /\ answer[r] \in JobStatus
       => usage[key[r]].pay = want[r]

ClientInv(r) == HoldCovers(r) /\ ReadLasts(r) /\ AnswerStands(r)

\* The inductive invariant as one formula, checked here and proved in UsageBillingProofs.
IInv == AccountInv /\ \A r \in Requests : ClientInv(r)

\* A settled job never changes again, and its payload never does.
SettledIsFinal ==
  [][\A k \in Keys :
       /\ usage[k].hold \in {"captured", "released"} => usage'[k] = usage[k]
       /\ usage[k] # NoRow => usage'[k].pay = usage[k].pay]_vars

\* What a client was told stays true: a job reported succeeded is charged, a job
\* reported failed is not, and a create is answered only for the payload it named.
AnswersAreDurable ==
  \A r \in Requests :
    pc[r] = "idle" =>
      /\ answer[r] = "succeeded" => usage[key[r]].hold = "captured"
      /\ answer[r] = "failed" => usage[key[r]].hold = "released"
      /\ op[r] = "create" /\ answer[r] \in JobStatus => usage[key[r]].pay = want[r]

\* Every behaviour is one of the atomic contract: stale reads, lost races and
\* rollbacks are invisible in the jobs, the holds and the funds of the account.
Contract == INSTANCE CreditContract
ImplementsContract == Contract!Spec

\* docs/http-contract.md: a capture after the hold expired first releases the hold
\* and then answers 409.  The release is rolled back by the exception instead.
ExpiredCaptureReleases ==
  \A r \in Requests : pc[r] = "idle" /\ answer[r] = "expired" => usage[key[r]].hold = "released"
=============================================================================
