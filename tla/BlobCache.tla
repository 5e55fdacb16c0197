------------------------------ MODULE BlobCache ------------------------------
(***************************************************************************)
(* The two-tier cache of page binaries and thumbnails: blob-cache.ts over  *)
(* cache-db.ts, and setQueryUser of query-client.ts, which logs users in   *)
(* and out of it.                                                          *)
(*                                                                         *)
(* Memory is one LRU map for whoever is logged in.  Every user has a       *)
(* database, which has to be opened, and whose upgrade an older tab can    *)
(* block.  A call runs without interruption up to its first await; then it *)
(* waits for the database to open, for its transaction to run, and for its *)
(* turn to go on.  Readwrite transactions of a store run in the order in   *)
(* which they were made.                                                   *)
(***************************************************************************)
EXTENDS Integers, Sequences, SequencesExt, FiniteSets

CONSTANTS
  Users, Keys,
  Owner,          \* the user whose page a key names
  Calls,          \* calls made of the cache, in their order (bound); a set() stores its number
  MaxMemory, MaxIDB,
  MaxLogins,      \* bound of the logins
  Kept, Before,   \* keys an earlier session left in the databases, and what it left there
  None

ASSUME CacheAssumption ==
  /\ Owner \in [Keys -> Users] /\ Calls \subseteq Nat /\ Kept \subseteq Keys
  /\ MaxMemory \in Nat \ {0} /\ MaxIDB \in Nat \ {0} /\ MaxLogins \in Nat
  /\ {Before, None} \cap Calls = {} /\ Before # None /\ None \notin Users
  /\ IsFiniteSet(Kept)

VARIABLES
  memory, order, version,   \* BlobCache.memory, accessOrder, versions
  disk,        \* what the store of its user has of a page
  accessed,    \* per user, the keys of the store by accessedAt, oldest first
  old,         \* users whose database is of an earlier version
  held,        \* of these, users whose database an older tab keeps open
  opening,     \* openCacheDB calls so far: user and what has become of the connection
  current,     \* the opening that is dbPromise, 0 if null
  blocked,     \* upgradeBlocked
  trouble,     \* an older tab, or one failure that is to come or past (bound)
  calls,       \* per call: what it is and how far it is
  waiters,     \* per opening, the calls that wait for it, in their order
  queue,       \* per user, calls whose transactions have not run, in their order
  last,        \* history: what the last set or delete of a key left
  missed,      \* history: keys whose last set or delete will not reach the database
  seen         \* history: per call, what its key stood for while it ran

lru == <<memory, order>>
records == <<disk, accessed>>
store == <<records, queue>>
door == <<old, held, opening, current, blocked, trouble>>
history == <<last, missed, seen>>
vars == <<lru, version, store, door, calls, waiters, history>>

Blobs == Calls \union {Before}
NoCall == [step |-> "none"]

Init ==
  /\ memory = [k \in Keys |-> None] /\ order = <<>>
  /\ version = [k \in Keys |-> 0]
  /\ disk = [k \in Keys |-> IF k \in Kept THEN Before ELSE None] /\ last = disk
  /\ accessed = [u \in Users |-> SetToSeq({k \in Kept : Owner[k] = u})]
  /\ trouble \in {"older tab", "to come"}
  /\ old = (IF trouble = "older tab" THEN Users ELSE {}) /\ held = old
  /\ opening = <<>> /\ current = 0 /\ blocked = FALSE
  /\ calls = [c \in Calls |-> NoCall]
  /\ waiters = [n \in 1..MaxLogins |-> <<>>] /\ queue = [u \in Users |-> <<>>]
  /\ missed = {} /\ seen = [c \in Calls |-> {}]

-----------------------------------------------------------------------------
(***************************************************************************)
(* Memory                                                                  *)
(***************************************************************************)
InMemory(m) == {k \in Keys : m[k] # None}

\* indexOf and splice.  An order names a key once, see LruIsSound.
Removed(o, k) == IF k \in Range(o) THEN RemoveAt(o, CHOOSE i \in DOMAIN o : o[i] = k) ELSE o

TouchAccessOrder(o, k) == Append(Removed(o, k), k)

(* Mutation: an entry more than the limit stays. *)
OneTooMany(m, o) ==
  {n \in 0..Len(o) : Cardinality(InMemory(m) \ Range(SubSeq(o, 1, n))) <= MaxMemory + 1}

\* How many of the oldest may go so that the others fit.
Shifts(m, o) ==
  {n \in 0..Len(o) : Cardinality(InMemory(m) \ Range(SubSeq(o, 1, n))) <= MaxMemory}

SetToMemory(k, blob) ==
  LET m == [memory EXCEPT ![k] = blob]
      o == TouchAccessOrder(order, k)
      n == CHOOSE n \in Shifts(m, o) : \A i \in Shifts(m, o) : n <= i
  IN  /\ memory' = [j \in Keys |-> IF j \in Range(SubSeq(o, 1, n)) THEN None ELSE m[j]]
      /\ order' = SubSeq(o, n + 1, Len(o))

GetFromMemory(k) ==
  /\ order' = IF memory[k] # None THEN TouchAccessOrder(order, k) ELSE order
  /\ UNCHANGED memory

DropFromMemory(k) ==
  /\ memory' = [memory EXCEPT ![k] = None]
  /\ order' = Removed(order, k)

ClearMemory == memory' = [k \in Keys |-> None] /\ order' = <<>>

-----------------------------------------------------------------------------
(***************************************************************************)
(* The database                                                            *)
(***************************************************************************)
User == IF current = 0 THEN None ELSE opening[current].user
State(n) == opening[n].state
DbReady == current # 0 /\ State(current) = "open"
StillOpening == current # 0 /\ State(current) = "pending" /\ ~blocked

\* A record is written, or only its accessedAt: its key comes last in the index.
Put(u, k, blob) ==
  /\ disk' = [disk EXCEPT ![k] = blob]
  /\ accessed' = [accessed EXCEPT ![u] = TouchAccessOrder(@, k)]

(* Mutation: delete drops the entry from memory only. *)
StillThere(u, k) == UNCHANGED records

DeleteRecord(u, k) ==
  /\ disk' = [disk EXCEPT ![k] = None]
  /\ accessed' = [accessed EXCEPT ![u] = Removed(@, k)]

\* The oldest records go until the others fit.
EvictOldIDB(u) ==
  LET n == IF Len(accessed[u]) > MaxIDB THEN Len(accessed[u]) - MaxIDB ELSE 0 IN
  /\ disk' = [k \in Keys |-> IF k \in Range(SubSeq(accessed[u], 1, n)) THEN None ELSE disk[k]]
  /\ accessed' = [accessed EXCEPT ![u] = SubSeq(@, n + 1, Len(@))]

-----------------------------------------------------------------------------
(***************************************************************************)
(* Calls                                                                   *)
(***************************************************************************)
Steps == {"waiting", "queued", "read", "stored"}
Busy(c) == calls[c].step \in Steps
Ended(c) == calls[c].step = "done"

At(c, step) == [calls[c] EXCEPT !.step = step]

\* What is remembered of a call: whether its answer was true while it ran, see AnswersAreCurrent.
Done(call, true) == [step |-> "done", op |-> call.op, true |-> true]
Answer(c, blob) == Done(calls[c], blob \in seen[c] \union {None})
Writes(call) == call.op \in {"set", "delete"}

\* What a key stands for: what was last written, or anything while a write has missed the database.
Meanings(k, l, m) == {l[k]} \union (IF k \in m THEN Blobs \union {None} ELSE {})

Remember(c, call) ==
  seen' = [d \in Calls |->
    IF calls'[d].step \notin Steps \/ calls'[d].op # "get" THEN {}
    ELSE IF d = c THEN Meanings(call.key, last, missed)
    ELSE seen[d] \union Meanings(calls[d].key, last', missed')]

\* await getCacheDB() of a call: a transaction at once, or a wait, or an exception, which
\* every caller takes for "nothing there".
AskForDB(c, call) ==
  \/ /\ DbReady
     /\ calls' = [calls EXCEPT ![c] = [call EXCEPT !.step = "queued"]]
     /\ queue' = [queue EXCEPT ![User] = Append(@, c)]
     /\ missed' = IF Writes(call) THEN missed \ {call.key} ELSE missed
     /\ UNCHANGED waiters
  \/ /\ StillOpening
     /\ calls' = [calls EXCEPT ![c] = [call EXCEPT !.step = "waiting"]]
     /\ waiters' = [waiters EXCEPT ![current] = Append(@, c)]
     /\ UNCHANGED <<queue, missed>>
  \/ /\ ~DbReady /\ ~StillOpening
     /\ calls' = [calls EXCEPT ![c] = Done(call, TRUE)]
     /\ missed' = IF Writes(call) THEN missed \union {call.key} ELSE missed
     /\ UNCHANGED <<queue, waiters>>

NewCall(op, c, k) == [op |-> op, key |-> k, step |-> "none", version |-> version[k], blob |-> None]

\* The application calls the cache for pages of its user.
MayCall(c, k) ==
  /\ calls[c] = NoCall /\ \A d \in Calls : d < c => calls[d] # NoCall
  /\ User # None /\ Owner[k] = User

Get(c, k) ==
  /\ MayCall(c, k)
  /\ GetFromMemory(k)
  /\ IF memory[k] # None
     THEN /\ calls' = [calls EXCEPT ![c] = Done(NewCall("get", c, k), memory[k] \in Meanings(k, last, missed))]
          /\ UNCHANGED <<queue, waiters, missed>>
     ELSE AskForDB(c, NewCall("get", c, k))
  /\ UNCHANGED <<version, records, door, last>>
  /\ Remember(c, NewCall("get", c, k))

BumpVersion(k) == [version EXCEPT ![k] = @ + 1]

Set(c, k) ==
  /\ MayCall(c, k)
  /\ version' = BumpVersion(k)
  /\ SetToMemory(k, c)
  /\ last' = [last EXCEPT ![k] = c]
  /\ AskForDB(c, NewCall("set", c, k))
  /\ UNCHANGED <<records, door>>
  /\ Remember(c, NewCall("set", c, k))

Delete(c, k) ==
  /\ MayCall(c, k)
  /\ version' = BumpVersion(k)
  /\ DropFromMemory(k)
  /\ last' = [last EXCEPT ![k] = None]
  /\ AskForDB(c, NewCall("delete", c, k))
  /\ UNCHANGED <<records, door>>
  /\ Remember(c, NewCall("delete", c, k))

\* The oldest transaction of a database runs.
RunTransaction(u) ==
  /\ queue[u] # <<>>
  /\ LET c == Head(queue[u])
         k == calls[c].key
         Goes(call) == calls' = [calls EXCEPT ![c] = call]
     IN  \/ /\ calls[c].op = "get"
            /\ IF disk[k] = None THEN UNCHANGED records ELSE Put(u, k, disk[k])
            /\ Goes([At(c, "read") EXCEPT !.blob = disk[k]])
         \/ calls[c].op = "set" /\ Put(u, k, c) /\ Goes(At(c, "stored"))
         \/ calls[c].op = "delete" /\ DeleteRecord(u, k) /\ Goes(Answer(c, None))
         \/ calls[c].op = "evict" /\ EvictOldIDB(u) /\ Goes(Answer(c, None))
  /\ queue' = [queue EXCEPT ![u] = Tail(@)]
  /\ UNCHANGED <<lru, version, door, waiters, history>>

(* Mutation: the version is not compared after the read. *)
TrustTheRead(c) == TRUE

NothingCameBetween(c) == version[calls[c].key] = calls[c].version

\* getFromIDB goes on after its transaction.
FinishGet(c) ==
  /\ calls[c].step = "read"
  /\ LET k == calls[c].key IN
       IF calls[c].blob = None
       THEN calls' = [calls EXCEPT ![c] = Answer(c, None)] /\ UNCHANGED lru
       ELSE IF NothingCameBetween(c)
       THEN calls' = [calls EXCEPT ![c] = Answer(c, calls[c].blob)] /\ SetToMemory(k, calls[c].blob)
       ELSE calls' = [calls EXCEPT ![c] = Answer(c, memory[k])] /\ GetFromMemory(k)
  /\ seen' = [seen EXCEPT ![c] = {}]
  /\ UNCHANGED <<version, store, door, waiters, last, missed>>

\* setToIDB goes on: evictOldIDB asks for the database of whoever is the user by now.
FinishPut(c) ==
  /\ calls[c].step = "stored"
  /\ AskForDB(c, [calls[c] EXCEPT !.op = "evict"])
  /\ UNCHANGED <<lru, version, records, door, last, seen>>

-----------------------------------------------------------------------------
(***************************************************************************)
(* Users and connections                                                   *)
(***************************************************************************)
\* Opening n is over for those who wait for it.
Answered(n) == waiters' = [waiters EXCEPT ![n] = <<>>]

\* Calls whose getCacheDB, or whose transaction, fails: no result.
GiveUp(cs) ==
  /\ calls' = [c \in Calls |-> IF c \in cs THEN Answer(c, None) ELSE calls[c]]
  /\ missed' = missed \union {calls[c].key : c \in {d \in cs : Writes(calls[d])}}
  /\ seen' = [d \in Calls |->
       IF Busy(d) /\ d \notin cs /\ calls[d].op = "get" THEN seen[d] \union Meanings(calls[d].key, last, missed') ELSE {}]
  /\ UNCHANGED last

\* setCacheUser: the connection there is, or is to come, is closed; nobody hears of its upgrade.
LeaveDB == [n \in DOMAIN opening |->
  IF n = current /\ State(n) = "open" THEN [opening[n] EXCEPT !.state = "closed"] ELSE opening[n]]

LogIn(u) ==
  /\ User # u /\ Len(opening) < MaxLogins
  /\ opening' = Append(LeaveDB, [user |-> u, state |-> "pending"])
  /\ current' = Len(opening) + 1
  /\ blocked' = FALSE
  /\ UNCHANGED <<lru, version, store, old, held, trouble, calls, waiters, history>>

LogOut ==
  /\ User # None
  /\ ClearMemory
  /\ opening' = LeaveDB /\ current' = 0
  /\ blocked' = FALSE
  /\ UNCHANGED <<version, store, old, held, trouble, calls, waiters, history>>

Trouble == trouble = "to come" /\ trouble' = "past"

Pending(n) == n \in DOMAIN opening /\ State(n) = "pending"

\* Open requests of a database are served one after the other.
FirstPending(n) ==
  Pending(n) /\ \A m \in 1..n - 1 : ~(Pending(m) /\ opening[m].user = opening[n].user)

\* The database opens; a migration, or one that fails and is started over, empties it first.
\* Waiters of the current user make their transactions in order; those of a user who left find
\* the connection closed.
Opens(n) ==
  /\ FirstPending(n) /\ opening[n].user \notin held
  /\ LET u == opening[n].user IN
       /\ \/ u \notin old /\ UNCHANGED <<records, trouble>>
          \/ /\ queue[u] = <<>>
             /\ disk' = [k \in Keys |-> IF Owner[k] = u THEN None ELSE disk[k]]
             /\ accessed' = [accessed EXCEPT ![u] = <<>>]
             /\ IF u \in old THEN UNCHANGED trouble ELSE Trouble
       /\ old' = old \ {u}
       /\ IF n = current
          THEN /\ opening' = [opening EXCEPT ![n].state = "open"]
               /\ blocked' = FALSE
               /\ calls' = [c \in Calls |-> IF c \in Range(waiters[n]) THEN At(c, "queued") ELSE calls[c]]
               /\ queue' = [queue EXCEPT ![u] = @ \o waiters[n]]
               /\ missed' = missed \ {calls[c].key : c \in {d \in Range(waiters[n]) : Writes(calls[d])}}
               /\ UNCHANGED <<last, seen>>
          ELSE /\ opening' = [opening EXCEPT ![n].state = "closed"]
               /\ GiveUp(Range(waiters[n]))
               /\ UNCHANGED <<blocked, queue>>
  /\ Answered(n)
  /\ UNCHANGED <<lru, version, held, current>>

OpenFails(n) ==
  /\ Trouble /\ FirstPending(n)
  /\ opening' = [opening EXCEPT ![n].state = "failed"]
  /\ GiveUp(Range(waiters[n]))
  /\ Answered(n)
  /\ UNCHANGED <<lru, version, store, old, held, current, blocked>>

(* Mutation: markBlocked forgets to reject those who wait already. *)
OnlyNewcomersHear == {}

Heard == IF current = 0 THEN {} ELSE {current}

\* markBlocked, by the event of any open request that waits for an older tab, or by the timer
\* of the current one: those who wait for the current opening hear of it.
MarkBlocked ==
  /\ blocked' = TRUE
  /\ GiveUp(UNION {Range(waiters[n]) : n \in Heard})
  /\ waiters' = [n \in 1..MaxLogins |-> IF n \in Heard THEN <<>> ELSE waiters[n]]
  /\ UNCHANGED <<lru, version, store, old, held, opening, current, trouble>>

BlockedEvent(n) == ~blocked /\ FirstPending(n) /\ opening[n].user \in held /\ MarkBlocked
OpenTimeout == ~blocked /\ current # 0 /\ Pending(current) /\ MarkBlocked

OldTabCloses(u) ==
  /\ u \in held /\ held' = held \ {u}
  /\ UNCHANGED <<lru, version, store, old, opening, current, blocked, trouble, calls, waiters, history>>

\* A newer tab upgrades: the connection closes, and transactions it has made still run.
StepAside ==
  /\ Trouble /\ DbReady
  /\ opening' = [opening EXCEPT ![current].state = "closed"]
  /\ UNCHANGED <<lru, version, store, old, held, current, blocked, calls, waiters, history>>

\* The browser closes the connection, and transactions fail with it.
Terminated ==
  /\ Trouble /\ DbReady
  /\ opening' = [opening EXCEPT ![current].state = "closed"]
  /\ queue' = [queue EXCEPT ![User] = <<>>]
  /\ GiveUp(Range(queue[User]))
  /\ UNCHANGED <<lru, version, records, old, held, current, blocked, waiters>>

-----------------------------------------------------------------------------
Next ==
  \/ \E c \in Calls : FinishGet(c) \/ FinishPut(c) \/ \E k \in Keys : Get(c, k) \/ Set(c, k) \/ Delete(c, k)
  \/ \E u \in Users : RunTransaction(u) \/ LogIn(u) \/ OldTabCloses(u)
  \/ \E n \in 1..MaxLogins : Opens(n) \/ OpenFails(n) \/ BlockedEvent(n)
  \/ LogOut \/ OpenTimeout \/ StepAside \/ Terminated

Spec == Init /\ [][Next]_vars

\* Transactions run, promises that are settled go on, timers fire, and a database nobody holds
\* opens or fails to.  Nobody has to call, to log in or out, or to close a tab.
Fairness ==
  /\ \A u \in Users : WF_vars(RunTransaction(u))
  /\ \A c \in Calls : WF_vars(FinishGet(c) \/ FinishPut(c))
  /\ \A n \in 1..MaxLogins : WF_vars(Opens(n) \/ OpenFails(n))
  /\ WF_vars(OpenTimeout)

FairSpec == Spec /\ Fairness

-----------------------------------------------------------------------------
(***************************************************************************)
(* Properties                                                              *)
(***************************************************************************)
CallStates ==
  {NoCall}
  \union [step : Steps, op : {"get", "set", "delete", "evict"}, key : Keys, version : Nat, blob : Blobs \union {None}]
  \union [step : {"done"}, op : {"get", "set", "delete", "evict"}, true : BOOLEAN]

\* Types of the variables.
TypeOK ==
  /\ memory \in [Keys -> Blobs \union {None}] /\ order \in Seq(Keys)
  /\ version \in [Keys -> Nat]
  /\ disk \in [Keys -> Blobs \union {None}] /\ accessed \in [Users -> Seq(Keys)]
  /\ old \subseteq Users /\ held \subseteq old
  /\ opening \in Seq([user : Users, state : {"pending", "open", "closed", "failed"}]) /\ Len(opening) <= MaxLogins
  /\ current \in {0, Len(opening)} /\ blocked \in BOOLEAN
  /\ calls \in [Calls -> CallStates]
  /\ waiters \in [1..MaxLogins -> Seq(Calls)] /\ queue \in [Users -> Seq(Calls)]
  /\ last \in [Keys -> Blobs \union {None}] /\ missed \subseteq Keys
  /\ seen \in [Calls -> SUBSET (Blobs \union {None})]

\* accessOrder names what memory holds, each once, and there is not more of it than fits: were
\* they ever to disagree, the loop of setToMemory would not end (blob-cache.ts:37-40), or
\* evict what was used last.
LruIsSound ==
  /\ \A i, j \in DOMAIN order : order[i] = order[j] => i = j
  /\ Range(order) = InMemory(memory)
  /\ Len(order) <= MaxMemory

\* What memory holds of a key is what was last written there, whatever reads of the database
\* were under way (blob-cache.ts:16-18, 69-73), unless that write missed the database.
MemoryIsCurrent ==
  \A k \in Keys \ missed : memory[k] \in {None, last[k]}

\* A read that finds something finds what the key stood for at some time while it ran.
AnswersAreCurrent ==
  \A c \in Calls : Ended(c) => calls[c].true

\* When no call is under way, a database holds of a key what was last written there, or nothing,
\* so that nothing stale survives a reload (blob-cache.ts:104-105).  Writes that missed it aside.
DiskIsCurrent ==
  (\A c \in Calls : ~Busy(c)) => \A k \in Keys \ missed : disk[k] \in {None, last[k]}

(***************************************************************************)
(* The inductive invariant.  The version of a key tells which of its       *)
(* writes is the last, and whether a read came after it; and calls are     *)
(* served in the order they were made, those that wait for a database      *)
(* after those whose transactions are made.                                *)
(***************************************************************************)
OfPage(c) == Busy(c) /\ calls[c].op # "evict"
Unwritten(c, k) == calls[c].step \in {"waiting", "queued"} /\ Writes(calls[c]) /\ calls[c].key = k
IsLatest(c) == calls[c].version + 1 = version[calls[c].key]

\* Calls are made in their order, and their versions follow it.
VersionInv ==
  /\ \A c, d \in Calls : c < d /\ calls[d] # NoCall => calls[c] # NoCall
  /\ \A c \in Calls : OfPage(c) =>
       /\ calls[c].version <= version[calls[c].key]
       /\ Writes(calls[c]) =>
            /\ calls[c].version < version[calls[c].key]
            /\ IsLatest(c) => last[calls[c].key] = IF calls[c].op = "set" THEN c ELSE None
  /\ \A c, d \in Calls : c < d /\ OfPage(c) /\ OfPage(d) /\ calls[c].key = calls[d].key =>
       /\ calls[c].version <= calls[d].version
       /\ Writes(calls[c]) => calls[c].version < calls[d].version

\* Who waits where.
LineInv ==
  /\ \A u \in Users : \A i \in DOMAIN queue[u] :
       LET c == queue[u][i] IN calls[c].step = "queued" /\ (OfPage(c) => Owner[calls[c].key] = u)
  /\ \A n \in 1..MaxLogins : \A i \in DOMAIN waiters[n] :
       LET c == waiters[n][i] IN
         /\ calls[c].step = "waiting" /\ Pending(n)
         /\ OfPage(c) => Owner[calls[c].key] = opening[n].user
  /\ \A c \in Calls :
       /\ calls[c].step = "queued" => \E u \in Users : c \in Range(queue[u])
       /\ calls[c].step = "waiting" => \E n \in 1..MaxLogins : c \in Range(waiters[n])
       /\ calls[c].step = "stored" => calls[c].op = "set"
       /\ calls[c].step = "read" => calls[c].op = "get"

Once(s) == \A i, j \in DOMAIN s : s[i] = s[j] => i = j
InOrder(s) == \A i, j \in DOMAIN s : i < j /\ OfPage(s[i]) /\ OfPage(s[j]) => s[i] < s[j]

OrderInv ==
  /\ \A u \in Users : Once(queue[u]) /\ InOrder(queue[u])
  /\ \A u, v \in Users : u # v => Range(queue[u]) \cap Range(queue[v]) = {}
  /\ \A n \in 1..MaxLogins : Once(waiters[n]) /\ InOrder(waiters[n])
  /\ \A n, m \in 1..MaxLogins : n # m => Range(waiters[n]) \cap Range(waiters[m]) = {}
  /\ \A n \in 1..MaxLogins : \A d \in Range(waiters[n]) : \A c \in Calls :
       /\ OfPage(c) /\ OfPage(d) /\ calls[c].step \in {"queued", "read"}
       /\ Owner[calls[c].key] = opening[n].user
       => c < d
  /\ \A n, m \in 1..MaxLogins : \A c \in Range(waiters[n]), d \in Range(waiters[m]) :
       n < m /\ opening[n].user = opening[m].user /\ OfPage(c) /\ OfPage(d) => c < d

\* Nobody gets a database before those who asked for it earlier.
DoorInv ==
  /\ \A n, m \in DOMAIN opening : n < m /\ opening[n].user = opening[m].user /\ Pending(n) => Pending(m)
  /\ blocked /\ current # 0 => waiters[current] = <<>>

WaitsHere(k) == current # 0 /\ \E c \in Range(waiters[current]) : Unwritten(c, k)

\* What of a key is still to be written, and what all its copies are if nothing is.
CopyInv ==
  \A k \in Keys :
    /\ WaitsHere(k) => \E c \in Range(waiters[current]) : Unwritten(c, k) /\ IsLatest(c)
    /\ k \notin missed =>
         \/ \E c \in Calls : Unwritten(c, k) /\ IsLatest(c)
         \/ (\A c \in Calls : ~Unwritten(c, k)) /\ disk[k] \in {None, last[k]}
    /\ k \notin missed \/ WaitsHere(k) => memory[k] \in {None, last[k]}

\* A read that nothing came between has read what was last written.
ReadInv ==
  \A c \in Calls :
    /\ calls[c].step = "read" /\ calls[c].key \notin missed /\ NothingCameBetween(c)
         => calls[c].blob \in {None, last[calls[c].key]}
    /\ Busy(c) /\ calls[c].op = "get" => Meanings(calls[c].key, last, missed) \subseteq seen[c]

IInv ==
  /\ TypeOK /\ LruIsSound /\ AnswersAreCurrent
  /\ VersionInv /\ LineInv /\ OrderInv /\ DoorInv /\ CopyInv /\ ReadInv

\* A call that waits for a database its user has left: setCacheUser forgets the waiters.
Stranded(c) == \E n \in 1..MaxLogins \ {current} : c \in Range(waiters[n])

\* A call ends, also while an older tab blocks the upgrade: "callers fall straight through to
\* the server" (cache-db.ts:39-41).  Not those that setCacheUser has forgotten.
CallsEnd == \A c \in Calls : Busy(c) ~> (Ended(c) \/ Stranded(c))
=============================================================================
