---------------------------- MODULE ApprovalQueue ----------------------------
(***************************************************************************)
(* The approvals queue (src/policy/approvals): one row per request in the  *)
(* shared state.db, a hold with a heartbeat beside every pending row, and  *)
(* the processes that write to it.  Every write of the code is one         *)
(* BEGIN IMMEDIATE transaction, so it is one action here; what a process   *)
(* does between two transactions is kept in that process's own state.      *)
(*                                                                         *)
(* One process, the holder, enqueues requests and waits for their answers  *)
(* (a gate: `wrap`, `connect` or `serve`).  The readers are the other      *)
(* processes that open the queue: the CLI and the UI, which list (and so   *)
(* sweep) and record an operator's answers.  The change counter of the     *)
(* table is superposed on this module by ApprovalFeed.                     *)
(***************************************************************************)
EXTENDS Integers, FiniteSets

CONSTANTS
  Requests,   \* approval ids, one per call that asks
  Operators,  \* processes that record an operator's answers (CLI, UI)
  Readers,    \* processes that list the queue, and so sweep it (CLI, UI)
  Local,      \* the ones on the holder's host: they can probe its pid
  MaxAge,     \* APPROVAL_REQUEST_MAX_AGE_MS: a request's own life
  WaitCap,    \* the policy's approval.timeoutMs; MaxAge when it sets none
  Stale,      \* APPROVAL_HEARTBEAT_STALE_MS
  Retention,  \* RESOLVED_FILE_RETENTION_MS
  MaxNow      \* bound on the clock

ASSUME QueueAssumption ==
  /\ Local \subseteq Operators \cup Readers
  /\ MaxAge \in Nat \ {0}
  /\ WaitCap \in Nat \ {0}
  /\ Stale \in Nat
  /\ Retention \in Nat
  /\ MaxNow \in Nat

NoTime == -1

Answers == {"approved", "denied"}
Settled == Answers \cup {"expired", "withdrawn"}
Status == Settled \cup {"absent", "pending"}
Reasons == {"none", "left", "process-lost"}
Times == 0..MaxNow

VARIABLES
  now,          \* the clock every process reads
  status,       \* the row's status; kept as history once the row is pruned
  requestedAt,  \* the row's requestedAt; expiresAt and waitExpiresAt follow from it
  heartbeatAt,  \* the hold's heartbeat, NoTime when the row has no hold
  resolvedAt,   \* when the row was settled, NoTime before
  reason,       \* why the row was withdrawn
  pruned,       \* rows that retention has deleted
  up,           \* the holder process runs
  pass,         \* a reader's place in sweepPending
  batch,        \* the candidates its current pass has found
  readAt        \* the instant its read judges the queue at

store == <<status, requestedAt, heartbeatAt, resolvedAt, reason, pruned>>
sweeps == <<pass, batch, readAt>>
queueVars == <<now, store, up, sweeps>>

Pending == {r \in Requests : status[r] = "pending"}

-----------------------------------------------------------------------------
(* Judging a request. *)

expiresAt(r) == requestedAt[r] + MaxAge
waitExpiresAt(r) == requestedAt[r] + WaitCap
deliveryEndsAt(r) == IF waitExpiresAt(r) < expiresAt(r) THEN waitExpiresAt(r) ELSE expiresAt(r)

isExpiredAt(limit, t) == t >= limit

isPastDelivery_OwnLifeOnly(r, t) == isExpiredAt(expiresAt(r), t)  \* mutant: forgets the capped wait
isPastDelivery(r, t) == isExpiredAt(deliveryEndsAt(r), t)

isFreshHeartbeat(r, t) == t - heartbeatAt[r] <= Stale

(* What kill(pid, 0) can say of the holder.  A pid of a dead process that  *)
(* the system gave to another one answers "alive"; a hold of another host  *)
(* cannot be probed.  The branch for the prober's own pid is not reached:  *)
(* no process that holds calls lists or resolves.                          *)
probeHolderLiveness(p) ==
  IF p \notin Local THEN {"unknown"}
  ELSE IF up THEN {"alive"}
  ELSE {"gone", "alive"}

isHolderLost_NoProbe(r, t, liveness) ==  \* mutant: a stale heartbeat is enough
  /\ heartbeatAt[r] # NoTime
  /\ ~ isFreshHeartbeat(r, t)

isHolderLost(r, t, liveness) ==
  /\ heartbeatAt[r] # NoTime
  /\ ~ isFreshHeartbeat(r, t)
  /\ liveness = "gone"

(* readResolution: null while the row is pending, unknown or deleted. *)
readResolution(r) ==
  IF status[r] \in Settled /\ r \notin pruned THEN status[r] ELSE "nothing"

-----------------------------------------------------------------------------
moveToResolvedBatch_Overwrites(rs, outcome, why) ==  \* mutant: the row need not be pending
  LET won == {r \in rs : status[r] # "absent"} IN
  /\ status' = [r \in Requests |-> IF r \in won THEN outcome ELSE status[r]]
  /\ heartbeatAt' = [r \in Requests |-> IF r \in won THEN NoTime ELSE heartbeatAt[r]]
  /\ resolvedAt' = [r \in Requests |-> IF r \in won THEN now ELSE resolvedAt[r]]
  /\ reason' = [r \in Requests |-> IF r \in won THEN why ELSE reason[r]]
  /\ UNCHANGED <<requestedAt, pruned>>

(* The write every resolution goes through: in one transaction, the rows   *)
(* of rs that are still pending take the outcome and lose their hold.      *)
moveToResolvedBatch(rs, outcome, why) ==
  LET won == rs \cap Pending IN
  /\ status' = [r \in Requests |-> IF r \in won THEN outcome ELSE status[r]]
  /\ heartbeatAt' = [r \in Requests |-> IF r \in won THEN NoTime ELSE heartbeatAt[r]]
  /\ resolvedAt' = [r \in Requests |-> IF r \in won THEN now ELSE resolvedAt[r]]
  /\ reason' = [r \in Requests |-> IF r \in won THEN why ELSE reason[r]]
  /\ UNCHANGED <<requestedAt, pruned>>

(* The holder's operations.  The clock of an enqueue is read before its    *)
(* transaction; retention runs after it and gives up when contended.       *)

deleteResolvedOlderThan(t) ==
  {r \in Requests : status[r] \in Settled /\ resolvedAt[r] < t - Retention}

enqueue(r, t) ==
  /\ status[r] = "absent"
  /\ status' = [status EXCEPT ![r] = "pending"]
  /\ requestedAt' = [requestedAt EXCEPT ![r] = t]
  /\ heartbeatAt' = [heartbeatAt EXCEPT ![r] = t]
  /\ pruned' \in {pruned, pruned \cup deleteResolvedOlderThan(t)}
  /\ UNCHANGED <<resolvedAt, reason>>

withdraw(r) == moveToResolvedBatch({r}, "withdrawn", "left")

markExpired(r) == moveToResolvedBatch({r}, "expired", "none")

(* A beat's clock, too, is read before its transaction. *)
heartbeat(rs, t) ==
  /\ \A r \in rs : heartbeatAt[r] <= t
  /\ heartbeatAt' = [r \in Requests |-> IF r \in rs \cap Pending THEN t ELSE heartbeatAt[r]]
  /\ UNCHANGED <<status, requestedAt, resolvedAt, reason, pruned>>

-----------------------------------------------------------------------------
(* A reader's operations. *)

(* resolve: an operator's answer, judged under the write lock. *)
resolve(p, r, answer) ==
  /\ \E liveness \in probeHolderLiveness(p) :
       IF isHolderLost(r, now, liveness)
       THEN moveToResolvedBatch({r}, "withdrawn", "process-lost")
       ELSE moveToResolvedBatch({r},
              IF isPastDelivery(r, now) /\ answer = "approved" THEN "expired" ELSE answer,
              "none")
  /\ UNCHANGED <<now, up, sweeps>>

(* list and countPending sweep first.  The read of a pass and its write    *)
(* are two transactions: rows may change in between.                       *)

expiredPendingIds_Unheld(t) ==  \* mutant: spares a request that is still beating
  {r \in Pending : isExpiredAt(expiresAt(r), t) /\ ~ isFreshHeartbeat(r, t)}
expiredPendingIds(t) == {r \in Pending : isExpiredAt(expiresAt(r), t)}

lostHolderIds(t, liveness) == {r \in Pending : isHolderLost(r, t, liveness)}

sweepExpiredPending(p) ==
  /\ pass[p] = "idle"
  /\ readAt' = [readAt EXCEPT ![p] = now]
  /\ batch' = [batch EXCEPT ![p] = expiredPendingIds(now)]
  /\ pass' = [pass EXCEPT ![p] = "expire"]
  /\ UNCHANGED <<now, up, store>>

markExpiredBatch(p) ==
  /\ pass[p] = "expire"
  /\ moveToResolvedBatch(batch[p], "expired", "none")
  /\ pass' = [pass EXCEPT ![p] = "find"]
  /\ UNCHANGED <<now, up, batch, readAt>>

findLost(p) ==
  /\ pass[p] = "find"
  /\ \E liveness \in probeHolderLiveness(p) :
       batch' = [batch EXCEPT ![p] = lostHolderIds(readAt[p], liveness)]
  /\ pass' = [pass EXCEPT ![p] = "withdraw"]
  /\ UNCHANGED <<now, up, readAt, store>>

withdrawLostBatch(p) ==
  /\ pass[p] = "withdraw"
  /\ moveToResolvedBatch(batch[p], "withdrawn", "process-lost")
  /\ pass' = [pass EXCEPT ![p] = "idle"]
  /\ batch' = [batch EXCEPT ![p] = {}]
  /\ readAt' = [readAt EXCEPT ![p] = 0]
  /\ UNCHANGED <<now, up>>

(* Any failure of a pass leaves its rows pending: best effort. *)
sweepFails(p) ==
  /\ pass[p] \in {"expire", "withdraw"}
  /\ pass' = [pass EXCEPT ![p] = IF pass[p] = "expire" THEN "find" ELSE "idle"]
  /\ batch' = [batch EXCEPT ![p] = {}]
  /\ readAt' = IF pass[p] = "expire" THEN readAt ELSE [readAt EXCEPT ![p] = 0]
  /\ UNCHANGED <<now, up, store>>

Read(p) ==
  \/ sweepExpiredPending(p)
  \/ markExpiredBatch(p)
  \/ findLost(p)
  \/ withdrawLostBatch(p)
  \/ sweepFails(p)

Operator(p) == \E r \in Requests, answer \in Answers : status[r] = "pending" /\ resolve(p, r, answer)

Tick ==
  /\ now < MaxNow
  /\ now' = now + 1
  /\ UNCHANGED <<store, up, sweeps>>

-----------------------------------------------------------------------------
(* The queue on its own, with a holder that may call any operation while   *)
(* it runs, and that may be killed at any point.                           *)

QueueInit ==
  /\ now = 0
  /\ status = [r \in Requests |-> "absent"]
  /\ requestedAt = [r \in Requests |-> NoTime]
  /\ heartbeatAt = [r \in Requests |-> NoTime]
  /\ resolvedAt = [r \in Requests |-> NoTime]
  /\ reason = [r \in Requests |-> "none"]
  /\ pruned = {}
  /\ up = TRUE
  /\ pass = [p \in Readers |-> "idle"]
  /\ batch = [p \in Readers |-> {}]
  /\ readAt = [p \in Readers |-> 0]

Enqueue(r) == \E t \in 0..now : up /\ enqueue(r, t) /\ UNCHANGED <<now, up, sweeps>>
Withdraw(r) == up /\ r \in Pending /\ withdraw(r) /\ UNCHANGED <<now, up, sweeps>>
MarkExpired(r) == up /\ r \in Pending /\ markExpired(r) /\ UNCHANGED <<now, up, sweeps>>
Heartbeat ==
  up /\ \E rs \in SUBSET Requests, t \in 0..now : heartbeat(rs, t) /\ UNCHANGED <<now, up, sweeps>>
Crash == up /\ up' = FALSE /\ UNCHANGED <<now, store, sweeps>>

Holder == (\E r \in Requests : Enqueue(r) \/ Withdraw(r) \/ MarkExpired(r)) \/ Heartbeat \/ Crash

QueueNext ==
  \/ Holder
  \/ \E p \in Operators : Operator(p)
  \/ \E p \in Readers : Read(p)
  \/ Tick

QueueSpec == QueueInit /\ [][QueueNext]_queueVars

(* Somebody keeps the list open: the clock moves, a listing that started   *)
(* goes on to its end, and a contended write is not refused for ever.      *)
ListedSpec ==
  /\ QueueSpec
  /\ WF_queueVars(Tick)
  /\ \A p \in Readers : WF_queueVars(Read(p)) /\ SF_queueVars(markExpiredBatch(p))

-----------------------------------------------------------------------------
(* Properties. *)

(* Every variable of the queue has the shape of its column or its process state. *)
QueueTypeOK ==
  /\ now \in Times
  /\ status \in [Requests -> Status]
  /\ requestedAt \in [Requests -> Times \cup {NoTime}]
  /\ heartbeatAt \in [Requests -> Times \cup {NoTime}]
  /\ resolvedAt \in [Requests -> Times \cup {NoTime}]
  /\ reason \in [Requests -> Reasons]
  /\ pruned \subseteq Requests
  /\ up \in BOOLEAN
  /\ pass \in [Readers -> {"idle", "expire", "find", "withdraw"}]
  /\ batch \in [Readers -> SUBSET Requests]
  /\ readAt \in [Readers -> Times]

(* A pending request and its hold start and end together (queue-resolve.ts),     *)
(* whichever of the processes settles it: a settled row without this would be    *)
(* swept again, a pending one without a hold could never be judged lost.         *)
HoldIffPending == \A r \in Requests : (heartbeatAt[r] # NoTime) <=> (status[r] = "pending")

(* An approval is only ever on record when it landed before the agent's capped   *)
(* wait and the request's own life were over (the downgrade in queue.ts resolve). *)
ApprovedInTime ==
  \A r \in Requests : status[r] = "approved" =>
     resolvedAt[r] < requestedAt[r] + MaxAge /\ resolvedAt[r] < requestedAt[r] + WaitCap

(* A request is given up as process-lost only when the process that held it is   *)
(* dead: a slow or sleeping holder keeps its requests (holder.ts isHolderLost),   *)
(* although the sweep judges in one transaction and writes in another.           *)
LostOnlyIfDead == \A r \in Requests : reason[r] = "process-lost" => ~ up

(* One winner: whichever write settles a row first, no operator, sweep,          *)
(* withdrawal or expiry changes its outcome afterwards (queue-resolve.ts settleOne). *)
DecisionStands ==
  [][\A r \in Requests : status[r] \in Settled =>
        status'[r] = status[r] /\ reason'[r] = reason[r] /\ resolvedAt'[r] = resolvedAt[r]]_queueVars

(* A request nobody waits for any more leaves the queue: while somebody lists,   *)
(* one whose life is over is expired by the sweep, whether its holder died,      *)
(* hung or runs on another host, and whichever writes fail on the way.           *)
OrphansLeave ==
  \A r \in Requests :
    (r \in Pending /\ isExpiredAt(expiresAt(r), now)) ~> (status[r] \in Settled)
=============================================================================
