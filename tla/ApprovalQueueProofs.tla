-------------------------- MODULE ApprovalQueueProofs --------------------------
(***************************************************************************)
(* Proofs about ApprovalQueue, and about the feed that reads its changes   *)
(* (ApprovalFeed), for any number of requests, operators and readers and   *)
(* any values of the time limits.  The store is written by three operators *)
(* only (moveToResolvedBatch, enqueue, heartbeat): what each does to it is *)
(* a lemma, used here and by the proofs of the gate.                       *)
(***************************************************************************)
EXTENDS ApprovalFeed, FiniteSetTheorems, TLAPS

StoreTypeOK ==
  /\ status \in [Requests -> Status]
  /\ requestedAt \in [Requests -> Times \cup {NoTime}]
  /\ heartbeatAt \in [Requests -> Times \cup {NoTime}]
  /\ resolvedAt \in [Requests -> Times \cup {NoTime}]
  /\ reason \in [Requests -> Reasons]
  /\ pruned \subseteq Requests

SweepTypeOK ==
  /\ pass \in [Readers -> {"idle", "expire", "find", "withdraw"}]
  /\ batch \in [Readers -> SUBSET Requests]
  /\ readAt \in [Readers -> Times]

(* What one step may do to a settled row: nothing. *)
Stands ==
  \A r \in Requests : status[r] \in Settled =>
     status'[r] = status[r] /\ reason'[r] = reason[r] /\ resolvedAt'[r] = resolvedAt[r]

(* Requests are given up as lost only once their holder is dead, and a     *)
(* sweep that has found some carries them to its write knowing it.         *)
LostInv ==
  /\ LostOnlyIfDead
  /\ \A p \in Readers : pass[p] = "withdraw" /\ batch[p] # {} => ~ up

QueueInv == QueueTypeOK /\ HoldIffPending /\ ApprovedInTime /\ LostInv

USE QueueAssumption DEF NoTime

(* A batch settlement keeps the store well-formed, keeps every hold beside *)
(* its pending row, and leaves settled rows alone.                         *)
LEMMA MoveKeepsStore ==
  ASSUME now \in Times, StoreTypeOK, HoldIffPending,
         NEW rs \in SUBSET Requests, NEW outcome \in Settled, NEW why \in Reasons,
         moveToResolvedBatch(rs, outcome, why)
  PROVE  StoreTypeOK' /\ HoldIffPending' /\ Stands
  BY DEF StoreTypeOK, HoldIffPending, Stands, moveToResolvedBatch, Pending, Settled, Answers,
         Status, Times

(* An insertion does too: the row was not there, and it comes with a hold. *)
LEMMA EnqueueKeepsStore ==
  ASSUME now \in Times, StoreTypeOK, HoldIffPending,
         NEW r \in Requests, NEW t \in Times, enqueue(r, t)
  PROVE  StoreTypeOK' /\ HoldIffPending' /\ Stands
  BY DEF StoreTypeOK, HoldIffPending, Stands, enqueue, deleteResolvedOlderThan, Settled, Answers,
         Status, Times

(* And so does a heartbeat, which only pending rows take. *)
LEMMA HeartbeatKeepsStore ==
  ASSUME now \in Times, StoreTypeOK, HoldIffPending,
         NEW rs \in SUBSET Requests, NEW t \in Times, heartbeat(rs, t)
  PROVE  StoreTypeOK' /\ HoldIffPending' /\ Stands
  BY DEF StoreTypeOK, HoldIffPending, Stands, heartbeat, Pending, Settled, Answers, Status, Times

(* No settlement but an operator's approval makes a row approved. *)
LEMMA MoveKeepsApprovals ==
  ASSUME StoreTypeOK, ApprovedInTime,
         NEW rs \in SUBSET Requests, NEW outcome \in Settled \ {"approved"}, NEW why,
         moveToResolvedBatch(rs, outcome, why)
  PROVE  ApprovedInTime'
  BY DEF StoreTypeOK, ApprovedInTime, moveToResolvedBatch, Pending, Settled, Answers

LEMMA EnqueueKeepsApprovals ==
  ASSUME StoreTypeOK, ApprovedInTime, NEW r \in Requests, NEW t, enqueue(r, t)
  PROVE  ApprovedInTime'
  BY DEF StoreTypeOK, ApprovedInTime, enqueue

(* A batch withdrawn as lost, when its holder is dead, or settled for any  *)
(* other reason, keeps the record of who was given up as lost.             *)
LEMMA MoveKeepsLost ==
  ASSUME StoreTypeOK, LostOnlyIfDead, UNCHANGED up,
         NEW rs \in SUBSET Requests, NEW outcome, NEW why,
         why = "process-lost" /\ rs # {} => ~ up,
         moveToResolvedBatch(rs, outcome, why)
  PROVE  LostOnlyIfDead'
  BY DEF StoreTypeOK, LostOnlyIfDead, moveToResolvedBatch, Pending

(* The probe says "gone" only of a dead process. *)
LEMMA GoneIsDead ==
  ASSUME NEW p, up \in BOOLEAN, "gone" \in probeHolderLiveness(p)
  PROVE  ~ up
  BY DEF probeHolderLiveness

(* An operator's answer: lost, downgraded or recorded as given. *)
LEMMA ResolveCases ==
  ASSUME NEW p, NEW r \in Requests, NEW answer \in Answers, resolve(p, r, answer)
  PROVE  \/ /\ "gone" \in probeHolderLiveness(p)
            /\ moveToResolvedBatch({r}, "withdrawn", "process-lost")
         \/ moveToResolvedBatch({r}, "expired", "none")
         \/ moveToResolvedBatch({r}, "denied", "none")
         \/ ~ isPastDelivery(r, now) /\ moveToResolvedBatch({r}, "approved", "none")
  <1>1. PICK liveness \in probeHolderLiveness(p) :
          IF isHolderLost(r, now, liveness)
          THEN moveToResolvedBatch({r}, "withdrawn", "process-lost")
          ELSE moveToResolvedBatch({r},
                 IF isPastDelivery(r, now) /\ answer = "approved" THEN "expired" ELSE answer,
                 "none")
    BY DEF resolve
  <1>2. CASE isHolderLost(r, now, liveness)
    <2>1. liveness = "gone"  BY <1>2 DEF isHolderLost
    <2> QED  BY <1>1, <1>2, <2>1
  <1>3. CASE ~ isHolderLost(r, now, liveness)
    <2>1. CASE answer = "denied"  BY <1>1, <1>3, <2>1
    <2>2. CASE answer = "approved"  BY <1>1, <1>3, <2>2
    <2> QED  BY <2>1, <2>2 DEF Answers
  <1> QED  BY <1>2, <1>3

(* An approval recorded before delivery ends is in time. *)
LEMMA ApprovalInTime ==
  ASSUME now \in Times, StoreTypeOK, ApprovedInTime, NEW r \in Requests,
         ~ isPastDelivery(r, now), moveToResolvedBatch({r}, "approved", "none")
  PROVE  ApprovedInTime'
  <1>1. now < requestedAt[r] + MaxAge /\ now < requestedAt[r] + WaitCap
    BY DEF isPastDelivery, isExpiredAt, deliveryEndsAt, waitExpiresAt, expiresAt, StoreTypeOK, Times
  <1> QED
    BY <1>1 DEF ApprovedInTime, moveToResolvedBatch, Pending, StoreTypeOK

-----------------------------------------------------------------------------
(* One lemma per kind of step: it keeps QueueInv and leaves settled rows   *)
(* alone.                                                                  *)

LEMMA QueueTypeSplit ==
  QueueTypeOK <=> now \in Times /\ up \in BOOLEAN /\ StoreTypeOK /\ SweepTypeOK
  BY DEF QueueTypeOK, StoreTypeOK, SweepTypeOK

LEMMA IdleKeeps ==
  ASSUME QueueInv, UNCHANGED queueVars
  PROVE  QueueInv' /\ Stands
  BY DEF QueueInv, QueueTypeOK, HoldIffPending, ApprovedInTime, LostInv, LostOnlyIfDead, Stands,
         queueVars, store, sweeps

(* Any settlement but an approval, made at one point of a process. *)
LEMMA MoveKeeps ==
  ASSUME QueueInv, UNCHANGED <<now, up, sweeps>>,
         NEW rs \in SUBSET Requests, NEW outcome \in Settled \ {"approved"}, NEW why \in Reasons,
         why = "process-lost" /\ rs # {} => ~ up,
         moveToResolvedBatch(rs, outcome, why)
  PROVE  QueueInv' /\ Stands
  <1>1. now \in Times /\ up \in BOOLEAN /\ StoreTypeOK /\ SweepTypeOK
    BY QueueTypeSplit DEF QueueInv
  <1>2. StoreTypeOK' /\ HoldIffPending' /\ Stands
    BY <1>1, MoveKeepsStore DEF QueueInv
  <1>3. ApprovedInTime'
    BY <1>1, MoveKeepsApprovals DEF QueueInv
  <1>4. LostOnlyIfDead'
    BY <1>1, MoveKeepsLost DEF QueueInv, LostInv
  <1>5. LostInv'
    BY <1>4 DEF QueueInv, LostInv, sweeps
  <1>6. (now \in Times /\ up \in BOOLEAN /\ SweepTypeOK)'
    BY <1>1 DEF SweepTypeOK, sweeps
  <1>7. QueueTypeOK'
    BY <1>2, <1>6 DEF QueueTypeOK, StoreTypeOK, SweepTypeOK
  <1> QED
    BY <1>2, <1>3, <1>5, <1>7 DEF QueueInv

LEMMA EnqueueKeeps ==
  ASSUME QueueInv, UNCHANGED <<now, up, sweeps>>,
         NEW r \in Requests, NEW t \in Times, enqueue(r, t)
  PROVE  QueueInv' /\ Stands
  <1>1. now \in Times /\ up \in BOOLEAN /\ StoreTypeOK /\ SweepTypeOK
    BY QueueTypeSplit DEF QueueInv
  <1>2. StoreTypeOK' /\ HoldIffPending' /\ Stands
    BY <1>1, EnqueueKeepsStore DEF QueueInv
  <1>3. ApprovedInTime'
    BY <1>1, EnqueueKeepsApprovals DEF QueueInv
  <1>4. LostInv'
    BY DEF QueueInv, LostInv, LostOnlyIfDead, enqueue, sweeps
  <1>5. QueueTypeOK'
    BY <1>1, <1>2 DEF QueueTypeOK, StoreTypeOK, SweepTypeOK, sweeps
  <1> QED
    BY <1>2, <1>3, <1>4, <1>5 DEF QueueInv

LEMMA HeartbeatKeeps ==
  ASSUME QueueInv, UNCHANGED <<now, up, sweeps>>,
         NEW rs \in SUBSET Requests, NEW t \in Times, heartbeat(rs, t)
  PROVE  QueueInv' /\ Stands
  <1>1. now \in Times /\ up \in BOOLEAN /\ StoreTypeOK /\ SweepTypeOK
    BY QueueTypeSplit DEF QueueInv
  <1>2. StoreTypeOK' /\ HoldIffPending' /\ Stands
    BY <1>1, HeartbeatKeepsStore DEF QueueInv
  <1>3. ApprovedInTime' /\ LostInv'
    BY DEF QueueInv, ApprovedInTime, LostInv, LostOnlyIfDead, heartbeat, sweeps
  <1>4. QueueTypeOK'
    BY <1>1, <1>2 DEF QueueTypeOK, StoreTypeOK, SweepTypeOK, sweeps
  <1> QED
    BY <1>2, <1>3, <1>4 DEF QueueInv

LEMMA CrashKeeps ==
  ASSUME QueueInv, Crash
  PROVE  QueueInv' /\ Stands
  BY DEF QueueInv, QueueTypeOK, HoldIffPending, ApprovedInTime, LostInv, LostOnlyIfDead, Stands,
         Crash, store, sweeps

LEMMA TickKeeps ==
  ASSUME QueueInv, Tick
  PROVE  QueueInv' /\ Stands
  BY DEF QueueInv, QueueTypeOK, HoldIffPending, ApprovedInTime, LostInv, LostOnlyIfDead, Stands,
         Tick, Times, store, sweeps

LEMMA OperatorKeeps ==
  ASSUME QueueInv, NEW p \in Operators, Operator(p)
  PROVE  QueueInv' /\ Stands
  <1>1. PICK r \in Requests, answer \in Answers : resolve(p, r, answer)
    BY DEF Operator
  <1>2. UNCHANGED <<now, up, sweeps>>
    BY <1>1 DEF resolve
  <1>3. now \in Times /\ up \in BOOLEAN /\ StoreTypeOK /\ SweepTypeOK
    BY QueueTypeSplit DEF QueueInv
  <1>4. CASE "gone" \in probeHolderLiveness(p) /\ moveToResolvedBatch({r}, "withdrawn", "process-lost")
    BY <1>2, <1>3, <1>4, GoneIsDead, MoveKeeps DEF Settled, Answers, Reasons
  <1>5. CASE moveToResolvedBatch({r}, "expired", "none")
    BY <1>2, <1>5, MoveKeeps DEF Settled, Answers, Reasons
  <1>6. CASE moveToResolvedBatch({r}, "denied", "none")
    BY <1>2, <1>6, MoveKeeps DEF Settled, Answers, Reasons
  <1>7. CASE ~ isPastDelivery(r, now) /\ moveToResolvedBatch({r}, "approved", "none")
    <2>1. StoreTypeOK' /\ HoldIffPending' /\ Stands
      BY <1>3, <1>7, MoveKeepsStore DEF QueueInv, Settled, Answers, Reasons
    <2>2. ApprovedInTime'
      BY <1>3, <1>7, ApprovalInTime DEF QueueInv
    <2>3. LostInv'
      BY <1>2, <1>3, <1>7, MoveKeepsLost DEF QueueInv, LostInv, sweeps
    <2>4. QueueTypeOK'
      BY <1>2, <1>3, <2>1 DEF QueueTypeOK, StoreTypeOK, SweepTypeOK, sweeps
    <2> QED
      BY <2>1, <2>2, <2>3, <2>4 DEF QueueInv
  <1> QED
    BY <1>1, <1>4, <1>5, <1>6, <1>7, ResolveCases

(* A sweep: the candidates a pass has read may have been settled since,    *)
(* and the one that withdraws lost requests has seen their holder dead.    *)
LEMMA ReadKeeps ==
  ASSUME QueueInv, NEW p \in Readers, Read(p)
  PROVE  QueueInv' /\ Stands
  <1>0. now \in Times /\ up \in BOOLEAN /\ StoreTypeOK /\ SweepTypeOK
    BY QueueTypeSplit DEF QueueInv
  <1>1. CASE sweepExpiredPending(p)
    <2>1. HoldIffPending' /\ ApprovedInTime' /\ Stands
      BY <1>1 DEF QueueInv, HoldIffPending, ApprovedInTime, Stands, sweepExpiredPending, store
    <2>2. LostInv'
      BY <1>0, <1>1 DEF QueueInv, LostInv, LostOnlyIfDead, SweepTypeOK, sweepExpiredPending, store
    <2>3. SweepTypeOK'
      BY <1>0, <1>1 DEF SweepTypeOK, sweepExpiredPending, expiredPendingIds, Pending
    <2>4. QueueTypeOK'
      BY <1>0, <1>1, <2>3 DEF QueueTypeOK, StoreTypeOK, SweepTypeOK, sweepExpiredPending, store
    <2> QED  BY <2>1, <2>2, <2>4 DEF QueueInv
  <1>2. CASE markExpiredBatch(p)
    <2>1. batch[p] \in SUBSET Requests
      BY <1>0 DEF SweepTypeOK
    <2>2. StoreTypeOK' /\ HoldIffPending' /\ Stands
      BY <1>0, <1>2, <2>1, MoveKeepsStore DEF QueueInv, markExpiredBatch, Settled, Reasons
    <2>3. ApprovedInTime'
      BY <1>0, <1>2, <2>1, MoveKeepsApprovals DEF QueueInv, markExpiredBatch, Settled, Answers
    <2>4. LostOnlyIfDead'
      BY <1>0, <1>2, <2>1, MoveKeepsLost DEF QueueInv, LostInv, markExpiredBatch
    <2>5. LostInv'
      BY <1>0, <1>2, <2>4 DEF QueueInv, LostInv, SweepTypeOK, markExpiredBatch
    <2>6. QueueTypeOK'
      BY <1>0, <1>2, <2>2 DEF QueueTypeOK, StoreTypeOK, SweepTypeOK, markExpiredBatch
    <2> QED  BY <2>2, <2>3, <2>5, <2>6 DEF QueueInv
  <1>3. CASE findLost(p)
    <2>1. HoldIffPending' /\ ApprovedInTime' /\ Stands
      BY <1>3 DEF QueueInv, HoldIffPending, ApprovedInTime, Stands, findLost, store
    <2>2. PICK liveness \in probeHolderLiveness(p) :
            batch' = [batch EXCEPT ![p] = lostHolderIds(readAt[p], liveness)]
      BY <1>3 DEF findLost
    <2>3. lostHolderIds(readAt[p], liveness) \in SUBSET Requests
      BY DEF lostHolderIds, Pending
    <2>4. lostHolderIds(readAt[p], liveness) # {} => ~ up
      <3>1. lostHolderIds(readAt[p], liveness) # {} => liveness = "gone"
        BY DEF lostHolderIds, isHolderLost
      <3> QED  BY <1>0, <2>2, <3>1, GoneIsDead
    <2>5. LostInv'
      BY <1>0, <1>3, <2>2, <2>4 DEF QueueInv, LostInv, LostOnlyIfDead, SweepTypeOK, findLost, store
    <2>6. QueueTypeOK'
      BY <1>0, <1>3, <2>2, <2>3 DEF QueueTypeOK, StoreTypeOK, SweepTypeOK, findLost, store
    <2> QED  BY <2>1, <2>5, <2>6 DEF QueueInv
  <1>4. CASE withdrawLostBatch(p)
    <2>1. batch[p] \in SUBSET Requests /\ (batch[p] # {} => ~ up)
      BY <1>0, <1>4 DEF QueueInv, LostInv, SweepTypeOK, withdrawLostBatch
    <2>2. StoreTypeOK' /\ HoldIffPending' /\ Stands
      BY <1>0, <1>4, <2>1, MoveKeepsStore DEF QueueInv, withdrawLostBatch, Settled, Reasons
    <2>3. ApprovedInTime'
      BY <1>0, <1>4, <2>1, MoveKeepsApprovals DEF QueueInv, withdrawLostBatch, Settled, Answers
    <2>4. LostOnlyIfDead'
      BY <1>0, <1>4, <2>1, MoveKeepsLost DEF QueueInv, LostInv, withdrawLostBatch
    <2>5. LostInv'
      BY <1>0, <1>4, <2>4 DEF QueueInv, LostInv, SweepTypeOK, withdrawLostBatch
    <2>6. QueueTypeOK'
      BY <1>0, <1>4, <2>2 DEF QueueTypeOK, StoreTypeOK, SweepTypeOK, withdrawLostBatch, Times
    <2> QED  BY <2>2, <2>3, <2>5, <2>6 DEF QueueInv
  <1>5. CASE sweepFails(p)
    <2>1. HoldIffPending' /\ ApprovedInTime' /\ Stands
      BY <1>5 DEF QueueInv, HoldIffPending, ApprovedInTime, Stands, sweepFails, store
    <2>2. LostInv'
      BY <1>0, <1>5 DEF QueueInv, LostInv, LostOnlyIfDead, SweepTypeOK, sweepFails, store
    <2>3. QueueTypeOK'
      BY <1>0, <1>5 DEF QueueTypeOK, StoreTypeOK, SweepTypeOK, sweepFails, store, Times
    <2> QED  BY <2>1, <2>2, <2>3 DEF QueueInv
  <1> QED
    BY <1>1, <1>2, <1>3, <1>4, <1>5 DEF Read

LEMMA HolderKeeps ==
  ASSUME QueueInv, Holder
  PROVE  QueueInv' /\ Stands
  <1>0. now \in Times
    BY DEF QueueInv, QueueTypeOK
  <1>1. CASE \E r \in Requests : Enqueue(r)
    <2>1. PICK r \in Requests, t \in 0..now : enqueue(r, t) /\ UNCHANGED <<now, up, sweeps>>
      BY <1>1 DEF Enqueue
    <2>2. t \in Times
      BY <1>0 DEF Times
    <2> QED  BY <2>1, <2>2, EnqueueKeeps
  <1>2. CASE \E r \in Requests : Withdraw(r)
    <2>1. PICK r \in Requests :
            moveToResolvedBatch({r}, "withdrawn", "left") /\ UNCHANGED <<now, up, sweeps>>
      BY <1>2 DEF Withdraw, withdraw
    <2> QED  BY <2>1, MoveKeeps DEF Settled, Answers, Reasons
  <1>3. CASE \E r \in Requests : MarkExpired(r)
    <2>1. PICK r \in Requests :
            moveToResolvedBatch({r}, "expired", "none") /\ UNCHANGED <<now, up, sweeps>>
      BY <1>3 DEF MarkExpired, markExpired
    <2> QED  BY <2>1, MoveKeeps DEF Settled, Answers, Reasons
  <1>4. CASE Heartbeat
    <2>1. PICK rs \in SUBSET Requests, t \in 0..now :
            heartbeat(rs, t) /\ UNCHANGED <<now, up, sweeps>>
      BY <1>4 DEF Heartbeat
    <2>2. t \in Times
      BY <1>0 DEF Times
    <2> QED  BY <2>1, <2>2, HeartbeatKeeps
  <1>5. CASE Crash
    BY <1>5, CrashKeeps
  <1> QED
    BY <1>1, <1>2, <1>3, <1>4, <1>5 DEF Holder

LEMMA QueueStepKeeps ==
  ASSUME QueueInv, [QueueNext]_queueVars
  PROVE  QueueInv' /\ Stands
  <1>1. CASE Holder  BY <1>1, HolderKeeps
  <1>2. CASE \E p \in Operators : Operator(p)  BY <1>2, OperatorKeeps
  <1>3. CASE \E p \in Readers : Read(p)  BY <1>3, ReadKeeps
  <1>4. CASE Tick  BY <1>4, TickKeeps
  <1>5. CASE UNCHANGED queueVars  BY <1>5, IdleKeeps
  <1> QED  BY <1>1, <1>2, <1>3, <1>4, <1>5 DEF QueueNext

LEMMA QueueInitInv == QueueInit => QueueInv
  BY DEF QueueInit, QueueInv, QueueTypeOK, HoldIffPending, ApprovedInTime, LostInv, LostOnlyIfDead,
         Times, Status, Settled, Answers, Reasons

(* The inductive invariant holds of every behaviour of the queue. *)
THEOREM QueueInvariant == QueueSpec => []QueueInv
  <1>1. QueueInv /\ [QueueNext]_queueVars => QueueInv'
    BY QueueStepKeeps
  <1> QED  BY <1>1, QueueInitInv, PTL DEF QueueSpec

-----------------------------------------------------------------------------
(* The queue's variables keep their shapes (rows, holds, sweeps). *)
THEOREM QueueTypeCorrect == QueueSpec => []QueueTypeOK
  <1>1. QueueInv => QueueTypeOK  BY DEF QueueInv
  <1> QED  BY <1>1, QueueInvariant, PTL

(* Every pending row has its hold and no settled row has one, whichever    *)
(* process settled it (queue-resolve.ts).                                  *)
THEOREM HoldsMatchRows == QueueSpec => []HoldIffPending
  <1>1. QueueInv => HoldIffPending  BY DEF QueueInv
  <1> QED  BY <1>1, QueueInvariant, PTL

(* No approval is on record that landed after delivery had ended           *)
(* (queue.ts resolve).                                                     *)
THEOREM ApprovalsInTime == QueueSpec => []ApprovedInTime
  <1>1. QueueInv => ApprovedInTime  BY DEF QueueInv
  <1> QED  BY <1>1, QueueInvariant, PTL

(* No living process loses a request to a sweep or a resolve               *)
(* (holder.ts isHolderLost).                                               *)
THEOREM LivingHoldersKeep == QueueSpec => []LostOnlyIfDead
  <1>1. QueueInv => LostOnlyIfDead  BY DEF QueueInv, LostInv
  <1> QED  BY <1>1, QueueInvariant, PTL

(* The first settlement of a row is the only one (queue-resolve.ts).       *)
THEOREM DecisionsStand == QueueSpec => DecisionStands
  <1>1. QueueInv /\ [QueueNext]_queueVars =>
          [\A r \in Requests : status[r] \in Settled =>
             status'[r] = status[r] /\ reason'[r] = reason[r] /\ resolvedAt'[r] = resolvedAt[r]]_queueVars
    BY QueueStepKeeps DEF Stands
  <1> QED  BY <1>1, QueueInvariant, PTL DEF QueueSpec, DecisionStands

-----------------------------------------------------------------------------
(***************************************************************************)
(* The feed.  The watcher never loses a change, for any number of          *)
(* requests, writers and overlapping ticks and any page size:              *)
(* NoChangeSkipped.  It is not inductive by itself: the sequence a tick in *)
(* flight asked from must be covered too, so that what the tick reads past *)
(* it joins what is known.                                                 *)
(***************************************************************************)
USE FeedAssumption DEF NoSeq

(* A row has a sequence as soon as it exists. *)
SeqInv == \A r \in Requests : seqOf[r] = 0 <=> status[r] = "absent"

CoverInv ==
  /\ NoChangeSkipped
  /\ \A t \in Ticks : since[t] # NoSeq => Covered(since[t])
  /\ \A t \in Ticks : head[t] # NoSeq => since[t] # NoSeq
  /\ ~ isSeeded => \A t, u \in Ticks : since[t] # NoSeq /\ since[u] # NoSeq => t = u

FeedInv == FeedTypeOK /\ QueueInv /\ SeqInv /\ CoverInv

-----------------------------------------------------------------------------
(* Rows: no write takes one out of the table except retention, which takes *)
(* it for good.                                                            *)
RowsStay ==
  /\ pruned \subseteq pruned'
  /\ \A r \in Requests : status[r] # "absent" => status'[r] # "absent"

LEMMA MoveRows ==
  ASSUME NEW rs, NEW outcome \in Settled, NEW why, moveToResolvedBatch(rs, outcome, why)
  PROVE  RowsStay
  BY DEF RowsStay, moveToResolvedBatch, Settled, Answers

LEMMA WriteRows ==
  ASSUME QueueTypeOK, QueueNext
  PROVE  RowsStay
  <1>1. CASE Holder
    <2>1. CASE \E r \in Requests : Enqueue(r)
      BY <2>1 DEF Enqueue, enqueue, RowsStay, QueueTypeOK
    <2>2. CASE \E r \in Requests : Withdraw(r)
      BY <2>2, MoveRows DEF Withdraw, withdraw, Settled
    <2>3. CASE \E r \in Requests : MarkExpired(r)
      BY <2>3, MoveRows DEF MarkExpired, markExpired, Settled
    <2>4. CASE Heartbeat
      BY <2>4 DEF Heartbeat, heartbeat, RowsStay
    <2>5. CASE Crash
      BY <2>5 DEF Crash, store, RowsStay
    <2> QED  BY <1>1, <2>1, <2>2, <2>3, <2>4, <2>5 DEF Holder
  <1>2. CASE \E p \in Operators : Operator(p)
    <2>1. PICK p \in Operators, r \in Requests, answer \in Answers : resolve(p, r, answer)
      BY <1>2 DEF Operator
    <2>2. \E outcome \in Settled : \E why : moveToResolvedBatch({r}, outcome, why)
      BY <2>1, ResolveCases DEF Settled, Answers
    <2> QED  BY <2>2, MoveRows
  <1>3. CASE \E p \in Readers : Read(p)
    <2>1. PICK p \in Readers : Read(p)
      BY <1>3
    <2>2. CASE markExpiredBatch(p)
      BY <2>2, MoveRows DEF markExpiredBatch, Settled
    <2>3. CASE withdrawLostBatch(p)
      BY <2>3, MoveRows DEF withdrawLostBatch, Settled
    <2>4. CASE UNCHANGED store
      BY <2>4 DEF store, RowsStay
    <2> QED
      BY <2>1, <2>2, <2>3, <2>4 DEF Read, sweepExpiredPending, findLost, sweepFails
  <1>4. CASE Tick
    BY <1>4 DEF Tick, store, RowsStay
  <1> QED
    BY <1>1, <1>2, <1>3, <1>4 DEF QueueNext

(* What a write does to the counter and the stamps. *)
LEMMA WriteStamps ==
  ASSUME FeedTypeOK, bumpChangeSeq
  PROVE  /\ changeSeq' \in Nat /\ changeSeq <= changeSeq'
         /\ seqOf' \in [Requests -> 0..changeSeq']
         /\ \A r \in Requests : IF status'[r] = status[r] THEN seqOf'[r] = seqOf[r]
                                ELSE seqOf'[r] > changeSeq
  <1> DEFINE moved == {r \in Requests : status'[r] # status[r]}
  <1>1. Cardinality(moved) \in Nat
    BY FS_Subset, FS_CardinalityType
  <1>2. changeSeq' = changeSeq + Cardinality(moved)
    BY DEF bumpChangeSeq
  <1>3. PICK order \in [moved -> (changeSeq + 1)..changeSeq'] :
          seqOf' = [r \in Requests |-> IF r \in moved THEN order[r] ELSE seqOf[r]]
    BY DEF bumpChangeSeq
  <1>4. changeSeq' \in Nat /\ changeSeq <= changeSeq'
    BY <1>1, <1>2 DEF FeedTypeOK
  <1>5. \A r \in Requests : IF status'[r] = status[r] THEN seqOf'[r] = seqOf[r]
                            ELSE seqOf'[r] \in (changeSeq + 1)..changeSeq'
    BY <1>3
  <1>6. \A r \in Requests : seqOf[r] \in 0..changeSeq
    BY DEF FeedTypeOK
  <1>7. \A r \in Requests : seqOf'[r] \in 0..changeSeq'
    BY <1>4, <1>5, <1>6 DEF FeedTypeOK
  <1>8. seqOf' = [r \in Requests |-> seqOf'[r]]
    BY <1>3
  <1>9. seqOf' \in [Requests -> 0..changeSeq']
    BY <1>7, <1>8
  <1> QED
    BY <1>4, <1>5, <1>9 DEF FeedTypeOK

-----------------------------------------------------------------------------
(* A page delivers every row between the sequence asked from and the       *)
(* watermark it reports.                                                   *)
LEMMA PageIsComplete ==
  ASSUME FeedTypeOK, NEW t \in Ticks, since[t] # NoSeq, NEW seq, latestSeq(t, seq),
         NEW r \in Requests \ pruned, seqOf[r] > since[t], seqOf[r] <= seq
  PROVE  r \in delivered(since[t])
  <1> DEFINE s == since[t]
             past == changesPast(s)
             before(q) == {x \in past : seqOf[x] < seqOf[q]}
  <1>0. s \in Nat /\ \A q \in Requests : seqOf[q] \in Nat
    BY DEF FeedTypeOK
  <1>1. r \in past
    BY DEF changesPast
  <1>2. IsFiniteSet(past) /\ past \subseteq Requests
    BY FS_Subset DEF changesPast
  <1>3. CASE isTruncated(s)
    <2>1. PICK z \in Requests : z \in delivered(s) /\ seq = seqOf[z]
      BY <1>3 DEF latestSeq, isLastDelivered
    <2>2. before(r) \in SUBSET before(z)
      BY <1>0, <1>2, <2>1
    <2>3. IsFiniteSet(before(z))
      <3>1. before(z) \in SUBSET past  OBVIOUS
      <3> QED  BY <1>2, <3>1, FS_Subset
    <2>4. Cardinality(before(z)) < PageLimit
      BY <2>1 DEF delivered
    <2>5. IsFiniteSet(before(r)) /\ Cardinality(before(r)) <= Cardinality(before(z))
      BY <2>2, <2>3, FS_Subset
    <2>6. Cardinality(before(r)) \in Nat /\ Cardinality(before(z)) \in Nat
      BY <2>3, <2>5, FS_CardinalityType
    <2>7. Cardinality(before(r)) < PageLimit
      BY <2>4, <2>5, <2>6
    <2> QED  BY <1>1, <2>7 DEF delivered
  <1>4. CASE ~ isTruncated(s)
    <2>1. before(r) \in SUBSET (past \ {r})
      BY <1>0
    <2>2. IsFiniteSet(past \ {r}) /\ Cardinality(past \ {r}) = Cardinality(past) - 1
      BY <1>1, <1>2, FS_RemoveElement
    <2>3. IsFiniteSet(before(r)) /\ Cardinality(before(r)) <= Cardinality(past \ {r})
      BY <2>1, <2>2, FS_Subset
    <2>4. Cardinality(past) \in Nat /\ Cardinality(before(r)) \in Nat
      BY <1>2, <2>3, FS_CardinalityType
    <2>5. Cardinality(past) <= PageLimit
      BY <1>4, <2>4 DEF isTruncated
    <2>6. Cardinality(before(r)) < PageLimit
      BY <2>2, <2>3, <2>4, <2>5
    <2> QED  BY <1>1, <2>6 DEF delivered
  <1> QED  BY <1>3, <1>4

(* Applying a page never unsettles what was covered, and extends it to the *)
(* watermark the page reports.                                             *)
LEMMA PageKeepsCovered ==
  ASSUME FeedTypeOK, UNCHANGED <<queueVars, seqOf>>, NEW s,
         announced' = publishApprovalDeltas(delivered(s)), NEW x, Covered(x)
  PROVE  \A r \in Requests \ pruned' : seqOf'[r] <= x => (r \in announced' <=> r \in Pending')
  BY DEF Covered, publishApprovalDeltas, delivered, changesPast, Pending, queueVars, store

LEMMA PageExtendsCovered ==
  ASSUME FeedTypeOK, UNCHANGED <<queueVars, seqOf>>, NEW t \in Ticks, since[t] # NoSeq,
         Covered(since[t]), announced' = publishApprovalDeltas(delivered(since[t])),
         NEW seq, latestSeq(t, seq), seq \in 0..changeSeq
  PROVE  \A r \in Requests \ pruned' : seqOf'[r] <= seq => (r \in announced' <=> r \in Pending')
  <1> SUFFICES ASSUME NEW r \in Requests \ pruned, seqOf[r] <= seq
               PROVE  r \in announced' <=> r \in Pending
    BY DEF Pending, queueVars, store
  <1>0. seqOf[r] \in Nat /\ since[t] \in Nat
    BY DEF FeedTypeOK
  <1>1. CASE seqOf[r] > since[t]
    <2>1. r \in delivered(since[t])
      BY <1>1, PageIsComplete
    <2> QED  BY <2>1 DEF publishApprovalDeltas
  <1>2. CASE seqOf[r] <= since[t]
    <2>1. r \notin delivered(since[t])
      BY <1>0, <1>2 DEF delivered, changesPast
    <2>2. r \in announced <=> r \in Pending
      BY <1>2 DEF Covered
    <2> QED  BY <2>1, <2>2 DEF publishApprovalDeltas
  <1> QED  BY <1>0, <1>1, <1>2

-----------------------------------------------------------------------------
(* One lemma per kind of step. *)

LEMMA FeedIdleKeeps ==
  ASSUME FeedInv, UNCHANGED feedVars
  PROVE  FeedInv'
  <1>1. QueueInv'
    BY IdleKeeps DEF FeedInv, feedVars
  <1>2. FeedTypeOK' /\ SeqInv'
    BY DEF FeedInv, FeedTypeOK, SeqInv, feedVars, watcher, queueVars, store
  <1>3. CoverInv'
    BY DEF FeedInv, CoverInv, NoChangeSkipped, Covered, Pending, feedVars, watcher, queueVars, store
  <1> QED  BY <1>1, <1>2, <1>3 DEF FeedInv

(* A write stamps what it moves past everything any reader has asked from. *)
LEMMA WriteKeeps ==
  ASSUME FeedInv, Write
  PROVE  FeedInv'
  <1>1. QueueInv' /\ RowsStay
    BY QueueStepKeeps, WriteRows DEF FeedInv, QueueInv, Write
  <1>2. /\ changeSeq \in Nat /\ changeSeq' \in Nat /\ changeSeq <= changeSeq'
        /\ seqOf' \in [Requests -> 0..changeSeq']
        /\ \A r \in Requests : IF status'[r] = status[r] THEN seqOf'[r] = seqOf[r]
                               ELSE seqOf'[r] > changeSeq
    BY WriteStamps DEF FeedInv, FeedTypeOK, Write
  <1>3. UNCHANGED <<isSeeded, announced, watermark, since, head, faults>>
    BY DEF Write, watcher
  <1>4. FeedTypeOK'
    BY <1>2, <1>3 DEF FeedInv, FeedTypeOK
  <1>5. SeqInv'
    BY <1>1, <1>2 DEF FeedInv, SeqInv, RowsStay, FeedTypeOK
  <1>6. ASSUME NEW x \in 0..changeSeq, Covered(x)
        PROVE  \A r \in Requests \ pruned' : seqOf'[r] <= x => (r \in announced' <=> r \in Pending')
    <2> SUFFICES ASSUME NEW r \in Requests \ pruned', seqOf'[r] <= x
                 PROVE  r \in announced <=> r \in Pending'
      BY <1>3
    <2>1. r \notin pruned
      BY <1>1 DEF RowsStay
    <2>2. status'[r] = status[r] /\ seqOf'[r] = seqOf[r]
      BY <1>2
    <2> QED  BY <1>6, <2>1, <2>2 DEF Covered, Pending
  <1>7. NoChangeSkipped'
    BY <1>3, <1>6 DEF FeedInv, FeedTypeOK, CoverInv, NoChangeSkipped, Covered
  <1>8. (\A t \in Ticks : since[t] # NoSeq => Covered(since[t]))'
    BY <1>3, <1>6 DEF FeedInv, FeedTypeOK, CoverInv, Covered
  <1>9. CoverInv'
    BY <1>3, <1>7, <1>8 DEF FeedInv, CoverInv
  <1> QED  BY <1>1, <1>4, <1>5, <1>9 DEF FeedInv

(* The start of a poll or a seed: nothing before sequence 1 exists. *)
LEMMA PollKeeps ==
  ASSUME FeedInv, NEW t \in Ticks, pollApprovals(t), UNCHANGED <<queueVars, changeSeq, seqOf>>
  PROVE  FeedInv'
  <1>1. QueueInv'
    BY IdleKeeps DEF FeedInv
  <1>2. FeedTypeOK' /\ SeqInv'
    BY DEF FeedInv, FeedTypeOK, SeqInv, pollApprovals, queueVars, store
  <1>3. CASE isSeeded
    <2>1. CoverInv'
      BY <1>3 DEF FeedInv, FeedTypeOK, CoverInv, NoChangeSkipped, Covered, Pending, pollApprovals,
                  queueVars, store
    <2> QED  BY <1>1, <1>2, <2>1 DEF FeedInv
  <1>4. CASE ~ isSeeded
    <2>1. \A r \in Requests : seqOf[r] <= 0 => r \notin Pending
      BY DEF FeedInv, FeedTypeOK, SeqInv, Pending
    <2>2. /\ announced' = {} /\ isSeeded' = FALSE /\ head' = head
          /\ since' = [since EXCEPT ![t] = 0]
          /\ \A u \in Ticks : since[u] = NoSeq
      BY <1>4 DEF pollApprovals, FeedInv, FeedTypeOK
    <2>3. \A u \in Ticks : since'[u] # NoSeq => u = t /\ since'[u] = 0
      BY <2>2 DEF FeedInv, FeedTypeOK
    <2>4. (\A u \in Ticks : since[u] # NoSeq => Covered(since[u]))'
      BY <2>1, <2>2, <2>3 DEF Covered, Pending, queueVars, store
    <2>5. (\A u \in Ticks : head[u] # NoSeq => since[u] # NoSeq)'
      BY <2>2 DEF FeedInv, CoverInv
    <2>6. CoverInv'
      BY <2>2, <2>3, <2>4, <2>5 DEF CoverInv, NoChangeSkipped
    <2> QED  BY <1>1, <1>2, <2>6 DEF FeedInv
  <1> QED  BY <1>3, <1>4

LEMMA HeadKeeps ==
  ASSUME FeedInv, NEW t \in Ticks, selectLatestChangeSeq(t), UNCHANGED <<queueVars, changeSeq, seqOf>>
  PROVE  FeedInv'
  <1>1. QueueInv'
    BY IdleKeeps DEF FeedInv
  <1>2. FeedTypeOK' /\ SeqInv'
    BY DEF FeedInv, FeedTypeOK, SeqInv, selectLatestChangeSeq, queueVars, store
  <1>3. CoverInv'
    BY DEF FeedInv, FeedTypeOK, CoverInv, NoChangeSkipped, Covered, Pending, selectLatestChangeSeq,
           queueVars, store
  <1> QED  BY <1>1, <1>2, <1>3 DEF FeedInv

(* The end of a page, of a poll or of the seed. *)
LEMMA PageKeeps ==
  ASSUME FeedInv, NEW t \in Ticks, selectChangesSince(t), UNCHANGED <<queueVars, changeSeq, seqOf>>
  PROVE  FeedInv'
  <1>0. FeedTypeOK /\ CoverInv /\ head[t] # NoSeq /\ since[t] # NoSeq /\ Covered(since[t])
    BY DEF FeedInv, CoverInv, selectChangesSince
  <1>1. announced' = publishApprovalDeltas(delivered(since[t])) /\ UNCHANGED faults
        /\ head' = [head EXCEPT ![t] = NoSeq]
    BY DEF selectChangesSince
  <1>2. PICK seq \in 0..changeSeq :
          latestSeq(t, seq) /\ IF isSeeded THEN drain(t, seq) ELSE seedApprovals(t, seq)
    BY DEF selectChangesSince
  <1>3. \A r \in Requests \ pruned' : seqOf'[r] <= seq => (r \in announced' <=> r \in Pending')
    BY <1>0, <1>1, <1>2, PageExtendsCovered
  <1>4. ASSUME NEW x, Covered(x)
        PROVE  \A r \in Requests \ pruned' : seqOf'[r] <= x => (r \in announced' <=> r \in Pending')
    BY <1>0, <1>1, <1>4, PageKeepsCovered
  <1>5. QueueInv'
    BY IdleKeeps DEF FeedInv
  <1>6. SeqInv'
    BY DEF FeedInv, SeqInv, queueVars, store
  <1>7. announced' \subseteq Requests
    BY <1>0, <1>1 DEF FeedTypeOK, publishApprovalDeltas, Pending
  <1>8. CASE isSeeded
    <2>1. /\ watermark' = seq /\ isSeeded' = isSeeded
          /\ \/ since' = [since EXCEPT ![t] = NoSeq]
             \/ since' = [since EXCEPT ![t] = seq]
      BY <1>2, <1>8 DEF drain
    <2>2. FeedTypeOK'
      BY <1>0, <1>1, <1>7, <2>1 DEF FeedTypeOK
    <2>3. NoChangeSkipped'
      BY <1>3, <2>1 DEF NoChangeSkipped, Covered
    <2>4. (\A u \in Ticks : since[u] # NoSeq => Covered(since[u]))'
      <3> SUFFICES ASSUME NEW u \in Ticks, since'[u] # NoSeq
                   PROVE  \A r \in Requests \ pruned' : seqOf'[r] <= since'[u] =>
                             (r \in announced' <=> r \in Pending')
        BY DEF Covered
      <3>1. CASE u = t
        BY <1>0, <1>3, <2>1, <3>1 DEF FeedTypeOK
      <3>2. CASE u # t
        BY <1>0, <1>4, <2>1, <3>2 DEF FeedTypeOK, CoverInv
      <3> QED  BY <3>1, <3>2
    <2>5. (\A u \in Ticks : head[u] # NoSeq => since[u] # NoSeq)'
      BY <1>0, <1>1, <2>1 DEF FeedTypeOK, CoverInv
    <2>6. CoverInv'
      BY <1>8, <2>1, <2>3, <2>4, <2>5 DEF CoverInv
    <2> QED  BY <1>5, <1>6, <2>2, <2>6 DEF FeedInv
  <1>9. CASE ~ isSeeded
    <2>0. \A u \in Ticks : u # t => since[u] = NoSeq
      BY <1>0, <1>9 DEF CoverInv
    <2>1. CASE since' = [since EXCEPT ![t] = seq] /\ UNCHANGED <<isSeeded, watermark>>
      <3>1. FeedTypeOK'
        BY <1>0, <1>1, <1>7, <2>1 DEF FeedTypeOK
      <3>2. \A u \in Ticks : since'[u] # NoSeq => u = t /\ since'[u] = seq
        BY <1>0, <2>0, <2>1 DEF FeedTypeOK
      <3>3. (\A u \in Ticks : since[u] # NoSeq => Covered(since[u]))'
        BY <1>3, <3>2 DEF Covered
      <3>4. (\A u \in Ticks : head[u] # NoSeq => since[u] # NoSeq)'
        BY <1>0, <1>1, <2>1 DEF FeedTypeOK, CoverInv
      <3>5. CoverInv'
        BY <1>9, <2>1, <3>2, <3>3, <3>4 DEF CoverInv, NoChangeSkipped
      <3> QED  BY <1>5, <1>6, <3>1, <3>5 DEF FeedInv
    <2>2. CASE /\ since' = [since EXCEPT ![t] = NoSeq] /\ isSeeded' = TRUE
               /\ watermark' = IF seq > since[t] THEN seq ELSE since[t]
      <3>1. FeedTypeOK'
        BY <1>0, <1>1, <1>7, <2>2 DEF FeedTypeOK
      <3>2. \A u \in Ticks : since'[u] = NoSeq
        BY <1>0, <2>0, <2>2 DEF FeedTypeOK
      <3>3. NoChangeSkipped'
        BY <1>0, <1>3, <1>4, <2>2 DEF NoChangeSkipped, Covered
      <3>4. (\A u \in Ticks : head[u] # NoSeq => since[u] # NoSeq)'
        BY <1>0, <1>1, <2>0 DEF FeedTypeOK, CoverInv
      <3>5. CoverInv'
        BY <2>2, <3>2, <3>3, <3>4 DEF CoverInv
      <3> QED  BY <1>5, <1>6, <3>1, <3>5 DEF FeedInv
    <2> QED  BY <1>2, <1>9, <2>1, <2>2 DEF seedApprovals
  <1> QED  BY <1>8, <1>9

LEMMA FailKeeps ==
  ASSUME FeedInv, NEW t \in Ticks, pollFails(t), UNCHANGED <<queueVars, changeSeq, seqOf>>
  PROVE  FeedInv'
  <1>1. QueueInv'
    BY IdleKeeps DEF FeedInv
  <1>2. FeedTypeOK' /\ SeqInv'
    BY DEF FeedInv, FeedTypeOK, SeqInv, pollFails, queueVars, store
  <1>3. CoverInv'
    BY DEF FeedInv, FeedTypeOK, CoverInv, NoChangeSkipped, Covered, Pending, pollFails,
           queueVars, store
  <1> QED  BY <1>1, <1>2, <1>3 DEF FeedInv

LEMMA RestartKeeps ==
  ASSUME FeedInv, restartUi, UNCHANGED <<queueVars, changeSeq, seqOf>>
  PROVE  FeedInv'
  <1>1. QueueInv'
    BY IdleKeeps DEF FeedInv
  <1>2. SeqInv'
    BY DEF FeedInv, SeqInv, queueVars, store
  <1>3. FeedTypeOK'
    <2>1. faults' \in 0..MaxFaults
      BY DEF FeedInv, FeedTypeOK, restartUi
    <2>2. isSeeded' \in BOOLEAN
      BY Zenon DEF restartUi
    <2>3. /\ since' \in [Ticks -> (0..changeSeq) \cup {NoSeq}]
          /\ head' \in [Ticks -> (0..changeSeq) \cup {NoSeq}]
      BY DEF restartUi
    <2> QED  BY <2>1, <2>2, <2>3 DEF FeedInv, FeedTypeOK, restartUi
  <1>4. CoverInv'
    BY DEF CoverInv, NoChangeSkipped, restartUi
  <1> QED  BY <1>1, <1>2, <1>3, <1>4 DEF FeedInv

(* The inductive invariant of the feed. *)
THEOREM FeedInvariant == FeedSpec => []FeedInv
  <1>1. FeedInit => FeedInv
    <2> SUFFICES ASSUME FeedInit PROVE FeedInv
      OBVIOUS
    <2>1. QueueInv
      BY QueueInitInv DEF FeedInit
    <2>2. isSeeded \in BOOLEAN
      BY Zenon DEF FeedInit
    <2>3. FeedTypeOK
      BY <2>2 DEF FeedInit, FeedTypeOK
    <2>4. SeqInv /\ CoverInv
      BY DEF FeedInit, QueueInit, SeqInv, CoverInv, NoChangeSkipped
    <2> QED  BY <2>1, <2>3, <2>4 DEF FeedInv
  <1>2. FeedInv /\ [FeedNext]_feedVars => FeedInv'
    BY FeedIdleKeeps, WriteKeeps, PollKeeps, HeadKeeps, PageKeeps, FailKeeps, RestartKeeps
       DEF FeedNext, Watch, TickStep
  <1> QED  BY <1>1, <1>2, PTL DEF FeedSpec

(* The feed's variables keep their shapes: no stamp, watermark or reader   *)
(* is ever ahead of the counter.                                           *)
THEOREM FeedTypeCorrect == FeedSpec => []FeedTypeOK
  <1>1. FeedInv => FeedTypeOK  BY DEF FeedInv
  <1> QED  BY <1>1, FeedInvariant, PTL

(* The watcher shows exactly the pending requests among the rows its       *)
(* watermark has passed (ui/watch.ts, queue-changes.ts).                   *)
THEOREM WatcherLosesNothing == FeedSpec => []NoChangeSkipped
  <1>1. FeedInv => NoChangeSkipped  BY DEF FeedInv, CoverInv
  <1> QED  BY <1>1, FeedInvariant, PTL
=============================================================================
