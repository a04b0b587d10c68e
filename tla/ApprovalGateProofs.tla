--------------------------- MODULE ApprovalGateProofs ---------------------------
(***************************************************************************)
(* Proofs about ApprovalGate, for any number of calls, ids, operators and  *)
(* readers, on both session paths, with or without a fail-closed journal   *)
(* and with storage that may fail: type correctness, AnswerMatchesRecord,  *)
(* and that the gate implements CallOutcome; then the gate's bookkeeping   *)
(* (the cap, the cancels, the cause of every silence, nothing forwarded    *)
(* after the client's end) and the outcome guard.                          *)
(***************************************************************************)
EXTENDS ApprovalGate, ApprovalQueueProofs, SequenceTheorems

USE QueueAssumption, GateAssumption DEF NoTime

FlowTypeOK ==
  /\ pc \in [Requests -> {"idle"} \cup InFlight \cup Terminal]
  /\ askedAt \in [Requests -> Times \cup {NoTime}]
  /\ deadline \in [Requests -> (0..(MaxNow + holdLimit)) \cup {NoTime}]
  /\ seen \in [Requests -> Settled \cup {"none", "nothing"}]
  /\ left \in [Requests -> {"none", "cancelled", "disconnected"}]
  /\ leaving \in [Requests -> {"no", "asked", "done"}]
  /\ admitted \in Int

SessionTypeOK ==
  /\ closed \in BOOLEAN
  /\ stage \in {"open", "ending", "withdrawing", "over"}
  /\ awaited \subseteq Requests

CancelTypeOK ==
  /\ verdictOf \in [Ids -> Requests \cup {NoCall}]
  /\ cancelled \subseteq Ids
  /\ cancelMsg \in [Ids -> {"unsent", "queued", "forwarded", "dropped", "abandoned"}]
  /\ behind \in [Ids -> Requests \cup {NoCall}]

GuardTypeOK ==
  /\ lru \in Seq(Ids)
  /\ burned \subseteq Ids
  /\ denied \in Nat
  /\ spoiled \subseteq Requests

GateTypeOK ==
  FlowTypeOK /\ SessionTypeOK /\ CancelTypeOK /\ GuardTypeOK /\ faulted \subseteq Requests

LEMMA TypeSplit == TypeOK <=> QueueTypeOK /\ GateTypeOK
  BY DEF TypeOK, GateTypeOK, FlowTypeOK, SessionTypeOK, CancelTypeOK, GuardTypeOK

LEMMA IdOfType == \A c \in Requests : IdOf[c] \in Ids
  OBVIOUS

LEMMA HoldLimitType == holdLimit \in Nat
  BY DEF holdLimit

-----------------------------------------------------------------------------
(* What the operators the actions are built from do to the types. *)

LEMMA WithoutType ==
  ASSUME NEW ids \in Seq(Ids), NEW id
  PROVE  without(ids, id) \in Seq(Ids)
  <1>1. CASE holds(ids, id)
    <2> DEFINE k == CHOOSE k \in 1..Len(ids) : ids[k] = id
    <2>1. k \in 1..Len(ids)
      BY <1>1 DEF holds
    <2>2. k \in Int /\ Len(ids) \in Int /\ \A i \in 1..Len(ids) : ids[i] \in Ids
      BY <2>1
    <2>3. SubSeq(ids, 1, k - 1) \in Seq(Ids) /\ SubSeq(ids, k + 1, Len(ids)) \in Seq(Ids)
      <3>1. \A i \in 1..(k - 1) : ids[i] \in Ids
        BY <2>1, <2>2
      <3>2. \A i \in (k + 1)..Len(ids) : ids[i] \in Ids
        BY <2>1, <2>2
      <3> HIDE DEF k
      <3>3. SubSeq(ids, 1, k - 1) \in Seq(Ids)
        BY <2>2, <3>1, SubSeqProperties
      <3>4. SubSeq(ids, k + 1, Len(ids)) \in Seq(Ids)
        BY <2>2, <3>2, SubSeqProperties
      <3> QED  BY <3>3, <3>4
    <2>4. SubSeq(ids, 1, k - 1) \o SubSeq(ids, k + 1, Len(ids)) \in Seq(Ids)
      BY <2>3
    <2> QED  BY <1>1, <2>4 DEF without
  <1>2. CASE ~ holds(ids, id)
    BY <1>2 DEF without
  <1> QED  BY <1>1, <1>2

LEMMA EvictType ==
  ASSUME NEW ids \in Seq(Ids)
  PROVE  evictOldest(ids) \in Seq(Ids)
  BY DEF evictOldest

LEMMA MarkType ==
  ASSUME GuardTypeOK, NEW id \in Ids, NEW by, NEW burns \in SUBSET Ids, markAnswered(id, by, burns)
  PROVE  lru' \in Seq(Ids) /\ burned' \subseteq Ids /\ spoiled' \subseteq Requests
  <1>1. evictOldest(without(lru, id)) \in Seq(Ids)
    BY WithoutType, EvictType DEF GuardTypeOK
  <1> QED  BY <1>1 DEF markAnswered, GuardTypeOK

LEMMA EndWaitType ==
  ASSUME GuardTypeOK, NEW cs
  PROVE  endWait(cs) \in SUBSET Ids
  BY DEF endWait, GuardTypeOK

LEMMA SettleType ==
  ASSUME FlowTypeOK, CancelTypeOK, NEW c \in Requests, NEW end, NEW action,
         settleVerdict(c, end, action)
  PROVE  CancelTypeOK' /\ pc' = [pc EXCEPT ![c] = end]
  BY DEF CancelTypeOK, settleVerdict, applyVerdict

(* The ways a decision goes on: to its end, or to the flush before it. *)
LEMMA ForwardType ==
  ASSUME FlowTypeOK, CancelTypeOK, GuardTypeOK, NEW c \in Requests, NEW burns \in SUBSET Ids,
         FORWARD(c, burns)
  PROVE  /\ CancelTypeOK' /\ GuardTypeOK'
         /\ pc' = [pc EXCEPT ![c] = applyVerdict("forward")]
         /\ applyVerdict("forward") \in {"forwarded", "dropped"}
  <1>1. CancelTypeOK' /\ pc' = [pc EXCEPT ![c] = applyVerdict("forward")]
    BY SettleType DEF FORWARD
  <1> QED  BY <1>1 DEF FORWARD, GuardTypeOK, applyVerdict

LEMMA DropType ==
  ASSUME FlowTypeOK, CancelTypeOK, GuardTypeOK, NEW c \in Requests, NEW burns \in SUBSET Ids,
         DROP(c, burns)
  PROVE  CancelTypeOK' /\ GuardTypeOK' /\ pc' = [pc EXCEPT ![c] = "dropped"]
  <1>1. CancelTypeOK' /\ pc' = [pc EXCEPT ![c] = "dropped"]
    BY SettleType DEF DROP
  <1> QED  BY <1>1 DEF DROP, GuardTypeOK

LEMMA AnswerType ==
  ASSUME FlowTypeOK, CancelTypeOK, GuardTypeOK, NEW c \in Requests, NEW end,
         NEW burns \in SUBSET Ids, answerLocally(c, end, burns)
  PROVE  CancelTypeOK' /\ GuardTypeOK' /\ pc' = [pc EXCEPT ![c] = end]
  <1>1. CancelTypeOK' /\ pc' = [pc EXCEPT ![c] = end]
    BY SettleType DEF answerLocally
  <1>2. lru' \in Seq(Ids) /\ burned' \subseteq Ids /\ spoiled' \subseteq Requests
    BY MarkType, IdOfType DEF answerLocally
  <1> QED  BY <1>1, <1>2 DEF answerLocally, GuardTypeOK

LEMMA FlushType ==
  ASSUME CancelTypeOK, GuardTypeOK, NEW c \in Requests, NEW at, NEW burns \in SUBSET Ids,
         awaitFlush(c, at, burns)
  PROVE  CancelTypeOK' /\ GuardTypeOK' /\ pc' = [pc EXCEPT ![c] = at]
  BY DEF awaitFlush, CancelTypeOK, GuardTypeOK, cancels

LEMMA DenyType ==
  ASSUME FlowTypeOK, CancelTypeOK, GuardTypeOK, NEW c \in Requests, denyOnGateError(c)
  PROVE  /\ CancelTypeOK' /\ GuardTypeOK' /\ faulted' = faulted \cup {c}
         /\ \E end \in {"flush-error", "refused"} : pc' = [pc EXCEPT ![c] = end]
  <1>1. burned \in SUBSET Ids
    BY DEF GuardTypeOK
  <1> QED  BY <1>1, FlushType, AnswerType DEF denyOnGateError

(* The end of a wait, with the outcomes it may lead to. *)
WaitEnd(c, outcome) ==
  CASE outcome = "approved" -> {"flush-answered", "dropped", "flush-approved", "forwarded"}
    [] outcome = "denied" -> {"flush-denied", "denied"}
    [] OTHER -> {"flush-gone", "gone", "expire"}

LEMMA FinishType ==
  ASSUME FlowTypeOK, CancelTypeOK, GuardTypeOK, NEW c \in Requests,
         NEW outcome \in {"approved", "denied", "withdrawn", "timeout"}, finishApproval(c, outcome)
  PROVE  /\ CancelTypeOK' /\ GuardTypeOK' /\ admitted' \in Int
         /\ \E end \in WaitEnd(c, outcome) : pc' = [pc EXCEPT ![c] = end]
         /\ seen' = [seen EXCEPT ![c] = "none"]
         /\ deadline' = [deadline EXCEPT ![c] = NoTime]
         /\ UNCHANGED <<askedAt, left>>
  <1> DEFINE burns == endWait({c})
  <1>1. burns \in SUBSET Ids
    BY EndWaitType
  <1>2. /\ seen' = [seen EXCEPT ![c] = "none"]
        /\ deadline' = [deadline EXCEPT ![c] = NoTime]
        /\ UNCHANGED <<askedAt, left>>
    BY DEF finishApproval
  <1>3. admitted \in Int
    BY DEF FlowTypeOK
  <1> HIDE DEF burns
  <1>4. CASE outcome = "approved" /\ finishApproved(c, burns)
    <2>1. CASE FailClosed
      <3>1. \E at \in {"flush-answered", "flush-approved"} : awaitFlush(c, at, burns) /\ UNCHANGED admitted
        BY <1>4, <2>1 DEF finishApproved
      <3> QED  BY <1>1, <1>2, <1>3, <1>4, <3>1, FlushType DEF WaitEnd
    <2>2. CASE ~ FailClosed
      <3>1. (DROP(c, burns) \/ FORWARD(c, burns)) /\ admitted' = admitted - 1
        BY <1>4, <2>2 DEF finishApproved, release
      <3> QED  BY <1>1, <1>2, <1>3, <1>4, <3>1, DropType, ForwardType DEF WaitEnd
    <2> QED  BY <2>1, <2>2
  <1>5. CASE outcome = "withdrawn" /\ finishAgentGone(c, burns)
    <2>1. \/ awaitFlush(c, "flush-gone", burns) /\ admitted' = admitted
          \/ answerLocally(c, "gone", burns) /\ admitted' = admitted - 1
      BY <1>5 DEF finishAgentGone, release
    <2> QED  BY <1>1, <1>2, <1>3, <1>5, <2>1, FlushType, AnswerType DEF WaitEnd
  <1>6. CASE outcome = "denied" /\ finishDenied(c, burns)
    <2>1. \/ awaitFlush(c, "flush-denied", burns) /\ admitted' = admitted
          \/ answerLocally(c, "denied", burns) /\ admitted' = admitted - 1
      BY <1>6 DEF finishDenied, release
    <2> QED  BY <1>1, <1>2, <1>3, <1>6, <2>1, FlushType, AnswerType DEF WaitEnd
  <1>7. CASE outcome \in {"timeout", "withdrawn"} /\ awaitFlush(c, "expire", burns) /\ UNCHANGED admitted
    BY <1>1, <1>2, <1>3, <1>7, FlushType DEF WaitEnd
  <1> QED  BY <1>4, <1>5, <1>6, <1>7 DEF finishApproval, burns

(* Only a withdrawal ends a wait as one whose agent is gone. *)
LEMMA GoneOnlyIfWithdrawn ==
  ASSUME FlowTypeOK, NEW c \in Requests, NEW outcome, finishApproval(c, outcome),
         pc'[c] \in {"flush-gone", "gone"}
  PROVE  outcome = "withdrawn"
  <1> SUFFICES ASSUME outcome # "withdrawn" PROVE FALSE
    OBVIOUS
  <1> DEFINE burns == endWait({c})
  <1> HIDE DEF burns
  <1>1. CASE finishApproved(c, burns)
    BY <1>1 DEF finishApproved, awaitFlush, DROP, FORWARD, settleVerdict, applyVerdict, FlowTypeOK
  <1>2. CASE finishDenied(c, burns)
    BY <1>2 DEF finishDenied, awaitFlush, answerLocally, settleVerdict, FlowTypeOK
  <1>3. CASE awaitFlush(c, "expire", burns)
    BY <1>3 DEF awaitFlush, FlowTypeOK
  <1> QED  BY <1>1, <1>2, <1>3 DEF finishApproval, burns

-----------------------------------------------------------------------------
(* The inductive invariant: what a call has seen, and where its decision   *)
(* stands, agrees with its row at every step, not only at its end.         *)
Ruled(c) ==
  /\ seen[c] \in Settled => status[c] = seen[c]
  /\ pc[c] \in {"flush-approved", "forwarded"} => status[c] = "approved"
  /\ pc[c] \in {"flush-denied", "denied"} => status[c] = "denied"
  /\ pc[c] \in {"idle", "enqueue"} => status[c] = "absent"
  /\ pc[c] = "enqueue" => askedAt[c] # NoTime
  /\ pc[c] \in {"flush-pending", "held", "expire"} => status[c] # "absent"
  /\ pc[c] \in {"expired", "flush-timeout", "timed-out", "flush-gone", "gone"} /\ c \notin faulted
       => status[c] \in Settled

AllRuled == \A c \in Requests : Ruled(c)

GateInv == QueueInv /\ GateTypeOK /\ AllRuled

Refines == [Outcome!Next]_(Outcome!outcomeVars)

(* What a write of another call, or of another process, may do to a row. *)
RowKept(d) ==
  /\ status[d] \in Settled => status'[d] = status[d]
  /\ status[d] = "absent" <=> status'[d] = "absent"

LEMMA RuledFrame ==
  ASSUME NEW d \in Requests, Ruled(d), RowKept(d), pc'[d] = pc[d], seen'[d] = seen[d],
         askedAt'[d] = askedAt[d], faulted \subseteq faulted'
  PROVE  Ruled(d)'
  BY DEF Ruled, RowKept, Settled, Answers

LEMMA MoveKeepsRows ==
  ASSUME NEW rs, NEW outcome \in Settled, NEW why, moveToResolvedBatch(rs, outcome, why)
  PROVE  \A d \in Requests : RowKept(d)
  BY DEF RowKept, moveToResolvedBatch, Pending, Settled, Answers

LEMMA SameRows ==
  ASSUME UNCHANGED status
  PROVE  \A d \in Requests : RowKept(d)
  BY DEF RowKept

(* A call that moves while no row does. *)
MayMove(c, x) ==
  \/ phaseOf(x) = phaseOf(pc[c])
  \/ phaseOf(pc[c]) = "new" /\ phaseOf(x) \in {"asked", "answered"}
  \/ phaseOf(pc[c]) = "asked" /\ phaseOf(x) \in {"answered", "silent"}
  \/ phaseOf(pc[c]) = "asked" /\ phaseOf(x) = "sent" /\ status[c] = "approved"

LEMMA CallMoves ==
  ASSUME GateTypeOK, NEW c \in Requests, NEW x, UNCHANGED status, pc' = [pc EXCEPT ![c] = x],
         MayMove(c, x)
  PROVE  Refines
  <1> DEFINE ph == [d \in Requests |-> phaseOf(pc[d])]
             ru == [d \in Requests |-> rulingOf(status[d])]
  <1>1. [d \in Requests |-> phaseOf(pc'[d])] = [ph EXCEPT ![c] = phaseOf(x)]
    BY DEF GateTypeOK, FlowTypeOK
  <1>2. [d \in Requests |-> rulingOf(status'[d])] = ru
    OBVIOUS
  <1>3. CASE phaseOf(x) = phaseOf(pc[c])
    <2>1. [ph EXCEPT ![c] = phaseOf(x)] = ph
      BY <1>3
    <2> QED  BY <1>1, <1>2, <2>1 DEF Refines, Outcome!outcomeVars
  <1>4. CASE phaseOf(pc[c]) = "new" /\ phaseOf(x) = "asked"
    BY <1>1, <1>2, <1>4 DEF Refines, Outcome!Next, Outcome!Ask
  <1>5. CASE phaseOf(pc[c]) = "new" /\ phaseOf(x) = "answered"
    BY <1>1, <1>2, <1>5 DEF Refines, Outcome!Next, Outcome!TurnAway
  <1>6. CASE phaseOf(pc[c]) = "asked" /\ phaseOf(x) = "answered"
    BY <1>1, <1>2, <1>6 DEF Refines, Outcome!Next, Outcome!Answer
  <1>7. CASE phaseOf(pc[c]) = "asked" /\ phaseOf(x) = "silent"
    BY <1>1, <1>2, <1>7 DEF Refines, Outcome!Next, Outcome!Silence
  <1>8. CASE phaseOf(pc[c]) = "asked" /\ phaseOf(x) = "sent" /\ status[c] = "approved"
    <2>1. ru[c] = "yes"
      BY <1>8 DEF rulingOf
    <2> QED  BY <1>1, <1>2, <1>8, <2>1 DEF Refines, Outcome!Next, Outcome!Send
  <1> QED  BY <1>3, <1>4, <1>5, <1>6, <1>7, <1>8 DEF MayMove

(* Rows that are settled while no call changes its phase. *)
LEMMA RowsMove ==
  ASSUME AllRuled, NEW rs \in SUBSET Requests, NEW outcome \in Settled, NEW why,
         moveToResolvedBatch(rs, outcome, why),
         \A d \in Requests : phaseOf(pc'[d]) = phaseOf(pc[d])
  PROVE  Refines
  <1> DEFINE won == rs \cap Pending
             ru == [d \in Requests |-> rulingOf(status[d])]
             v == rulingOf(outcome)
  <1>1. v \in {"yes", "no", "void"}
    BY DEF rulingOf, Settled, Answers
  <1>2. [d \in Requests |-> phaseOf(pc'[d])] = [d \in Requests |-> phaseOf(pc[d])]
    OBVIOUS
  <1>3. [d \in Requests |-> rulingOf(status'[d])] = [d \in Requests |-> IF d \in won THEN v ELSE ru[d]]
    BY DEF moveToResolvedBatch
  <1>4. \A d \in won : phaseOf(pc[d]) # "new" /\ ru[d] = "open"
    BY DEF AllRuled, Ruled, Pending, phaseOf, rulingOf, Settled, Answers
  <1>5. won \in SUBSET Requests
    OBVIOUS
  <1>6. Outcome!Rule(won, v)
    BY <1>2, <1>3, <1>4 DEF Outcome!Rule
  <1> QED  BY <1>1, <1>5, <1>6 DEF Refines, Outcome!Next

LEMMA NothingMoves ==
  ASSUME UNCHANGED <<pc, status>>
  PROVE  Refines
  BY DEF Refines, Outcome!outcomeVars

(* A step of call c alone, while the queue stays as it is. *)
LEMMA CallKeeps ==
  ASSUME GateInv, NEW c \in Requests, NEW x, UNCHANGED queueVars, pc' = [pc EXCEPT ![c] = x],
         \A d \in Requests \ {c} : seen'[d] = seen[d] /\ askedAt'[d] = askedAt[d],
         faulted \subseteq faulted',
         GateTypeOK', Ruled(c)', MayMove(c, x)
  PROVE  GateInv' /\ Refines
  <1>1. UNCHANGED status /\ QueueInv'
    BY IdleKeeps DEF GateInv, queueVars, store
  <1>2. Refines
    BY <1>1, CallMoves DEF GateInv
  <1>3. \A d \in Requests \ {c} : pc'[d] = pc[d]
    BY DEF GateInv, GateTypeOK, FlowTypeOK
  <1>4. AllRuled'
    BY <1>1, <1>3, SameRows, RuledFrame DEF GateInv, AllRuled
  <1> QED  BY <1>1, <1>2, <1>4 DEF GateInv

(* A step that moves no call, reads nothing for one, and leaves the queue. *)
LEMMA BesideKeeps ==
  ASSUME GateInv, UNCHANGED <<queueVars, pc, seen, askedAt>>, faulted \subseteq faulted', GateTypeOK'
  PROVE  GateInv' /\ Refines
  <1>1. UNCHANGED status /\ QueueInv'
    BY IdleKeeps DEF GateInv, queueVars, store
  <1>2. AllRuled'
    BY <1>1, SameRows, RuledFrame DEF GateInv, AllRuled
  <1> QED  BY <1>1, <1>2, NothingMoves DEF GateInv

(* A step of the queue's other users: the gate's state stays. *)
LEMMA OutsideKeeps ==
  ASSUME GateInv, UNCHANGED gateVars, QueueInv', \A d \in Requests : RowKept(d), Refines
  PROVE  GateInv' /\ Refines
  <1>1. GateTypeOK'
    BY DEF GateInv, GateTypeOK, FlowTypeOK, SessionTypeOK, CancelTypeOK, GuardTypeOK, gateVars, flow,
           session, cancels, guard
  <1>2. AllRuled'
    BY RuledFrame DEF GateInv, AllRuled, gateVars, flow
  <1> QED  BY <1>1, <1>2 DEF GateInv

-----------------------------------------------------------------------------
(* The client's steps. *)

LEMMA RequestKeeps ==
  ASSUME GateInv, NEW c \in Requests, requestApproval(c)
  PROVE  GateInv' /\ Refines
  <1>0. GateTypeOK /\ pc[c] = "idle" /\ Ruled(c) /\ now \in Times /\ IdOf[c] \in Ids
    BY IdOfType DEF GateInv, AllRuled, QueueInv, QueueTypeOK, requestApproval
  <1>1. UNCHANGED <<queueVars, deadline, seen, left, leaving, session, faulted>>
    BY DEF requestApproval
  <1>2. PICK x \in {"flush-limit", "refused", "enqueue"} : pc' = [pc EXCEPT ![c] = x]
    BY DEF requestApproval
  <1>3. CancelTypeOK' /\ GuardTypeOK' /\ admitted' \in Int
        /\ askedAt' \in [Requests -> Times \cup {NoTime}]
    <2>1. CASE atCap /\ ~ FailClosed
      <3>1. burned \in SUBSET Ids
        BY <1>0 DEF GateTypeOK, GuardTypeOK
      <3>2. lru' \in Seq(Ids) /\ burned' \subseteq Ids /\ spoiled' \subseteq Requests
        BY <1>0, <2>1, <3>1, MarkType DEF requestApproval, GateTypeOK
      <3> QED
        BY <1>0, <2>1, <3>2 DEF requestApproval, GateTypeOK, FlowTypeOK, CancelTypeOK, GuardTypeOK
    <2>2. CASE atCap /\ FailClosed
      BY <1>0, <2>2 DEF requestApproval, recordVerdict, GateTypeOK, FlowTypeOK, CancelTypeOK,
                        GuardTypeOK, guard
    <2>3. CASE ~ atCap
      <3>1. /\ admitted' = admitted + 1
            /\ askedAt' = [askedAt EXCEPT ![c] = now]
            /\ verdictOf' = [verdictOf EXCEPT ![IdOf[c]] = c]
            /\ UNCHANGED <<cancelled, cancelMsg, behind, lru, burned, denied, spoiled>>
        BY <2>3 DEF requestApproval, recordVerdict, guard
      <3> QED  BY <1>0, <3>1 DEF GateTypeOK, FlowTypeOK, CancelTypeOK, GuardTypeOK
    <2> QED  BY <2>1, <2>2, <2>3
  <1>4. GateTypeOK'
    BY <1>0, <1>1, <1>2, <1>3 DEF GateTypeOK, FlowTypeOK, SessionTypeOK, session, InFlight, Flushing,
                                  Waiting, Terminal
  <1>5. pc'[c] = x
    BY <1>0, <1>2 DEF GateTypeOK, FlowTypeOK
  <1>6. /\ \A d \in Requests \ {c} : askedAt'[d] = askedAt[d]
        /\ x = "enqueue" => askedAt'[c] = now
    BY <1>0, <1>5 DEF requestApproval, GateTypeOK, FlowTypeOK
  <1>7. Ruled(c)'
    BY <1>0, <1>1, <1>5, <1>6 DEF Ruled, queueVars, store, Times
  <1>8. MayMove(c, x)
    BY <1>0 DEF MayMove, phaseOf, InFlight, Flushing, Waiting
  <1> QED  BY <1>1, <1>2, <1>4, <1>6, <1>7, <1>8, CallKeeps

LEMMA DenyKeeps ==
  ASSUME GateInv, NEW id \in Ids, applyDeny(id)
  PROVE  GateInv' /\ Refines
  <1>0. GateTypeOK /\ burned \in SUBSET Ids
    BY DEF GateInv, GateTypeOK, GuardTypeOK
  <1>1. lru' \in Seq(Ids) /\ burned' \subseteq Ids /\ spoiled' \subseteq Requests
    BY <1>0, MarkType DEF applyDeny, GateTypeOK
  <1>2. GateTypeOK'
    BY <1>0, <1>1 DEF applyDeny, GateTypeOK, FlowTypeOK, SessionTypeOK, CancelTypeOK, GuardTypeOK,
                      flow, session
  <1> QED  BY <1>2, BesideKeeps DEF applyDeny, flow

LEMMA CancelKeeps ==
  ASSUME GateInv, NEW id \in Ids, gateCancel(id) \/ abandon(id)
  PROVE  GateInv' /\ Refines
  <1>0. GateTypeOK
    BY DEF GateInv
  <1>1. CASE gateCancel(id)
    <2>1. GateTypeOK'
      <3>1. FlowTypeOK' /\ SessionTypeOK' /\ GuardTypeOK' /\ faulted' \subseteq Requests
        BY <1>0, <1>1 DEF gateCancel, startLeave, GateTypeOK, FlowTypeOK, SessionTypeOK,
                          GuardTypeOK, session, guard
      <3>2. CASE verdictOf[id] # NoCall
        BY <1>0, <1>1, <3>1, <3>2 DEF gateCancel, GateTypeOK, CancelTypeOK
      <3>3. CASE verdictOf[id] = NoCall
        BY <1>0, <1>1, <3>1, <3>3 DEF gateCancel, GateTypeOK, CancelTypeOK
      <3> QED  BY <3>2, <3>3
    <2> QED  BY <1>1, <2>1, BesideKeeps DEF gateCancel
  <1>2. CASE abandon(id)
    <2>1. GateTypeOK'
      BY <1>0, <1>2 DEF abandon, startLeave, GateTypeOK, FlowTypeOK, SessionTypeOK, CancelTypeOK,
                        GuardTypeOK, session, guard
    <2> QED  BY <1>2, <2>1, BesideKeeps DEF abandon
  <1> QED  BY <1>1, <1>2

(* The session's end. *)
LEMMA SessionKeeps ==
  ASSUME GateInv, AgentLeft \/ endSession \/ cancelPending
  PROVE  GateInv' /\ Refines
  <1>0. GateTypeOK
    BY DEF GateInv
  <1>1. UNCHANGED <<queueVars, pc, askedAt, deadline, seen, admitted, cancels, guard, faulted>>
    BY DEF AgentLeft, endSession, cancelPending
  <1>2. /\ left' \in [Requests -> {"none", "cancelled", "disconnected"}]
        /\ leaving' \in [Requests -> {"no", "asked", "done"}]
    BY <1>0 DEF AgentLeft, endSession, cancelPending, withdrawAll, startLeave, GateTypeOK, FlowTypeOK
  <1>3. closed' \in BOOLEAN
    BY <1>0, Zenon DEF AgentLeft, endSession, cancelPending, withdrawAll, GateTypeOK, SessionTypeOK
  <1>4. stage' \in {"open", "ending", "withdrawing", "over"} /\ awaited' \subseteq Requests
    BY <1>0 DEF AgentLeft, endSession, cancelPending, GateTypeOK, SessionTypeOK, Held
  <1>5. GateTypeOK'
    BY <1>0, <1>1, <1>2, <1>3, <1>4 DEF GateTypeOK, FlowTypeOK, SessionTypeOK, CancelTypeOK,
                                        GuardTypeOK, cancels, guard
  <1> QED  BY <1>1, <1>5, BesideKeeps

LEMMA CancelAllKeeps ==
  ASSUME GateInv, cancelAll
  PROVE  GateInv' /\ Refines
  <1>0. GateTypeOK
    BY DEF GateInv
  <1>1. UNCHANGED <<queueVars, status, faulted>> /\ QueueInv'
    BY IdleKeeps DEF GateInv, cancelAll, queueVars, store
  <1>2. \A c \in Requests :
          IF pc[c] = "held" THEN pc'[c] = "expire" /\ seen'[c] = "none"
          ELSE pc'[c] = pc[c] /\ seen'[c] = seen[c]
    <2>1. /\ pc' = [c \in Requests |-> IF c \in Held THEN "expire" ELSE pc[c]]
          /\ seen' = [c \in Requests |-> IF c \in Held THEN "none" ELSE seen[c]]
      BY DEF cancelAll
    <2> QED  BY <2>1 DEF Held
  <1>3. endWait(Held) \in SUBSET Ids
    BY <1>0, EndWaitType DEF GateTypeOK
  <1>4. FlowTypeOK'
    BY <1>0 DEF cancelAll, GateTypeOK, FlowTypeOK, InFlight
  <1>5. GateTypeOK'
    BY <1>0, <1>3, <1>4 DEF cancelAll, GateTypeOK, SessionTypeOK, CancelTypeOK, GuardTypeOK, cancels
  <1>6. ASSUME NEW c \in Requests PROVE Ruled(c)'
    BY <1>1, <1>2 DEF GateInv, AllRuled, Ruled, Settled, Answers, cancelAll
  <1>7. \A c \in Requests : phaseOf(pc'[c]) = phaseOf(pc[c])
    BY <1>2 DEF phaseOf, InFlight, Waiting
  <1>8. Refines
    BY <1>1, <1>7 DEF Refines, Outcome!outcomeVars
  <1> QED  BY <1>1, <1>5, <1>6, <1>8 DEF GateInv, AllRuled

-----------------------------------------------------------------------------
(* The steps of one call. *)

LEMMA HoldType ==
  ASSUME GateTypeOK, now \in Times, NEW c \in Requests, hold(c),
         askedAt' \in [Requests -> Times \cup {NoTime}]
  PROVE  FlowTypeOK' /\ pc' = [pc EXCEPT ![c] = "held"] /\ UNCHANGED seen
  <1>1. now + holdLimit \in 0..(MaxNow + holdLimit)
    BY HoldLimitType DEF Times
  <1>2. /\ pc' = [pc EXCEPT ![c] = "held"]
        /\ deadline' = [deadline EXCEPT ![c] = now + holdLimit]
        /\ UNCHANGED <<seen, admitted>>
    BY DEF hold
  <1>3. /\ left' \in [Requests -> {"none", "cancelled", "disconnected"}]
        /\ leaving' \in [Requests -> {"no", "asked", "done"}]
    BY DEF hold, GateTypeOK, FlowTypeOK
  <1>4. "held" \in InFlight
    BY DEF InFlight, Waiting
  <1> QED  BY <1>1, <1>2, <1>3, <1>4 DEF GateTypeOK, FlowTypeOK

LEMMA EnqueueCallKeeps ==
  ASSUME GateInv, NEW c \in Requests, EnqueueCall(c)
  PROVE  GateInv' /\ Refines
  <1>0. GateTypeOK /\ pc[c] = "enqueue" /\ status[c] = "absent" /\ Ruled(c) /\ now \in Times
    BY DEF GateInv, AllRuled, Ruled, QueueInv, QueueTypeOK, EnqueueCall
  <1>1. /\ enqueue(c, askedAt[c]) /\ askedAt' = [askedAt EXCEPT ![c] = NoTime]
        /\ UNCHANGED <<now, up, sweeps, session, cancels, guard, faulted>>
    BY DEF EnqueueCall
  <1>2. PICK x \in {"flush-pending", "held"} :
          FlowTypeOK' /\ pc' = [pc EXCEPT ![c] = x] /\ UNCHANGED seen
    <2>1. CASE FailClosed
      BY <1>0, <1>1, <2>1 DEF EnqueueCall, GateTypeOK, FlowTypeOK, InFlight, Waiting
    <2>2. CASE ~ FailClosed
      <3>1. askedAt' \in [Requests -> Times \cup {NoTime}]
        BY <1>0, <1>1 DEF GateTypeOK, FlowTypeOK
      <3> QED  BY <1>0, <2>2, <3>1, HoldType DEF EnqueueCall
    <2> QED  BY <2>1, <2>2
  <1>3. GateTypeOK'
    BY <1>0, <1>1, <1>2 DEF GateTypeOK, SessionTypeOK, CancelTypeOK, GuardTypeOK, session, cancels, guard
  <1>4. QueueInv'
    <2>1. CASE askedAt[c] \in Times
      BY <1>1, <2>1, EnqueueKeeps DEF GateInv
    <2>2. askedAt[c] # NoTime
      BY <1>0 DEF Ruled
    <2> QED  BY <1>0, <2>1, <2>2 DEF GateTypeOK, FlowTypeOK
  <1>5. status' = [status EXCEPT ![c] = "pending"]
    BY <1>1 DEF enqueue
  <1>6. status \in [Requests -> Status]
    BY DEF GateInv, QueueInv, QueueTypeOK
  <1>7. Ruled(c)'
    BY <1>0, <1>2, <1>5, <1>6 DEF Ruled, GateTypeOK, FlowTypeOK, Settled, Answers
  <1>8. ASSUME NEW d \in Requests, d # c PROVE Ruled(d)'
    <2>1. RowKept(d) /\ pc'[d] = pc[d] /\ seen'[d] = seen[d] /\ askedAt'[d] = askedAt[d]
      BY <1>0, <1>1, <1>2, <1>5, <1>6, <1>8 DEF RowKept, GateTypeOK, FlowTypeOK
    <2> QED  BY <1>1, <2>1, RuledFrame DEF GateInv, AllRuled
  <1>9. Refines
    <2>1. \A d \in Requests : phaseOf(pc'[d]) = phaseOf(pc[d])
      BY <1>0, <1>2 DEF phaseOf, InFlight, Waiting, GateTypeOK, FlowTypeOK
    <2>2. \A d \in Requests : rulingOf(status'[d]) = rulingOf(status[d])
      BY <1>0, <1>5, <1>6 DEF rulingOf, Settled, Answers
    <2> QED  BY <2>1, <2>2 DEF Refines, Outcome!outcomeVars
  <1> QED  BY <1>3, <1>4, <1>7, <1>8, <1>9 DEF GateInv, AllRuled

LEMMA EnqueueFailsKeeps ==
  ASSUME GateInv, NEW c \in Requests, EnqueueFails(c)
  PROVE  GateInv' /\ Refines
  <1>0. GateTypeOK /\ pc[c] = "enqueue" /\ Ruled(c)
    BY DEF GateInv, AllRuled, EnqueueFails
  <1>1. /\ admitted' = admitted - 1
        /\ UNCHANGED <<queueVars, askedAt, deadline, seen, left, leaving, session>>
    BY DEF EnqueueFails, release
  <1>2. PICK x \in {"flush-error", "refused"} :
          /\ CancelTypeOK' /\ GuardTypeOK' /\ faulted' = faulted \cup {c}
          /\ pc' = [pc EXCEPT ![c] = x]
    BY <1>0, DenyType DEF EnqueueFails, GateTypeOK
  <1>3. GateTypeOK'
    BY <1>0, <1>1, <1>2 DEF GateTypeOK, FlowTypeOK, SessionTypeOK, session, InFlight, Flushing, Terminal
  <1>4. Ruled(c)'
    BY <1>0, <1>1, <1>2 DEF Ruled, GateTypeOK, FlowTypeOK, queueVars, store
  <1>5. MayMove(c, x)
    BY <1>0 DEF MayMove, phaseOf, InFlight, Flushing, Waiting
  <1> QED  BY <1>1, <1>2, <1>3, <1>4, <1>5, CallKeeps

(* A poll sees what is on record, or nothing. *)
LEMMA PollReadKeeps ==
  ASSUME GateInv, NEW c \in Requests, PollRead(c)
  PROVE  GateInv' /\ Refines
  <1>0. GateTypeOK /\ pc[c] = "held" /\ Ruled(c)
    BY DEF GateInv, AllRuled, PollRead
  <1>1. UNCHANGED <<queueVars, pc, askedAt, deadline, left, leaving, admitted,
                    session, cancels, guard, faulted>>
    BY DEF PollRead
  <1>2. PICK v \in {readResolution(c), "nothing"} : seen' = [seen EXCEPT ![c] = v]
    BY DEF PollRead
  <1>3. v \in Settled \cup {"nothing"} /\ (v \in Settled => v = status[c])
    BY DEF readResolution, Settled, Answers
  <1>4. GateTypeOK'
    BY <1>0, <1>1, <1>2, <1>3 DEF GateTypeOK, FlowTypeOK, SessionTypeOK, CancelTypeOK, GuardTypeOK,
                                  session, cancels, guard
  <1>5. Ruled(c)'
    BY <1>0, <1>1, <1>2, <1>3 DEF Ruled, GateTypeOK, FlowTypeOK, queueVars, store
  <1>6. pc' = [pc EXCEPT ![c] = "held"] /\ MayMove(c, "held")
    BY <1>0, <1>1 DEF MayMove, GateTypeOK, FlowTypeOK
  <1>7. \A d \in Requests \ {c} : seen'[d] = seen[d] /\ askedAt'[d] = askedAt[d]
    BY <1>0, <1>1, <1>2 DEF GateTypeOK, FlowTypeOK
  <1>8. UNCHANGED queueVars /\ faulted \subseteq faulted'
    BY <1>1
  <1> QED  BY <1>4, <1>5, <1>6, <1>7, <1>8, CallKeeps

(* The end of a wait that the queue's row agrees with. *)
LEMMA FinishKeeps ==
  ASSUME GateInv, NEW c \in Requests, pc[c] = "held",
         NEW outcome \in {"approved", "denied", "withdrawn", "timeout"}, finishApproval(c, outcome),
         outcome = "approved" => status[c] = "approved",
         outcome = "denied" => status[c] = "denied",
         outcome = "withdrawn" => status[c] \in Settled \/ c \in faulted',
         leaving' \in [Requests -> {"no", "asked", "done"}],
         UNCHANGED <<queueVars, session>>,
         faulted \subseteq faulted', faulted' \subseteq Requests
  PROVE  GateInv' /\ Refines
  <1>0. GateTypeOK /\ Ruled(c)
    BY DEF GateInv, AllRuled
  <1>1. /\ CancelTypeOK' /\ GuardTypeOK' /\ admitted' \in Int
        /\ seen' = [seen EXCEPT ![c] = "none"]
        /\ deadline' = [deadline EXCEPT ![c] = NoTime]
        /\ UNCHANGED <<askedAt, left>>
    BY <1>0, FinishType DEF GateTypeOK
  <1>2. PICK x \in WaitEnd(c, outcome) : pc' = [pc EXCEPT ![c] = x]
    BY <1>0, FinishType DEF GateTypeOK
  <1>3. x = "flush-gone" \/ x = "gone" => outcome = "withdrawn"
    BY <1>0, <1>2, GoneOnlyIfWithdrawn DEF GateTypeOK, FlowTypeOK
  <1>4. x \in InFlight \cup Terminal
    BY DEF WaitEnd, InFlight, Flushing, Terminal
  <1>5. GateTypeOK'
    BY <1>0, <1>1, <1>2, <1>4 DEF GateTypeOK, FlowTypeOK, SessionTypeOK, session
  <1>6. pc'[c] = x /\ seen'[c] = "none"
    BY <1>0, <1>1, <1>2 DEF GateTypeOK, FlowTypeOK
  <1>7. Ruled(c)'
    <2>1. status' = status /\ status[c] # "absent"
      BY <1>0 DEF Ruled, queueVars, store
    <2>2. CASE outcome = "approved"
      BY <1>6, <2>1, <2>2 DEF Ruled, WaitEnd, Settled, Answers
    <2>3. CASE outcome = "denied"
      BY <1>6, <2>1, <2>3 DEF Ruled, WaitEnd, Settled, Answers
    <2>4. CASE outcome \in {"withdrawn", "timeout"}
      BY <1>3, <1>6, <2>1, <2>4 DEF Ruled, WaitEnd, Settled, Answers
    <2> QED  BY <2>2, <2>3, <2>4
  <1>8. MayMove(c, x)
    <2>1. phaseOf(pc[c]) = "asked"
      BY DEF phaseOf, InFlight, Waiting
    <2>2. CASE x = "forwarded"
      <3>1. outcome = "approved"
        BY <2>2 DEF WaitEnd
      <3> QED  BY <2>1, <2>2, <3>1 DEF MayMove, phaseOf, InFlight, Flushing, Waiting
    <2>3. CASE x # "forwarded"
      BY <2>1, <2>3 DEF MayMove, WaitEnd, phaseOf, InFlight, Flushing, Waiting
    <2> QED  BY <2>2, <2>3
  <1>9. \A d \in Requests \ {c} : seen'[d] = seen[d] /\ askedAt'[d] = askedAt[d]
    BY <1>0, <1>1 DEF GateTypeOK, FlowTypeOK
  <1> QED  BY <1>2, <1>5, <1>7, <1>8, <1>9, CallKeeps

LEMMA PollApplyKeeps ==
  ASSUME GateInv, NEW c \in Requests, PollApply(c)
  PROVE  GateInv' /\ Refines
  <1>0. GateTypeOK /\ pc[c] = "held" /\ Ruled(c) /\ seen[c] \in Settled \cup {"nothing"}
    BY DEF GateInv, AllRuled, GateTypeOK, FlowTypeOK, PollApply
  <1>1. UNCHANGED <<queueVars, leaving, session, faulted>>
    BY DEF PollApply
  <1>2. leaving' \in [Requests -> {"no", "asked", "done"}] /\ faulted' \subseteq Requests
    BY <1>0, <1>1 DEF GateTypeOK, FlowTypeOK
  <1>3. CASE seen[c] # "nothing" /\ finishApproval(c, toWaitResult(seen[c]))
    <2> DEFINE o == toWaitResult(seen[c])
    <2>1. /\ o \in {"approved", "denied", "withdrawn", "timeout"}
          /\ o = "approved" => seen[c] = "approved"
          /\ o = "denied" => seen[c] = "denied"
          /\ seen[c] \in Settled
      BY <1>0, <1>3 DEF toWaitResult, Settled, Answers
    <2>2. status[c] = seen[c]
      BY <1>0, <2>1 DEF Ruled
    <2>3. finishApproval(c, o)
      BY <1>3
    <2> HIDE DEF o
    <2> QED  BY <1>0, <1>1, <1>2, <2>1, <2>2, <2>3, FinishKeeps
  <1>4. CASE finishApproval(c, "timeout")
    BY <1>0, <1>1, <1>2, <1>4, FinishKeeps
  <1>5. CASE /\ seen' = [seen EXCEPT ![c] = "none"]
             /\ UNCHANGED <<pc, askedAt, deadline, left, admitted, cancels, guard>>
    <2>1. GateTypeOK'
      BY <1>0, <1>1, <1>5 DEF GateTypeOK, FlowTypeOK, SessionTypeOK, CancelTypeOK, GuardTypeOK,
                              session, cancels, guard
    <2>2. Ruled(c)'
      BY <1>0, <1>1, <1>5 DEF Ruled, GateTypeOK, FlowTypeOK, queueVars, store, Settled, Answers
    <2>3. pc' = [pc EXCEPT ![c] = "held"] /\ MayMove(c, "held")
      BY <1>0, <1>5 DEF MayMove, GateTypeOK, FlowTypeOK
    <2>4. \A d \in Requests \ {c} : seen'[d] = seen[d] /\ askedAt'[d] = askedAt[d]
      BY <1>0, <1>5 DEF GateTypeOK, FlowTypeOK
    <2>5. UNCHANGED queueVars /\ faulted \subseteq faulted'
      BY <1>1
    <2> QED  BY <2>1, <2>2, <2>3, <2>4, <2>5, CallKeeps
  <1> QED  BY <1>3, <1>4, <1>5 DEF PollApply

(* A decision that goes on, to its end or to another flush, and that the   *)
(* queue's row agrees with.                                                *)
LEMMA EndKeeps ==
  ASSUME GateInv, NEW c \in Requests, pc[c] \in InFlight,
         NEW x \in Terminal \cup {"flush-timeout", "flush-error"}, pc' = [pc EXCEPT ![c] = x],
         UNCHANGED <<queueVars, askedAt, deadline, seen, left, leaving, session>>,
         CancelTypeOK', GuardTypeOK', admitted' \in Int,
         faulted \subseteq faulted', faulted' \subseteq Requests,
         x = "forwarded" => status[c] = "approved",
         x = "denied" => status[c] = "denied",
         x \in {"flush-timeout", "timed-out", "gone"} /\ c \notin faulted' => status[c] \in Settled
  PROVE  GateInv' /\ Refines
  <1>0. GateTypeOK /\ Ruled(c) /\ UNCHANGED status
    BY DEF GateInv, AllRuled, queueVars, store
  <1>1. GateTypeOK'
    BY <1>0 DEF GateTypeOK, FlowTypeOK, SessionTypeOK, session, InFlight, Flushing
  <1>2. pc'[c] = x
    BY <1>0 DEF GateTypeOK, FlowTypeOK
  <1>3. Ruled(c)'
    BY <1>0, <1>2 DEF Ruled, Terminal
  <1>4. MayMove(c, x)
    <2>1. phaseOf(pc[c]) = "asked"
      BY DEF phaseOf, InFlight, Flushing, Waiting
    <2> QED  BY <2>1 DEF MayMove, phaseOf, Terminal, InFlight, Flushing, Waiting
  <1>5. UNCHANGED queueVars /\ \A d \in Requests \ {c} : seen'[d] = seen[d] /\ askedAt'[d] = askedAt[d]
    OBVIOUS
  <1> QED  BY <1>1, <1>3, <1>4, <1>5, CallKeeps

(* The row leaves the queue before the agent is told that it timed out. *)
LEMMA TimedOutMarkKeeps ==
  ASSUME GateInv, NEW c \in Requests, finishTimedOutMark(c)
  PROVE  GateInv' /\ Refines
  <1>0. GateTypeOK /\ pc[c] = "expire" /\ Ruled(c) /\ status \in [Requests -> Status]
    BY DEF GateInv, AllRuled, QueueInv, QueueTypeOK, finishTimedOutMark
  <1>1. /\ pc' = [pc EXCEPT ![c] = "expired"]
        /\ UNCHANGED <<now, up, sweeps, askedAt, deadline, seen, left, leaving, admitted,
                       session, cancels, guard>>
    BY DEF finishTimedOutMark
  <1>2. faulted \subseteq faulted' /\ faulted' \subseteq Requests
    BY <1>0 DEF finishTimedOutMark, GateTypeOK
  <1>3. GateTypeOK'
    BY <1>0, <1>1, <1>2 DEF GateTypeOK, FlowTypeOK, SessionTypeOK, CancelTypeOK, GuardTypeOK,
                            session, cancels, guard, InFlight
  <1>4. \A d \in Requests : pc'[d] = IF d = c THEN "expired" ELSE pc[d]
    BY <1>0, <1>1 DEF GateTypeOK, FlowTypeOK
  <1>5. CASE markExpired(c)
    <2>1. moveToResolvedBatch({c}, "expired", "none") /\ "expired" \in Settled \ {"approved"}
      BY <1>5 DEF markExpired, Settled, Answers
    <2>2. QueueInv'
      BY <1>1, <2>1, MoveKeeps DEF GateInv, Reasons
    <2>3. \A d \in Requests : RowKept(d)
      BY <2>1, MoveKeepsRows
    <2>4. \A d \in Requests : phaseOf(pc'[d]) = phaseOf(pc[d])
      BY <1>0, <1>4 DEF phaseOf, InFlight
    <2>5. Refines
      BY <2>1, <2>4, RowsMove DEF GateInv
    <2>6. status'[c] \in Settled
      BY <1>0, <2>1 DEF moveToResolvedBatch, Pending, Ruled, Status, Settled, Answers
    <2>7. Ruled(c)'
      BY <1>0, <1>1, <1>4, <2>3, <2>6 DEF Ruled, RowKept
    <2>8. ASSUME NEW d \in Requests \ {c} PROVE Ruled(d)'
      BY <1>1, <1>2, <1>4, <2>3, RuledFrame DEF GateInv, AllRuled
    <2> QED  BY <1>3, <2>2, <2>5, <2>7, <2>8 DEF GateInv, AllRuled
  <1>6. CASE UNCHANGED store /\ faulted' = faulted \cup {c}
    <2>1. UNCHANGED queueVars
      BY <1>1, <1>6 DEF queueVars
    <2>2. Ruled(c)'
      BY <1>0, <1>1, <1>4, <1>6 DEF Ruled, store
    <2>3. MayMove(c, "expired")
      BY <1>0 DEF MayMove, phaseOf, InFlight
    <2> QED  BY <1>1, <1>2, <1>3, <2>1, <2>2, <2>3, CallKeeps
  <1> QED  BY <1>5, <1>6 DEF finishTimedOutMark

LEMMA TimedOutKeeps ==
  ASSUME GateInv, NEW c \in Requests, finishTimedOut(c)
  PROVE  GateInv' /\ Refines
  <1>0. GateTypeOK /\ pc[c] = "expired" /\ Ruled(c) /\ burned \in SUBSET Ids
    BY DEF GateInv, AllRuled, GateTypeOK, GuardTypeOK, finishTimedOut
  <1>1. UNCHANGED <<queueVars, askedAt, deadline, seen, left, leaving, session, faulted>>
    BY DEF finishTimedOut
  <1>2. PICK x \in {"flush-timeout", "timed-out"} :
          pc' = [pc EXCEPT ![c] = x] /\ CancelTypeOK' /\ GuardTypeOK' /\ admitted' \in Int
    <2>1. CASE FailClosed
      BY <1>0, <2>1, FlushType DEF finishTimedOut, GateTypeOK, FlowTypeOK
    <2>2. CASE ~ FailClosed
      BY <1>0, <2>2, AnswerType DEF finishTimedOut, release, GateTypeOK, FlowTypeOK
    <2> QED  BY <2>1, <2>2
  <1>3. c \notin faulted' => status[c] \in Settled
    BY <1>0, <1>1 DEF Ruled
  <1>4. pc[c] \in InFlight /\ x \in Terminal \cup {"flush-timeout", "flush-error"}
    BY <1>0 DEF InFlight, Terminal
  <1>5. faulted \subseteq faulted' /\ faulted' \subseteq Requests
    BY <1>0, <1>1 DEF GateTypeOK
  <1> QED  BY <1>1, <1>2, <1>3, <1>4, <1>5, EndKeeps

(* The flush returns: the decision that was written is acted on. *)
LEMMA JournalKeeps ==
  ASSUME GateInv, NEW c \in Requests, settleJournal(c)
  PROVE  GateInv' /\ Refines
  <1>0. GateTypeOK /\ FlowTypeOK /\ CancelTypeOK /\ GuardTypeOK /\ Ruled(c) /\ now \in Times
        /\ burned \in SUBSET Ids
    BY DEF GateInv, AllRuled, QueueInv, QueueTypeOK, GateTypeOK, GuardTypeOK
  <1>1. UNCHANGED <<queueVars, session, faulted>> /\ faulted' \subseteq Requests
    BY <1>0 DEF settleJournal, GateTypeOK
  <1>2. CASE pc[c] = "flush-pending" /\ hold(c) /\ UNCHANGED <<askedAt, cancels, guard>>
    <2>1. FlowTypeOK' /\ pc' = [pc EXCEPT ![c] = "held"] /\ UNCHANGED seen
      <3>1. askedAt' \in [Requests -> Times \cup {NoTime}]
        BY <1>0, <1>2 DEF FlowTypeOK
      <3> QED  BY <1>0, <1>2, <3>1, HoldType
    <2>2. GateTypeOK'
      BY <1>0, <1>1, <1>2, <2>1 DEF GateTypeOK, SessionTypeOK, CancelTypeOK, GuardTypeOK,
                                    session, cancels, guard
    <2>3. pc'[c] = "held"
      BY <1>0, <2>1 DEF FlowTypeOK
    <2>4. Ruled(c)'
      BY <1>0, <1>1, <1>2, <2>1, <2>3 DEF Ruled, queueVars, store
    <2>5. MayMove(c, "held")
      BY <1>2 DEF MayMove, phaseOf, InFlight, Waiting
    <2>6. UNCHANGED <<queueVars, seen, askedAt>> /\ faulted \subseteq faulted'
      BY <1>1, <1>2, <2>1
    <2> QED  BY <2>1, <2>2, <2>4, <2>5, <2>6, CallKeeps
  <1> DEFINE Ends(x) ==
        /\ pc' = [pc EXCEPT ![c] = x] /\ x \in Terminal
        /\ CancelTypeOK' /\ GuardTypeOK' /\ admitted' \in Int
        /\ pc[c] \in Flushing
        /\ x = "forwarded" => status[c] = "approved"
        /\ x = "denied" => status[c] = "denied"
        /\ x \in {"timed-out", "gone"} /\ c \notin faulted => status[c] \in Settled
  <1>3. CASE /\ \/ pc[c] = "flush-approved" /\ FORWARD(c, burned) /\ release
                \/ pc[c] = "flush-answered" /\ DROP(c, burned) /\ release
                \/ pc[c] = "flush-gone" /\ answerLocally(c, "gone", burned) /\ release
                \/ pc[c] = "flush-denied" /\ answerLocally(c, "denied", burned) /\ release
                \/ pc[c] = "flush-timeout" /\ answerLocally(c, "timed-out", burned) /\ release
                \/ pc[c] = "flush-limit" /\ answerLocally(c, "refused", burned) /\ UNCHANGED admitted
                \/ pc[c] = "flush-error" /\ answerLocally(c, "refused", burned) /\ UNCHANGED admitted
             /\ UNCHANGED <<askedAt, deadline, seen, left, leaving>>
    <2>0. admitted \in Int /\ (release => admitted' \in Int)
      BY <1>0 DEF release, FlowTypeOK
    <2>1. PICK x : Ends(x)
      <3>1. CASE pc[c] = "flush-approved" /\ FORWARD(c, burned) /\ release
        <4>1. Ends(applyVerdict("forward"))
          BY <1>0, <2>0, <3>1, ForwardType DEF Terminal, Flushing, Ruled
        <4> HIDE DEF Ends
        <4> QED  BY <4>1
      <3>2. CASE pc[c] = "flush-answered" /\ DROP(c, burned) /\ release
        <4>1. Ends("dropped")
          BY <1>0, <2>0, <3>2, DropType DEF Terminal, Flushing
        <4> HIDE DEF Ends
        <4> QED  BY <4>1
      <3>3. CASE pc[c] = "flush-gone" /\ answerLocally(c, "gone", burned) /\ release
        <4>1. Ends("gone")
          BY <1>0, <2>0, <3>3, AnswerType DEF Terminal, Flushing, Ruled
        <4> HIDE DEF Ends
        <4> QED  BY <4>1
      <3>4. CASE pc[c] = "flush-denied" /\ answerLocally(c, "denied", burned) /\ release
        <4>1. Ends("denied")
          BY <1>0, <2>0, <3>4, AnswerType DEF Terminal, Flushing, Ruled
        <4> HIDE DEF Ends
        <4> QED  BY <4>1
      <3>5. CASE pc[c] = "flush-timeout" /\ answerLocally(c, "timed-out", burned) /\ release
        <4>1. Ends("timed-out")
          BY <1>0, <2>0, <3>5, AnswerType DEF Terminal, Flushing, Ruled
        <4> HIDE DEF Ends
        <4> QED  BY <4>1
      <3>6. CASE /\ pc[c] \in {"flush-limit", "flush-error"}
                 /\ answerLocally(c, "refused", burned) /\ UNCHANGED admitted
        <4>1. Ends("refused")
          BY <1>0, <2>0, <3>6, AnswerType DEF Terminal, Flushing
        <4> HIDE DEF Ends
        <4> QED  BY <4>1
      <3> QED  BY <1>3, <3>1, <3>2, <3>3, <3>4, <3>5, <3>6
    <2>2. pc[c] \in InFlight /\ x \notin {"flush-timeout", "flush-error"} /\ faulted \subseteq faulted'
      BY <1>1, <2>1 DEF InFlight, Terminal
    <2> QED  BY <1>1, <1>3, <2>1, <2>2, EndKeeps
  <1> QED  BY <1>2, <1>3 DEF settleJournal

LEMMA JournalFailsKeeps ==
  ASSUME GateInv, NEW c \in Requests, settleJournalFails(c)
  PROVE  GateInv' /\ Refines
  <1>0. GateTypeOK /\ FlowTypeOK /\ CancelTypeOK /\ GuardTypeOK /\ pc[c] \in InFlight
        /\ burned \in SUBSET Ids
    BY DEF GateInv, GateTypeOK, GuardTypeOK, settleJournalFails, InFlight
  <1>1. UNCHANGED <<queueVars, askedAt, deadline, seen, left, leaving, session>>
    BY DEF settleJournalFails
  <1>2. admitted' \in Int
    BY <1>0 DEF settleJournalFails, release, FlowTypeOK
  <1>3. PICK x \in {"dropped", "flush-error", "refused"} :
          /\ pc' = [pc EXCEPT ![c] = x] /\ CancelTypeOK' /\ GuardTypeOK'
          /\ faulted \subseteq faulted' /\ faulted' \subseteq Requests
    <2>1. CASE DROP(c, burned) /\ UNCHANGED <<admitted, faulted>>
      BY <1>0, <2>1, DropType DEF GateTypeOK
    <2>2. CASE denyOnGateError(c)
      BY <1>0, <2>2, DenyType DEF GateTypeOK
    <2> QED  BY <2>1, <2>2 DEF settleJournalFails
  <1>4. x \in Terminal \cup {"flush-timeout", "flush-error"}
    BY DEF Terminal
  <1> QED  BY <1>0, <1>1, <1>2, <1>3, <1>4, EndKeeps
-----------------------------------------------------------------------------
(* The withdrawal of a call whose agent left: the row and the wait end in  *)
(* one step when it wins, the wait alone when the session is over.         *)
LEMMA LeaveWithdrawKeeps ==
  ASSUME GateInv, NEW c \in Requests, LeaveWithdraw(c)
  PROVE  GateInv' /\ Refines
  <1>0. /\ GateTypeOK /\ FlowTypeOK /\ CancelTypeOK /\ GuardTypeOK /\ Ruled(c)
        /\ status \in [Requests -> Status]
    BY DEF GateInv, AllRuled, GateTypeOK, QueueInv, QueueTypeOK
  <1>1. /\ moveToResolvedBatch({c}, "withdrawn", "left") /\ "withdrawn" \in Settled \ {"approved"}
        /\ leaving' = [leaving EXCEPT ![c] = "done"]
        /\ UNCHANGED <<now, up, sweeps, session, faulted>>
    BY DEF LeaveWithdraw, leave, withdraw, Settled, Answers
  <1>2. QueueInv'
    BY <1>1, MoveKeeps DEF GateInv, Reasons
  <1>3. \A d \in Requests : RowKept(d)
    BY <1>1, MoveKeepsRows
  <1>4. CASE pc[c] = "held" /\ (c \in Pending \/ closed) /\ finishApproval(c, "withdrawn")
    <2>1. /\ CancelTypeOK' /\ GuardTypeOK' /\ admitted' \in Int
          /\ seen' = [seen EXCEPT ![c] = "none"]
          /\ deadline' = [deadline EXCEPT ![c] = NoTime]
          /\ UNCHANGED <<askedAt, left>>
      BY <1>0, <1>4, FinishType
    <2>2. PICK x \in {"flush-gone", "gone", "expire"} : pc' = [pc EXCEPT ![c] = x]
      BY <1>0, <1>4, FinishType DEF WaitEnd
    <2>3. x \in InFlight \cup Terminal
      BY DEF InFlight, Flushing, Terminal
    <2>4. GateTypeOK'
      BY <1>0, <1>1, <2>1, <2>2, <2>3 DEF GateTypeOK, FlowTypeOK, SessionTypeOK, session
    <2>5. \A d \in Requests : /\ pc'[d] = IF d = c THEN x ELSE pc[d]
                             /\ seen'[d] = IF d = c THEN "none" ELSE seen[d]
      BY <1>0, <2>1, <2>2 DEF FlowTypeOK
    <2>6. status[c] # "absent"
      BY <1>0, <1>4 DEF Ruled
    <2>7. status'[c] \in Settled
      BY <1>0, <1>1, <2>6 DEF moveToResolvedBatch, Pending, Status, Settled, Answers
    <2>8. Ruled(c)'
      BY <2>5, <2>7 DEF Ruled, Settled, Answers
    <2>9. ASSUME NEW d \in Requests \ {c} PROVE Ruled(d)'
      BY <1>1, <1>3, <2>1, <2>5, RuledFrame DEF GateInv, AllRuled
    <2>10. Refines
      <3>1. phaseOf(pc[c]) = "asked"
        BY <1>4 DEF phaseOf, InFlight, Waiting
      <3>2. CASE x # "gone"
        <4>1. \A d \in Requests : phaseOf(pc'[d]) = phaseOf(pc[d])
          BY <2>5, <3>1, <3>2 DEF phaseOf, InFlight, Flushing
        <4> QED  BY <1>1, <4>1, RowsMove DEF GateInv
      <3>3. CASE x = "gone" /\ c \notin Pending
        <4>1. UNCHANGED status
          BY <1>0, <1>1, <3>3 DEF moveToResolvedBatch
        <4>2. MayMove(c, "gone")
          BY <3>1 DEF MayMove, phaseOf, InFlight, Flushing, Waiting
        <4> QED  BY <1>0, <2>2, <3>3, <4>1, <4>2, CallMoves
      <3>4. CASE x = "gone" /\ c \in Pending
        <4> DEFINE ph == [d \in Requests |-> phaseOf(pc[d])]
                   ru == [d \in Requests |-> rulingOf(status[d])]
        <4>1. [d \in Requests |-> phaseOf(pc'[d])] = [ph EXCEPT ![c] = "silent"]
          BY <2>5, <3>4 DEF phaseOf, InFlight, Flushing, Waiting
        <4>2. [d \in Requests |-> rulingOf(status'[d])] = [ru EXCEPT ![c] = "void"]
          BY <1>1, <3>4 DEF moveToResolvedBatch, rulingOf, Settled, Answers
        <4>3. ph[c] = "asked" /\ ru[c] = "open"
          BY <3>1, <3>4 DEF Pending, rulingOf, Settled, Answers
        <4>4. Outcome!GiveUp(c)
          BY <4>1, <4>2, <4>3 DEF Outcome!GiveUp
        <4> QED  BY <4>4 DEF Refines, Outcome!Next
      <3> QED  BY <3>2, <3>3, <3>4
    <2> QED  BY <1>2, <2>4, <2>8, <2>9, <2>10 DEF GateInv, AllRuled
  <1>5. CASE UNCHANGED <<pc, askedAt, deadline, seen, left, admitted, cancels, guard>>
    <2>1. GateTypeOK'
      BY <1>0, <1>1, <1>5 DEF GateTypeOK, FlowTypeOK, SessionTypeOK, CancelTypeOK, GuardTypeOK,
                              session, cancels, guard
    <2>2. AllRuled'
      BY <1>1, <1>3, <1>5, RuledFrame DEF GateInv, AllRuled
    <2>3. Refines
      BY <1>1, <1>5, RowsMove DEF GateInv
    <2> QED  BY <1>2, <2>1, <2>2, <2>3 DEF GateInv
  <1> QED  BY <1>4, <1>5 DEF LeaveWithdraw, leave

LEMMA LeaveWithdrawFailsKeeps ==
  ASSUME GateInv, NEW c \in Requests, LeaveWithdrawFails(c)
  PROVE  GateInv' /\ Refines
  <1>0. GateTypeOK /\ FlowTypeOK
    BY DEF GateInv, GateTypeOK
  <1>1. /\ leaving' = [leaving EXCEPT ![c] = "done"]
        /\ faulted' = faulted \cup {c}
        /\ UNCHANGED <<queueVars, session>>
    BY DEF LeaveWithdrawFails, leave, queueVars
  <1>2. leaving' \in [Requests -> {"no", "asked", "done"}] /\ faulted' \subseteq Requests
    BY <1>0, <1>1 DEF GateTypeOK, FlowTypeOK
  <1>3. CASE pc[c] = "held" /\ finishApproval(c, "withdrawn")
    BY <1>1, <1>2, <1>3, FinishKeeps
  <1>4. CASE UNCHANGED <<pc, askedAt, deadline, seen, left, admitted, cancels, guard>>
    <2>1. GateTypeOK'
      BY <1>0, <1>1, <1>2, <1>4 DEF GateTypeOK, FlowTypeOK, SessionTypeOK, CancelTypeOK,
                                    GuardTypeOK, session, cancels, guard
    <2> QED  BY <1>1, <1>4, <2>1, BesideKeeps
  <1> QED  BY <1>3, <1>4 DEF LeaveWithdrawFails, leave

-----------------------------------------------------------------------------
(* The steps that leave the gate's memory as it is. *)

LEMMA QueueOnlyKeeps ==
  ASSUME GateInv, UNCHANGED <<gateVars, status>>, QueueInv'
  PROVE  GateInv' /\ Refines
  <1>1. UNCHANGED pc
    BY DEF gateVars, flow
  <1> QED  BY <1>1, SameRows, NothingMoves, OutsideKeeps

LEMMA SettlesOutside ==
  ASSUME GateInv, UNCHANGED gateVars, QueueInv', NEW rs \in SUBSET Requests,
         NEW outcome \in Settled, NEW why, moveToResolvedBatch(rs, outcome, why)
  PROVE  GateInv' /\ Refines
  <1>1. UNCHANGED pc
    BY DEF gateVars, flow
  <1>2. Refines
    BY <1>1, RowsMove DEF GateInv
  <1>3. \A d \in Requests : RowKept(d)
    BY MoveKeepsRows
  <1> QED  BY <1>2, <1>3, OutsideKeeps

LEMMA HeartbeatHeldKeeps ==
  ASSUME GateInv, HeartbeatHeld
  PROVE  GateInv' /\ Refines
  <1>1. Held \in SUBSET Requests /\ UNCHANGED <<now, up, sweeps, gateVars>>
    BY DEF HeartbeatHeld, Held
  <1>2. PICK t \in 0..now : heartbeat(Held, t)
    BY DEF HeartbeatHeld
  <1>3. t \in Times
    BY DEF GateInv, QueueInv, QueueTypeOK, Times
  <1>4. QueueInv'
    BY <1>1, <1>2, <1>3, HeartbeatKeeps DEF GateInv
  <1>5. UNCHANGED status
    BY <1>2 DEF heartbeat
  <1> QED  BY <1>1, <1>4, <1>5, QueueOnlyKeeps

LEMMA CrashGateKeeps ==
  ASSUME GateInv, CrashGate \/ Clock
  PROVE  GateInv' /\ Refines
  <1>1. QueueInv'
    BY CrashKeeps, TickKeeps DEF GateInv, CrashGate, Clock
  <1>2. UNCHANGED <<gateVars, status>>
    BY DEF CrashGate, Clock, Crash, Tick, store
  <1> QED  BY <1>1, <1>2, QueueOnlyKeeps

LEMMA OthersKeeps ==
  ASSUME GateInv, Others
  PROVE  GateInv' /\ Refines
  <1>0. UNCHANGED gateVars /\ QueueInv
    BY DEF Others, GateInv
  <1>1. CASE \E p \in Operators : Operator(p)
    <2>1. PICK p \in Operators : Operator(p)
      BY <1>1
    <2>2. QueueInv'
      BY <1>0, <2>1, OperatorKeeps
    <2>3. PICK r \in Requests, answer \in Answers : resolve(p, r, answer)
      BY <2>1 DEF Operator
    <2>4. \E outcome \in Settled : \E why : moveToResolvedBatch({r}, outcome, why)
      BY <2>3, ResolveCases DEF Settled, Answers
    <2> QED  BY <1>0, <2>2, <2>4, SettlesOutside
  <1>2. CASE \E p \in Readers : Read(p)
    <2>1. PICK p \in Readers : Read(p)
      BY <1>2
    <2>2. QueueInv'
      BY <1>0, <2>1, ReadKeeps
    <2>3. batch[p] \in SUBSET Requests
      BY <1>0 DEF QueueInv, QueueTypeOK
    <2>4. CASE markExpiredBatch(p) \/ withdrawLostBatch(p)
      <3>1. \E outcome \in Settled : \E why : moveToResolvedBatch(batch[p], outcome, why)
        BY <2>4 DEF markExpiredBatch, withdrawLostBatch, Settled, Answers
      <3> QED  BY <1>0, <2>2, <2>3, <3>1, SettlesOutside
    <2>5. CASE sweepExpiredPending(p) \/ findLost(p) \/ sweepFails(p)
      <3>1. UNCHANGED status
        BY <2>5 DEF sweepExpiredPending, findLost, sweepFails, store
      <3> QED  BY <1>0, <2>2, <3>1, QueueOnlyKeeps
    <2> QED  BY <2>1, <2>4, <2>5 DEF Read
  <1> QED  BY <1>1, <1>2 DEF Others

-----------------------------------------------------------------------------
LEMMA CallStepKeeps ==
  ASSUME GateInv, NEW c \in Requests, CallStep(c) \/ LeaveStep(c)
  PROVE  GateInv' /\ Refines
  BY EnqueueCallKeeps, EnqueueFailsKeeps, PollReadKeeps, PollApplyKeeps, TimedOutMarkKeeps,
     TimedOutKeeps, JournalKeeps, JournalFailsKeeps, LeaveWithdrawKeeps, LeaveWithdrawFailsKeeps
     DEF CallStep, LeaveStep

LEMMA GateStepKeeps ==
  ASSUME GateInv, [Next]_vars
  PROVE  GateInv' /\ Refines
  <1>1. CASE Client  BY <1>1, RequestKeeps, DenyKeeps, CancelKeeps DEF Client
  <1>2. CASE \E c \in Requests : CallStep(c) \/ LeaveStep(c)  BY <1>2, CallStepKeeps
  <1>3. CASE HeartbeatHeld  BY <1>3, HeartbeatHeldKeeps
  <1>4. CASE SessionEnd  BY <1>4, SessionKeeps, CancelAllKeeps DEF SessionEnd
  <1>5. CASE CrashGate \/ Clock  BY <1>5, CrashGateKeeps
  <1>6. CASE Others  BY <1>6, OthersKeeps
  <1>7. CASE UNCHANGED vars
    <2>1. UNCHANGED <<queueVars, gateVars, status>>
      BY <1>7 DEF vars, queueVars, store
    <2>2. QueueInv'
      BY <2>1, IdleKeeps DEF GateInv
    <2> QED  BY <2>1, <2>2, QueueOnlyKeeps
  <1> QED  BY <1>1, <1>2, <1>3, <1>4, <1>5, <1>6, <1>7 DEF Next

LEMMA GateInitInv == Init => GateInv
  <1> SUFFICES ASSUME Init PROVE GateInv
    OBVIOUS
  <1>1. QueueInv
    BY QueueInitInv DEF Init
  <1>2. GateTypeOK
    <2>1. FlowTypeOK
      BY DEF Init, FlowTypeOK
    <2>2. SessionTypeOK
      BY Zenon DEF Init, SessionTypeOK
    <2>3. CancelTypeOK
      BY DEF Init, CancelTypeOK
    <2>4. GuardTypeOK /\ faulted \subseteq Requests
      BY DEF Init, GuardTypeOK
    <2> QED  BY <2>1, <2>2, <2>3, <2>4 DEF GateTypeOK
  <1>3. AllRuled
    BY DEF Init, QueueInit, AllRuled, Ruled, Settled, Answers
  <1> QED  BY <1>1, <1>2, <1>3 DEF GateInv

(* The inductive invariant of the gate, over the queue's own. *)
THEOREM GateInvariant == Spec => []GateInv
  <1>1. GateInv /\ [Next]_vars => GateInv'
    BY GateStepKeeps
  <1> QED  BY <1>1, GateInitInv, PTL DEF Spec

(* The gate's variables keep their shapes, the LRU of answered ids and the *)
(* deadlines capped by the policy's wait among them.                       *)
THEOREM TypeCorrect == Spec => []TypeOK
  <1>1. GateInv => TypeOK  BY TypeSplit DEF GateInv, QueueInv
  <1> QED  BY <1>1, GateInvariant, PTL

(* What the agent was told agrees with the queue's row, whichever of       *)
(* operator, withdrawal, expiry and sweep won it (gate-approvals.ts        *)
(* finishApproval).                                                        *)
THEOREM AnswersMatchRecord == Spec => []AnswerMatchesRecord
  <1>1. GateInv => AnswerMatchesRecord
    BY DEF GateInv, AllRuled, Ruled, AnswerMatchesRecord
  <1> QED  BY <1>1, GateInvariant, PTL

(* No living gate loses a request it holds to another process, in the      *)
(* composed system either (holder.ts isHolderLost).                        *)
THEOREM LivingGateKeeps == Spec => []LostOnlyIfDead
  <1>1. GateInv => LostOnlyIfDead  BY DEF GateInv, QueueInv, LostInv
  <1> QED  BY <1>1, GateInvariant, PTL

(* The gate implements CallOutcome: one ruling per call, which stands, and *)
(* one outcome, which is the server's only under an approval               *)
(* (gate-approvals.ts requestApproval).                                    *)
THEOREM GateImplementsCallOutcome == Spec => OneOutcomePerCall
  <1>1. Init => Outcome!Init
    BY DEF Init, QueueInit, Outcome!Init, phaseOf, rulingOf, Settled, Answers
  <1>2. GateInv /\ [Next]_vars => [Outcome!Next]_(Outcome!outcomeVars)
    BY GateStepKeeps DEF Refines
  <1> QED  BY <1>1, <1>2, GateInvariant, PTL DEF Spec, OneOutcomePerCall, Outcome!Spec

-----------------------------------------------------------------------------
(***************************************************************************)
(* The gate's bookkeeping: the count of admitted calls (CapInv), the       *)
(* cancels and the verdicts they wait behind (CancelInv), and what each    *)
(* silence is due to (CauseInv).                                           *)
(***************************************************************************)

(* The calls that count against the cap: from the cap check to the end of  *)
(* their verdict, but not those refused at the cap or failed.              *)
Counted == Waiting \cup {"expire", "expired"} \cup (Flushing \ {"flush-limit", "flush-error"})

Admitted == {c \in Requests : pc[c] \in Counted}

CapInv ==
  /\ IsFiniteSet(Admitted)
  /\ admitted = Cardinality(Admitted)
  /\ admitted <= MaxHeld

(* A verdict that is tracked under an id is of a call on its way, and so   *)
(* is the one a queued cancel waits behind.                                *)
CancelInv ==
  /\ \A id \in Ids :
       /\ verdictOf[id] # NoCall => IdOf[verdictOf[id]] = id /\ pc[verdictOf[id]] \in InFlight
       /\ cancelMsg[id] \in {"unsent", "abandoned"} => behind[id] = NoCall
       /\ cancelMsg[id] = "queued" => behind[id] # NoCall /\ pc[behind[id]] \in InFlight
  /\ CancelFollowsCall

(* An id is known as answered. *)
Answered(id) == id \in burned \/ holds(lru, id)

(* Who left was cancelled or disconnected, and an id is answered only by   *)
(* a call that has ended.                                                  *)
CauseInv ==
  /\ \A id \in cancelled : cancelMsg[id] # "unsent"
  /\ \A c \in Requests :
       /\ left[c] = "cancelled" => cancelMsg[IdOf[c]] # "unsent"
       /\ left[c] = "disconnected" => closed
       /\ pc[c] \in {"flush-gone", "gone"} => left[c] # "none"
       /\ pc[c] = "flush-answered" => IsReused(c)
       /\ pc[c] = "flush-error" => c \in faulted
  /\ \A id \in Ids : Answered(id) =>
       denied > 0 \/ \E d \in Requests : IdOf[d] = id /\ pc[d] \in Terminal
  /\ SilenceHasCause

(* The client's end ends a connect/serve session at once. *)
LeftInv == closed /\ ~ IsWrap => stage # "open"

SideInv == CapInv /\ CancelInv /\ CauseInv /\ LeftInv

-----------------------------------------------------------------------------
(* What the gate does, as those parts see it: a step that moves no call, a *)
(* step of one call, which goes on or ends, and the steps of the session.  *)

Still ==
  /\ UNCHANGED <<pc, left, admitted, closed, stage, cancels, guard>>
  /\ faulted \subseteq faulted'

weight(at) == IF at \in Counted THEN 1 ELSE 0

GoesOn(c, x) ==
  /\ x \in InFlight /\ pc' = [pc EXCEPT ![c] = x]
  /\ burned' \subseteq burned /\ UNCHANGED <<cancels, lru, denied, spoiled>>

EndsAs(c, x) ==
  \E burns \in SUBSET burned :
    \/ x = applyVerdict("forward") /\ FORWARD(c, burns)
    \/ x = "dropped" /\ DROP(c, burns)
    \/ x \in {"gone", "denied", "timed-out", "refused"} /\ answerLocally(c, x, burns)

(* Why a call moves to x. *)
Because(c, x) ==
  /\ x \in {"flush-gone", "gone"} => left[c] # "none" \/ pc[c] = "flush-gone"
  /\ x = "flush-answered" => Answered(IdOf[c])
  /\ x = "dropped" => stage # "open" \/ pc[c] \in {"flush-answered", "flush-error"} \/ Answered(IdOf[c])
  /\ x = "flush-error" => c \in faulted'
  /\ x = "forwarded" => (FailClosed \/ ~ holds(lru, IdOf[c])) /\ (IsWrap \/ stage = "open")

Early(c) == IF closed THEN "disconnected" ELSE IF IdOf[c] \in cancelled THEN "cancelled" ELSE "none"

MovesTo(c, x) ==
  /\ pc[c] \in InFlight
  /\ GoesOn(c, x) \/ EndsAs(c, x)
  /\ weight(x) <= weight(pc[c]) /\ admitted' = admitted + weight(x) - weight(pc[c])
  /\ Because(c, x)
  /\ UNCHANGED left \/ (x = "held" /\ left' = [left EXCEPT ![c] = Early(c)])

Moves(c) ==
  /\ \E x : MovesTo(c, x)
  /\ faulted \subseteq faulted' /\ UNCHANGED session

LEMMA WeightType == \A at : weight(at) \in {0, 1}
  BY DEF weight

LEMMA EndWaitShrinks == \A cs : endWait(cs) \in SUBSET burned
  BY DEF endWait

(* The end of a wait. *)
LEMMA FinishMoves ==
  ASSUME GateTypeOK, NEW c \in Requests, pc[c] = "held",
         NEW outcome, finishApproval(c, outcome)
  PROVE  \E x : MovesTo(c, x)
  <1> DEFINE burns == endWait({c})
  <1>1. burns \in SUBSET burned
    BY EndWaitShrinks
  <1>2. UNCHANGED left /\ pc[c] \in InFlight /\ weight(pc[c]) = 1 /\ admitted \in Int
    BY DEF finishApproval, InFlight, weight, Counted, Waiting, GateTypeOK, FlowTypeOK
  <1> HIDE DEF burns
  <1>3. ASSUME NEW at \in InFlight, awaitFlush(c, at, burns), UNCHANGED admitted, at # "flush-error",
               at = "flush-gone" => left[c] # "none", at = "flush-answered" => Answered(IdOf[c]),
               weight(at) = 1
        PROVE  MovesTo(c, at)
    <2>1. GoesOn(c, at)
      BY <1>1, <1>3 DEF GoesOn, awaitFlush
    <2>2. Because(c, at)
      BY <1>3 DEF Because, InFlight, Waiting, Flushing
    <2> QED  BY <1>2, <1>3, <2>1, <2>2 DEF MovesTo
  <1>4. ASSUME NEW x \in Terminal, EndsAs(c, x), release, Because(c, x)
        PROVE  MovesTo(c, x)
    <2>1. weight(x) = 0
      BY DEF weight, Counted, Waiting, Flushing, Terminal
    <2> QED  BY <1>2, <1>4, <2>1 DEF MovesTo, release
  <1>5. CASE finishApproved(c, burns)
    <2>1. isAnswered(IdOf[c], burns) => Answered(IdOf[c])
      BY <1>1 DEF isAnswered, Answered
    <2>2. ~ isAnswered(IdOf[c], burns) => ~ holds(lru, IdOf[c])
      BY DEF isAnswered
    <2>3. CASE FailClosed /\ isAnswered(IdOf[c], burns)
      BY <1>3, <1>5, <2>1, <2>3 DEF finishApproved, InFlight, Flushing, weight, Counted
    <2>4. CASE FailClosed /\ ~ isAnswered(IdOf[c], burns)
      BY <1>3, <1>5, <2>4 DEF finishApproved, InFlight, Flushing, weight, Counted
    <2>5. CASE ~ FailClosed /\ isAnswered(IdOf[c], burns)
      <3>1. EndsAs(c, "dropped") /\ release
        BY <1>1, <1>5, <2>5 DEF finishApproved, EndsAs
      <3> QED  BY <1>4, <2>1, <2>5, <3>1 DEF Because, Terminal
    <2>6. CASE ~ FailClosed /\ ~ isAnswered(IdOf[c], burns)
      <3>1. EndsAs(c, applyVerdict("forward")) /\ release
        BY <1>1, <1>5, <2>6 DEF finishApproved, EndsAs
      <3> QED  BY <1>4, <2>2, <2>6, <3>1 DEF Because, Terminal, applyVerdict
    <2> QED  BY <2>3, <2>4, <2>5, <2>6
  <1>6. CASE left[c] # "none" /\ finishAgentGone(c, burns)
    <2>1. CASE FailClosed
      BY <1>3, <1>6, <2>1 DEF finishAgentGone, InFlight, Flushing, weight, Counted
    <2>2. CASE ~ FailClosed
      <3>1. EndsAs(c, "gone") /\ release
        BY <1>1, <1>6, <2>2 DEF finishAgentGone, EndsAs
      <3> QED  BY <1>4, <1>6, <3>1 DEF Because, Terminal
    <2> QED  BY <2>1, <2>2
  <1>7. CASE finishDenied(c, burns)
    <2>1. CASE FailClosed
      BY <1>3, <1>7, <2>1 DEF finishDenied, InFlight, Flushing, weight, Counted
    <2>2. CASE ~ FailClosed
      <3>1. EndsAs(c, "denied") /\ release
        BY <1>1, <1>7, <2>2 DEF finishDenied, EndsAs
      <3> QED  BY <1>4, <3>1 DEF Because, Terminal
    <2> QED  BY <2>1, <2>2
  <1>8. CASE awaitFlush(c, "expire", burns) /\ UNCHANGED admitted
    BY <1>3, <1>8 DEF InFlight, weight, Counted
  <1> QED  BY <1>5, <1>6, <1>7, <1>8 DEF finishApproval, burns

(* The steps of one call, each of which leaves the rest or moves the call. *)

LEMMA BurnedSubset == burned \in SUBSET burned
  OBVIOUS

LEMMA HoldMoves ==
  ASSUME GateTypeOK, NEW c \in Requests, pc[c] \in {"enqueue", "flush-pending"}, hold(c),
         UNCHANGED <<cancels, guard>>
  PROVE  MovesTo(c, "held")
  <1>1. GoesOn(c, "held")
    BY DEF GoesOn, hold, InFlight, Waiting, guard
  <1>2. left' = [left EXCEPT ![c] = Early(c)] /\ admitted' = admitted /\ admitted \in Int
    BY DEF hold, Early, GateTypeOK, FlowTypeOK
  <1>3. weight("held") = 1 /\ weight(pc[c]) = 1 /\ pc[c] \in InFlight
    BY DEF weight, Counted, Waiting, InFlight
  <1> QED  BY <1>1, <1>2, <1>3 DEF MovesTo, Because

LEMMA EnqueueMoves ==
  ASSUME GateTypeOK, NEW c \in Requests, EnqueueCall(c)
  PROVE  Moves(c)
  <1>1. pc[c] = "enqueue" /\ UNCHANGED <<session, cancels, guard, faulted>>
    BY DEF EnqueueCall
  <1>2. CASE hold(c)
    BY <1>1, <1>2, HoldMoves DEF Moves
  <1>3. CASE pc' = [pc EXCEPT ![c] = "flush-pending"] /\ UNCHANGED <<left, admitted>>
    <2>1. GoesOn(c, "flush-pending")
      BY <1>1, <1>3 DEF GoesOn, InFlight, Waiting, guard
    <2>2. weight("flush-pending") = 1 /\ weight(pc[c]) = 1 /\ pc[c] \in InFlight /\ admitted \in Int
      BY <1>1 DEF weight, Counted, Waiting, InFlight, GateTypeOK, FlowTypeOK
    <2>3. MovesTo(c, "flush-pending")
      BY <1>3, <2>1, <2>2 DEF MovesTo, Because
    <2> QED  BY <1>1, <2>3 DEF Moves
  <1> QED  BY <1>2, <1>3 DEF EnqueueCall

(* A gate error, of a call that was admitted or whose refusal failed. *)
LEMMA DenyMoves ==
  ASSUME GateTypeOK, NEW c \in Requests, pc[c] \in InFlight, denyOnGateError(c), UNCHANGED left,
         admitted' = admitted - weight(pc[c])
  PROVE  \E x : MovesTo(c, x)
  <1>1. weight("flush-error") = 0 /\ weight("refused") = 0
    BY DEF weight, Counted, Waiting, Flushing
  <1>2. weight(pc[c]) \in {0, 1} /\ admitted \in Int /\ c \in faulted'
    BY WeightType DEF GateTypeOK, FlowTypeOK, denyOnGateError
  <1>3. CASE awaitFlush(c, "flush-error", burned)
    <2>1. GoesOn(c, "flush-error")
      BY <1>3 DEF GoesOn, awaitFlush, InFlight, Flushing
    <2> QED  BY <1>1, <1>2, <2>1 DEF MovesTo, Because
  <1>4. CASE answerLocally(c, "refused", burned)
    <2>1. EndsAs(c, "refused")
      BY <1>4, BurnedSubset DEF EndsAs
    <2> QED  BY <1>1, <1>2, <2>1 DEF MovesTo, Because
  <1> QED  BY <1>3, <1>4 DEF denyOnGateError

LEMMA EnqueueFailsMoves ==
  ASSUME GateTypeOK, NEW c \in Requests, EnqueueFails(c)
  PROVE  Moves(c)
  <1>1. pc[c] = "enqueue" /\ denyOnGateError(c) /\ UNCHANGED <<left, session>> /\ admitted' = admitted - 1
    BY DEF EnqueueFails, release
  <1>2. pc[c] \in InFlight /\ weight(pc[c]) = 1
    BY <1>1 DEF InFlight, Waiting, weight, Counted
  <1>3. faulted \subseteq faulted'
    BY <1>1 DEF denyOnGateError
  <1> QED  BY <1>1, <1>2, <1>3, DenyMoves DEF Moves

LEMMA PollReadMoves ==
  ASSUME NEW c \in Requests, PollRead(c)
  PROVE  Still
  BY DEF PollRead, Still, session

LEMMA PollApplyMoves ==
  ASSUME GateTypeOK, NEW c \in Requests, PollApply(c)
  PROVE  Still \/ Moves(c)
  <1>1. pc[c] = "held" /\ UNCHANGED <<session, faulted>>
    BY DEF PollApply
  <1>2. CASE \E outcome : finishApproval(c, outcome)
    BY <1>1, <1>2, FinishMoves DEF Moves
  <1>3. CASE UNCHANGED <<pc, left, admitted, cancels, guard>>
    BY <1>1, <1>3 DEF Still, session
  <1> QED  BY <1>2, <1>3 DEF PollApply

LEMMA TimedOutMarkMoves ==
  ASSUME GateTypeOK, NEW c \in Requests, finishTimedOutMark(c)
  PROVE  Moves(c)
  <1>1. /\ pc[c] = "expire" /\ pc' = [pc EXCEPT ![c] = "expired"] /\ faulted \subseteq faulted'
        /\ UNCHANGED <<left, admitted, session, cancels, guard>>
    BY DEF finishTimedOutMark
  <1>2. GoesOn(c, "expired")
    BY <1>1 DEF GoesOn, InFlight, guard
  <1>3. weight("expired") = 1 /\ weight(pc[c]) = 1 /\ pc[c] \in InFlight /\ admitted \in Int
    BY <1>1 DEF weight, Counted, InFlight, GateTypeOK, FlowTypeOK
  <1>4. MovesTo(c, "expired")
    BY <1>1, <1>2, <1>3 DEF MovesTo, Because
  <1> QED  BY <1>1, <1>4 DEF Moves

(* A decision that is acted on: the call ends and is counted no longer. *)
LEMMA EndMoves ==
  ASSUME GateTypeOK, NEW c \in Requests, pc[c] \in InFlight, NEW x \in Terminal, EndsAs(c, x),
         Because(c, x), UNCHANGED left, admitted' = admitted - weight(pc[c])
  PROVE  MovesTo(c, x)
  <1>1. weight(x) = 0
    BY DEF weight, Counted, Waiting, Flushing, Terminal
  <1>2. weight(pc[c]) \in {0, 1} /\ admitted \in Int
    BY WeightType DEF GateTypeOK, FlowTypeOK
  <1> QED  BY <1>1, <1>2 DEF MovesTo

LEMMA TimedOutMoves ==
  ASSUME GateTypeOK, NEW c \in Requests, finishTimedOut(c)
  PROVE  Moves(c)
  <1>1. pc[c] = "expired" /\ UNCHANGED <<left, session, faulted>> /\ admitted \in Int
    BY DEF finishTimedOut, GateTypeOK, FlowTypeOK
  <1>2. weight(pc[c]) = 1 /\ pc[c] \in InFlight
    BY <1>1 DEF weight, Counted, InFlight
  <1>3. CASE awaitFlush(c, "flush-timeout", burned) /\ UNCHANGED admitted
    <2>1. GoesOn(c, "flush-timeout") /\ weight("flush-timeout") = 1
      BY <1>3 DEF GoesOn, awaitFlush, InFlight, Flushing, weight, Counted
    <2>2. MovesTo(c, "flush-timeout")
      BY <1>1, <1>2, <1>3, <2>1 DEF MovesTo, Because
    <2> QED  BY <1>1, <2>2 DEF Moves
  <1>4. CASE answerLocally(c, "timed-out", burned) /\ release
    <2>1. EndsAs(c, "timed-out")
      BY <1>4, BurnedSubset DEF EndsAs
    <2>2. MovesTo(c, "timed-out")
      BY <1>1, <1>2, <1>4, <2>1, EndMoves DEF Because, Terminal, release
    <2> QED  BY <1>1, <2>2 DEF Moves
  <1> QED  BY <1>3, <1>4 DEF finishTimedOut

LEMMA JournalMoves ==
  ASSUME GateTypeOK, NEW c \in Requests, settleJournal(c)
  PROVE  Moves(c)
  <1>1. FailClosed /\ UNCHANGED <<session, faulted>>
    BY DEF settleJournal
  <1>2. CASE pc[c] = "flush-pending" /\ hold(c) /\ UNCHANGED <<cancels, guard>>
    BY <1>1, <1>2, HoldMoves DEF Moves
  <1>3. CASE /\ \/ pc[c] = "flush-approved" /\ FORWARD(c, burned) /\ release
                \/ pc[c] = "flush-answered" /\ DROP(c, burned) /\ release
                \/ pc[c] = "flush-gone" /\ answerLocally(c, "gone", burned) /\ release
                \/ pc[c] = "flush-denied" /\ answerLocally(c, "denied", burned) /\ release
                \/ pc[c] = "flush-timeout" /\ answerLocally(c, "timed-out", burned) /\ release
                \/ pc[c] = "flush-limit" /\ answerLocally(c, "refused", burned) /\ UNCHANGED admitted
                \/ pc[c] = "flush-error" /\ answerLocally(c, "refused", burned) /\ UNCHANGED admitted
             /\ UNCHANGED left
    <2>0. pc[c] \in InFlight /\ admitted \in Int
      BY <1>3 DEF InFlight, Flushing, GateTypeOK, FlowTypeOK
    <2>1. admitted' = admitted - weight(pc[c])
      BY <1>3, <2>0 DEF release, weight, Counted, Waiting, Flushing
    <2>2. CASE pc[c] = "flush-approved" /\ FORWARD(c, burned)
      <3>1. EndsAs(c, applyVerdict("forward"))
        BY <2>2, BurnedSubset DEF EndsAs
      <3>2. applyVerdict("forward") \in Terminal /\ Because(c, applyVerdict("forward"))
        BY <1>1 DEF applyVerdict, Terminal, Because
      <3> QED  BY <1>1, <1>3, <2>0, <2>1, <3>1, <3>2, EndMoves DEF Moves
    <2>3. CASE pc[c] = "flush-answered" /\ DROP(c, burned)
      <3>1. EndsAs(c, "dropped")
        BY <2>3, BurnedSubset DEF EndsAs
      <3>2. "dropped" \in Terminal /\ Because(c, "dropped")
        BY <2>3 DEF Terminal, Because
      <3> QED  BY <1>1, <1>3, <2>0, <2>1, <3>1, <3>2, EndMoves DEF Moves
    <2>4. CASE \E x \in {"gone", "denied", "timed-out", "refused"} :
                 answerLocally(c, x, burned) /\ (x = "gone" => pc[c] = "flush-gone")
      <3>1. PICK x \in {"gone", "denied", "timed-out", "refused"} :
              answerLocally(c, x, burned) /\ (x = "gone" => pc[c] = "flush-gone")
        BY <2>4
      <3>2. EndsAs(c, x)
        BY <3>1, BurnedSubset DEF EndsAs
      <3>3. x \in Terminal /\ Because(c, x)
        BY <3>1 DEF Terminal, Because
      <3> QED  BY <1>1, <1>3, <2>0, <2>1, <3>2, <3>3, EndMoves DEF Moves
    <2> QED  BY <1>3, <2>2, <2>3, <2>4
  <1> QED  BY <1>2, <1>3 DEF settleJournal

LEMMA JournalFailsMoves ==
  ASSUME GateTypeOK, NEW c \in Requests, settleJournalFails(c)
  PROVE  Moves(c)
  <1>1. pc[c] \in Flushing /\ pc[c] \in InFlight /\ UNCHANGED <<left, session>> /\ admitted \in Int
    BY DEF settleJournalFails, InFlight, GateTypeOK, FlowTypeOK
  <1>2. CASE pc[c] = "flush-error" /\ DROP(c, burned) /\ UNCHANGED <<admitted, faulted>>
    <2>1. EndsAs(c, "dropped") /\ weight(pc[c]) = 0
      BY <1>2, BurnedSubset DEF EndsAs, weight, Counted, Waiting, Flushing
    <2>2. "dropped" \in Terminal /\ Because(c, "dropped") /\ admitted' = admitted - weight(pc[c])
      BY <1>1, <1>2, <2>1 DEF Terminal, Because
    <2> QED  BY <1>1, <1>2, <2>1, <2>2, EndMoves DEF Moves
  <1>3. CASE /\ pc[c] # "flush-error" /\ denyOnGateError(c)
             /\ IF pc[c] = "flush-limit" THEN UNCHANGED admitted ELSE release
    <2>1. admitted' = admitted - weight(pc[c])
      BY <1>1, <1>3 DEF release, weight, Counted, Waiting, Flushing
    <2>2. faulted \subseteq faulted'
      BY <1>3 DEF denyOnGateError
    <2> QED  BY <1>1, <1>3, <2>1, <2>2, DenyMoves DEF Moves
  <1> QED  BY <1>2, <1>3 DEF settleJournalFails

LEMMA LeaveMoves ==
  ASSUME GateTypeOK, NEW c \in Requests, LeaveStep(c)
  PROVE  Still \/ Moves(c)
  <1>1. \/ leave(c, c \in Pending) /\ faulted \subseteq faulted'
        \/ leave(c, TRUE) /\ faulted \subseteq faulted'
    BY DEF LeaveStep, LeaveWithdraw, LeaveWithdrawFails
  <1>2. UNCHANGED session /\ faulted \subseteq faulted'
    BY <1>1 DEF leave
  <1>3. CASE pc[c] = "held" /\ finishApproval(c, "withdrawn")
    BY <1>1, <1>2, <1>3, FinishMoves DEF Moves
  <1>4. CASE UNCHANGED <<pc, left, admitted, cancels, guard>>
    BY <1>2, <1>4 DEF Still, session
  <1> QED  BY <1>1, <1>3, <1>4 DEF leave

LEMMA CallMovesOrStill ==
  ASSUME GateTypeOK, NEW c \in Requests, CallStep(c) \/ LeaveStep(c)
  PROVE  Still \/ Moves(c)
  BY EnqueueMoves, EnqueueFailsMoves, PollReadMoves, PollApplyMoves, TimedOutMarkMoves, TimedOutMoves,
     JournalMoves, JournalFailsMoves, LeaveMoves DEF CallStep

LEMMA OthersStill ==
  ASSUME Others \/ Clock \/ CrashGate \/ HeartbeatHeld \/ UNCHANGED vars
  PROVE  Still
  BY DEF Others, Clock, CrashGate, HeartbeatHeld, vars, gateVars, flow, session, Still

-----------------------------------------------------------------------------
(* What a call's end does to the guard and to the cancels. *)

(* An id that is remembered was before, or is the one that is added. *)
LEMMA ConcatHolds ==
  ASSUME NEW p \in Seq(Ids), NEW q \in Seq(Ids), NEW i, holds(p \o q, i)
  PROVE  holds(p, i) \/ holds(q, i)
  <1>1. /\ Len(p) \in Nat /\ Len(q) \in Nat /\ Len(p \o q) = Len(p) + Len(q)
        /\ \A j \in 1..(Len(p) + Len(q)) :
             (p \o q)[j] = IF j <= Len(p) THEN p[j] ELSE q[j - Len(p)]
    BY ConcatProperties
  <1>2. PICK j \in 1..(Len(p) + Len(q)) : (p \o q)[j] = i
    BY <1>1 DEF holds
  <1>3. CASE j <= Len(p)
    BY <1>1, <1>2, <1>3 DEF holds
  <1>4. CASE j > Len(p)
    <2>1. q[j - Len(p)] = i /\ j - Len(p) \in 1..Len(q)
      BY <1>1, <1>2, <1>4
    <2> QED  BY <2>1 DEF holds
  <1> QED  BY <1>1, <1>2, <1>3, <1>4

LEMMA SubSeqHolds ==
  ASSUME NEW ids \in Seq(Ids), NEW m \in 1..(Len(ids) + 1), NEW n \in 0..Len(ids), NEW i,
         holds(SubSeq(ids, m, n), i)
  PROVE  SubSeq(ids, m, n) \in Seq(Ids) /\ \E j \in m..n : ids[j] = i
  <1>1. \A j \in m..n : ids[j] \in Ids
    OBVIOUS
  <1>2. /\ SubSeq(ids, m, n) \in Seq(Ids)
        /\ Len(SubSeq(ids, m, n)) = IF m <= n THEN n - m + 1 ELSE 0
        /\ \A j \in 1..(n - m + 1) : SubSeq(ids, m, n)[j] = ids[m + j - 1]
    BY <1>1, SubSeqProperties
  <1>3. PICK j \in 1..(n - m + 1) : SubSeq(ids, m, n)[j] = i
    <2>1. PICK j \in 1..Len(SubSeq(ids, m, n)) : SubSeq(ids, m, n)[j] = i
      BY DEF holds
    <2>2. j \in 1..(n - m + 1)
      BY <1>2, <2>1
    <2> QED  BY <2>1, <2>2
  <1>4. m + j - 1 \in m..n /\ ids[m + j - 1] = i
    BY <1>2, <1>3
  <1> QED  BY <1>2, <1>4

LEMMA WithoutHolds ==
  ASSUME NEW ids \in Seq(Ids), NEW id, NEW i, holds(without(ids, id), i)
  PROVE  holds(ids, i)
  <1>1. CASE holds(ids, id)
    <2> DEFINE k == CHOOSE k \in 1..Len(ids) : ids[k] = id
               p == SubSeq(ids, 1, k - 1)
               q == SubSeq(ids, k + 1, Len(ids))
    <2>1. k \in 1..Len(ids) /\ Len(ids) \in Nat
      BY <1>1 DEF holds
    <2>2. without(ids, id) = p \o q
      BY <1>1 DEF without
    <2> HIDE DEF k
    <2>3. p \in Seq(Ids) /\ q \in Seq(Ids)
      <3>1. /\ \A j \in 1..(k - 1) : ids[j] \in Ids
            /\ \A j \in (k + 1)..Len(ids) : ids[j] \in Ids
        BY <2>1
      <3>2. p \in Seq(Ids)
        BY <2>1, <3>1, SubSeqProperties
      <3>3. q \in Seq(Ids)
        BY <2>1, <3>1, SubSeqProperties
      <3> QED  BY <3>2, <3>3
    <2>4. holds(p, i) => \E j \in 1..(k - 1) : ids[j] = i
      BY <2>1, SubSeqHolds
    <2>5. holds(q, i) => \E j \in (k + 1)..Len(ids) : ids[j] = i
      BY <2>1, SubSeqHolds
    <2> HIDE DEF p, q
    <2>6. holds(p, i) \/ holds(q, i)
      BY <2>2, <2>3, ConcatHolds
    <2> QED  BY <2>1, <2>4, <2>5, <2>6 DEF holds
  <1>2. CASE ~ holds(ids, id)
    BY <1>2 DEF without
  <1> QED  BY <1>1, <1>2

LEMMA EvictHolds ==
  ASSUME NEW ids \in Seq(Ids), NEW i, holds(evictOldest(ids), i)
  PROVE  holds(ids, i)
  <1>1. CASE Len(ids) >= GuardCap
    <2>1. /\ ids # << >> /\ Len(ids) \in Nat /\ Len(Tail(ids)) = Len(ids) - 1
          /\ \A j \in 1..(Len(ids) - 1) : Tail(ids)[j] = ids[j + 1]
      BY <1>1
    <2> QED  BY <1>1, <2>1 DEF evictOldest, holds
  <1>2. CASE ~ Len(ids) >= GuardCap
    BY <1>2 DEF evictOldest
  <1> QED  BY <1>1, <1>2

LEMMA AppendHolds ==
  ASSUME NEW ids \in Seq(Ids), NEW id \in Ids, NEW i
  PROVE  holds(Append(ids, id), i) <=> holds(ids, i) \/ i = id
  <1>1. /\ Len(ids) \in Nat /\ Len(Append(ids, id)) = Len(ids) + 1
        /\ Append(ids, id)[Len(ids) + 1] = id
        /\ \A j \in 1..Len(ids) : Append(ids, id)[j] = ids[j]
    OBVIOUS
  <1> QED  BY <1>1 DEF holds

LEMMA MarkHolds ==
  ASSUME GuardTypeOK, NEW id \in Ids, NEW by, NEW burns \in SUBSET burned, markAnswered(id, by, burns)
  PROVE  /\ \A i : holds(lru', i) => holds(lru, i) \/ i = id
         /\ burned' \subseteq burned \cup {id}
  <1>1. without(lru, id) \in Seq(Ids) /\ evictOldest(without(lru, id)) \in Seq(Ids)
    BY WithoutType, EvictType DEF GuardTypeOK
  <1>2. ASSUME NEW i, holds(lru', i) PROVE holds(lru, i) \/ i = id
    BY <1>1, <1>2, AppendHolds, EvictHolds, WithoutHolds DEF markAnswered, GuardTypeOK
  <1> QED  BY <1>2 DEF markAnswered

(* A verdict: the cancels behind the call follow it. *)
Settles(c, x) ==
  /\ x \in Terminal /\ pc' = [pc EXCEPT ![c] = x]
  /\ \A id \in Ids :
       verdictOf'[id] = IF id = IdOf[c] /\ verdictOf[id] = c THEN NoCall ELSE verdictOf[id]
  /\ cancelled' \subseteq cancelled
  /\ \A id \in Ids :
       cancelMsg'[id] = IF cancelMsg[id] = "queued" /\ behind[id] = c
                        THEN (IF x = "forwarded" THEN "forwarded" ELSE "dropped")
                        ELSE cancelMsg[id]
  /\ UNCHANGED <<behind, denied>>
  /\ \A id \in Ids : Answered(id)' => Answered(id) \/ id = IdOf[c]

LEMMA EndSettles ==
  ASSUME GateTypeOK, NEW c \in Requests, NEW x, EndsAs(c, x)
  PROVE  Settles(c, x)
  <1>0. CancelTypeOK /\ GuardTypeOK /\ IdOf[c] \in Ids
    BY IdOfType DEF GateTypeOK
  <1>1. PICK burns \in SUBSET burned :
    \/ x = applyVerdict("forward") /\ FORWARD(c, burns)
    \/ x = "dropped" /\ DROP(c, burns)
    \/ x \in {"gone", "denied", "timed-out", "refused"} /\ answerLocally(c, x, burns)
    BY DEF EndsAs
  <1>2. PICK action \in {"forward", "drop"} :
          settleVerdict(c, x, action) /\ applyVerdict(action) = (IF x = "forwarded" THEN "forwarded" ELSE "dropped")
    BY <1>1 DEF FORWARD, DROP, answerLocally, applyVerdict
  <1>3. x \in Terminal
    BY <1>1 DEF Terminal, applyVerdict
  <1>4. /\ pc' = [pc EXCEPT ![c] = x] /\ UNCHANGED behind
        /\ cancelled' \subseteq cancelled
    BY <1>2 DEF settleVerdict
  <1>5. \A id \in Ids :
          verdictOf'[id] = IF id = IdOf[c] /\ verdictOf[id] = c THEN NoCall ELSE verdictOf[id]
    BY <1>0, <1>2 DEF settleVerdict, CancelTypeOK
  <1>6. \A id \in Ids :
          cancelMsg'[id] = IF cancelMsg[id] = "queued" /\ behind[id] = c
                           THEN (IF x = "forwarded" THEN "forwarded" ELSE "dropped")
                           ELSE cancelMsg[id]
    BY <1>2 DEF settleVerdict
  <1>7. UNCHANGED denied /\ \A id \in Ids : Answered(id)' => Answered(id) \/ id = IdOf[c]
    <2>1. CASE burned' = burns /\ UNCHANGED <<lru, denied>>
      BY <2>1 DEF Answered
    <2>2. CASE markAnswered(IdOf[c], c, burns) /\ UNCHANGED denied
      BY <1>0, <2>2, MarkHolds DEF Answered
    <2> QED  BY <1>1, <2>1, <2>2 DEF FORWARD, DROP, answerLocally
  <1> QED  BY <1>3, <1>4, <1>5, <1>6, <1>7 DEF Settles

LEMMA MovedCall ==
  ASSUME GateTypeOK, NEW c \in Requests, NEW x, MovesTo(c, x)
  PROVE  /\ pc[c] \in InFlight /\ x \in InFlight \cup Terminal
         /\ pc' = [pc EXCEPT ![c] = x]
         /\ \A d \in Requests : pc'[d] = IF d = c THEN x ELSE pc[d]
         /\ UNCHANGED <<behind, denied>>
  <1>1. pc \in [Requests -> {"idle"} \cup InFlight \cup Terminal]
    BY DEF GateTypeOK, FlowTypeOK
  <1>2. CASE GoesOn(c, x)
    BY <1>1, <1>2 DEF MovesTo, GoesOn, cancels
  <1>3. CASE EndsAs(c, x)
    BY <1>1, <1>3, EndSettles DEF MovesTo, Settles
  <1> QED  BY <1>2, <1>3 DEF MovesTo

-----------------------------------------------------------------------------
(* A call that moves keeps the bookkeeping. *)

LEMMA Disjoint == InFlight \cap (Terminal \cup {"idle"}) = {}
  BY DEF InFlight, Terminal, Waiting, Flushing

LEMMA MoveKeepsCap ==
  ASSUME GateTypeOK, CapInv, NEW c \in Requests, NEW x, MovesTo(c, x)
  PROVE  CapInv'
  <1>1. \A d \in Requests : pc'[d] = IF d = c THEN x ELSE pc[d]
    BY MovedCall
  <1>2. weight(x) <= weight(pc[c]) /\ admitted' = admitted + weight(x) - weight(pc[c])
    BY DEF MovesTo
  <1>3. Cardinality(Admitted) \in Nat
    BY FS_CardinalityType DEF CapInv
  <1>4. CASE weight(x) = weight(pc[c])
    <2>1. x \in Counted <=> pc[c] \in Counted
      BY <1>4 DEF weight
    <2>2. Admitted' = Admitted
      BY <1>1, <2>1 DEF Admitted
    <2>3. admitted' = admitted
      BY <1>2, <1>3, <1>4, WeightType DEF CapInv
    <2> QED  BY <2>2, <2>3 DEF CapInv
  <1>5. CASE weight(x) # weight(pc[c])
    <2>1. x \notin Counted /\ pc[c] \in Counted
      BY <1>2, <1>5 DEF weight
    <2>2. Admitted' = Admitted \ {c} /\ c \in Admitted
      BY <1>1, <2>1 DEF Admitted
    <2>3. IsFiniteSet(Admitted') /\ Cardinality(Admitted') = Cardinality(Admitted) - 1
      BY <2>2, FS_RemoveElement DEF CapInv
    <2>4. admitted' = admitted - 1
      BY <1>2, <1>3, <2>1 DEF CapInv, weight
    <2> QED  BY <1>3, <2>3, <2>4 DEF CapInv
  <1> QED  BY <1>4, <1>5

LEMMA MoveKeepsCancels ==
  ASSUME GateTypeOK, CancelInv, NEW c \in Requests, NEW x, MovesTo(c, x)
  PROVE  CancelInv'
  <1>0. GateTypeOK /\ CancelTypeOK /\ IdOf[c] \in Ids /\ pc[c] \in InFlight /\ NoCall \notin Requests
    BY MovedCall, IdOfType DEF GateTypeOK
  <1>1. \A d \in Requests : pc'[d] = IF d = c THEN x ELSE pc[d]
    BY MovedCall
  <1>2. CASE GoesOn(c, x)
    BY <1>0, <1>1, <1>2, Disjoint DEF CancelInv, CancelFollowsCall, GoesOn, cancels, CancelTypeOK, Terminal
  <1>3. CASE Settles(c, x)
    <2>1. ASSUME NEW id \in Ids, verdictOf'[id] # NoCall
          PROVE  IdOf[verdictOf'[id]] = id /\ pc'[verdictOf'[id]] \in InFlight
      <3>1. verdictOf'[id] = verdictOf[id] /\ ~ (id = IdOf[c] /\ verdictOf[id] = c)
        BY <1>3, <2>1 DEF Settles
      <3>2. verdictOf[id] \in Requests /\ verdictOf[id] # c
        BY <1>0, <2>1, <3>1 DEF CancelInv, CancelTypeOK
      <3> QED  BY <1>0, <1>1, <2>1, <3>1, <3>2 DEF CancelInv
    <2>2. ASSUME NEW id \in Ids
          PROVE  /\ cancelMsg'[id] \in {"unsent", "abandoned"} => behind'[id] = NoCall
                 /\ cancelMsg'[id] = "queued" => behind'[id] # NoCall /\ pc'[behind'[id]] \in InFlight
                 /\ cancelMsg'[id] = "forwarded" /\ behind'[id] # NoCall => pc'[behind'[id]] = "forwarded"
      <3>1. behind' = behind /\ behind[id] \in Requests \cup {NoCall}
        BY <1>0, <1>3 DEF Settles, CancelTypeOK
      <3>2. CASE cancelMsg[id] = "queued" /\ behind[id] = c
        BY <1>0, <1>1, <1>3, <3>1, <3>2 DEF Settles
      <3>3. CASE ~ (cancelMsg[id] = "queued" /\ behind[id] = c)
        <4>1. cancelMsg'[id] = cancelMsg[id]
          BY <1>3, <3>3 DEF Settles
        <4> QED  BY <1>0, <1>1, <3>1, <3>3, <4>1, Disjoint DEF CancelInv, CancelFollowsCall, Terminal
      <3> QED  BY <3>2, <3>3
    <2> QED  BY <2>1, <2>2 DEF CancelInv, CancelFollowsCall
  <1> QED  BY <1>2, <1>3, EndSettles DEF MovesTo

LEMMA MoveKeepsCauses ==
  ASSUME GateTypeOK, CauseInv, NEW c \in Requests, NEW x, MovesTo(c, x),
         faulted \subseteq faulted', UNCHANGED session
  PROVE  CauseInv'
  <1>0. /\ CancelTypeOK /\ FlowTypeOK /\ IdOf[c] \in Ids /\ pc[c] \in InFlight
        /\ UNCHANGED <<denied, closed, stage>>
    BY MovedCall, IdOfType DEF GateTypeOK, session
  <1>1. \A d \in Requests : pc'[d] = IF d = c THEN x ELSE pc[d]
    BY MovedCall
  <1>2. \A d \in Requests : IsReused(d)' <=> IsReused(d)
    BY <1>0 DEF IsReused
  <1>3. \A id \in Ids : cancelMsg[id] # "unsent" => cancelMsg'[id] # "unsent"
    <2>1. CASE GoesOn(c, x)
      BY <2>1 DEF GoesOn, cancels
    <2>2. CASE Settles(c, x)
      BY <2>2 DEF Settles
    <2> QED  BY <2>1, <2>2, EndSettles DEF MovesTo
  <1>4. cancelled' \subseteq cancelled
    BY EndSettles DEF MovesTo, GoesOn, Settles, cancels
  <1>5. \A id \in cancelled' : cancelMsg'[id] # "unsent"
    BY <1>0, <1>3, <1>4 DEF CauseInv, CancelTypeOK
  <1>6. \A d \in Requests : left'[d] = left[d] \/ (d = c /\ x = "held" /\ left'[d] = Early(c))
    BY <1>0 DEF MovesTo, FlowTypeOK
  <1>7. ASSUME NEW d \in Requests
        PROVE  /\ left'[d] = "cancelled" => cancelMsg'[IdOf[d]] # "unsent"
               /\ left'[d] = "disconnected" => closed'
    <2>1. CASE left'[d] = left[d]
      BY <1>0, <1>3, <2>1, IdOfType DEF CauseInv
    <2>2. CASE d = c /\ left'[d] = Early(c)
      BY <1>0, <1>3, <2>2 DEF CauseInv, Early
    <2> QED  BY <1>6, <2>1, <2>2
  <1>8. ASSUME NEW id \in Ids, Answered(id)'
        PROVE  denied' > 0 \/ \E d \in Requests : IdOf[d] = id /\ pc'[d] \in Terminal
    <2>1. Answered(id) \/ (id = IdOf[c] /\ x \in Terminal)
      <3>1. CASE GoesOn(c, x)
        BY <1>8, <3>1 DEF GoesOn, Answered
      <3>2. CASE Settles(c, x)
        BY <1>8, <3>2 DEF Settles
      <3> QED  BY <3>1, <3>2, EndSettles DEF MovesTo
    <2>2. CASE id = IdOf[c] /\ x \in Terminal
      BY <1>1, <2>2
    <2>3. CASE Answered(id)
      BY <1>0, <1>1, <2>3, Disjoint DEF CauseInv
    <2> QED  BY <2>1, <2>2, <2>3
  <1>9. Answered(IdOf[c]) => IsReused(c)
    BY <1>0, Disjoint DEF CauseInv, IsReused
  <1>10. ASSUME NEW d \in Requests
         PROVE  /\ pc'[d] \in {"flush-gone", "gone"} => left'[d] # "none"
                /\ pc'[d] = "flush-answered" => IsReused(d)
                /\ pc'[d] = "flush-error" => d \in faulted'
    <2>1. CASE d # c
      BY <1>1, <1>6, <2>1 DEF CauseInv
    <2>2. CASE d = c
      BY <1>1, <1>6, <1>9, <2>2 DEF CauseInv, MovesTo, Because
    <2> QED  BY <2>1, <2>2
  <1>11. ASSUME NEW d \in Requests
         PROVE  /\ pc'[d] = "gone" => closed' \/ cancelMsg'[IdOf[d]] # "unsent" \/ IsReused(d)
                /\ pc'[d] = "dropped" => stage' # "open" \/ d \in faulted' \/ IsReused(d)
    <2>1. CASE d # c
      BY <1>0, <1>1, <1>3, <2>1, IdOfType DEF CauseInv, SilenceHasCause
    <2>2. CASE d = c /\ x = "gone"
      <3>1. left[c] \in {"cancelled", "disconnected"}
        BY <1>0, <2>2 DEF MovesTo, Because, CauseInv, FlowTypeOK
      <3> QED  BY <1>0, <1>1, <1>3, <2>2, <3>1 DEF CauseInv
    <2>3. CASE d = c /\ x = "dropped"
      BY <1>0, <1>1, <1>9, <2>3 DEF MovesTo, Because, CauseInv
    <2>4. CASE d = c /\ x \notin {"gone", "dropped"}
      BY <1>1, <2>4
    <2> QED  BY <2>1, <2>2, <2>3, <2>4
  <1> QED  BY <1>2, <1>5, <1>7, <1>8, <1>10, <1>11 DEF CauseInv, SilenceHasCause

-----------------------------------------------------------------------------
(* The other steps keep it. *)

LEMMA StillKeepsSide ==
  ASSUME SideInv, Still
  PROVE  SideInv'
  <1>1. CapInv'
    BY DEF SideInv, CapInv, Still, Admitted
  <1>2. CancelInv'
    BY DEF SideInv, CancelInv, CancelFollowsCall, Still, cancels
  <1>3. CauseInv'
    BY DEF SideInv, CauseInv, SilenceHasCause, IsReused, Answered, Still, cancels, guard
  <1>4. LeftInv'
    BY DEF SideInv, LeftInv, Still
  <1> QED  BY <1>1, <1>2, <1>3, <1>4 DEF SideInv

LEMMA MoveKeepsSide ==
  ASSUME GateTypeOK, SideInv, NEW c \in Requests, Moves(c)
  PROVE  SideInv'
  <1>1. PICK x : MovesTo(c, x)
    BY DEF Moves
  <1>2. UNCHANGED session /\ faulted \subseteq faulted'
    BY DEF Moves
  <1>3. LeftInv'
    BY <1>2 DEF SideInv, LeftInv, session
  <1> QED  BY <1>1, <1>2, <1>3, MoveKeepsCap, MoveKeepsCancels, MoveKeepsCauses DEF SideInv

(* A new call takes the place its id tracks; it is counted if it may wait. *)
LEMMA RequestKeepsSide ==
  ASSUME GateTypeOK, SideInv, NEW c \in Requests, requestApproval(c)
  PROVE  SideInv'
  <1>0. /\ FlowTypeOK /\ CancelTypeOK /\ GuardTypeOK /\ IdOf[c] \in Ids /\ NoCall \notin Requests
        /\ pc[c] = "idle"
        /\ UNCHANGED <<left, closed, stage, faulted>>
    BY IdOfType DEF GateTypeOK, requestApproval, session
  <1>1. CASE /\ pc' = [pc EXCEPT ![c] = "flush-limit"] /\ recordVerdict(c)
             /\ UNCHANGED <<cancelled, cancelMsg, behind, guard, admitted>>
    <2>1. \A d \in Requests : pc'[d] = IF d = c THEN "flush-limit" ELSE pc[d]
      BY <1>0, <1>1 DEF FlowTypeOK
    <2>2. \A id \in Ids : verdictOf'[id] = IF id = IdOf[c] THEN c ELSE verdictOf[id]
      BY <1>0, <1>1 DEF recordVerdict, CancelTypeOK
    <2>3. CapInv'
      <3>1. Admitted' = Admitted
        BY <1>0, <2>1 DEF Admitted, Counted, Waiting, Flushing
      <3> QED  BY <1>1, <3>1 DEF SideInv, CapInv
    <2>4. CancelInv'
      <3>1. "flush-limit" \in InFlight
        BY DEF InFlight, Flushing
      <3> QED  BY <1>0, <1>1, <2>1, <2>2, <3>1, Disjoint DEF SideInv, CancelInv, CancelFollowsCall, CancelTypeOK
    <2>5. CauseInv'
      <3>1. UNCHANGED <<cancelled, cancelMsg, lru, burned, denied>>
        BY <1>1 DEF guard
      <3>2. \A id \in Ids : Answered(id)' <=> Answered(id)
        BY <3>1 DEF Answered
      <3>3. "idle" \notin Terminal
        BY DEF Terminal
      <3> QED  BY <1>0, <2>1, <3>1, <3>2, <3>3 DEF SideInv, CauseInv, SilenceHasCause, IsReused
    <2> QED  BY <1>0, <2>3, <2>4, <2>5 DEF SideInv, LeftInv
  <1>2. CASE /\ pc' = [pc EXCEPT ![c] = "refused"] /\ markAnswered(IdOf[c], c, burned)
             /\ verdictOf' = [verdictOf EXCEPT ![IdOf[c]] = NoCall] /\ cancelled' = cancelled \ {IdOf[c]}
             /\ UNCHANGED <<cancelMsg, behind, denied, admitted>>
    <2>1. \A d \in Requests : pc'[d] = IF d = c THEN "refused" ELSE pc[d]
      BY <1>0, <1>2 DEF FlowTypeOK
    <2>2. \A id \in Ids : verdictOf'[id] = IF id = IdOf[c] THEN NoCall ELSE verdictOf[id]
      BY <1>0, <1>2 DEF CancelTypeOK
    <2>3. CapInv'
      <3>1. Admitted' = Admitted
        BY <1>0, <2>1 DEF Admitted, Counted, Waiting, Flushing
      <3> QED  BY <1>2, <3>1 DEF SideInv, CapInv
    <2>4. CancelInv'
      BY <1>0, <1>2, <2>1, <2>2, Disjoint DEF SideInv, CancelInv, CancelFollowsCall, CancelTypeOK
    <2>5. CauseInv'
      <3>1. \A id \in Ids : Answered(id)' => Answered(id) \/ id = IdOf[c]
        BY <1>0, <1>2, MarkHolds, BurnedSubset DEF Answered
      <3>2. "refused" \in Terminal /\ "idle" \notin Terminal
        BY DEF Terminal
      <3>3. ASSUME NEW id \in Ids, Answered(id)'
            PROVE  denied' > 0 \/ \E d \in Requests : IdOf[d] = id /\ pc'[d] \in Terminal
        BY <1>0, <1>2, <2>1, <3>1, <3>2, <3>3 DEF SideInv, CauseInv
      <3> QED  BY <1>0, <1>2, <2>1, <3>3 DEF SideInv, CauseInv, SilenceHasCause, IsReused
    <2> QED  BY <1>0, <2>3, <2>4, <2>5 DEF SideInv, LeftInv
  <1>3. CASE /\ ~ atCap /\ pc' = [pc EXCEPT ![c] = "enqueue"] /\ admitted' = admitted + 1
             /\ recordVerdict(c) /\ UNCHANGED <<cancelled, cancelMsg, behind, guard>>
    <2>1. \A d \in Requests : pc'[d] = IF d = c THEN "enqueue" ELSE pc[d]
      BY <1>0, <1>3 DEF FlowTypeOK
    <2>2. \A id \in Ids : verdictOf'[id] = IF id = IdOf[c] THEN c ELSE verdictOf[id]
      BY <1>0, <1>3 DEF recordVerdict, CancelTypeOK
    <2>3. CapInv'
      <3>1. Admitted' = Admitted \cup {c} /\ c \notin Admitted
        BY <1>0, <2>1 DEF Admitted, Counted, Waiting, Flushing
      <3>2. IsFiniteSet(Admitted') /\ Cardinality(Admitted') = Cardinality(Admitted) + 1
        BY <3>1, FS_AddElement DEF SideInv, CapInv
      <3>3. Cardinality(Admitted) \in Nat /\ ~ admitted >= MaxHeld
        BY <1>3, FS_CardinalityType DEF SideInv, CapInv, atCap
      <3> QED  BY <1>3, <3>2, <3>3 DEF SideInv, CapInv
    <2>4. CancelInv'
      <3>1. "enqueue" \in InFlight
        BY DEF InFlight, Waiting
      <3> QED  BY <1>0, <1>3, <2>1, <2>2, <3>1, Disjoint DEF SideInv, CancelInv, CancelFollowsCall, CancelTypeOK
    <2>5. CauseInv'
      <3>1. UNCHANGED <<cancelled, cancelMsg, lru, burned, denied>>
        BY <1>3 DEF guard
      <3>2. \A id \in Ids : Answered(id)' <=> Answered(id)
        BY <3>1 DEF Answered
      <3>3. "idle" \notin Terminal
        BY DEF Terminal
      <3> QED  BY <1>0, <2>1, <3>1, <3>2, <3>3 DEF SideInv, CauseInv, SilenceHasCause, IsReused
    <2> QED  BY <1>0, <2>3, <2>4, <2>5 DEF SideInv, LeftInv
  <1> QED  BY <1>1, <1>2, <1>3 DEF requestApproval

LEMMA DenyKeepsSide ==
  ASSUME GateTypeOK, SideInv, NEW id \in Ids, applyDeny(id)
  PROVE  SideInv'
  <1>0. /\ CancelTypeOK /\ GuardTypeOK
        /\ UNCHANGED <<pc, left, admitted, closed, stage, cancelMsg, behind, faulted>>
    BY DEF GateTypeOK, applyDeny, flow, session
  <1>1. /\ denied' > 0 /\ cancelled' \subseteq cancelled
        /\ \A i \in Ids : verdictOf'[i] = IF i = id THEN NoCall ELSE verdictOf[i]
    BY <1>0 DEF applyDeny, CancelTypeOK, GuardTypeOK
  <1>2. CapInv'
    BY <1>0 DEF SideInv, CapInv, Admitted
  <1>3. CancelInv'
    BY <1>0, <1>1 DEF SideInv, CancelInv, CancelFollowsCall
  <1>4. CauseInv'
    BY <1>0, <1>1 DEF SideInv, CauseInv, SilenceHasCause, IsReused
  <1> QED  BY <1>0, <1>2, <1>3, <1>4 DEF SideInv, LeftInv

(* The agent's leaving, as the calls learn of it. *)
LEMMA ToldKeepsSide ==
  ASSUME GateTypeOK, SideInv,
         UNCHANGED <<pc, admitted, verdictOf, guard, faulted>>,
         closed => closed', stage # "open" => stage' # "open", LeftInv',
         \A i \in Ids : cancelMsg[i] # "unsent" => cancelMsg'[i] # "unsent",
         \A i \in cancelled' : cancelMsg'[i] # "unsent",
         CancelInv',
         \A d \in Requests :
           \/ left'[d] = left[d]
           \/ left'[d] = "cancelled" /\ cancelMsg'[IdOf[d]] # "unsent"
           \/ left'[d] = "disconnected" /\ closed'
  PROVE  SideInv'
  <1>1. CapInv'
    BY DEF SideInv, CapInv, Admitted
  <1>2. UNCHANGED <<burned, lru, denied>>
    BY DEF guard
  <1>3. CauseInv'
    BY <1>2, IdOfType DEF SideInv, CauseInv, SilenceHasCause, IsReused, Answered
  <1> QED  BY <1>1, <1>3 DEF SideInv

LEMMA CancelKeepsSide ==
  ASSUME GateTypeOK, SideInv, NEW id \in Ids, gateCancel(id) \/ abandon(id)
  PROVE  SideInv'
  <1>0. /\ CancelTypeOK /\ FlowTypeOK /\ cancelMsg[id] = "unsent" /\ NoCall \notin Requests
        /\ UNCHANGED <<pc, admitted, closed, stage, verdictOf, guard, faulted>>
    BY DEF GateTypeOK, gateCancel, abandon, session
  <1>1. PICK how \in {"queued", "forwarded", "abandoned"} :
          /\ cancelMsg' = [cancelMsg EXCEPT ![id] = how]
          /\ how = "queued" => verdictOf[id] # NoCall /\ behind' = [behind EXCEPT ![id] = verdictOf[id]]
          /\ how # "queued" => UNCHANGED behind
    BY DEF gateCancel, abandon
  <1>2. cancelled' \subseteq cancelled \cup {id}
    BY DEF gateCancel, abandon
  <1>3. \A i \in Ids : cancelMsg'[i] = IF i = id THEN how ELSE cancelMsg[i]
    BY <1>0, <1>1 DEF CancelTypeOK
  <1>4. \A i \in Ids : cancelMsg[i] # "unsent" => cancelMsg'[i] # "unsent"
    BY <1>3
  <1>5. \A i \in cancelled' : cancelMsg'[i] # "unsent"
    BY <1>0, <1>2, <1>3 DEF SideInv, CauseInv, CancelTypeOK
  <1>6. CancelInv'
    <2>1. \A i \in Ids \ {id} : cancelMsg'[i] = cancelMsg[i] /\ behind'[i] = behind[i]
      BY <1>0, <1>1, <1>3 DEF CancelTypeOK
    <2>2. CASE how = "queued"
      <3>1. behind'[id] = verdictOf[id] /\ pc[verdictOf[id]] \in InFlight /\ verdictOf[id] # NoCall
        BY <1>0, <1>1, <2>2 DEF CancelTypeOK, SideInv, CancelInv
      <3> QED  BY <1>0, <1>3, <2>1, <2>2, <3>1 DEF SideInv, CancelInv, CancelFollowsCall
    <2>3. CASE how # "queued"
      <3>1. behind'[id] = NoCall
        BY <1>0, <1>1, <2>3 DEF SideInv, CancelInv
      <3> QED  BY <1>0, <1>3, <2>1, <2>3, <3>1 DEF SideInv, CancelInv, CancelFollowsCall
    <2> QED  BY <2>2, <2>3
  <1>7. ASSUME NEW d \in Requests
        PROVE  left'[d] = left[d] \/ (left'[d] = "cancelled" /\ cancelMsg'[IdOf[d]] # "unsent")
    BY <1>3 DEF gateCancel, abandon, startLeave, Held
  <1>8. LeftInv'
    BY <1>0 DEF SideInv, LeftInv
  <1> QED  BY <1>0, <1>4, <1>5, <1>6, <1>7, <1>8, ToldKeepsSide

LEMMA SessionKeepsSide ==
  ASSUME GateTypeOK, SideInv, AgentLeft \/ endSession \/ cancelPending
  PROVE  SideInv'
  <1>1. UNCHANGED <<pc, admitted, cancels, guard, faulted>> /\ stage \in {"open", "ending"}
    BY DEF AgentLeft, endSession, cancelPending
  <1>2. /\ closed => closed'
        /\ \A d \in Requests : left'[d] = left[d] \/ (left'[d] = "disconnected" /\ closed')
    BY DEF AgentLeft, endSession, cancelPending, withdrawAll, startLeave, GateTypeOK, FlowTypeOK
  <1>3. (stage # "open" => stage' # "open") /\ LeftInv'
    BY DEF AgentLeft, endSession, cancelPending, LeftInv
  <1>4. CancelInv' /\ \A i \in cancelled' : cancelMsg'[i] # "unsent"
    BY <1>1 DEF SideInv, CauseInv, CancelInv, CancelFollowsCall, cancels
  <1> QED  BY <1>1, <1>2, <1>3, <1>4, ToldKeepsSide DEF cancels

(* The waits that still run when the withdrawals are over time out. *)
LEMMA CancelAllKeepsSide ==
  ASSUME GateTypeOK, SideInv, cancelAll
  PROVE  SideInv'
  <1>0. /\ UNCHANGED <<left, admitted, closed, cancels, lru, denied, faulted>>
        /\ stage' = "over" /\ burned' \subseteq burned
        /\ \A d \in Requests : pc'[d] = IF pc[d] = "held" THEN "expire" ELSE pc[d]
    BY EndWaitShrinks DEF cancelAll, Held
  <1>1. {"held", "expire"} \subseteq Counted /\ {"held", "expire"} \subseteq InFlight
    BY DEF Counted, Waiting, InFlight
  <1>2. CapInv'
    <2>1. Admitted' = Admitted
      BY <1>0, <1>1 DEF Admitted
    <2> QED  BY <1>0, <2>1 DEF SideInv, CapInv
  <1>3. CancelInv'
    BY <1>0, <1>1 DEF SideInv, CancelInv, CancelFollowsCall, cancels, GateTypeOK, CancelTypeOK
  <1>4. CauseInv'
    <2>1. \A id \in Ids : Answered(id)' => Answered(id)
      BY <1>0 DEF Answered
    <2>2. \A d \in Requests : pc[d] \in Terminal => pc'[d] = pc[d]
      BY <1>0, <1>1, Disjoint
    <2> QED  BY <1>0, <2>1, <2>2 DEF SideInv, CauseInv, SilenceHasCause, IsReused, cancels
  <1> QED  BY <1>0, <1>2, <1>3, <1>4 DEF SideInv, LeftInv

LEMMA SideStepKeeps ==
  ASSUME GateTypeOK, SideInv, [Next]_vars
  PROVE  SideInv'
  <1>1. CASE Client  BY <1>1, RequestKeepsSide, DenyKeepsSide, CancelKeepsSide DEF Client
  <1>2. CASE \E c \in Requests : CallStep(c) \/ LeaveStep(c)
    BY <1>2, CallMovesOrStill, MoveKeepsSide, StillKeepsSide
  <1>3. CASE SessionEnd  BY <1>3, SessionKeepsSide, CancelAllKeepsSide DEF SessionEnd
  <1>4. CASE Others \/ Clock \/ CrashGate \/ HeartbeatHeld \/ UNCHANGED vars
    BY <1>4, OthersStill, StillKeepsSide
  <1> QED  BY <1>1, <1>2, <1>3, <1>4 DEF Next

LEMMA SideInitInv == Init => SideInv
  <1> SUFFICES ASSUME Init PROVE SideInv
    OBVIOUS
  <1>1. Admitted = {}
    BY DEF Init, Admitted, Counted, Waiting, Flushing
  <1>2. CapInv
    BY <1>1, FS_EmptySet DEF Init, CapInv
  <1>3. CancelInv
    BY DEF Init, CancelInv, CancelFollowsCall
  <1>4. \A id \in Ids : ~ Answered(id)
    BY DEF Init, Answered, holds
  <1>5. CauseInv
    BY <1>4 DEF Init, CauseInv, SilenceHasCause
  <1> QED  BY <1>2, <1>3, <1>5 DEF SideInv, LeftInv, Init

(* The bookkeeping holds beside the inductive invariant of the gate, which *)
(* gives it the types.                                                     *)
THEOREM SideInvariant == Spec => []SideInv
  <1>1. GateInv => GateTypeOK  BY DEF GateInv
  <1>2. GateTypeOK /\ SideInv /\ [Next]_vars => SideInv'
    BY SideStepKeeps
  <1> QED  BY <1>1, <1>2, SideInitInv, GateInvariant, PTL DEF Spec

(* No more calls wait for an answer than the cap allows: the count taken   *)
(* at the synchronous start is the number of calls that are on their way   *)
(* (gate-approvals.ts requestApproval, MAX_HELD_CALLS_PER_SESSION).        *)
THEOREM CapHolds == Spec => []HeldWithinCap
  <1>1. ASSUME CapInv PROVE HeldWithinCap
    <2> DEFINE waits == {c \in Requests : pc[c] \in Waiting}
    <2>1. waits \in SUBSET Admitted
      BY DEF Admitted, Counted
    <2>2. IsFiniteSet(waits) /\ Cardinality(waits) <= Cardinality(Admitted)
      BY <1>1, <2>1, FS_Subset DEF CapInv
    <2>3. Cardinality(waits) \in Nat /\ Cardinality(Admitted) \in Nat
      BY <1>1, <2>2, FS_CardinalityType DEF CapInv
    <2> QED  BY <1>1, <2>2, <2>3 DEF CapInv, HeldWithinCap
  <1>2. SideInv => HeldWithinCap  BY <1>1 DEF SideInv
  <1> QED  BY <1>2, SideInvariant, PTL

(* A cancel that waited for a verdict reaches the server only behind a     *)
(* call the server has seen (gate-cancel.ts).                              *)
THEOREM CancelsFollowCalls == Spec => []CancelFollowsCall
  <1>1. SideInv => CancelFollowsCall  BY DEF SideInv, CancelInv
  <1> QED  BY <1>1, SideInvariant, PTL

(* A call that ends in silence has a client that cancelled it, left or     *)
(* reused its id, a session that ended or a journal that failed            *)
(* (gate-approvals.ts finishAgentGone, gate-guard.ts denyOnGateError).     *)
THEOREM SilencesHaveCauses == Spec => []SilenceHasCause
  <1>1. SideInv => SilenceHasCause  BY DEF SideInv, CauseInv
  <1> QED  BY <1>1, SideInvariant, PTL

(* On the connect and serve paths nothing is forwarded once the client has *)
(* gone (session/core.ts endSession, gate-core.ts agentLeft).              *)
THEOREM LeavingEndsForwarding == ~ IsWrap => (Spec => NothingSentAfterLeaving)
  <1> SUFFICES ASSUME ~ IsWrap PROVE Spec => NothingSentAfterLeaving
    OBVIOUS
  <1> DEFINE Sent == closed => \A c \in Requests : pc'[c] = "forwarded" => pc[c] = "forwarded"
  <1>1. ASSUME GateTypeOK, LeftInv, NEW d \in Requests, Moves(d), closed, NEW c \in Requests,
               pc'[c] = "forwarded"
        PROVE  pc[c] = "forwarded"
    <2>1. PICK x : MovesTo(d, x)
      BY <1>1 DEF Moves
    <2>2. pc'[c] = IF c = d THEN x ELSE pc[c]
      BY <1>1, <2>1, MovedCall
    <2>3. x # "forwarded"
      BY <1>1, <2>1 DEF MovesTo, Because, LeftInv
    <2> QED  BY <1>1, <2>2, <2>3
  <1>2. GateTypeOK /\ LeftInv /\ [Next]_vars => Sent
    <2> SUFFICES ASSUME GateTypeOK, LeftInv, [Next]_vars, closed, NEW c \in Requests,
                        pc'[c] = "forwarded"
                 PROVE  pc[c] = "forwarded"
      OBVIOUS
    <2>1. CASE Client
      <3>1. CASE \E d \in Requests : requestApproval(d)
        BY <3>1 DEF requestApproval, GateTypeOK, FlowTypeOK
      <3>2. CASE \E id \in Ids : applyDeny(id) \/ gateCancel(id) \/ abandon(id)
        BY <3>2 DEF applyDeny, gateCancel, abandon, flow
      <3> QED  BY <2>1, <3>1, <3>2 DEF Client
    <2>2. CASE \E d \in Requests : CallStep(d) \/ LeaveStep(d)
      BY <1>1, <2>2, CallMovesOrStill DEF Still
    <2>3. CASE SessionEnd
      BY <2>3 DEF SessionEnd, AgentLeft, endSession, cancelPending, cancelAll
    <2>4. CASE Others \/ Clock \/ CrashGate \/ HeartbeatHeld \/ UNCHANGED vars
      BY <2>4, OthersStill DEF Still
    <2> QED  BY <2>1, <2>2, <2>3, <2>4 DEF Next
  <1>3. GateTypeOK /\ LeftInv /\ [Next]_vars => [Sent]_vars
    BY <1>2
  <1>4. GateInv => GateTypeOK  BY DEF GateInv
  <1>5. SideInv => LeftInv  BY DEF SideInv
  <1> QED  BY <1>3, <1>4, <1>5, GateInvariant, SideInvariant, PTL DEF Spec, NothingSentAfterLeaving

-----------------------------------------------------------------------------
(***************************************************************************)
(* One outcome per id.  While the LRU of answered ids is large enough for  *)
(* the ids in use it forgets none of them, so an approval that is read     *)
(* after its id was answered is dropped.  The hypotheses are needed: an    *)
(* LRU that has evicted the id lets the call through, and so does a        *)
(* fail-closed gate, which looks before the flush and forwards after it.   *)
(***************************************************************************)

RemembersAll == ~ FailClosed /\ IsFiniteSet(Ids) /\ Cardinality(Ids) <= GuardCap

Distinct(ids) == \A i, j \in 1..Len(ids) : ids[i] = ids[j] => i = j

OutcomeInv ==
  /\ Distinct(lru)
  /\ \A c \in spoiled : holds(lru, IdOf[c]) /\ pc[c] # "forwarded"

(* A list without repetitions that lacks an id is shorter than the ids. *)
LEMMA DistinctIsShort ==
  ASSUME NEW ids \in Seq(Ids), Distinct(ids), NEW id \in Ids, ~ holds(ids, id), IsFiniteSet(Ids)
  PROVE  Len(ids) < Cardinality(Ids)
  <1> DEFINE T == Ids \ {id}
  <1>1. IsFiniteSet(T) /\ Cardinality(T) = Cardinality(Ids) - 1
    BY FS_RemoveElement
  <1>2. Len(ids) \in Nat /\ ids \in [1..Len(ids) -> T]
    <2>1. Len(ids) \in Nat /\ ids \in [1..Len(ids) -> Ids]
      OBVIOUS
    <2>2. \A j \in 1..Len(ids) : ids[j] # id
      BY DEF holds
    <2> QED  BY <2>1, <2>2
  <1>3. ids \in Injection(1..Len(ids), T)
    BY <1>2 DEF Distinct, Injection, IsInjective
  <1>4. Cardinality(1..Len(ids)) <= Cardinality(T)
    BY <1>1, <1>3, FS_Injection
  <1>5. Cardinality(1..Len(ids)) = Len(ids)
    <2> DEFINE n == Len(ids)
    <2>1. n \in Nat /\ n \in Int /\ 1 \in Int
      BY <1>2
    <2> HIDE DEF n
    <2>2. Cardinality(1..n) = IF 1 > n THEN 0 ELSE n - 1 + 1
      BY <2>1, FS_Interval, Zenon
    <2>3. Cardinality(1..n) = n
      BY <2>1, <2>2
    <2> QED  BY <2>3 DEF n
  <1>6. Cardinality(Ids) \in Nat
    BY FS_CardinalityType
  <1> QED  BY <1>1, <1>2, <1>4, <1>5, <1>6

(* Taking an id out of such a list takes out that id and no other. *)
LEMMA WithoutDistinct ==
  ASSUME NEW ids \in Seq(Ids), Distinct(ids), NEW id \in Ids
  PROVE  /\ Distinct(without(ids, id)) /\ ~ holds(without(ids, id), id)
         /\ \A i : i # id /\ holds(ids, i) => holds(without(ids, id), i)
  <1>1. CASE holds(ids, id)
    <2> DEFINE k == CHOOSE k \in 1..Len(ids) : ids[k] = id
               r == without(ids, id)
    <2>1. k \in 1..Len(ids) /\ Len(ids) \in Nat /\ ids[k] = id
      BY <1>1 DEF holds
    <2>2. r = SubSeq(ids, 1, k - 1) \o SubSeq(ids, k + 1, Len(ids))
      BY <1>1 DEF without
    <2> HIDE DEF k, r
    <2>3. /\ Len(r) = Len(ids) - 1
          /\ \A j \in 1..(Len(ids) - 1) : r[j] = ids[IF j < k THEN j ELSE j + 1]
      <3> DEFINE p == SubSeq(ids, 1, k - 1)
                 q == SubSeq(ids, k + 1, Len(ids))
      <3>1. /\ \A j \in 1..(k - 1) : ids[j] \in Ids
            /\ \A j \in (k + 1)..Len(ids) : ids[j] \in Ids
        BY <2>1
      <3>2. p \in Seq(Ids) /\ Len(p) = k - 1 /\ \A j \in 1..(k - 1) : p[j] = ids[j]
        BY <2>1, <3>1, SubSeqProperties
      <3>3. /\ q \in Seq(Ids) /\ Len(q) = Len(ids) - k
            /\ \A j \in 1..(Len(ids) - k) : q[j] = ids[k + j]
        BY <2>1, <3>1, SubSeqProperties
      <3> HIDE DEF p, q
      <3>4. /\ Len(p \o q) = Len(p) + Len(q)
            /\ \A j \in 1..(Len(p) + Len(q)) :
                 (p \o q)[j] = IF j <= Len(p) THEN p[j] ELSE q[j - Len(p)]
        BY <3>2, <3>3, ConcatProperties
      <3>5. r = p \o q
        BY <2>2 DEF p, q
      <3>6. Len(r) = Len(ids) - 1
        BY <2>1, <3>2, <3>3, <3>4, <3>5
      <3>7. ASSUME NEW j \in 1..(Len(ids) - 1)
            PROVE  r[j] = ids[IF j < k THEN j ELSE j + 1]
        <4>1. CASE j < k
          BY <2>1, <3>2, <3>3, <3>4, <3>5, <4>1
        <4>2. CASE ~ j < k
          <5>1. r[j] = q[j - (k - 1)] /\ j - (k - 1) \in 1..(Len(ids) - k)
            BY <2>1, <3>2, <3>3, <3>4, <3>5, <4>2
          <5>2. k + (j - (k - 1)) = j + 1
            BY <2>1
          <5> QED  BY <3>3, <4>2, <5>1, <5>2
        <4> QED  BY <4>1, <4>2
      <3> QED  BY <3>6, <3>7
    <2>4. Distinct(r)
      BY <2>1, <2>3 DEF Distinct
    <2>5. ~ holds(r, id)
      BY <2>1, <2>3 DEF Distinct, holds
    <2>6. ASSUME NEW i, i # id, holds(ids, i) PROVE holds(r, i)
      <3>1. PICK j \in 1..Len(ids) : ids[j] = i
        BY <2>6 DEF holds
      <3>2. j # k
        BY <2>1, <2>6, <3>1
      <3>3. CASE j < k
        <4>1. j \in 1..(Len(ids) - 1) /\ r[j] = i
          BY <2>1, <2>3, <3>1, <3>3
        <4> QED  BY <2>3, <4>1 DEF holds
      <3>4. CASE j > k
        <4>1. j - 1 \in 1..(Len(ids) - 1) /\ ~ j - 1 < k /\ (j - 1) + 1 = j
          BY <2>1, <3>4
        <4>2. r[j - 1] = i
          BY <2>3, <3>1, <4>1
        <4> QED  BY <2>3, <4>1, <4>2 DEF holds
      <3> QED  BY <2>1, <3>2, <3>3, <3>4
    <2> QED  BY <2>4, <2>5, <2>6 DEF r
  <1>2. CASE ~ holds(ids, id)
    BY <1>2 DEF without
  <1> QED  BY <1>1, <1>2

(* An LRU that is large enough evicts nothing: it gains the id. *)
LEMMA MarkRemembers ==
  ASSUME RemembersAll, GuardTypeOK, Distinct(lru), NEW id \in Ids, NEW by, NEW burns,
         markAnswered(id, by, burns)
  PROVE  Distinct(lru') /\ \A i \in Ids : holds(lru', i) <=> holds(lru, i) \/ i = id
  <1> DEFINE r == without(lru, id)
  <1>1. r \in Seq(Ids)
    BY WithoutType DEF GuardTypeOK
  <1>2. Distinct(r) /\ ~ holds(r, id) /\ \A i : i # id /\ holds(lru, i) => holds(r, i)
    BY WithoutDistinct DEF GuardTypeOK
  <1>3. \A i : holds(r, i) => holds(lru, i)
    BY WithoutHolds DEF GuardTypeOK
  <1> HIDE DEF r
  <1>4. Len(r) < GuardCap
    <2>1. Len(r) < Cardinality(Ids) /\ Cardinality(Ids) \in Nat
      BY <1>1, <1>2, DistinctIsShort, FS_CardinalityType DEF RemembersAll
    <2> QED  BY <1>1, <2>1 DEF RemembersAll
  <1>5. lru' = Append(r, id)
    BY <1>1, <1>4 DEF markAnswered, evictOldest, r
  <1>6. /\ Len(r) \in Nat /\ Len(lru') = Len(r) + 1 /\ lru'[Len(r) + 1] = id
        /\ \A j \in 1..Len(r) : lru'[j] = r[j]
    BY <1>1, <1>5
  <1>7. Distinct(lru')
    BY <1>2, <1>6 DEF Distinct, holds
  <1> QED  BY <1>1, <1>2, <1>3, <1>5, <1>7, AppendHolds

(* Only the end of a call, or an answer the rules give, marks an id. *)
LEMMA MoveMarks ==
  ASSUME GateTypeOK, NEW c \in Requests, NEW x, MovesTo(c, x)
  PROVE  \/ UNCHANGED <<lru, spoiled>>
         \/ x \in Terminal \ {"forwarded"} /\ \E burns : markAnswered(IdOf[c], c, burns)
  <1>1. CASE GoesOn(c, x)
    BY <1>1 DEF GoesOn
  <1>2. CASE EndsAs(c, x)
    BY <1>2 DEF EndsAs, FORWARD, DROP, answerLocally, Terminal
  <1> QED  BY <1>1, <1>2 DEF MovesTo

(* An id is answered by the end of the call `by`, or by no call of those   *)
(* that wait: no other call moves.                                         *)
LEMMA MarkKeepsOutcome ==
  ASSUME RemembersAll, GateTypeOK, OutcomeInv, NEW id \in Ids, NEW by, NEW burns,
         markAnswered(id, by, burns),
         \A d \in Requests \ {by} : pc'[d] = pc[d],
         by \in Requests => pc'[by] # "forwarded"
  PROVE  OutcomeInv'
  <1>0. GuardTypeOK /\ spoiled \subseteq Requests
    BY DEF GateTypeOK, GuardTypeOK
  <1>1. Distinct(lru') /\ \A i \in Ids : holds(lru', i) <=> holds(lru, i) \/ i = id
    BY <1>0, MarkRemembers DEF OutcomeInv
  <1>2. spoiled' = spoiled \cup {c \in Requests \ {by} : IdOf[c] = id /\ pc[c] \in InFlight}
    BY DEF markAnswered
  <1>3. "forwarded" \notin InFlight
    BY DEF InFlight, Waiting, Flushing
  <1>4. ASSUME NEW c \in spoiled'
        PROVE  holds(lru', IdOf[c]) /\ pc'[c] # "forwarded"
    <2>1. c \in Requests /\ IdOf[c] \in Ids
      BY <1>0, <1>2, IdOfType
    <2>2. CASE c \in spoiled
      BY <1>1, <2>1, <2>2 DEF OutcomeInv
    <2>3. CASE c \in Requests \ {by} /\ IdOf[c] = id /\ pc[c] \in InFlight
      BY <1>1, <1>3, <2>3
    <2> QED  BY <1>2, <2>2, <2>3
  <1> QED  BY <1>1, <1>4 DEF OutcomeInv

(* A step that answers nothing and forwards no call that is spoiled. *)
LEMMA UnmarkedKeepsOutcome ==
  ASSUME OutcomeInv, UNCHANGED <<lru, spoiled>>, \A c \in spoiled : pc'[c] # "forwarded"
  PROVE  OutcomeInv'
  BY DEF OutcomeInv

LEMMA MoveKeepsOutcome ==
  ASSUME RemembersAll, GateTypeOK, OutcomeInv, NEW c \in Requests, Moves(c)
  PROVE  OutcomeInv'
  <1>1. PICK x : MovesTo(c, x)
    BY DEF Moves
  <1>2. \A d \in Requests : pc'[d] = IF d = c THEN x ELSE pc[d]
    BY <1>1, MovedCall
  <1>3. x = "forwarded" => ~ holds(lru, IdOf[c])
    BY <1>1 DEF MovesTo, Because, RemembersAll
  <1>4. CASE UNCHANGED <<lru, spoiled>>
    <2>1. \A d \in spoiled : pc'[d] # "forwarded"
      BY <1>2, <1>3 DEF OutcomeInv, GateTypeOK, GuardTypeOK
    <2> QED  BY <1>4, <2>1, UnmarkedKeepsOutcome
  <1>5. CASE x \in Terminal \ {"forwarded"} /\ \E burns : markAnswered(IdOf[c], c, burns)
    BY <1>2, <1>5, IdOfType, MarkKeepsOutcome
  <1> QED  BY <1>1, <1>4, <1>5, MoveMarks

LEMMA OutcomeStepKeeps ==
  ASSUME RemembersAll, GateTypeOK, OutcomeInv, [Next]_vars
  PROVE  OutcomeInv'
  <1>0. FlowTypeOK /\ spoiled \subseteq Requests /\ NoCall \notin Requests
    BY DEF GateTypeOK, GuardTypeOK
  <1>1. ASSUME NEW c \in Requests, requestApproval(c)
        PROVE  OutcomeInv'
    <2>1. pc[c] = "idle" /\ \E x \in {"flush-limit", "refused", "enqueue"} : pc' = [pc EXCEPT ![c] = x]
      BY <1>1 DEF requestApproval
    <2>2. (\A d \in Requests \ {c} : pc'[d] = pc[d]) /\ pc'[c] # "forwarded"
      BY <1>0, <2>1 DEF FlowTypeOK
    <2>3. CASE UNCHANGED guard
      <3>1. \A d \in spoiled : pc'[d] # "forwarded"
        BY <1>0, <2>2 DEF OutcomeInv
      <3> QED  BY <2>3, <3>1, UnmarkedKeepsOutcome DEF guard
    <2>4. CASE markAnswered(IdOf[c], c, burned)
      BY <2>2, <2>4, IdOfType, MarkKeepsOutcome
    <2> QED  BY <1>1, <2>3, <2>4 DEF requestApproval
  <1>2. ASSUME NEW id \in Ids, applyDeny(id)
        PROVE  OutcomeInv'
    <2>1. markAnswered(id, NoCall, burned) /\ pc' = pc
      BY <1>2 DEF applyDeny, flow
    <2> QED  BY <1>0, <2>1, MarkKeepsOutcome
  <1>3. ASSUME UNCHANGED <<pc, lru, spoiled>>
        PROVE  OutcomeInv'
    BY <1>3, UnmarkedKeepsOutcome DEF OutcomeInv
  <1>4. CASE Client
    BY <1>1, <1>2, <1>3, <1>4 DEF Client, gateCancel, abandon, guard
  <1>5. CASE \E c \in Requests : CallStep(c) \/ LeaveStep(c)
    BY <1>3, <1>5, CallMovesOrStill, MoveKeepsOutcome DEF Still, guard
  <1>6. CASE SessionEnd
    <2>1. CASE AgentLeft \/ endSession \/ cancelPending
      BY <1>3, <2>1 DEF AgentLeft, endSession, cancelPending, guard
    <2>2. CASE cancelAll
      <3>1. UNCHANGED <<lru, spoiled>> /\ \A d \in spoiled : pc'[d] # "forwarded"
        BY <1>0, <2>2 DEF cancelAll, OutcomeInv
      <3> QED  BY <3>1, UnmarkedKeepsOutcome
    <2> QED  BY <1>6, <2>1, <2>2 DEF SessionEnd
  <1>7. CASE Others \/ Clock \/ CrashGate \/ HeartbeatHeld \/ UNCHANGED vars
    BY <1>3, <1>7, OthersStill DEF Still, guard
  <1> QED  BY <1>4, <1>5, <1>6, <1>7 DEF Next

(* A call whose id was answered locally while it was on its way is not     *)
(* forwarded, whoever approves it, as long as the LRU forgets no id and    *)
(* nothing is awaited between the look at it and the verdict               *)
(* (gate-approvals.ts finishApproved, id-tracking.ts createAnswerGuard).   *)
THEOREM AnsweredIsFinal == RemembersAll => (Spec => []AnsweredNeverForwarded)
  <1> SUFFICES ASSUME RemembersAll PROVE Spec => []AnsweredNeverForwarded
    OBVIOUS
  <1>1. Init => OutcomeInv
    BY DEF Init, OutcomeInv, Distinct
  <1>2. GateTypeOK /\ OutcomeInv /\ [Next]_vars => OutcomeInv'
    BY OutcomeStepKeeps
  <1>3. GateInv => GateTypeOK  BY DEF GateInv
  <1>4. OutcomeInv => AnsweredNeverForwarded  BY DEF OutcomeInv, AnsweredNeverForwarded
  <1> QED  BY <1>1, <1>2, <1>3, <1>4, GateInvariant, PTL DEF Spec
=============================================================================
