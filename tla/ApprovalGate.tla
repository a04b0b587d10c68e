----------------------------- MODULE ApprovalGate -----------------------------
(***************************************************************************)
(* The require-approval path of one session's policy gate (src/proxy):     *)
(* gate-approvals.ts with its waiter (policy/approvals/waiter.ts), the     *)
(* cancel tracker (gate-cancel.ts), the exactly-one-outcome guard          *)
(* (id-tracking.ts), the fail-closed wrapper (gate-guard.ts), and the end  *)
(* of the session as session/core.ts (`connect`, `serve`) or               *)
(* proxy/wire-policy.ts (`wrap`) drives it.  The gate runs on one event    *)
(* loop: an action is what runs between two awaits.  The queue it shares   *)
(* with the operators' processes is ApprovalQueue; a call's approval id is *)
(* the call itself.                                                        *)
(***************************************************************************)
EXTENDS ApprovalQueue, Sequences

CONSTANTS
  Ids,            \* JSON-RPC ids of the client
  IdOf,           \* the id a call carries; a client may reuse one
  MaxHeld,        \* MAX_HELD_CALLS_PER_SESSION
  GuardCap,       \* MAX_TRACKED_REQUEST_IDS: what the answered-id LRU remembers
  FailClosed,     \* journal.failClosed: a decision is flushed before it is acted on
  IsWrap,         \* the `wrap` path; otherwise a `connect`/`serve` session
  StorageFails,   \* whether the queue's storage may fail the gate's calls
  MaxDenied       \* bound on the other calls of the session the rules deny

NoCall == "no-call"

ASSUME GateAssumption ==
  /\ IdOf \in [Requests -> Ids]
  /\ MaxHeld \in Nat \ {0}
  /\ GuardCap \in Nat \ {0}
  /\ FailClosed \in BOOLEAN
  /\ IsWrap \in BOOLEAN
  /\ StorageFails \in BOOLEAN
  /\ MaxDenied \in Nat
  /\ NoCall \notin Requests

holdLimit == IF WaitCap < MaxAge THEN WaitCap ELSE MaxAge

VARIABLES
  pc,          \* where a call's decision path stands
  askedAt,     \* the clock its enqueue read, until the row has it
  deadline,    \* when its wait times out, while it runs
  seen,        \* what its poll has read and not applied yet
  left,        \* leftReason: its agent is known to have left
  leaving,     \* the withdrawal started by leave
  admitted,    \* calls between the cap check and the end of their verdict
  closed,      \* isClosed: withdrawAll has run
  stage,       \* the session's end
  awaited,     \* the withdrawals cancelPending awaits
  verdictOf,   \* the call whose verdict is in flight under an id
  cancelled,   \* ids with a cancel noted while their verdict is in flight
  cancelMsg,   \* the client's cancel of an id
  behind,      \* the call a queued cancel is ordered behind
  lru,         \* ids answered locally, oldest first
  burned,      \* ids answered locally while a wait for them runs
  denied,      \* how many other calls were denied
  spoiled,     \* history: calls whose id was answered locally by another call since they came
  faulted      \* history: calls one of whose storage or journal writes failed

flow == <<pc, askedAt, deadline, seen, left, leaving, admitted>>
session == <<closed, stage, awaited>>
cancels == <<verdictOf, cancelled, cancelMsg, behind>>
guard == <<lru, burned, denied, spoiled>>
gateVars == <<flow, session, cancels, guard, faulted>>
vars == <<queueVars, gateVars>>

Flushing == {"flush-pending", "flush-approved", "flush-answered", "flush-gone",
             "flush-denied", "flush-timeout", "flush-limit", "flush-error"}
Terminal == {"forwarded", "denied", "timed-out", "refused", "gone", "dropped"}
Waiting == {"enqueue", "flush-pending", "held"}
InFlight == Waiting \cup {"expire", "expired"} \cup Flushing
Held == {c \in Requests : pc[c] = "held"}

-----------------------------------------------------------------------------
(* The exactly-one-outcome guard (id-tracking.ts). *)

evictOldest(ids) == IF Len(ids) >= GuardCap THEN Tail(ids) ELSE ids

holds(ids, id) == \E k \in 1..Len(ids) : ids[k] = id

without(ids, id) ==
  IF holds(ids, id)
  THEN LET k == CHOOSE k \in 1..Len(ids) : ids[k] = id
       IN SubSeq(ids, 1, k - 1) \o SubSeq(ids, k + 1, Len(ids))
  ELSE ids

(* What is left of the burned ids once the waits of cs have ended: the     *)
(* burn of an id goes with the last wait for it (endWait).                 *)
endWait(cs) ==
  burned \ {id \in Ids : /\ \E c \in cs : IdOf[c] = id
                         /\ \A c \in Held \ cs : IdOf[c] # id}

isAnswered_BurnsOnly(id, burns) == id \in burns  \* mutant: forgets the answered ids

isAnswered(id, burns) == id \in burns \/ holds(lru, id)

(* markAnswered: id is answered locally on behalf of `by`, whose own wait, *)
(* if it had one, is over.                                                 *)
markAnswered(id, by, burns) ==
  /\ lru' = Append(evictOldest(without(lru, id)), id)
  /\ burned' = IF \E c \in Held \ {by} : IdOf[c] = id THEN burns \cup {id} ELSE burns
  /\ spoiled' = spoiled \cup {c \in Requests \ {by} : IdOf[c] = id /\ pc[c] \in InFlight}

(* Any other tools/call, one the rules deny at once, is answered under its *)
(* id.  Its verdict replaces the one tracked under that id and settles.    *)
applyDeny(id) ==
  /\ up /\ stage = "open" /\ denied < MaxDenied
  /\ denied' = denied + 1
  /\ markAnswered(id, NoCall, burned)
  /\ verdictOf' = [verdictOf EXCEPT ![id] = NoCall]
  /\ cancelled' = cancelled \ {id}
  /\ UNCHANGED <<queueVars, flow, session, cancelMsg, behind, faulted>>

-----------------------------------------------------------------------------
(* Verdicts.  A verdict settles the promise the cancel tracker keeps: a    *)
(* cancel queued behind the call follows it to the server or is dropped    *)
(* with it.  Once a connect/serve session has ended, applyVerdict drops    *)
(* whatever the gate still decides.                                        *)

applyVerdict_EndedToo(action) ==  \* mutant: an ended session still applies verdicts
  IF action = "forward" THEN "forwarded" ELSE "dropped"

applyVerdict(action) ==
  IF action = "forward" /\ (IsWrap \/ stage = "open") THEN "forwarded" ELSE "dropped"

settleVerdict_CancelAnyway(c, end, action) ==  \* mutant: a queued cancel is always forwarded
  LET id == IdOf[c]
      mine == verdictOf[id] = c
  IN
  /\ pc' = [pc EXCEPT ![c] = end]
  /\ verdictOf' = IF mine THEN [verdictOf EXCEPT ![id] = NoCall] ELSE verdictOf
  /\ cancelled' = IF mine THEN cancelled \ {id} ELSE cancelled
  /\ cancelMsg' = [i \in Ids |-> IF cancelMsg[i] = "queued" /\ behind[i] = c
                                 THEN "forwarded" ELSE cancelMsg[i]]
  /\ UNCHANGED behind

settleVerdict(c, end, action) ==
  LET id == IdOf[c]
      mine == verdictOf[id] = c
  IN
  /\ pc' = [pc EXCEPT ![c] = end]
  /\ verdictOf' = IF mine THEN [verdictOf EXCEPT ![id] = NoCall] ELSE verdictOf
  /\ cancelled' = IF mine THEN cancelled \ {id} ELSE cancelled
  /\ cancelMsg' = [i \in Ids |-> IF cancelMsg[i] = "queued" /\ behind[i] = c
                                 THEN applyVerdict(action) ELSE cancelMsg[i]]
  /\ UNCHANGED behind

FORWARD(c, burns) ==
  /\ settleVerdict(c, applyVerdict("forward"), "forward")
  /\ burned' = burns
  /\ UNCHANGED <<lru, denied, spoiled>>

DROP(c, burns) ==
  /\ settleVerdict(c, "dropped", "drop")
  /\ burned' = burns
  /\ UNCHANGED <<lru, denied, spoiled>>

answerLocally_TimeoutUnanswered(c, end, burns) ==  \* mutant: a timed-out call is dropped silently
  /\ settleVerdict(c, IF end = "timed-out" THEN "dropped" ELSE end, "drop")
  /\ markAnswered(IdOf[c], c, burns)
  /\ UNCHANGED denied

(* answerLocally, then DROP; an agent that left is marked, not answered. *)
answerLocally(c, end, burns) ==
  /\ settleVerdict(c, end, "drop")
  /\ markAnswered(IdOf[c], c, burns)
  /\ UNCHANGED denied

(* The decision is written; a fail-closed gate awaits its flush first. *)
awaitFlush(c, at, burns) ==
  /\ pc' = [pc EXCEPT ![c] = at]
  /\ burned' = burns
  /\ UNCHANGED <<cancels, lru, denied, spoiled>>

release == admitted' = admitted - 1

-----------------------------------------------------------------------------
(* requestApproval up to the start of the wait. *)

recordVerdict(c) == verdictOf' = [verdictOf EXCEPT ![IdOf[c]] = c]

atCap_HeldOnly == Cardinality(Held) >= MaxHeld  \* mutant: counts the calls that wait already

(* The cap counts a call from its synchronous start: admitted, not held. *)
atCap == admitted >= MaxHeld

requestApproval(c) ==
  /\ up /\ stage = "open"
  /\ pc[c] = "idle"
  /\ IF atCap
     THEN IF FailClosed
          THEN /\ pc' = [pc EXCEPT ![c] = "flush-limit"]
               /\ recordVerdict(c)
               /\ UNCHANGED <<cancelled, cancelMsg, behind, guard, admitted, askedAt>>
          ELSE /\ pc' = [pc EXCEPT ![c] = "refused"]
               /\ markAnswered(IdOf[c], c, burned)
               /\ verdictOf' = [verdictOf EXCEPT ![IdOf[c]] = NoCall]
               /\ cancelled' = cancelled \ {IdOf[c]}
               /\ UNCHANGED <<cancelMsg, behind, denied, admitted, askedAt>>
     ELSE /\ pc' = [pc EXCEPT ![c] = "enqueue"]
          /\ admitted' = admitted + 1
          /\ askedAt' = [askedAt EXCEPT ![c] = now]
          /\ recordVerdict(c)
          /\ UNCHANGED <<cancelled, cancelMsg, behind, guard>>
  /\ UNCHANGED <<queueVars, deadline, seen, left, leaving, session, faulted>>

(* The wait starts; the agent may have left while the request was queued. *)
hold(c) ==
  /\ pc' = [pc EXCEPT ![c] = "held"]
  /\ deadline' = [deadline EXCEPT ![c] = now + holdLimit]
  /\ LET early == IF closed THEN "disconnected"
                  ELSE IF IdOf[c] \in cancelled THEN "cancelled" ELSE "none"
     IN /\ left' = [left EXCEPT ![c] = early]
        /\ leaving' = [leaving EXCEPT ![c] = IF early = "none" THEN "no" ELSE "asked"]
  /\ UNCHANGED <<seen, admitted>>

EnqueueCall(c) ==
  /\ up /\ pc[c] = "enqueue"
  /\ enqueue(c, askedAt[c])
  /\ askedAt' = [askedAt EXCEPT ![c] = NoTime]
  /\ IF FailClosed
     THEN /\ pc' = [pc EXCEPT ![c] = "flush-pending"]
          /\ UNCHANGED <<deadline, seen, left, leaving, admitted>>
     ELSE hold(c)
  /\ UNCHANGED <<now, up, sweeps, session, cancels, guard, faulted>>

(* An error on the path is caught by guarded: denyOnGateError. *)
denyOnGateError(c) ==
  /\ faulted' = faulted \cup {c}
  /\ IF FailClosed
     THEN awaitFlush(c, "flush-error", burned)
     ELSE answerLocally(c, "refused", burned)

EnqueueFails(c) ==
  /\ up /\ StorageFails /\ pc[c] = "enqueue"
  /\ denyOnGateError(c)
  /\ release
  /\ UNCHANGED <<queueVars, askedAt, deadline, seen, left, leaving, session>>

-----------------------------------------------------------------------------
(* finishApproval: the wait's result becomes a verdict, in the same run of *)
(* the event loop that ended the wait (its burns end first).               *)

finishApproved(c, burns) ==
  IF isAnswered(IdOf[c], burns)
  THEN IF FailClosed
       THEN awaitFlush(c, "flush-answered", burns) /\ UNCHANGED admitted
       ELSE DROP(c, burns) /\ release
  ELSE IF FailClosed
       THEN awaitFlush(c, "flush-approved", burns) /\ UNCHANGED admitted
       ELSE FORWARD(c, burns) /\ release

finishAgentGone(c, burns) ==
  IF FailClosed
  THEN awaitFlush(c, "flush-gone", burns) /\ UNCHANGED admitted
  ELSE answerLocally(c, "gone", burns) /\ release

finishDenied(c, burns) ==
  IF FailClosed
  THEN awaitFlush(c, "flush-denied", burns) /\ UNCHANGED admitted
  ELSE answerLocally(c, "denied", burns) /\ release

finishApproval(c, outcome) ==
  LET burns == endWait({c}) IN
  /\ seen' = [seen EXCEPT ![c] = "none"]
  /\ \/ outcome = "approved" /\ finishApproved(c, burns)
     \/ outcome = "withdrawn" /\ left[c] # "none" /\ finishAgentGone(c, burns)
     \/ outcome = "denied" /\ finishDenied(c, burns)
     \/ /\ outcome = "timeout" \/ (outcome = "withdrawn" /\ left[c] = "none")
        /\ awaitFlush(c, "expire", burns) /\ UNCHANGED admitted
  /\ deadline' = [deadline EXCEPT ![c] = NoTime]
  /\ UNCHANGED <<askedAt, left>>

finishTimedOutMark_Skipped(c) ==  \* mutant: the row is left to the sweep
  /\ up /\ pc[c] = "expire"
  /\ pc' = [pc EXCEPT ![c] = "expired"]
  /\ UNCHANGED <<queueVars, askedAt, deadline, seen, left, leaving, admitted,
                 session, cancels, guard, faulted>>

(* finishTimedOut: the request leaves the queue, then the agent is told. *)
finishTimedOutMark(c) ==
  /\ up /\ pc[c] = "expire"
  /\ pc' = [pc EXCEPT ![c] = "expired"]
  /\ \/ markExpired(c) /\ UNCHANGED faulted
     \/ StorageFails /\ UNCHANGED store /\ faulted' = faulted \cup {c}
  /\ UNCHANGED <<now, up, sweeps, askedAt, deadline, seen, left, leaving, admitted,
                 session, cancels, guard>>

finishTimedOut(c) ==
  /\ up /\ pc[c] = "expired"
  /\ IF FailClosed
     THEN awaitFlush(c, "flush-timeout", burned) /\ UNCHANGED admitted
     ELSE answerLocally(c, "timed-out", burned) /\ release
  /\ UNCHANGED <<queueVars, askedAt, deadline, seen, left, leaving, session, faulted>>

-----------------------------------------------------------------------------
(* The wait (waiter.ts): a poll reads, and later applies what it read. *)

toWaitResult(resolution) == IF resolution = "expired" THEN "timeout" ELSE resolution

PollRead(c) ==
  /\ up /\ pc[c] = "held" /\ seen[c] = "none"
  /\ \/ seen' = [seen EXCEPT ![c] = readResolution(c)]
     \/ StorageFails /\ seen' = [seen EXCEPT ![c] = "nothing"]
  /\ UNCHANGED <<queueVars, pc, askedAt, deadline, left, leaving, admitted,
                 session, cancels, guard, faulted>>

PollApply_NoDeadline(c) ==  \* mutant: the poll never looks at the deadline
  /\ up /\ pc[c] = "held" /\ seen[c] # "none"
  /\ IF seen[c] # "nothing" THEN finishApproval(c, toWaitResult(seen[c]))
     ELSE /\ seen' = [seen EXCEPT ![c] = "none"]
          /\ UNCHANGED <<pc, askedAt, deadline, left, admitted, cancels, guard>>
  /\ UNCHANGED <<queueVars, leaving, session, faulted>>

PollApply(c) ==
  /\ up /\ pc[c] = "held" /\ seen[c] # "none"
  /\ IF seen[c] # "nothing" THEN finishApproval(c, toWaitResult(seen[c]))
     ELSE IF now >= deadline[c] THEN finishApproval(c, "timeout")
     ELSE /\ seen' = [seen EXCEPT ![c] = "none"]
          /\ UNCHANGED <<pc, askedAt, deadline, left, admitted, cancels, guard>>
  /\ UNCHANGED <<queueVars, leaving, session, faulted>>

HeartbeatHeld ==
  /\ up /\ Held # {}
  /\ \E t \in 0..now : heartbeat(Held, t)
  /\ UNCHANGED <<now, up, sweeps, gateVars>>

-----------------------------------------------------------------------------
(* The agent leaves. *)

startLeave(cs, why) ==
  /\ left' = [c \in Requests |-> IF c \in cs /\ left[c] = "none" THEN why ELSE left[c]]
  /\ leaving' = [c \in Requests |-> IF c \in cs /\ left[c] = "none" THEN "asked" ELSE leaving[c]]

(* gateCancel: announced at once to whatever holds the call, then ordered  *)
(* behind the verdict in flight; with none in flight it is forwarded.      *)
gateCancel(id) ==
  /\ up /\ stage = "open"
  /\ cancelMsg[id] = "unsent" /\ \E c \in Requests : IdOf[c] = id /\ pc[c] # "idle"
  /\ IF verdictOf[id] # NoCall
     THEN /\ cancelled' = cancelled \cup {id}
          /\ cancelMsg' = [cancelMsg EXCEPT ![id] = "queued"]
          /\ behind' = [behind EXCEPT ![id] = verdictOf[id]]
     ELSE /\ cancelMsg' = [cancelMsg EXCEPT ![id] = "forwarded"]
          /\ UNCHANGED <<cancelled, behind>>
  /\ startLeave({c \in Held : IdOf[c] = id}, "cancelled")
  /\ UNCHANGED <<queueVars, pc, askedAt, deadline, seen, admitted, session,
                 verdictOf, guard, faulted>>

(* abandon: the HTTP request closed; nothing is sent to the server. *)
abandon(id) ==
  /\ up /\ ~ IsWrap /\ stage = "open"
  /\ cancelMsg[id] = "unsent" /\ \E c \in Requests : IdOf[c] = id /\ pc[c] # "idle"
  /\ cancelMsg' = [cancelMsg EXCEPT ![id] = "abandoned"]
  /\ cancelled' = IF verdictOf[id] # NoCall THEN cancelled \cup {id} ELSE cancelled
  /\ startLeave({c \in Held : IdOf[c] = id}, "cancelled")
  /\ UNCHANGED <<queueVars, pc, askedAt, deadline, seen, admitted, session,
                 verdictOf, behind, guard, faulted>>

(* leave: the withdrawal commits or is refused, and its continuation ends  *)
(* the wait: when it won, when storage failed it, or at the session's end. *)
leave(c, won) ==
  /\ leaving' = [leaving EXCEPT ![c] = "done"]
  /\ IF pc[c] = "held" /\ (won \/ closed)
     THEN finishApproval(c, "withdrawn")
     ELSE UNCHANGED <<pc, askedAt, deadline, seen, left, admitted, cancels, guard>>
  /\ UNCHANGED <<now, up, sweeps, session>>

LeaveWithdraw(c) ==
  /\ up /\ leaving[c] = "asked"
  /\ withdraw(c)
  /\ leave(c, c \in Pending)
  /\ UNCHANGED faulted

LeaveWithdrawFails(c) ==
  /\ up /\ StorageFails /\ leaving[c] = "asked"
  /\ leave(c, TRUE)
  /\ faulted' = faulted \cup {c}
  /\ UNCHANGED store

-----------------------------------------------------------------------------
(* The end of the session. *)

withdrawAll_OnlyClosed ==  \* mutant: calls that are held are not told
  /\ closed' = TRUE
  /\ UNCHANGED <<left, leaving>>

withdrawAll == closed' = TRUE /\ startLeave(Held, "disconnected")

(* wrap: the client's stdout broke.  The pipeline to the server runs on. *)
AgentLeft ==
  /\ up /\ IsWrap /\ stage = "open" /\ ~ closed
  /\ withdrawAll
  /\ UNCHANGED <<queueVars, pc, askedAt, deadline, seen, admitted, stage, awaited,
                 cancels, guard, faulted>>

(* connect/serve: endSession.  Only a client's end withdraws at once; a    *)
(* revocation or the server's end leaves that to cancelPending.            *)
endSession ==
  /\ up /\ ~ IsWrap /\ stage = "open"
  /\ stage' = "ending"
  /\ \/ withdrawAll
     \/ UNCHANGED <<closed, left, leaving>>
  /\ UNCHANGED <<queueVars, pc, askedAt, deadline, seen, admitted, awaited,
                 cancels, guard, faulted>>

(* cancelPending: after the grace, or on the child's exit under wrap. *)
cancelPending ==
  /\ up /\ stage = (IF IsWrap THEN "open" ELSE "ending")
  /\ stage' = "withdrawing"
  /\ awaited' = {c \in Held : left[c] = "none"}
  /\ withdrawAll
  /\ UNCHANGED <<queueVars, pc, askedAt, deadline, seen, admitted, cancels, guard, faulted>>

cancelAll ==
  /\ up /\ stage = "withdrawing"
  /\ \A c \in awaited : leaving[c] = "done"
  /\ stage' = "over"
  /\ pc' = [c \in Requests |-> IF c \in Held THEN "expire" ELSE pc[c]]
  /\ seen' = [c \in Requests |-> IF c \in Held THEN "none" ELSE seen[c]]
  /\ deadline' = [c \in Requests |-> IF c \in Held THEN NoTime ELSE deadline[c]]
  /\ burned' = endWait(Held)
  /\ UNCHANGED <<queueVars, askedAt, left, leaving, admitted, closed, awaited,
                 cancels, lru, denied, spoiled, faulted>>

-----------------------------------------------------------------------------
(* The flush a fail-closed gate awaits before it acts on a decision. *)
settleJournal(c) ==
  /\ up /\ FailClosed
  /\ \/ pc[c] = "flush-pending" /\ hold(c) /\ UNCHANGED <<askedAt, cancels, guard>>
     \/ /\ \/ pc[c] = "flush-approved" /\ FORWARD(c, burned) /\ release
           \/ pc[c] = "flush-answered" /\ DROP(c, burned) /\ release
           \/ pc[c] = "flush-gone" /\ answerLocally(c, "gone", burned) /\ release
           \/ pc[c] = "flush-denied" /\ answerLocally(c, "denied", burned) /\ release
           \/ pc[c] = "flush-timeout" /\ answerLocally(c, "timed-out", burned) /\ release
           \/ pc[c] = "flush-limit" /\ answerLocally(c, "refused", burned) /\ UNCHANGED admitted
           \/ pc[c] = "flush-error" /\ answerLocally(c, "refused", burned) /\ UNCHANGED admitted
        /\ UNCHANGED <<askedAt, deadline, seen, left, leaving>>
  /\ UNCHANGED <<queueVars, session, faulted>>

(* A flush that fails throws: the call is denied, and dropped unanswered   *)
(* when the flush of that denial fails too.                                *)
settleJournalFails(c) ==
  /\ up /\ FailClosed /\ pc[c] \in Flushing
  /\ IF pc[c] = "flush-error"
     THEN DROP(c, burned) /\ UNCHANGED <<admitted, faulted>>
     ELSE /\ denyOnGateError(c)
          /\ IF pc[c] = "flush-limit" THEN UNCHANGED admitted ELSE release
  /\ UNCHANGED <<queueVars, askedAt, deadline, seen, left, leaving, session>>

(* The gate's process is killed: its memory is gone, the queue stays. *)
CrashGate == Crash /\ UNCHANGED gateVars

-----------------------------------------------------------------------------
Init ==
  /\ QueueInit
  /\ pc = [c \in Requests |-> "idle"]
  /\ askedAt = [c \in Requests |-> NoTime]
  /\ deadline = [c \in Requests |-> NoTime]
  /\ seen = [c \in Requests |-> "none"]
  /\ left = [c \in Requests |-> "none"]
  /\ leaving = [c \in Requests |-> "no"]
  /\ admitted = 0
  /\ closed = FALSE
  /\ stage = "open"
  /\ awaited = {}
  /\ verdictOf = [i \in Ids |-> NoCall]
  /\ cancelled = {}
  /\ cancelMsg = [i \in Ids |-> "unsent"]
  /\ behind = [i \in Ids |-> NoCall]
  /\ lru = <<>>
  /\ burned = {}
  /\ denied = 0
  /\ spoiled = {}
  /\ faulted = {}

(* What the gate does for one call, once it has been asked. *)
CallStep(c) ==
  \/ EnqueueCall(c)
  \/ EnqueueFails(c)
  \/ PollRead(c)
  \/ PollApply(c)
  \/ finishTimedOutMark(c)
  \/ finishTimedOut(c)
  \/ settleJournal(c)
  \/ settleJournalFails(c)

LeaveStep(c) == LeaveWithdraw(c) \/ LeaveWithdrawFails(c)

Client ==
  \/ \E c \in Requests : requestApproval(c)
  \/ \E id \in Ids : applyDeny(id) \/ gateCancel(id) \/ abandon(id)

SessionEnd == AgentLeft \/ endSession \/ cancelPending \/ cancelAll

Others ==
  /\ \/ \E p \in Operators : Operator(p)
     \/ \E p \in Readers : Read(p)
  /\ UNCHANGED gateVars

Clock == Tick /\ UNCHANGED gateVars

Next ==
  \/ Client
  \/ \E c \in Requests : CallStep(c) \/ LeaveStep(c)
  \/ HeartbeatHeld
  \/ SessionEnd
  \/ CrashGate
  \/ Others
  \/ Clock

Spec == Init /\ [][Next]_vars

(* Promises settle, timers fire and the clock moves while the process runs; *)
(* nobody owes an answer, a sweep or a heartbeat that commits.              *)
Fairness ==
  /\ \A c \in Requests : WF_vars(CallStep(c)) /\ WF_vars(LeaveStep(c))
  /\ WF_vars(cancelAll)
  /\ WF_vars(Clock)

FairSpec == Spec /\ Fairness

-----------------------------------------------------------------------------
(* Properties. *)

(* Every variable of the gate has the shape of the state it models. *)
TypeOK ==
  /\ QueueTypeOK
  /\ pc \in [Requests -> {"idle"} \cup InFlight \cup Terminal]
  /\ askedAt \in [Requests -> Times \cup {NoTime}]
  /\ deadline \in [Requests -> (0..(MaxNow + holdLimit)) \cup {NoTime}]
  /\ seen \in [Requests -> Settled \cup {"none", "nothing"}]
  /\ left \in [Requests -> {"none", "cancelled", "disconnected"}]
  /\ leaving \in [Requests -> {"no", "asked", "done"}]
  /\ admitted \in Int
  /\ closed \in BOOLEAN
  /\ stage \in {"open", "ending", "withdrawing", "over"}
  /\ awaited \subseteq Requests
  /\ verdictOf \in [Ids -> Requests \cup {NoCall}]
  /\ cancelled \subseteq Ids
  /\ cancelMsg \in [Ids -> {"unsent", "queued", "forwarded", "dropped", "abandoned"}]
  /\ behind \in [Ids -> Requests \cup {NoCall}]
  /\ lru \in Seq(Ids)
  /\ burned \subseteq Ids
  /\ denied \in Nat
  /\ spoiled \subseteq Requests
  /\ faulted \subseteq Requests

(* What the agent was told is what the queue has on record, for whichever of     *)
(* operator, withdrawal, expiry and sweep won the row: a call goes to the server *)
(* only when its own request was approved, a denial is an operator's, and a call *)
(* that timed out or whose agent left has no row an operator could still approve *)
(* (unless storage failed the gate).                                             *)
AnswerMatchesRecord ==
  \A c \in Requests :
    /\ pc[c] = "forwarded" => status[c] = "approved"
    /\ pc[c] = "denied" => status[c] = "denied"
    /\ pc[c] \in {"timed-out", "gone"} /\ c \notin faulted => status[c] \in Settled

(* An agent that neither cancelled nor left always hears something: a call ends  *)
(* in silence only when its client went, when the session ended, when the        *)
(* journal failed twice, or when the client reused the id.                       *)
IsReused(c) == denied > 0 \/ \E d \in Requests \ {c} : IdOf[d] = IdOf[c]

SilenceHasCause ==
  \A c \in Requests :
    /\ pc[c] = "gone" => closed \/ cancelMsg[IdOf[c]] # "unsent" \/ IsReused(c)
    /\ pc[c] = "dropped" => stage # "open" \/ c \in faulted \/ IsReused(c)

(* A session never waits on more than MAX_HELD_CALLS_PER_SESSION requests at     *)
(* once, however many arrive before the first enqueue returns (gate-approvals.ts *)
(* counts them from the synchronous start).                                      *)
HeldWithinCap == Cardinality({c \in Requests : pc[c] \in Waiting}) <= MaxHeld

(* Exactly one outcome per id: a call whose id was answered locally while it     *)
(* was on its way is not forwarded (gate-core.ts).                               *)
AnsweredNeverForwarded == \A c \in spoiled : pc[c] # "forwarded"

(* A cancel that reached the server while its call was being decided follows a   *)
(* call the server has seen (gate-cancel.ts).                                    *)
CancelFollowsCall ==
  \A id \in Ids : cancelMsg[id] = "forwarded" /\ behind[id] # NoCall
                    => pc[behind[id]] = "forwarded"

(* Once the agent has left, nothing held goes out any more (gate-core.ts         *)
(* agentLeft), whoever approves it and whenever the approval is read.            *)
NothingSentAfterLeaving ==
  [][closed => \A c \in Requests : pc'[c] = "forwarded" => pc[c] = "forwarded"]_vars

(* A call as CallOutcome sees it: from where it stands and from its row. *)
phaseOf(at) ==
  IF at = "idle" THEN "new"
  ELSE IF at \in InFlight THEN "asked"
  ELSE IF at = "forwarded" THEN "sent"
  ELSE IF at \in {"gone", "dropped"} THEN "silent"
  ELSE "answered"

rulingOf(row) ==
  IF row = "approved" THEN "yes"
  ELSE IF row = "denied" THEN "no"
  ELSE IF row \in Settled THEN "void"
  ELSE "open"

Outcome == INSTANCE CallOutcome WITH
  Calls <- Requests,
  phase <- [c \in Requests |-> phaseOf(pc[c])],
  ruling <- [c \in Requests |-> rulingOf(status[c])]

(* The gate implements CallOutcome: each call is asked about once, its row's     *)
(* first settlement is the ruling and stands, and it goes to the server only     *)
(* under an approval of its own (gate-core.ts: fail-closed, one outcome).        *)
OneOutcomePerCall == Outcome!Spec

(* A held call ends: with nobody answering it still reaches its deadline, the    *)
(* agent is told, and no enqueue, withdrawal, poll or flush is left hanging.  A  *)
(* call that ended stays so, so that they all end if after a while none is left. *)
HeldCallEnds ==
  <>[](\A c \in Requests : pc[c] \in InFlight /\ deadline[c] <= MaxNow => ~ up)

(* The end of a session settles every request it holds: the call ends, and its   *)
(* row leaves the queue too unless one of the gate's writes failed; the end does *)
(* not wait for ever for a withdrawal (gate-core.ts cancelPending).              *)
EndedSessionLeavesNothing ==
  <>[](stage \in {"withdrawing", "over"} /\ up =>
         \A c \in Requests :
           /\ pc[c] \in Terminal \cup {"idle"}
           /\ status[c] # "pending" \/ c \in faulted)
=============================================================================
