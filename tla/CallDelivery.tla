----------------------------- MODULE CallDelivery -----------------------------
(***************************************************************************)
(* What happens to a call's answer once the rules let the call go on       *)
(* (proxy/gate-delivery.ts, gate-delivery-join.ts, the claims and kept     *)
(* answers of tool-use-answers.ts, the decision around them in             *)
(* gate-call.ts).  Each session has its gate; the claims and the answers   *)
(* are the process's, shared by the sessions of one agent.  A tool use is  *)
(* one call of the model: it may arrive more than once, under an id of its *)
(* own each time, as a bridge or a re-initialised client sends it again.   *)
(*                                                                         *)
(* How a call is decided (allow, confirmation, the approvals queue) is     *)
(* ApprovalGate's subject: here a verdict comes sooner or later.  The      *)
(* bytes that push a kept answer out, the day that ends it and the 25      *)
(* hours that end a claim are one nondeterministic loss each.              *)
(***************************************************************************)
EXTENDS Naturals, FiniteSets

CONSTANTS
  Calls,      \* requests as they arrive, each under an id of its own
  Uses,       \* tool uses (agent, tool-use id)
  UseOf,      \* the tool use a call names, NoUse for a call that names none
  Sessions,
  SessionOf,  \* the session a call arrives on
  MaxJoins,   \* MAX_HELD_CALLS_PER_SESSION: resends that wait in one session
  MaxTracked  \* MAX_TRACKED_FORWARDED_CALLS of one session

NoUse == "no-use"
NoCaller == "no-caller"

ASSUME DeliveryAssumption ==
  /\ UseOf \in [Calls -> Uses \cup {NoUse}]
  /\ SessionOf \in [Calls -> Sessions]
  /\ MaxJoins \in Nat \ {0}
  /\ MaxTracked \in Nat \ {0}
  /\ NoUse \notin Uses
  /\ NoCaller \notin Calls

VARIABLES
  pc,        \* where a call stands
  departure, \* how its agent left, as departureOf or its entry says
  claim,     \* the call that holds a tool use
  kept,      \* what is kept for a resend of a tool use
  tracked,   \* forwarded: the calls whose answer is awaited
  leaving,   \* sessions that have ended (endedReason; isLeaving with it)
  settled,   \* sessions whose server is no longer read
  told,      \* what the agent hears of a call
  sent,      \* history: calls that went to the server
  answered,  \* history: calls the server has answered
  lost       \* history: tool uses whose claim lapsed or whose answer was dropped

deliveryVars == <<pc, departure, claim, kept, tracked, leaving, settled, told,
                  sent, answered, lost>>

Undecided == {"joined", "released", "deciding"}
Over == {"answered", "replayed", "refused", "gone", "unanswered"}
Says == {"result", "too-large", "may-have-run"}

joinedIn(s) == {c \in Calls : SessionOf[c] = s /\ pc[c] = "joined"}
trackedIn(s) == {c \in tracked : SessionOf[c] = s}

-----------------------------------------------------------------------------
(* The process's table (tool-use-answers.ts). *)

(* The claims of cs go, and whoever joined them is woken to decide again. *)
releaseClaims(cs) == [u \in Uses |-> IF claim[u] \in cs THEN NoCaller ELSE claim[u]]

isWoken(c, cs) == pc[c] = "joined" /\ UseOf[c] \in Uses /\ claim[UseOf[c]] \in cs

wakeReleased(cs) == [c \in Calls |-> IF isWoken(c, cs) THEN "released" ELSE pc[c]]

usesOf(cs) == {UseOf[c] : c \in cs} \cap Uses

keep(us, says) == [u \in Uses |-> IF u \in us THEN says ELSE kept[u]]

(* keepMayHaveRun: a call that will have no answer may still have run. *)
keepMayHaveRun(cs) == keep(usesOf(cs), "may-have-run")

-----------------------------------------------------------------------------
(* A call arrives, or decides again because the call it joined let go. *)

admit_IgnoresKept(c) ==  \* mutant: the claim is looked at before the kept answer
  LET u == UseOf[c]
      s == SessionOf[c]
  IN
  /\ \/ pc[c] = "idle" /\ s \notin leaving
     \/ pc[c] = "released"
  /\ IF u = NoUse \/ claim[u] = NoCaller
     THEN /\ pc' = [pc EXCEPT ![c] = "deciding"]
          /\ claim' = IF u = NoUse THEN claim ELSE [claim EXCEPT ![u] = c]
          /\ UNCHANGED told
     ELSE /\ pc' = [pc EXCEPT ![c] = "joined"]
          /\ UNCHANGED <<claim, told>>
  /\ UNCHANGED <<departure, kept, tracked, leaving, settled, sent, answered, lost>>

admit(c) ==
  LET u == UseOf[c]
      s == SessionOf[c]
      become(at, says) == pc' = [pc EXCEPT ![c] = at] /\ told' = [told EXCEPT ![c] = says]
  IN
  /\ \/ pc[c] = "idle" /\ s \notin leaving
     \/ pc[c] = "released"
  /\ IF u = NoUse
     THEN become("deciding", "nothing") /\ UNCHANGED claim
     ELSE IF kept[u] # "nothing"
     THEN become("replayed", IF s \in leaving THEN "nothing" ELSE kept[u]) /\ UNCHANGED claim
     ELSE IF claim[u] = NoCaller
     THEN become("deciding", "nothing") /\ claim' = [claim EXCEPT ![u] = c]
     ELSE IF s \in leaving
     THEN become("deciding", "nothing") /\ UNCHANGED claim
     ELSE IF Cardinality(joinedIn(s)) >= MaxJoins
     THEN become("refused", "refused") /\ UNCHANGED claim
     ELSE become("joined", "nothing") /\ UNCHANGED claim
  /\ UNCHANGED <<departure, kept, tracked, leaving, settled, sent, answered, lost>>

(* The rules deny: a rule that now denies wins over a kept answer. *)
applyDeny(c) ==
  /\ \/ pc[c] = "idle" /\ SessionOf[c] \notin leaving
     \/ pc[c] = "released"
  /\ pc' = [pc EXCEPT ![c] = "refused"]
  /\ told' = [told EXCEPT ![c] = IF SessionOf[c] \in leaving THEN "nothing" ELSE "refused"]
  /\ UNCHANGED <<departure, claim, kept, tracked, leaving, settled, sent, answered, lost>>

(* A verdict that does not forward, or that fails: the claim goes.  Only   *)
(* an agent that left hears nothing of it.                                 *)
verdictDrop(c) ==
  /\ pc[c] = "deciding"
  /\ claim' = releaseClaims({c})
  /\ \E silent \in {departure[c] # "none" \/ SessionOf[c] \in leaving, FALSE} :
       /\ pc' = [wakeReleased({c}) EXCEPT ![c] = IF silent THEN "gone" ELSE "refused"]
       /\ told' = [told EXCEPT ![c] = IF silent THEN "nothing" ELSE "refused"]
  /\ UNCHANGED <<departure, kept, tracked, leaving, settled, sent, answered, lost>>

(* A forward after the session's end is not sent and not tracked. *)
forwardTooLate(c) ==
  /\ pc[c] = "deciding" /\ SessionOf[c] \in leaving
  /\ claim' = releaseClaims({c})
  /\ pc' = [wakeReleased({c}) EXCEPT ![c] = "gone"]
  /\ UNCHANGED <<departure, kept, tracked, leaving, settled, told, sent, answered, lost>>

(* register, then the message goes to the server.  Past the cap one        *)
(* tracked call (the oldest) is let go; a call whose agent cancelled it    *)
(* while it was decided frees its tool use at once.                        *)
register(c) ==
  LET s == SessionOf[c]
      full == Cardinality(trackedIn(s)) >= MaxTracked
  IN
  /\ pc[c] = "deciding" /\ s \notin leaving
  /\ \E out \in IF full THEN {{o} : o \in trackedIn(s)} ELSE {{}} :
       LET freed == out \cup (IF departure[c] = "cancel" THEN {c} ELSE {}) IN
       /\ tracked' = (tracked \ out) \cup {c}
       /\ kept' = keepMayHaveRun(freed)
       /\ claim' = releaseClaims(freed)
       /\ pc' = [x \in Calls |-> IF x = c THEN "forwarded"
                                 ELSE IF x \in out THEN "untracked"
                                 ELSE wakeReleased(freed)[x]]
  /\ sent' = sent \cup {c}
  /\ UNCHANGED <<departure, leaving, settled, told, answered, lost>>

-----------------------------------------------------------------------------
observeAnswer_StaysTracked(c) ==  \* mutant: an answered call is still awaited
  /\ pc[c] \in {"forwarded", "untracked"} /\ SessionOf[c] \notin settled
  /\ answered' = answered \cup {c}
  /\ kept' = IF c \in tracked THEN keep(usesOf({c}), "result") ELSE kept
  /\ claim' = releaseClaims({c})
  /\ pc' = [wakeReleased({c}) EXCEPT ![c] = "answered"]
  /\ told' = [told EXCEPT ![c] = "result"]
  /\ UNCHANGED <<departure, tracked, leaving, settled, sent, lost>>

(* The server's answer.  A tracked one is kept for a resend before its     *)
(* claim goes (or, past the size limit, a note that it was not kept); it   *)
(* takes its usual way to the agent, unless the session has ended.         *)
observeAnswer(c) ==
  /\ pc[c] \in {"forwarded", "untracked"} /\ SessionOf[c] \notin settled
  /\ answered' = answered \cup {c}
  /\ IF c \in tracked
     THEN /\ \E says \in {"result", "too-large"} : kept' = keep(usesOf({c}), says)
          /\ claim' = releaseClaims({c})
          /\ tracked' = tracked \ {c}
          /\ pc' = [wakeReleased({c}) EXCEPT ![c] = "answered"]
     ELSE /\ pc' = [pc EXCEPT ![c] = "answered"]
          /\ UNCHANGED <<kept, claim, tracked>>
  /\ told' = [told EXCEPT ![c] = IF departure[c] = "none" /\ SessionOf[c] \notin leaving
                                 THEN "result" ELSE "nothing"]
  /\ UNCHANGED <<departure, leaving, settled, sent, lost>>

(* departed: a cancel, or the request's connection closed.  A resend that  *)
(* waits ends; a call being decided carries the departure; a cancelled     *)
(* call at its server frees its tool use at once.                          *)
departed(c, kind) ==
  /\ SessionOf[c] \notin leaving /\ departure[c] = "none"
  /\ pc[c] \in Undecided \cup {"forwarded", "untracked"}
  /\ departure' = [departure EXCEPT ![c] = kind]
  /\ IF c \in tracked /\ kind = "cancel"
     THEN /\ kept' = keepMayHaveRun({c})
          /\ claim' = releaseClaims({c})
          /\ pc' = wakeReleased({c})
     ELSE /\ pc' = IF pc[c] = "joined" THEN [pc EXCEPT ![c] = "gone"] ELSE pc
          /\ UNCHANGED <<kept, claim>>
  /\ UNCHANGED <<tracked, leaving, settled, told, sent, answered, lost>>

-----------------------------------------------------------------------------
(* The session ends: resends that wait end with it, and when it is the     *)
(* agent that left, every forwarded call is abandoned (agentLeft).         *)
endSession(s) ==
  /\ s \notin leaving
  /\ leaving' = leaving \cup {s}
  /\ pc' = [c \in Calls |-> IF c \in joinedIn(s) THEN "gone" ELSE pc[c]]
  /\ \/ departure' = [c \in Calls |-> IF c \in trackedIn(s) /\ departure[c] = "none"
                                      THEN "abandon" ELSE departure[c]]
     \/ UNCHANGED departure
  /\ UNCHANGED <<claim, kept, tracked, settled, told, sent, answered, lost>>

(* settle: the grace is over, or nothing is owed, or the server is gone;   *)
(* the server is not read any more.                                        *)
settle(s) ==
  /\ s \in leaving \ settled
  /\ settled' = settled \cup {s}
  /\ kept' = keepMayHaveRun(trackedIn(s))
  /\ claim' = releaseClaims(trackedIn(s))
  /\ tracked' = tracked \ trackedIn(s)
  /\ pc' = [c \in Calls |-> IF c \in trackedIn(s) \/ (SessionOf[c] = s /\ pc[c] = "untracked")
                            THEN "unanswered" ELSE wakeReleased(trackedIn(s))[c]]
  /\ UNCHANGED <<departure, leaving, told, sent, answered, lost>>

-----------------------------------------------------------------------------
(* What the bounds take away. *)

(* A kept answer expires after a day, or is pushed out by others. *)
forgetAnswer(u) ==
  /\ kept[u] # "nothing"
  /\ kept' = [kept EXCEPT ![u] = "nothing"]
  /\ lost' = lost \cup {u}
  /\ UNCHANGED <<pc, departure, claim, tracked, leaving, settled, told, sent, answered>>

lapse_WakesNobody(u) ==  \* mutant: a resend waits for a release that never comes
  /\ claim[u] # NoCaller
  /\ claim' = [claim EXCEPT ![u] = NoCaller]
  /\ lost' = lost \cup {u}
  /\ UNCHANGED <<pc, departure, kept, tracked, leaving, settled, told, sent, answered>>

(* A claim nobody released lapses, and a timer wakes those who joined it. *)
lapse(u) ==
  /\ claim[u] # NoCaller
  /\ claim' = [claim EXCEPT ![u] = NoCaller]
  /\ pc' = wakeReleased({claim[u]})
  /\ lost' = lost \cup {u}
  /\ UNCHANGED <<departure, kept, tracked, leaving, settled, told, sent, answered>>

-----------------------------------------------------------------------------
Init ==
  /\ pc = [c \in Calls |-> "idle"]
  /\ departure = [c \in Calls |-> "none"]
  /\ claim = [u \in Uses |-> NoCaller]
  /\ kept = [u \in Uses |-> "nothing"]
  /\ tracked = {}
  /\ leaving = {}
  /\ settled = {}
  /\ told = [c \in Calls |-> "nothing"]
  /\ sent = {}
  /\ answered = {}
  /\ lost = {}

Verdict(c) == verdictDrop(c) \/ forwardTooLate(c) \/ register(c)

(* A joined call that was woken decides again in the same turn. *)
Redecide(c) == pc[c] = "released" /\ (admit(c) \/ applyDeny(c))

Loss(u) == forgetAnswer(u) \/ lapse(u)

Next ==
  \/ \E c \in Calls : \/ admit(c) \/ applyDeny(c)
                      \/ Verdict(c) \/ observeAnswer(c)
                      \/ \E kind \in {"cancel", "abandon"} : departed(c, kind)
  \/ \E s \in Sessions : endSession(s) \/ settle(s)
  \/ \E u \in Uses : Loss(u)

Spec == Init /\ [][Next]_deliveryVars

Decide(c) == Verdict(c) \/ Redecide(c)

(* A decision ends (a held call's request expires), a woken resend runs,   *)
(* and a claim's timer fires.  The server owes nothing, and no session has *)
(* to end.                                                                 *)
Fairness ==
  /\ \A c \in Calls : WF_deliveryVars(Decide(c))
  /\ \A u \in Uses : WF_deliveryVars(lapse(u))

FairSpec == Spec /\ Fairness

-----------------------------------------------------------------------------
(* Properties. *)

(* Every variable of the delivery has the shape of the state it models. *)
TypeOK ==
  /\ pc \in [Calls -> {"idle", "forwarded", "untracked"} \cup Undecided \cup Over]
  /\ departure \in [Calls -> {"none", "cancel", "abandon"}]
  /\ claim \in [Uses -> Calls \cup {NoCaller}]
  /\ kept \in [Uses -> Says \cup {"nothing"}]
  /\ tracked \subseteq Calls
  /\ leaving \subseteq Sessions
  /\ settled \subseteq leaving
  /\ told \in [Calls -> Says \cup {"nothing", "refused"}]
  /\ sent \subseteq Calls
  /\ answered \subseteq sent
  /\ lost \subseteq Uses

(* Nothing is sent to the server twice (gate-delivery-join.ts): whatever resends *)
(* of a tool use arrive, on whichever session and at whatever moment, the server *)
(* sees it once, unless a bound of the table (a day, its bytes, the 25 hours of  *)
(* a claim) took away what it knew.                                              *)
RunsOnce == \A c, d \in sent : c # d /\ UseOf[c] = UseOf[d] /\ UseOf[c] # NoUse => UseOf[c] \in lost

(* A claim is never leaked: whoever holds a tool use is being decided or is at   *)
(* its server with an answer awaited; on every other way out (refusal, failure,  *)
(* cancel, end of the session) the claim goes, or a resend would wait 25 hours.  *)
ClaimHasOwner ==
  \A u \in Uses : claim[u] # NoCaller =>
    /\ UseOf[claim[u]] = u
    /\ \/ pc[claim[u]] = "deciding"
       \/ pc[claim[u]] = "forwarded" /\ claim[u] \in tracked /\ departure[claim[u]] # "cancel"

(* A resend that waits has something to wait for: the claim it joined is still   *)
(* held by another call (tool-use-answers.ts whenReleased and wakeReleased).     *)
JoinedIsWaitedFor ==
  \A c \in Calls : pc[c] = "joined" => UseOf[c] \in Uses /\ claim[UseOf[c]] \notin {NoCaller, c}

(* A tool use that was sent is never without a trace: it is claimed, or an       *)
(* answer to a resend is kept (gate-delivery.ts observeAnswer: "Kept before the  *)
(* claim goes, so a resend never finds neither").                                *)
NeverNeither ==
  \A c \in sent : UseOf[c] \in Uses \ lost => claim[UseOf[c]] # NoCaller \/ kept[UseOf[c]] # "nothing"

(* The truth of what a resend hears: a result, or the note that one was too       *)
(* large, only after the server answered; "it may have run" only of a call that  *)
(* did reach the server (keepAnswer, keepMayHaveRun).                            *)
KeptIsTrue ==
  \A u \in Uses :
    /\ kept[u] \in {"result", "too-large"} => \E c \in answered : UseOf[c] = u
    /\ kept[u] = "may-have-run" => \E c \in sent : UseOf[c] = u

(* A real answer replaces "it may have run" and is never replaced by it, however *)
(* cancels, session ends, the tracking cap and late answers are ordered (the     *)
(* comment of keepMayHaveRun).                                                   *)
ResultStands ==
  [][\A u \in Uses : kept[u] \in {"result", "too-large"} /\ u \notin lost'
                       => kept'[u] # "may-have-run"]_deliveryVars

(* A resend does not wait for ever: the call it joined answers, is let go, or    *)
(* its claim lapses, even when the server never answers.  A call is decided once *)
(* at most, so that all of them end if after a while none is undecided.          *)
ResendsEnd == <>[](\A c \in Calls : pc[c] \notin Undecided)
=============================================================================
