---------------------------- MODULE DeliveryProofs ----------------------------
(***************************************************************************)
(* Call delivery, and the bridge whose retries it admits, for any number   *)
(* of calls, tool uses, attempts and sessions and any bounds.              *)
(*                                                                         *)
(* A tool use runs once (RunsOnce), a claim is never leaked                *)
(* (ClaimHasOwner), a resend never finds neither a claim nor a kept answer *)
(* (NeverNeither), and a real answer stands (ResultStands).  The argument: *)
(* whoever is being decided with the claim of a tool use is the first call *)
(* of it that may go out (DecidingIsFirst).  The claim was free and        *)
(* nothing was kept when it was taken, so by NeverNeither nothing had been *)
(* sent; and while it is held nobody else gets that far.                   *)
(*                                                                         *)
(* Whatever the bridge does, the service sees calls that CallDelivery      *)
(* allows, so it inherits RunsOnce; that its client hears one outcome of a *)
(* call (ClientHearsOnce) needs where a call of the book may stand.        *)
(***************************************************************************)
EXTENDS BridgeRetry, TLAPS

USE DeliveryAssumption DEF Undecided, Over, Says

(* Where a call stands tells whether it was sent, is awaited, was answered. *)
SentMarks ==
  \A c \in Calls : c \in sent <=> pc[c] \in {"forwarded", "untracked", "answered", "unanswered"}
AnsweredMarks == \A c \in answered : pc[c] = "answered"
TrackedMarks == \A c \in Calls : c \in tracked <=> pc[c] = "forwarded"

Marks == TypeOK /\ SentMarks /\ AnsweredMarks /\ TrackedMarks

(* A call being decided in a living session holds its tool use. *)
ClaimWhileDeciding ==
  \A c \in Calls : pc[c] = "deciding" /\ SessionOf[c] \notin leaving /\ UseOf[c] \in Uses \ lost
                     => claim[UseOf[c]] = c

Claims == ClaimHasOwner /\ JoinedIsWaitedFor /\ ClaimWhileDeciding

(* As long as the holder of a tool use is being decided nothing was sent. *)
DecidingIsFirst ==
  \A u \in Uses \ lost : claim[u] # NoCaller /\ pc[claim[u]] = "deciding"
                           => \A d \in sent : UseOf[d] # u

Once == DecidingIsFirst /\ NeverNeither /\ RunsOnce /\ KeptIsTrue

DeliveryInv == Marks /\ Claims /\ Once

LEMMA InitDelivery == Init => DeliveryInv
  <1> SUFFICES ASSUME Init PROVE DeliveryInv
    OBVIOUS
  <1>1. Marks
    BY DEF Init, Marks, TypeOK, SentMarks, AnsweredMarks, TrackedMarks
  <1>2. Claims
    BY DEF Init, Claims, ClaimHasOwner, JoinedIsWaitedFor, ClaimWhileDeciding
  <1>3. Once
    BY DEF Init, Once, DecidingIsFirst, NeverNeither, RunsOnce, KeptIsTrue
  <1> QED  BY <1>1, <1>2, <1>3 DEF DeliveryInv

(* What an awaited answer changes, call by call and tool use by tool use. *)
LEMMA AnswerOfTracked ==
  ASSUME TypeOK, NEW c \in Calls, observeAnswer(c), c \in tracked
  PROVE  /\ pc[c] \in {"forwarded", "untracked"} /\ SessionOf[c] \notin settled
         /\ answered' = answered \cup {c} /\ tracked' = tracked \ {c}
         /\ \E says \in {"result", "too-large"} :
              kept' = [u \in Uses |-> IF u = UseOf[c] THEN says ELSE kept[u]]
         /\ claim' = [u \in Uses |-> IF claim[u] = c THEN NoCaller ELSE claim[u]]
         /\ pc' = [x \in Calls |-> IF x = c THEN "answered"
                                   ELSE IF /\ pc[x] = "joined" /\ UseOf[x] \in Uses
                                           /\ claim[UseOf[x]] = c
                                   THEN "released" ELSE pc[x]]
         /\ told' \in [Calls -> Says \cup {"nothing", "refused"}]
         /\ UNCHANGED <<departure, leaving, settled, sent, lost>>
  <1> USE DEF observeAnswer
  <1>1. \E says \in {"result", "too-large"} :
          kept' = [u \in Uses |-> IF u = UseOf[c] THEN says ELSE kept[u]]
    <2>1. PICK says \in {"result", "too-large"} : kept' = keep(usesOf({c}), says)
      OBVIOUS
    <2>2. \A u \in Uses : u \in usesOf({c}) <=> u = UseOf[c]
      BY DEF usesOf
    <2> QED  BY <2>1, <2>2 DEF keep
  <1>2. claim' = [u \in Uses |-> IF claim[u] = c THEN NoCaller ELSE claim[u]]
    BY DEF releaseClaims
  <1>3. pc' = [x \in Calls |-> IF x = c THEN "answered"
                             ELSE IF /\ pc[x] = "joined" /\ UseOf[x] \in Uses
                                     /\ claim[UseOf[x]] = c
                             THEN "released" ELSE pc[x]]
    BY DEF wakeReleased, isWoken
  <1>4. told' \in [Calls -> Says \cup {"nothing", "refused"}]
    BY DEF TypeOK
  <1> QED  BY <1>1, <1>2, <1>3, <1>4

-----------------------------------------------------------------------------
(* What a step does to where the calls stand. *)

LEMMA MarksStep ==
  ASSUME Marks, [Next]_deliveryVars
  PROVE  Marks'
  <1> USE DEF Marks, TypeOK, SentMarks, AnsweredMarks, TrackedMarks
  <1>1. ASSUME NEW c \in Calls, admit(c) PROVE Marks'
    BY <1>1 DEF admit
  <1>2. ASSUME NEW c \in Calls, applyDeny(c) PROVE Marks'
    BY <1>2 DEF applyDeny
  <1>3. ASSUME NEW c \in Calls, verdictDrop(c) PROVE Marks'
    BY <1>3 DEF verdictDrop, releaseClaims, wakeReleased, isWoken
  <1>4. ASSUME NEW c \in Calls, forwardTooLate(c) PROVE Marks'
    BY <1>4 DEF forwardTooLate, releaseClaims, wakeReleased, isWoken
  <1>5. ASSUME NEW c \in Calls, register(c) PROVE Marks'
    BY <1>5 DEF register, releaseClaims, wakeReleased, isWoken, keepMayHaveRun, keep, usesOf, trackedIn
  <1>6. ASSUME NEW c \in Calls, observeAnswer(c) PROVE Marks'
    <2>1. CASE c \in tracked
      BY <1>6, <2>1, AnswerOfTracked
    <2>2. CASE c \notin tracked
      BY <1>6, <2>2 DEF observeAnswer
    <2> QED  BY <2>1, <2>2
  <1>7. ASSUME NEW c \in Calls, NEW kind \in {"cancel", "abandon"}, departed(c, kind) PROVE Marks'
    BY <1>7 DEF departed, releaseClaims, wakeReleased, isWoken, keepMayHaveRun, keep, usesOf
  <1>8. ASSUME NEW s \in Sessions, endSession(s) PROVE Marks'
    BY <1>8 DEF endSession, joinedIn, trackedIn
  <1>9. ASSUME NEW s \in Sessions, settle(s) PROVE Marks'
    BY <1>9 DEF settle, releaseClaims, wakeReleased, isWoken, keepMayHaveRun, keep, usesOf, trackedIn
  <1>10. ASSUME NEW u \in Uses, forgetAnswer(u) PROVE Marks'
    BY <1>10 DEF forgetAnswer
  <1>11. ASSUME NEW u \in Uses, lapse(u) PROVE Marks'
    BY <1>11 DEF lapse, wakeReleased, isWoken
  <1>12. CASE UNCHANGED deliveryVars
    BY <1>12 DEF deliveryVars
  <1> QED
    BY <1>1, <1>2, <1>3, <1>4, <1>5, <1>6, <1>7, <1>8, <1>9, <1>10, <1>11, <1>12 DEF Next, Verdict, Loss

-----------------------------------------------------------------------------
(* What it does to the claims. *)

LEMMA ClaimsStep ==
  ASSUME Marks, Claims, [Next]_deliveryVars
  PROVE  Claims'
  <1> USE DEF Marks, Claims, TypeOK, TrackedMarks, SentMarks, ClaimHasOwner, JoinedIsWaitedFor, ClaimWhileDeciding
  <1>1. ASSUME NEW c \in Calls, admit(c) PROVE Claims'
    BY <1>1 DEF admit
  <1>2. ASSUME NEW c \in Calls, applyDeny(c) PROVE Claims'
    BY <1>2 DEF applyDeny
  <1>3. ASSUME NEW c \in Calls, verdictDrop(c) PROVE Claims'
    BY <1>3 DEF verdictDrop, releaseClaims, wakeReleased, isWoken
  <1>4. ASSUME NEW c \in Calls, forwardTooLate(c) PROVE Claims'
    BY <1>4 DEF forwardTooLate, releaseClaims, wakeReleased, isWoken
  <1>5. ASSUME NEW c \in Calls, register(c) PROVE Claims'
    BY <1>5 DEF register, releaseClaims, wakeReleased, isWoken, keepMayHaveRun, keep, usesOf, trackedIn
  <1>6. ASSUME NEW c \in Calls, observeAnswer(c) PROVE Claims'
    <2>1. CASE c \in tracked
      BY <1>6, <2>1, AnswerOfTracked
    <2>2. CASE c \notin tracked
      BY <1>6, <2>2 DEF observeAnswer
    <2> QED  BY <2>1, <2>2
  <1>7. ASSUME NEW c \in Calls, NEW kind \in {"cancel", "abandon"}, departed(c, kind) PROVE Claims'
    BY <1>7 DEF departed, releaseClaims, wakeReleased, isWoken, keepMayHaveRun, keep, usesOf
  <1>8. ASSUME NEW s \in Sessions, endSession(s) PROVE Claims'
    BY <1>8 DEF endSession, joinedIn, trackedIn
  <1>9. ASSUME NEW s \in Sessions, settle(s) PROVE Claims'
    BY <1>9 DEF settle, releaseClaims, wakeReleased, isWoken, keepMayHaveRun, keep, usesOf, trackedIn
  <1>10. ASSUME NEW u \in Uses, forgetAnswer(u) PROVE Claims'
    BY <1>10 DEF forgetAnswer
  <1>11. ASSUME NEW u \in Uses, lapse(u) PROVE Claims'
    BY <1>11 DEF lapse, wakeReleased, isWoken
  <1>12. CASE UNCHANGED deliveryVars
    BY <1>12 DEF deliveryVars
  <1> QED
    BY <1>1, <1>2, <1>3, <1>4, <1>5, <1>6, <1>7, <1>8, <1>9, <1>10, <1>11, <1>12 DEF Next, Verdict, Loss

-----------------------------------------------------------------------------
(* What it does to what was sent and what is kept. *)

LEMMA OnceStep ==
  ASSUME Marks, Claims, Once, [Next]_deliveryVars
  PROVE  Once'
  <1> USE DEF Marks, Claims, Once, TypeOK, SentMarks, AnsweredMarks, TrackedMarks, ClaimHasOwner, ClaimWhileDeciding, DecidingIsFirst, NeverNeither, RunsOnce, KeptIsTrue
  <1>1. ASSUME NEW c \in Calls, admit(c) PROVE Once'
    BY <1>1 DEF admit
  <1>2. ASSUME NEW c \in Calls, applyDeny(c) PROVE Once'
    BY <1>2 DEF applyDeny
  <1>3. ASSUME NEW c \in Calls, verdictDrop(c) PROVE Once'
    BY <1>3 DEF verdictDrop, releaseClaims, wakeReleased, isWoken
  <1>4. ASSUME NEW c \in Calls, forwardTooLate(c) PROVE Once'
    BY <1>4 DEF forwardTooLate, releaseClaims, wakeReleased, isWoken
  <1>5. ASSUME NEW c \in Calls, register(c) PROVE Once'
    BY <1>5 DEF register, releaseClaims, wakeReleased, isWoken, keepMayHaveRun, keep, usesOf, trackedIn
  <1>6. ASSUME NEW c \in Calls, observeAnswer(c) PROVE Once'
    <2>1. CASE c \in tracked
      BY <1>6, <2>1, AnswerOfTracked
    <2>2. CASE c \notin tracked
      BY <1>6, <2>2 DEF observeAnswer
    <2> QED  BY <2>1, <2>2
  <1>7. ASSUME NEW c \in Calls, NEW kind \in {"cancel", "abandon"}, departed(c, kind) PROVE Once'
    BY <1>7 DEF departed, releaseClaims, wakeReleased, isWoken, keepMayHaveRun, keep, usesOf
  <1>8. ASSUME NEW s \in Sessions, endSession(s) PROVE Once'
    BY <1>8 DEF endSession, joinedIn, trackedIn
  <1>9. ASSUME NEW s \in Sessions, settle(s) PROVE Once'
    BY <1>9 DEF settle, releaseClaims, wakeReleased, isWoken, keepMayHaveRun, keep, usesOf, trackedIn
  <1>10. ASSUME NEW u \in Uses, forgetAnswer(u) PROVE Once'
    BY <1>10 DEF forgetAnswer
  <1>11. ASSUME NEW u \in Uses, lapse(u) PROVE Once'
    BY <1>11 DEF lapse, wakeReleased, isWoken
  <1>12. CASE UNCHANGED deliveryVars
    BY <1>12 DEF deliveryVars
  <1> QED
    BY <1>1, <1>2, <1>3, <1>4, <1>5, <1>6, <1>7, <1>8, <1>9, <1>10, <1>11, <1>12 DEF Next, Verdict, Loss

-----------------------------------------------------------------------------
(* The inductive invariant of the delivery, for any calls, tool uses,       *)
(* sessions and bounds: who holds a tool use is the first of it to go out.  *)
THEOREM DeliveryInvariant == Spec => []DeliveryInv
  <1>1. DeliveryInv /\ [Next]_deliveryVars => DeliveryInv'
    BY MarksStep, ClaimsStep, OnceStep DEF DeliveryInv
  <1> QED  BY <1>1, InitDelivery, PTL DEF Spec

(* Every variable of the delivery keeps its shape. *)
THEOREM DeliveryTypeCorrect == Spec => []TypeOK
  <1>1. DeliveryInv => TypeOK
    BY DEF DeliveryInv, Marks
  <1> QED  BY <1>1, DeliveryInvariant, PTL

(* Nothing is sent to the server twice, whatever resends of a tool use       *)
(* arrive (gate-delivery-join.ts).                                           *)
THEOREM ToolUsesRunOnce == Spec => []RunsOnce
  <1>1. DeliveryInv => RunsOnce
    BY DEF DeliveryInv, Once
  <1> QED  BY <1>1, DeliveryInvariant, PTL

(* No way out of a call leaks the claim it held (tool-use-answers.ts).       *)
THEOREM ClaimsHaveOwners == Spec => []ClaimHasOwner
  <1>1. DeliveryInv => ClaimHasOwner
    BY DEF DeliveryInv, Claims
  <1> QED  BY <1>1, DeliveryInvariant, PTL

(* A resend that waits has a claim of another call to wait for               *)
(* (tool-use-answers.ts, whenReleased).                                      *)
THEOREM ResendsWaitForSomebody == Spec => []JoinedIsWaitedFor
  <1>1. DeliveryInv => JoinedIsWaitedFor
    BY DEF DeliveryInv, Claims
  <1> QED  BY <1>1, DeliveryInvariant, PTL

(* A resend never finds neither a claim nor a kept answer of what was sent    *)
(* (gate-delivery.ts, observeAnswer).                                        *)
THEOREM TraceIsLeft == Spec => []NeverNeither
  <1>1. DeliveryInv => NeverNeither
    BY DEF DeliveryInv, Once
  <1> QED  BY <1>1, DeliveryInvariant, PTL

(* What a resend hears happened: keepAnswer and keepMayHaveRun.              *)
THEOREM KeptAnswersAreTrue == Spec => []KeptIsTrue
  <1>1. DeliveryInv => KeptIsTrue
    BY DEF DeliveryInv, Once
  <1> QED  BY <1>1, DeliveryInvariant, PTL

-----------------------------------------------------------------------------
(* A note that a call may have run is only kept of one that still can be     *)
(* answered, or has just been sent, and then nothing real is kept.           *)
LEMMA NotesAreFirst ==
  ASSUME DeliveryInv, NEW c \in Calls, UseOf[c] \in Uses \ lost,
         \/ c \in tracked
         \/ pc[c] = "deciding" /\ SessionOf[c] \notin leaving
  PROVE  kept[UseOf[c]] \notin {"result", "too-large"}
  <1> SUFFICES ASSUME kept[UseOf[c]] \in {"result", "too-large"} PROVE FALSE
    OBVIOUS
  <1>1. PICK d \in answered : UseOf[d] = UseOf[c]
    BY DEF DeliveryInv, Once, KeptIsTrue
  <1>2. d \in sent /\ d \in Calls /\ pc[d] = "answered"
    BY <1>1 DEF DeliveryInv, Marks, TypeOK, AnsweredMarks
  <1>3. CASE c \in tracked
    BY <1>1, <1>2, <1>3 DEF DeliveryInv, Marks, TrackedMarks, SentMarks, Once, RunsOnce
  <1>4. CASE pc[c] = "deciding" /\ SessionOf[c] \notin leaving
    <2>1. claim[UseOf[c]] = c
      BY <1>4 DEF DeliveryInv, Claims, ClaimWhileDeciding
    <2> QED
      BY <1>1, <1>2, <1>4, <2>1 DEF DeliveryInv, Once, DecidingIsFirst
  <1> QED  BY <1>3, <1>4

(* Such a note is only written for such calls. *)
LEMMA NotesOfAwaited ==
  ASSUME TypeOK, TrackedMarks, [Next]_deliveryVars, NEW u \in Uses,
         kept'[u] = "may-have-run", kept[u] # "may-have-run"
  PROVE  \E c \in Calls : /\ UseOf[c] = u
                         /\ \/ c \in tracked
                            \/ pc[c] = "deciding" /\ SessionOf[c] \notin leaving
  <1> USE DEF TypeOK, TrackedMarks
  <1>1. ASSUME NEW c \in Calls, register(c)
        PROVE  \E d \in Calls : UseOf[d] = u /\ (d \in tracked \/ d = c)
    BY <1>1 DEF register, keepMayHaveRun, keep, usesOf, trackedIn
  <1>2. ASSUME NEW c \in Calls, \E kind \in {"cancel", "abandon"} : departed(c, kind)
        PROVE  UseOf[c] = u /\ c \in tracked
    BY <1>2 DEF departed, keepMayHaveRun, keep, usesOf
  <1>3. ASSUME NEW s \in Sessions, settle(s)
        PROVE  \E d \in Calls : UseOf[d] = u /\ d \in tracked
    BY <1>3 DEF settle, keepMayHaveRun, keep, usesOf, trackedIn
  <1>4. ASSUME NEW c \in Calls, observeAnswer(c) PROVE FALSE
    <2>1. CASE c \in tracked
      BY <1>4, <2>1, AnswerOfTracked
    <2>2. CASE c \notin tracked
      BY <1>4, <2>2 DEF observeAnswer
    <2> QED  BY <2>1, <2>2
  <1>5. ASSUME NEW c \in Calls,
               admit(c) \/ applyDeny(c) \/ verdictDrop(c) \/ forwardTooLate(c)
        PROVE  FALSE
    BY <1>5 DEF admit, applyDeny, verdictDrop, forwardTooLate
  <1>6. ASSUME NEW s \in Sessions, endSession(s) PROVE FALSE
    BY <1>6 DEF endSession
  <1>7. ASSUME NEW v \in Uses, Loss(v) PROVE FALSE
    BY <1>7 DEF Loss, forgetAnswer, lapse
  <1>8. CASE UNCHANGED deliveryVars
    BY <1>8 DEF deliveryVars
  <1>9. ASSUME NEW c \in Calls, register(c)
        PROVE  pc[c] = "deciding" /\ SessionOf[c] \notin leaving
    BY <1>9 DEF register
  <1> QED
    BY <1>1, <1>2, <1>3, <1>4, <1>5, <1>6, <1>7, <1>8, <1>9 DEF Next, Verdict

(* A real answer is never replaced by the note that a call may have run,      *)
(* however cancels, ends, the tracking cap and late answers are ordered.      *)
THEOREM ResultsStand == Spec => ResultStands
  <1>1. ASSUME DeliveryInv, [Next]_deliveryVars, NEW u \in Uses,
               kept[u] \in {"result", "too-large"}, u \notin lost'
        PROVE  kept'[u] # "may-have-run"
    <2>1. u \in Uses \ lost
      <3>1. lost \subseteq lost'
        BY <1>1 DEF Next, Verdict, Loss, admit, applyDeny, verdictDrop, forwardTooLate, register,
             observeAnswer, departed, endSession, settle, forgetAnswer, lapse, deliveryVars
      <3> QED  BY <1>1, <3>1
    <2> SUFFICES ASSUME kept'[u] = "may-have-run" PROVE FALSE
      OBVIOUS
    <2>2. PICK c \in Calls : /\ UseOf[c] = u
                            /\ \/ c \in tracked
                               \/ pc[c] = "deciding" /\ SessionOf[c] \notin leaving
      BY <1>1, NotesOfAwaited DEF DeliveryInv, Marks
    <2> QED  BY <1>1, <2>1, <2>2, NotesAreFirst
  <1>2. DeliveryInv /\ [Next]_deliveryVars =>
          [\A u \in Uses : kept[u] \in {"result", "too-large"} /\ u \notin lost'
                              => kept'[u] # "may-have-run"]_deliveryVars
    BY <1>1
  <1> QED  BY <1>2, DeliveryInvariant, PTL DEF Spec, ResultStands

-----------------------------------------------------------------------------
HIDE DeliveryAssumption DEF Undecided, Over, Says

(* The bridge only chooses among the calls the service may be sent.  *)
THEOREM BridgeImplementsDelivery == BridgeSpec => Spec
  <1>1. BridgeInit => Init
    BY DEF BridgeInit
  <1>2. BridgeNext => [Next]_deliveryVars
    BY DEF BridgeNext, Service, Bridge, PostStep, Arrive, Departs, Next
  <1>3. UNCHANGED allVars => UNCHANGED deliveryVars
    BY DEF allVars
  <1> QED  BY <1>1, <1>2, <1>3, PTL DEF BridgeSpec, Spec

(* Attempts under fresh ids and their resends never make a tool use run  *)
(* twice (retry.ts with gate-delivery-join.ts).                          *)
THEOREM RetriesRunOnce == BridgeSpec => []RunsOnce
  BY BridgeImplementsDelivery, ToolUsesRunOnce, PTL

-----------------------------------------------------------------------------
(* Where a call may stand: only a call the client sent is in the book, and *)
(* one that left it while its POST was out was cancelled or answered.      *)
Standing(u) ==
  /\ stage[u] \in {"idle", "out", "pausing", "over"}
  /\ attempt[u] \in 0..Len(Attempts[u])
  /\ stage[u] = "idle" => attempt[u] = 0 /\ u \notin book \cup bookCancelled \cup bookAnswered
  /\ stage[u] # "idle" => attempt[u] >= 1
  /\ stage[u] = "pausing" => attempt[u] < Len(Attempts[u])
  /\ u \in bookCancelled => u \notin book
  /\ stage[u] \in {"out", "pausing"} /\ u \notin book => u \in bookCancelled \cup bookAnswered

(* What the client has heard: nothing more comes once it heard something. *)
Hearing(u) ==
  /\ heard[u] \in 0..1
  /\ stage[u] = "idle" => heard[u] = 0
  /\ stage[u] = "pausing" => heard[u] = 0 /\ u \notin bookAnswered
  /\ stage[u] = "out" => \/ heard[u] = 0 \/ u \in bookAnswered
                         \/ u \in bookCancelled /\ post[current(u)] = "read"

CancelSent(u) == u \in bookCancelled /\ stage[u] = "out" => current(u) \in cancels

InvOf(u) == Standing(u) /\ Hearing(u) /\ CancelSent(u)

Shape ==
  /\ stage = [u \in Uses |-> stage[u]]
  /\ attempt = [u \in Uses |-> attempt[u]]
  /\ post \in [Calls -> {"none", "open", "read", "dropped", "done"}]
  /\ book \cup bookAnswered \cup bookCancelled \subseteq Uses
  /\ cancels \subseteq BridgeCalls
  /\ heard = [u \in Uses |-> heard[u]]
  /\ isSettled \in BOOLEAN

BridgeInv == Shape /\ \A u \in Uses : InvOf(u)

USE AttemptsAssumption

LEMMA AttemptFacts ==
  ASSUME NEW u \in Uses
  PROVE  /\ Len(Attempts[u]) \in Nat
         /\ Attempts[u] # <<>> => Len(Attempts[u]) >= 1
         /\ \A i \in 1..Len(Attempts[u]) :
              /\ Attempts[u][i] \in Calls /\ Attempts[u][i] \in BridgeCalls
              /\ UseOf[Attempts[u][i]] = u
  <1>1. Attempts[u] \in Seq(Calls)
    OBVIOUS
  <1>2. Len(Attempts[u]) \in Nat /\ DOMAIN Attempts[u] = 1..Len(Attempts[u])
    BY <1>1
  <1>3. Attempts[u] # <<>> => Len(Attempts[u]) >= 1
    BY <1>1
  <1>4. \A i \in 1..Len(Attempts[u]) : Attempts[u][i] \in Calls
    BY <1>1
  <1>5. \A i \in 1..Len(Attempts[u]) : UseOf[Attempts[u][i]] = u
    BY <1>2
  <1>6. \A i \in 1..Len(Attempts[u]) : Attempts[u][i] \in BridgeCalls
    BY <1>2, <1>4 DEF BridgeCalls
  <1> QED  BY <1>2, <1>3, <1>4, <1>5, <1>6

LEMMA InitBridge == BridgeInit => BridgeInv
  <1> SUFFICES ASSUME BridgeInit PROVE BridgeInv
    OBVIOUS
  <1>1. Shape
    BY DEF BridgeInit, Shape
  <1>2. ASSUME NEW u \in Uses PROVE InvOf(u)
    <2>1. 0 \in 0..Len(Attempts[u])
      BY AttemptFacts
    <2> QED  BY <2>1 DEF BridgeInit, InvOf, Standing, Hearing, CancelSent
  <1> QED  BY <1>1, <1>2 DEF BridgeInv

(* The POST of another tool use is another POST. *)
LEMMA CurrentFacts ==
  ASSUME NEW u \in Uses, Standing(u), stage[u] # "idle"
  PROVE  /\ current(u) \in Calls /\ UseOf[current(u)] = u /\ current(u) \in BridgeCalls
         /\ stage[u] = "pausing" => /\ Attempts[u][attempt[u] + 1] \in Calls
                                    /\ UseOf[Attempts[u][attempt[u] + 1]] = u
         /\ Attempts[u][1] \in BridgeCalls
  <1>1. Len(Attempts[u]) \in Nat /\ attempt[u] \in 1..Len(Attempts[u])
    BY AttemptFacts DEF Standing
  <1>2. stage[u] = "pausing" => attempt[u] + 1 \in 1..Len(Attempts[u])
    BY <1>1 DEF Standing
  <1>3. 1 \in 1..Len(Attempts[u])
    BY <1>1
  <1> QED  BY <1>1, <1>2, <1>3, AttemptFacts DEF current

-----------------------------------------------------------------------------
(* The steps of one call: each leaves every other tool use, and its POST,   *)
(* alone.                                                                   *)
Apart(u) ==
  /\ Shape'
  /\ \A v \in Uses \ {u} :
       /\ stage'[v] = stage[v] /\ attempt'[v] = attempt[v] /\ heard'[v] = heard[v]
       /\ v \in book' <=> v \in book
       /\ v \in bookAnswered' <=> v \in bookAnswered
       /\ v \in bookCancelled' <=> v \in bookCancelled
       /\ stage[v] # "idle" => post'[current(v)] = post[current(v)]
  /\ cancels \subseteq cancels'

LEMMA OthersKeep ==
  ASSUME BridgeInv, NEW u \in Uses, Apart(u), NEW v \in Uses \ {u}
  PROVE  InvOf(v)'
  <1>1. InvOf(v)
    BY DEF BridgeInv
  <1>2. current(v)' = current(v)
    BY DEF Apart, current
  <1>3. Standing(v)'
    BY <1>1 DEF Apart, InvOf, Standing
  <1>4. Hearing(v)' /\ CancelSent(v)'
    BY <1>1, <1>2 DEF Apart, InvOf, Hearing, CancelSent
  <1> QED  BY <1>3, <1>4 DEF InvOf

LEMMA CallSteps ==
  ASSUME BridgeInv, NEW u \in Uses,
         \/ begin(u) \/ pauseFor(u) \/ cancel(u) \/ answerFor(u) \/ writeDone(u)
         \/ \E kind \in {"network", "other", "fatal"} : writeFails(u, kind)
  PROVE  Apart(u) /\ InvOf(u)'
  <1> USE DEF Standing, Hearing, CancelSent
  <1>0. Shape /\ InvOf(u)
    BY DEF BridgeInv
  <1>1. \A v \in Uses : stage[v] # "idle" => current(v) \in Calls /\ UseOf[current(v)] = v
    BY CurrentFacts DEF BridgeInv, InvOf
  <1>2. CASE begin(u)
    <2>1. /\ Attempts[u][1] \in Calls /\ UseOf[Attempts[u][1]] = u
          /\ Len(Attempts[u]) \in Nat /\ Len(Attempts[u]) >= 1
      BY <1>2, AttemptFacts DEF begin
    <2>2. Apart(u)
      BY <1>0, <1>1, <1>2, <2>1 DEF begin, Apart, Shape, current
    <2>3. InvOf(u)'
      BY <1>0, <1>2, <2>1 DEF begin, Shape, InvOf
    <2> QED  BY <2>2, <2>3
  <1>3. CASE pauseFor(u)
    <2>1. /\ Attempts[u][attempt[u] + 1] \in Calls
          /\ UseOf[Attempts[u][attempt[u] + 1]] = u
      BY <1>0, <1>3, CurrentFacts DEF pauseFor, InvOf
    <2>2. Apart(u)
      <3>1. \A v \in Uses \ {u} : stage[v] # "idle" => current(v) # Attempts[u][attempt[u] + 1]
        BY <1>1, <2>1
      <3>2. Shape'
        <4>1. CASE ~isSettled /\ u \in book
          BY <1>0, <1>3, <2>1, <4>1 DEF pauseFor, Shape
        <4>2. CASE ~(~isSettled /\ u \in book)
          BY <1>0, <1>3, <4>2 DEF pauseFor, giveUp, toClient, Shape
        <4> QED  BY <4>1, <4>2
      <3>3. \A v \in Uses \ {u} : stage[v] # "idle" => post'[current(v)] = post[current(v)]
        BY <1>0, <1>1, <1>3, <3>1 DEF pauseFor, giveUp, Shape
      <3> QED
        BY <1>0, <1>3, <3>2, <3>3 DEF pauseFor, giveUp, toClient, Apart, Shape
    <2>3. InvOf(u)'
      BY <1>0, <1>3, <2>1, AttemptFacts DEF pauseFor, giveUp, toClient, Shape, InvOf
    <2> QED  BY <2>2, <2>3
  <1>4. CASE cancel(u)
    <2>0. stage[u] # "idle" /\ heard[u] = 0 /\ u \notin bookCancelled
      BY <1>4 DEF cancel
    <2>1. liveCall(u) \in BridgeCalls /\ Attempts[u][1] \in BridgeCalls
      BY <1>0, <2>0, CurrentFacts DEF liveCall, InvOf
    <2>2. Apart(u)
      BY <1>0, <1>1, <1>4, <2>1 DEF cancel, Apart, Shape, current
    <2>3. stage[u] = "out" => liveCall(u) = current(u)
      BY <1>0 DEF liveCall, isRetry, current, InvOf
    <2>4. current(u)' = current(u)
      BY <1>4 DEF cancel, current
    <2>5. Standing(u)'
      BY <1>0, <1>4, <2>0 DEF cancel, InvOf
    <2>6. Hearing(u)'
      BY <1>0, <1>4, <2>0 DEF cancel, InvOf
    <2>7. CancelSent(u)'
      BY <1>4, <2>0, <2>3, <2>4 DEF cancel
    <2> QED  BY <2>2, <2>5, <2>6, <2>7 DEF InvOf
  <1>5. CASE answerFor(u)
    <2>1. Apart(u)
      <3>1. \A v \in Uses \ {u} : stage[v] # "idle" => post'[current(v)] = post[current(v)]
        <4>1. \A v \in Uses \ {u} : stage[v] # "idle" => current(v) # current(u)
          BY <1>1, <1>5 DEF answerFor
        <4> QED  BY <1>0, <1>1, <1>5, <4>1 DEF answerFor, Shape
      <3>2. Shape'
        <4>1. CASE u \in bookAnswered
          BY <1>0, <1>5, <4>1 DEF answerFor, Shape
        <4>2. CASE u \notin bookAnswered
          <5>1. heard' = [v \in Uses |-> heard'[v]]
            BY <1>0, <1>5, <4>2 DEF answerFor, toClient, Shape
          <5>2. post' \in [Calls -> {"none", "open", "read", "dropped", "done"}]
            BY <1>0, <1>5 DEF answerFor, Shape
          <5>3. book' \subseteq book /\ bookAnswered' \subseteq bookAnswered \cup {u}
            BY <1>5, <4>2 DEF answerFor
          <5>4. bookCancelled' = bookCancelled
            BY <1>5 DEF answerFor
          <5> QED  BY <1>0, <1>5, <5>1, <5>2, <5>3, <5>4 DEF answerFor, Shape
        <4> QED  BY <4>1, <4>2
      <3> QED  BY <1>0, <1>5, <3>1, <3>2 DEF answerFor, toClient, Apart, Shape
    <2>2. current(u)' = current(u) /\ post'[current(u)] = "read" /\ stage' = stage
      <3>1. stage[u] = "out" /\ current(u) \in Calls
        BY <1>1, <1>5 DEF answerFor
      <3>2. post'[current(u)] = "read"
        BY <1>0, <1>5, <3>1 DEF answerFor, Shape
      <3> QED  BY <1>5, <3>2 DEF answerFor, current
    <2>3. Standing(u)'
      BY <1>0, <1>5 DEF answerFor, InvOf
    <2>4. Hearing(u)'
      <3>1. CASE u \in bookAnswered
        BY <1>0, <1>5, <3>1 DEF answerFor, InvOf
      <3>2. CASE u \notin bookAnswered
        <4>1. heard[u] = 0
          BY <1>0, <1>5, <3>2 DEF answerFor, InvOf
        <4>2. heard'[u] = 1
          BY <1>0, <1>5, <3>2, <4>1 DEF answerFor, toClient, Shape
        <4>3. u \in bookAnswered' \/ u \in bookCancelled'
          BY <1>0, <1>5, <3>2 DEF answerFor, InvOf
        <4> QED  BY <1>5, <2>2, <4>2, <4>3 DEF answerFor
      <3> QED  BY <3>1, <3>2
    <2>5. CancelSent(u)'
      BY <1>0, <1>5, <2>2 DEF answerFor, InvOf
    <2> QED  BY <2>1, <2>3, <2>4, <2>5 DEF InvOf
  <1>6. CASE writeDone(u)
    <2>1. Apart(u)
      <3>1. \A v \in Uses \ {u} : stage[v] # "idle" => post'[current(v)] = post[current(v)]
        <4>1. \A v \in Uses \ {u} : stage[v] # "idle" => current(v) # current(u)
          BY <1>1, <1>6 DEF writeDone
        <4> QED  BY <1>0, <1>1, <1>6, <4>1 DEF writeDone, Shape
      <3>2. Shape'
        BY <1>0, <1>6 DEF writeDone, Shape
      <3> QED  BY <1>0, <1>6, <3>1, <3>2 DEF writeDone, Apart, Shape
    <2>2. stage'[u] = "over" /\ heard'[u] = heard[u] /\ attempt'[u] = attempt[u]
      BY <1>0, <1>6 DEF writeDone, Shape
    <2>3. Standing(u)'
      BY <1>0, <1>6, <2>2 DEF writeDone, InvOf
    <2>4. Hearing(u)' /\ CancelSent(u)'
      BY <1>0, <2>2 DEF InvOf
    <2> QED  BY <2>1, <2>3, <2>4 DEF InvOf
  <1>7. ASSUME NEW kind \in {"network", "other", "fatal"}, writeFails(u, kind)
        PROVE  Apart(u) /\ InvOf(u)'
    <2>1. Apart(u)
      BY <1>0, <1>1, <1>7 DEF writeFails, giveUp, toClient, Apart, Shape, InvOf, current
    <2>2. InvOf(u)'
      BY <1>0, <1>1, <1>7, AttemptFacts DEF writeFails, giveUp, toClient, Shape, InvOf, current
    <2> QED  BY <2>1, <2>2
  <1> QED  BY <1>2, <1>3, <1>4, <1>5, <1>6, <1>7

LEMMA BridgeStep == BridgeInv /\ [BridgeNext]_allVars => BridgeInv'
  <1> SUFFICES ASSUME BridgeInv, [BridgeNext]_allVars PROVE BridgeInv'
    OBVIOUS
  <1> USE DEF InvOf, Standing, Hearing, CancelSent
  <1>1. CASE UNCHANGED bridgeVars
    BY <1>1 DEF bridgeVars, BridgeInv, Shape, current
  <1>2. CASE endClientSide
    BY <1>2 DEF endClientSide, BridgeInv, Shape, current
  <1>3. ASSUME NEW u \in Uses, Apart(u), InvOf(u)' PROVE BridgeInv'
    <2>1. \A v \in Uses : InvOf(v)'
      BY <1>3, OthersKeep
    <2>2. Shape'
      BY <1>3 DEF Apart
    <2> QED  BY <2>1, <2>2 DEF BridgeInv
  <1> QED
    BY <1>1, <1>2, <1>3, CallSteps DEF BridgeNext, Service, Bridge, PostStep, allVars

(* The inductive invariant of the bridge: where a call of the book stands,  *)
(* and what its client has heard.                                           *)
THEOREM BridgeInvariant == BridgeSpec => []BridgeInv
  BY InitBridge, BridgeStep, PTL DEF BridgeSpec

(* The client hears at most one outcome under its id (answerFor, giveUp).   *)
THEOREM ClientsHearOnce == BridgeSpec => []ClientHearsOnce
  <1>1. BridgeInv => ClientHearsOnce
    BY DEF BridgeInv, InvOf, Hearing, ClientHearsOnce
  <1> QED  BY <1>1, BridgeInvariant, PTL

(* The cancel names the attempt that is out (cancelOfAttempt).              *)
THEOREM CancelsNameTheAttempt == BridgeSpec => []CancelNamesLiveAttempt
  <1>1. BridgeInv => CancelNamesLiveAttempt
    BY DEF BridgeInv, Shape, InvOf, CancelSent, CancelNamesLiveAttempt
  <1> QED  BY <1>1, BridgeInvariant, PTL

(* A cancelled call is not sent again, nor any once the bridge has ended    *)
(* (pauseFor).                                                              *)
THEOREM CancelledIsNotRetried == BridgeSpec => NoRetryAfterCancel
  <1>1. ASSUME BridgeInv, [BridgeNext]_allVars, NEW u \in Uses, attempt'[u] > attempt[u]
        PROVE  u \notin bookCancelled /\ ~isSettled
    <2>0. Standing(u) /\ Shape
      BY <1>1 DEF BridgeInv, InvOf
    <2>1. \E v \in Uses : begin(v) \/ pauseFor(v)
      <3>1. attempt' # attempt
        BY <1>1, <2>0, AttemptFacts DEF Standing
      <3> QED
        BY <1>1, <3>1 DEF BridgeNext, Service, Bridge, PostStep, allVars, bridgeVars,
           cancel, endClientSide, answerFor, writeDone, writeFails
    <2>2. PICK v \in Uses : begin(v) \/ pauseFor(v)
      BY <2>1
    <2>3. v = u
      BY <1>1, <2>0, <2>2, AttemptFacts DEF begin, pauseFor, Shape, Standing
    <2>4. CASE begin(u)
      BY <2>0, <2>4 DEF begin, Standing
    <2>5. CASE pauseFor(u)
      BY <1>1, <2>0, <2>5, AttemptFacts DEF pauseFor, Standing
    <2> QED  BY <2>2, <2>3, <2>4, <2>5
  <1>2. BridgeInv /\ [BridgeNext]_allVars =>
          [\A u \in Uses : attempt'[u] > attempt[u] => u \notin bookCancelled /\ ~isSettled]_allVars
    BY <1>1
  <1> QED  BY <1>2, BridgeInvariant, PTL DEF BridgeSpec, NoRetryAfterCancel
=============================================================================
