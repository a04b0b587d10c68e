------------------------------ MODULE BridgeRetry ------------------------------
(***************************************************************************)
(* `connect --url` (bridge/pump.ts, retry.ts): a client behind a bridge    *)
(* whose connection to the service drops, composed with what the service   *)
(* does with the calls it receives (CallDelivery).  Each attempt is a POST *)
(* and a call of the service under an id of its own; the client knows the  *)
(* tool use by one id.  A dropped POST may have reached the service, reach *)
(* it later, or never.                                                     *)
(*                                                                         *)
(* Only calls with a tool-use id are followed: the others are sent once.   *)
(* The bounds of the book (1 024 calls, 256 answers remembered) and of the *)
(* requests a session remembers as abandoned are taken not to be reached.  *)
(***************************************************************************)
EXTENDS CallDelivery, Sequences

CONSTANT Attempts  \* per tool use, the calls it is sent as: the client's id first, then the retries

BridgeCalls == {c \in Calls : \E u \in Uses : \E i \in DOMAIN Attempts[u] : Attempts[u][i] = c}

ASSUME AttemptsAssumption ==
  /\ Attempts \in [Uses -> Seq(Calls)]
  /\ \A u \in Uses : \A i, j \in DOMAIN Attempts[u] :
       UseOf[Attempts[u][i]] = u /\ (Attempts[u][i] = Attempts[u][j] => i = j)

VARIABLES
  stage,     \* sendWithRetries of a tool use: idle, out, pausing, over
  attempt,   \* the attempt that is out, or failed last; 0 before the first
  post,      \* a POST as the bridge sees it: none, open, read (its answer), dropped, done
  book,      \* calls of the retry book: tool uses that may be sent again
  bookAnswered, \* answered: the client has its answer
  bookCancelled,
  cancels,   \* calls a cancel is on its way for
  heard,     \* answers the client got for its id
  isSettled  \* the bridge has ended

bridgeVars == <<stage, attempt, post, book, bookAnswered, bookCancelled, cancels, heard, isSettled>>

current(u) == Attempts[u][attempt[u]]
isRetry(u) == attempt[u] > 1

(* The attempt a cancel names: the one out now, else the client's own id (BookEntry.live). *)
liveCall(u) == IF isRetry(u) /\ stage[u] # "pausing" THEN current(u) ELSE Attempts[u][1]

toClient(u) == heard' = [heard EXCEPT ![u] = @ + 1]

-----------------------------------------------------------------------------
(* The client sends a call: begin, and the first POST. *)
begin(u) ==
  /\ stage[u] = "idle" /\ ~isSettled /\ Attempts[u] # <<>>
  /\ stage' = [stage EXCEPT ![u] = "out"]
  /\ attempt' = [attempt EXCEPT ![u] = 1]
  /\ post' = [post EXCEPT ![Attempts[u][1]] = "open"]
  /\ book' = book \cup {u}
  /\ UNCHANGED <<bookAnswered, bookCancelled, cancels, heard, isSettled>>

answerFor_NotMarked(u) ==  \* mutant: the book does not note that the client has its answer
  /\ stage[u] = "out" /\ post[current(u)] = "open" /\ told[current(u)] # "nothing" /\ ~isSettled
  /\ post' = [post EXCEPT ![current(u)] = "read"]
  /\ toClient(u)
  /\ UNCHANGED <<stage, attempt, book, bookAnswered, bookCancelled, cancels, isSettled>>

(* An answer comes on the POST that is out: answerFor moves it back to the *)
(* client's id and marks the call answered, or drops a second answer.  A   *)
(* cancelled first attempt is nobody's in the book: it crosses unchanged.  *)
answerFor(u) ==
  LET isKnown == isRetry(u) \/ u \in book IN
  /\ stage[u] = "out" /\ post[current(u)] = "open" /\ told[current(u)] # "nothing" /\ ~isSettled
  /\ post' = [post EXCEPT ![current(u)] = "read"]
  /\ IF u \in bookAnswered
     THEN UNCHANGED <<book, bookAnswered, heard>>
     ELSE /\ toClient(u)
          /\ bookAnswered' = IF isKnown THEN bookAnswered \cup {u} ELSE bookAnswered
          /\ book' = IF isKnown THEN book \ {u} ELSE book
  /\ UNCHANGED <<stage, attempt, bookCancelled, cancels, isSettled>>

(* The POST ends well: its answer was read, or its session ended while it *)
(* was a stream, which then ends with none.  Only a first attempt is      *)
(* forgotten.                                                              *)
writeDone(u) ==
  /\ stage[u] = "out"
  /\ \/ post[current(u)] = "read"
     \/ post[current(u)] = "open" /\ SessionOf[current(u)] \in leaving /\ told[current(u)] = "nothing"
  /\ post' = [post EXCEPT ![current(u)] = "done"]
  /\ stage' = [stage EXCEPT ![u] = "over"]
  /\ book' = IF isRetry(u) THEN book ELSE book \ {u}
  /\ UNCHANGED <<attempt, bookAnswered, bookCancelled, cancels, heard, isSettled>>

giveUp_Silent(u) ==  \* mutant: a call that cannot be delivered is only dropped
  /\ stage' = [stage EXCEPT ![u] = "over"]
  /\ book' = book \ {u}
  /\ UNCHANGED heard

(* The client is told the call is lost, unless it cancelled it, has its   *)
(* answer, or the bridge has ended.                                        *)
giveUp(u) ==
  /\ stage' = [stage EXCEPT ![u] = "over"]
  /\ book' = book \ {u}
  /\ IF u \in bookCancelled \cup bookAnswered \/ isSettled THEN UNCHANGED heard ELSE toClient(u)

(* The POST fails: a fatal answer ends the bridge; an answered call needs *)
(* no more; a dropped connection is waited out while the book has the call *)
(* and a delay is left; anything else costs the call.                      *)
writeFails(u, kind) ==
  /\ stage[u] = "out" /\ post[current(u)] \in {"open", "read"}
  /\ post' = [post EXCEPT ![current(u)] = "dropped"]
  /\ isSettled' = (isSettled \/ kind = "fatal")
  /\ IF kind = "fatal" \/ u \in bookAnswered
     THEN /\ stage' = [stage EXCEPT ![u] = "over"]
          /\ UNCHANGED <<book, heard>>
     ELSE IF kind = "network" /\ u \in book /\ attempt[u] < Len(Attempts[u])
     THEN /\ stage' = [stage EXCEPT ![u] = "pausing"]
          /\ UNCHANGED <<book, heard>>
     ELSE giveUp(u)
  /\ UNCHANGED <<attempt, bookAnswered, bookCancelled, cancels>>

pauseFor_IgnoresCancel(u) ==  \* mutant: the book is not looked at again after the pause
  /\ stage[u] = "pausing"
  /\ IF ~isSettled
     THEN /\ stage' = [stage EXCEPT ![u] = "out"]
          /\ attempt' = [attempt EXCEPT ![u] = @ + 1]
          /\ post' = [post EXCEPT ![Attempts[u][attempt[u] + 1]] = "open"]
          /\ UNCHANGED <<book, heard>>
     ELSE giveUp(u) /\ UNCHANGED <<attempt, post>>
  /\ UNCHANGED <<bookAnswered, bookCancelled, cancels, isSettled>>

(* The pause is over: the call goes again under a fresh id, unless it was *)
(* cancelled or the bridge ended meanwhile.                                *)
pauseFor(u) ==
  /\ stage[u] = "pausing"
  /\ IF ~isSettled /\ u \in book
     THEN /\ stage' = [stage EXCEPT ![u] = "out"]
          /\ attempt' = [attempt EXCEPT ![u] = @ + 1]
          /\ post' = [post EXCEPT ![Attempts[u][attempt[u] + 1]] = "open"]
          /\ UNCHANGED <<book, heard>>
     ELSE giveUp(u) /\ UNCHANGED <<attempt, post>>
  /\ UNCHANGED <<bookAnswered, bookCancelled, cancels, isSettled>>

cancel_OriginalId(u) ==  \* mutant: the cancel goes out under the client's id whatever attempt is out
  /\ stage[u] # "idle" /\ ~isSettled /\ u \notin bookCancelled /\ heard[u] = 0
  /\ book' = book \ {u}
  /\ bookCancelled' = IF u \in book THEN bookCancelled \cup {u} ELSE bookCancelled
  /\ cancels' = cancels \cup {Attempts[u][1]}
  /\ UNCHANGED <<stage, attempt, post, bookAnswered, heard, isSettled>>

(* The client cancels: no further attempt, and the attempt that is out is *)
(* the one the service is told to cancel.                                  *)
cancel(u) ==
  /\ stage[u] # "idle" /\ ~isSettled /\ u \notin bookCancelled /\ heard[u] = 0
  /\ book' = book \ {u}
  /\ bookCancelled' = IF u \in book THEN bookCancelled \cup {u} ELSE bookCancelled
  /\ cancels' = cancels \cup {IF u \in book THEN liveCall(u) ELSE Attempts[u][1]}
  /\ UNCHANGED <<stage, attempt, post, bookAnswered, heard, isSettled>>

(* The client hangs up, or the service's stream is lost for good. *)
endClientSide ==
  /\ ~isSettled
  /\ isSettled' = TRUE
  /\ UNCHANGED <<stage, attempt, post, book, bookAnswered, bookCancelled, cancels, heard>>

-----------------------------------------------------------------------------
(* The service, as the wire lets it see the bridge. *)

isOnWire(c) == c \in BridgeCalls => post[c] # "none"

Arrive(c) == isOnWire(c) /\ (admit(c) \/ applyDeny(c))

(* A request's connection closes only if the bridge's end of it did; a     *)
(* cancel comes only if the bridge sent one.                               *)
Departs(c) ==
  \E kind \in {"cancel", "abandon"} :
    /\ c \in BridgeCalls => IF kind = "cancel" THEN c \in cancels ELSE post[c] = "dropped" \/ isSettled
    /\ departed(c, kind)

Service ==
  /\ \/ \E c \in Calls : Arrive(c) \/ Verdict(c) \/ observeAnswer(c) \/ Departs(c)
     \/ \E s \in Sessions : endSession(s) \/ settle(s)
     \/ \E u \in Uses : Loss(u)
  /\ UNCHANGED bridgeVars

PostStep(u) ==
  /\ \/ answerFor(u) \/ writeDone(u)
     \/ \E kind \in {"network", "other", "fatal"} : writeFails(u, kind)
  /\ UNCHANGED deliveryVars

Bridge ==
  /\ \/ \E u \in Uses : begin(u) \/ pauseFor(u) \/ cancel(u)
     \/ endClientSide
  /\ UNCHANGED deliveryVars

allVars == <<deliveryVars, bridgeVars>>

BridgeInit ==
  /\ Init
  /\ stage = [u \in Uses |-> "idle"]
  /\ attempt = [u \in Uses |-> 0]
  /\ post = [c \in Calls |-> "none"]
  /\ book = {}
  /\ bookAnswered = {}
  /\ bookCancelled = {}
  /\ cancels = {}
  /\ heard = [u \in Uses |-> 0]
  /\ isSettled = FALSE

BridgeNext == Service \/ Bridge \/ \E u \in Uses : PostStep(u)

BridgeSpec == BridgeInit /\ [][BridgeNext]_allVars

(* The session's GET stream finds it gone (404), which ends the bridge. *)
SessionExpires == BridgeCalls \cap {c \in Calls : SessionOf[c] \in leaving} # {} /\ endClientSide

(* Decisions end, an open POST arrives, timers fire, and what was read is handed on. *)
BridgeFairness ==
  /\ \A c \in Calls : /\ WF_allVars(Verdict(c) /\ UNCHANGED bridgeVars)
                      /\ WF_allVars(post[c] = "open" /\ Arrive(c) /\ UNCHANGED bridgeVars)
                      /\ WF_allVars(Redecide(c) /\ UNCHANGED bridgeVars)
  /\ \A s \in Sessions : WF_allVars(settle(s) /\ UNCHANGED bridgeVars)
  /\ \A u \in Uses : /\ WF_allVars(lapse(u) /\ UNCHANGED bridgeVars)
                     /\ WF_allVars(pauseFor(u) /\ UNCHANGED deliveryVars)
                     /\ WF_allVars((answerFor(u) \/ writeDone(u)) /\ UNCHANGED deliveryVars)
  /\ WF_allVars(SessionExpires /\ UNCHANGED deliveryVars)

FairBridgeSpec == BridgeSpec /\ BridgeFairness

-----------------------------------------------------------------------------
(* Properties. *)

(* The shape of the bridge's state; a pause is only taken with an attempt left. *)
BridgeTypeOK ==
  /\ stage \in [Uses -> {"idle", "out", "pausing", "over"}]
  /\ attempt \in [Uses -> Nat]
  /\ \A u \in Uses : /\ attempt[u] <= Len(Attempts[u])
                     /\ stage[u] = "pausing" => attempt[u] < Len(Attempts[u])
  /\ post \in [Calls -> {"none", "open", "read", "dropped", "done"}]
  /\ book \cup bookAnswered \cup bookCancelled \subseteq Uses
  /\ cancels \subseteq BridgeCalls
  /\ heard \in [Uses -> Nat]
  /\ isSettled \in BOOLEAN

(* The client hears at most one outcome under its id, however answers, failed    *)
(* streams, retries, the error of a call given up and its own cancel interleave. *)
ClientHearsOnce == \A u \in Uses : heard[u] <= 1

(* A call its client cancelled is not sent again, and nothing is sent once the   *)
(* bridge has ended (pauseFor looks again after the pause).                      *)
NoRetryAfterCancel ==
  [][\A u \in Uses : attempt'[u] > attempt[u] => u \notin bookCancelled /\ ~isSettled]_allVars

(* The cancel reaches the attempt that is out: as long as the answer to an       *)
(* attempt is awaited, a cancelled call's cancel names it (cancelOfAttempt).     *)
CancelNamesLiveAttempt ==
  \A u \in bookCancelled : stage[u] = "out" => current(u) \in cancels

(* A call the client sent ends: it hears an answer or an error, or it cancelled, *)
(* or the bridge ended, if the service's server answers what it is sent and      *)
(* connections do not drop for ever (the delays are finitely many).              *)
ClientIsAnswered ==
  (\A c \in Calls : []<>(pc[c] # "forwarded" /\ pc[c] # "untracked"))
    => \A u \in Uses : stage[u] # "idle" ~> heard[u] > 0 \/ isSettled \/ \E c \in cancels : UseOf[c] = u
=============================================================================
