----------------------------- MODULE CallOutcome -----------------------------
(***************************************************************************)
(* What the require-approval path promises for each call, whatever         *)
(* queue, polls, timers and processes carry it: a call is asked about      *)
(* once, it is ruled on at most once and the ruling stands, it is sent to  *)
(* the server only when it was ruled for, and it has one outcome.          *)
(***************************************************************************)
CONSTANTS Calls

VARIABLES
  phase,  \* "new", "asked", then one outcome: "sent", "answered" or "silent"
  ruling  \* "open", then "yes", "no" or "void" (nobody is left to rule for)

outcomeVars == <<phase, ruling>>

Init ==
  /\ phase = [c \in Calls |-> "new"]
  /\ ruling = [c \in Calls |-> "open"]

Ask(c) ==
  /\ phase[c] = "new"
  /\ phase' = [phase EXCEPT ![c] = "asked"]
  /\ UNCHANGED ruling

(* Too many calls wait already. *)
TurnAway(c) ==
  /\ phase[c] = "new"
  /\ phase' = [phase EXCEPT ![c] = "answered"]
  /\ UNCHANGED ruling

(* Several calls may be ruled on at once; one still new is never among them. *)
Rule(cs, v) ==
  /\ UNCHANGED phase
  /\ \A c \in cs : phase[c] # "new" /\ ruling[c] = "open"
  /\ ruling' = [c \in Calls |-> IF c \in cs THEN v ELSE ruling[c]]

Send(c) ==
  /\ phase[c] = "asked" /\ ruling[c] = "yes"
  /\ phase' = [phase EXCEPT ![c] = "sent"]
  /\ UNCHANGED ruling

(* The client is told no, or hears nothing.  The call may have been ruled  *)
(* for: its agent may have left, or the decision could not be journaled.   *)
Answer(c) ==
  /\ phase[c] = "asked"
  /\ phase' = [phase EXCEPT ![c] = "answered"]
  /\ UNCHANGED ruling

Silence(c) ==
  /\ phase[c] = "asked"
  /\ phase' = [phase EXCEPT ![c] = "silent"]
  /\ UNCHANGED ruling

(* The agent left: the question is withdrawn and the call ends with it. *)
GiveUp(c) ==
  /\ phase[c] = "asked" /\ ruling[c] = "open"
  /\ ruling' = [ruling EXCEPT ![c] = "void"]
  /\ phase' = [phase EXCEPT ![c] = "silent"]

Next ==
  \/ \E cs \in SUBSET Calls, v \in {"yes", "no", "void"} : Rule(cs, v)
  \/ \E c \in Calls :
       Ask(c) \/ TurnAway(c) \/ Send(c) \/ Answer(c) \/ Silence(c) \/ GiveUp(c)

Spec == Init /\ [][Next]_outcomeVars
=============================================================================
