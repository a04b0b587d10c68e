---------------------------- MODULE StateDocument ----------------------------
(***************************************************************************)
(* What update() promises of a document that many processes change         *)
(* (policy/store.ts): an update is applied once, at one instant, to the    *)
(* document as it is at that instant, or it is refused and nothing of it   *)
(* is written; and its caller is told which.                               *)
(***************************************************************************)
EXTENDS ServerInventory

CONSTANT Callers

VARIABLES
  entry,  \* the document's entry of the server
  calls,  \* the update each caller has asked for
  told    \* what the caller of the last update to end has heard

documentVars == <<entry, calls, told>>

DocumentInit ==
  /\ entry = EmptyServerInventory
  /\ calls = [c \in Callers |-> NoOp]
  /\ told = None

Begin(c, op) ==
  /\ calls[c] = NoOp
  /\ calls' = [calls EXCEPT ![c] = op]
  /\ UNCHANGED <<entry, told>>

Take(c) ==
  /\ calls[c] # NoOp
  /\ entry' = effect(calls[c], entry)
  /\ told' = IF isUnchanged(calls[c], entry) THEN "nothing" ELSE "done"
  /\ calls' = [calls EXCEPT ![c] = NoOp]

Refuse(c) ==
  /\ calls[c] # NoOp
  /\ told' = "failed"
  /\ calls' = [calls EXCEPT ![c] = NoOp]
  /\ UNCHANGED entry

DocumentNext ==
  \E c \in Callers : (\E op \in Ops : Begin(c, op)) \/ Take(c) \/ Refuse(c)

DocumentSpec == DocumentInit /\ [][DocumentNext]_documentVars
=============================================================================
