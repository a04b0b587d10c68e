---------------------------- MODULE ToolInventory ----------------------------
(***************************************************************************)
(* The tool inventory of one server under the sessions that list its       *)
(* tools, the operators who release them from quarantine and the commands  *)
(* that register the server (policy/inventory.ts, registry/store.ts), over *)
(* the state document they all update (policy/store.ts).                   *)
(*                                                                         *)
(* An update selects the document, computes the new one with no lock held  *)
(* and writes it if the revision is still the one it selected; after some  *)
(* losses it runs once under the write lock.  A session decides calls from *)
(* the entry it last loaded or observed, without asking the document.      *)
(*                                                                         *)
(* Revisions are told apart only by whether a caller's is still current.   *)
(* Every caller is a process of its own, with one update at a time: those  *)
(* of one store are queued.  The row's first import from a file of an old  *)
(* version is left out.                                                    *)
(***************************************************************************)
EXTENDS ServerInventory, PolicyDecision

CONSTANTS
  Sessions,    \* gate sessions
  Operators,   \* quarantine approve, reject; files root add
  Registrars,  \* server add, server remove
  Catalogs,    \* of the listings, those of a server mcpcut ships itself
  Policies,    \* policies that may be in force
  CasLosses,   \* CAS_LOSSES_BEFORE_PESSIMISTIC
  MaxBusy,     \* updates under way at once, and
  MaxUpdates   \* updates in all: bounds of the exploration

Callers == Sessions \cup Operators \cup Registrars

ASSUME CallersAssumption ==
  /\ Sessions \cap Operators = {}
  /\ Registrars \cap (Sessions \cup Operators) = {}
  /\ Catalogs \subseteq Lists
  /\ CasLosses \in Nat \ {0}

VARIABLES
  entry,         \* what the document holds of the server
  job,           \* where a caller's update stands
  told,          \* what the caller of the last update to end has heard
  session,       \* what a session's lookups answer from
  isRegistered,  \* the registry has the server
  command,       \* where a registration command stands
  awaiting,      \* history: the unapproved version a tool was last listed at, until someone rules on it
  reflects,      \* history: the tools whose last listing a session's view takes in
  foreign,       \* history: tools approved before the registration in force
  wasQuiet,      \* history: nothing came between the steps of the add in force
  begun          \* updates so far

historyVars == <<awaiting, reflects, foreign>>
registryVars == <<isRegistered, command, wasQuiet>>
inventoryVars == <<entry, job, told, session, registryVars, historyVars, begun>>

NoJob == [at |-> "idle", op |-> NoOp, losses |-> 0, seen |-> EmptyServerInventory, isCurrent |-> FALSE]
NoCommand == [change |-> None, at |-> "idle", isQuiet |-> FALSE]
NewSession ==
  [isLoaded |-> FALSE, isObserved |-> FALSE, isTrusted |-> TRUE, view |-> EmptyServerInventory]

isBusy(c) == job[c].at # "idle"

InventoryInit ==
  /\ entry = EmptyServerInventory
  /\ job = [c \in Callers |-> NoJob]
  /\ told = None
  /\ session = [s \in Sessions |-> NewSession]
  /\ isRegistered = FALSE
  /\ command = [r \in Registrars |-> NoCommand]
  /\ awaiting = [t \in Tools |-> None]
  /\ reflects = [s \in Sessions |-> {}]
  /\ foreign = {}
  /\ wasQuiet = FALSE
  /\ begun = 0

-----------------------------------------------------------------------------
(* One update.  *)
begin(c, op) ==
  /\ ~isBusy(c)
  /\ Cardinality({d \in Callers : isBusy(d)}) < MaxBusy
  /\ begun < MaxUpdates /\ begun' = begun + 1
  /\ job' = [job EXCEPT ![c] = [NoJob EXCEPT !.at = "asked", !.op = op]]

(* A session takes over what it observed; a catalog past the cap, or one   *)
(* that could not be stored, is not trusted.                               *)
observed(s, result, before, after) ==
  IF result = "failed"
  THEN [session[s] EXCEPT !.isTrusted = FALSE]
  ELSE [session[s] EXCEPT !.view = after, !.isTrusted = overflow(before, job[s].op.list) = {}]

(* The end of an update, as its caller goes on from it.  *)
settle(c, result, before, after) ==
  /\ told' = result
  /\ session' = IF c \in Sessions
                THEN [session EXCEPT ![c] = observed(c, result, before, after)]
                ELSE session

(* A registration command whose inventory could not be written fails.  *)
goOn(c, result) ==
  IF c \notin Registrars THEN command
  ELSE [command EXCEPT ![c] = IF result = "failed" THEN NoCommand ELSE [@ EXCEPT !.at = "write"]]

ruledOn(op) ==
  CASE op.kind \in {"approve", "reject"} -> {op.tool}
    [] op.kind = "approveCatalog" -> DOMAIN op.list
    [] op.kind = "forget" -> Tools
    [] op.kind = "observe" -> {t \in DOMAIN op.list : isKnown(entry, op.list, t)}

approves(op) ==
  CASE op.kind = "approve" -> {op.tool}
    [] op.kind = "approveCatalog" -> DOMAIN op.list
    [] OTHER -> {}

shows(op) ==
  IF op.kind # "observe" THEN {}
  ELSE {t \in DOMAIN op.list : ~isKnown(entry, op.list, t)} \ overflow(entry, op.list)

(* History: what an applied update means for those who watch.  *)
witnessed(c, op) ==
  /\ awaiting' = [t \in Tools |->
       IF t \in shows(op) THEN op.list[t] ELSE IF t \in ruledOn(op) THEN None ELSE awaiting[t]]
  /\ reflects' = [s \in Sessions |->
       IF s = c THEN Tools ELSE {t \in reflects[s] : awaiting'[t] = awaiting[t]}]
  /\ foreign' = IF op.kind = "forget" THEN {} ELSE foreign \ approves(op)
  /\ command' = [r \in Registrars |->
       [goOn(c, "done")[r] EXCEPT !.isQuiet = @ /\ approves(op) = {}]]

(* Every other caller's revision is now an old one.  *)
commit(c, before) ==
  LET op == job[c].op
      after == effect(op, before)
  IN /\ entry' = after
     /\ job' = [d \in Callers |-> IF d = c THEN NoJob ELSE [job[d] EXCEPT !.isCurrent = FALSE]]
     /\ settle(c, "done", before, after)
     /\ witnessed(c, op)
     /\ UNCHANGED <<isRegistered, wasQuiet, begun>>

(* The document is handed back as it is: nothing is written.  *)
unchanged(c) ==
  /\ job' = [job EXCEPT ![c] = NoJob]
  /\ settle(c, "nothing", entry, entry)
  /\ command' = goOn(c, "nothing")
  /\ UNCHANGED <<entry, isRegistered, wasQuiet, historyVars, begun>>

isPessimistic_Never(c) == FALSE  \* mutant: no attempt takes the write lock

isPessimistic(c) == job[c].losses >= CasLosses

selectDocument(c) ==
  /\ job[c].at = "asked" /\ ~isPessimistic(c)
  /\ IF isUnchanged(job[c].op, entry)
     THEN unchanged(c)
     ELSE /\ job' = [job EXCEPT ![c].at = "computed", ![c].seen = entry, ![c].isCurrent = TRUE]
          /\ UNCHANGED <<entry, told, session, registryVars, historyVars, begun>>

(* Losses are counted as far as they matter.  *)
lost(c) ==
  /\ job' = [job EXCEPT ![c] = [NoJob EXCEPT
       !.at = "asked", !.op = job[c].op,
       !.losses = IF job[c].losses < CasLosses THEN job[c].losses + 1 ELSE CasLosses]]
  /\ UNCHANGED <<entry, told, session, registryVars, historyVars, begun>>

updateDocumentCas_AnyRevision(c) ==  \* mutant: written whatever the revision is by now
  /\ job[c].at = "computed"
  /\ commit(c, job[c].seen)

updateDocumentCas(c) ==
  /\ job[c].at = "computed"
  /\ IF job[c].isCurrent THEN commit(c, job[c].seen) ELSE lost(c)

attemptPessimistic(c) ==
  /\ job[c].at = "asked" /\ isPessimistic(c)
  /\ IF isUnchanged(job[c].op, entry) THEN unchanged(c) ELSE commit(c, entry)

(* The budget ran out under losses or a busy write lock, or the document   *)
(* cannot be read: nothing of the update is written.                       *)
giveUp(c) ==
  /\ job[c].at = "asked"
  /\ job' = [job EXCEPT ![c] = NoJob]
  /\ settle(c, "failed", entry, entry)
  /\ command' = goOn(c, "failed")
  /\ UNCHANGED <<entry, isRegistered, wasQuiet, historyVars, begun>>

attempt(c) == selectDocument(c) \/ updateDocumentCas(c) \/ attemptPessimistic(c)

(* Another server's entry of the same document is written.  *)
Elsewhere ==
  /\ \E c \in Callers : job[c].isCurrent
  /\ job' = [c \in Callers |-> [job[c] EXCEPT !.isCurrent = FALSE]]
  /\ UNCHANGED <<entry, told, session, registryVars, historyVars, begun>>

-----------------------------------------------------------------------------
(* Sessions.  A new one takes the place of the old: its view is empty.  *)
createInventory(s) ==
  /\ ~isBusy(s)
  /\ session' = [session EXCEPT ![s] = NewSession]
  /\ reflects' = [reflects EXCEPT ![s] = {}]
  /\ UNCHANGED <<entry, job, told, registryVars, awaiting, foreign, begun>>

load(s) ==
  /\ ~session[s].isLoaded
  /\ session' = [session EXCEPT ![s].isLoaded = TRUE, ![s].view = entry, ![s].isTrusted = TRUE]
  /\ reflects' = [reflects EXCEPT ![s] = Tools]
  /\ UNCHANGED <<entry, job, told, registryVars, awaiting, foreign, begun>>

(* A corrupt or locked store; after any other error the gate allows nothing. *)
loadFails(s) ==
  /\ ~session[s].isLoaded
  /\ session' = [session EXCEPT ![s].isLoaded = TRUE, ![s].isTrusted = FALSE]
  /\ UNCHANGED <<entry, job, told, registryVars, historyVars, begun>>

observeToolsList(s, list) ==
  /\ begin(s, [kind |-> "observe", list |-> list])
  /\ session' = [session EXCEPT ![s].isObserved = TRUE]
  /\ UNCHANGED <<entry, told, registryVars, historyVars>>

(* Operators name a tool; what they rule on is what quarantine has of it.  *)
rule(o, op) ==
  /\ begin(o, op)
  /\ UNCHANGED <<entry, told, session, registryVars, historyVars>>

Rulings ==
  [kind : {"approve", "reject"}, tool : Tools] \cup [kind : {"approveCatalog"}, list : Catalogs]

-----------------------------------------------------------------------------
(* The registry.  The approvals go before the registry is written; an add  *)
(* of a name that is taken and a removal of one that is not leave them.    *)
disturbed == [r \in Registrars |-> [command[r] EXCEPT !.isQuiet = FALSE]]

forgetApprovalsOf_OnRemovalOnly(r, change) ==  \* mutant: an add forgets nothing
  LET isDue == isRegistered /\ change = "removing"
      started == [change |-> change, at |-> IF isDue THEN "forget" ELSE "write",
                  isQuiet |-> \A q \in Registrars : command[q].at = "idle"]
  IN /\ command[r].at = "idle"
     /\ command' = [disturbed EXCEPT ![r] = started]
     /\ IF isDue THEN begin(r, [kind |-> "forget"]) ELSE UNCHANGED <<job, begun>>
     /\ UNCHANGED <<entry, told, session, isRegistered, wasQuiet, historyVars>>

forgetApprovalsOf(r, change) ==
  LET isDue == isRegistered = (change = "removing")
      started == [change |-> change, at |-> IF isDue THEN "forget" ELSE "write",
                  isQuiet |-> \A q \in Registrars : command[q].at = "idle"]
  IN /\ command[r].at = "idle"
     /\ command' = [disturbed EXCEPT ![r] = started]
     /\ IF isDue THEN begin(r, [kind |-> "forget"]) ELSE UNCHANGED <<job, begun>>
     /\ UNCHANGED <<entry, told, session, isRegistered, wasQuiet, historyVars>>

addServer(r) ==
  /\ command[r].change = "adding" /\ command[r].at = "write"
  /\ command' = [command EXCEPT ![r] = NoCommand]
  /\ IF isRegistered
     THEN UNCHANGED <<isRegistered, wasQuiet, foreign>>
     ELSE /\ isRegistered' = TRUE
          /\ wasQuiet' = command[r].isQuiet
          /\ foreign' = {t \in Tools : entry.approved[t] # None}
  /\ UNCHANGED <<entry, job, told, session, awaiting, reflects, begun>>

removeServer(r) ==
  /\ command[r].change = "removing" /\ command[r].at = "write"
  /\ command' = [command EXCEPT ![r] = NoCommand]
  /\ isRegistered' = FALSE /\ wasQuiet' = FALSE /\ foreign' = {}
  /\ UNCHANGED <<entry, job, told, session, awaiting, reflects, begun>>

InventoryNext ==
  \/ \E c \in Callers : attempt(c) \/ giveUp(c)
  \/ Elsewhere
  \/ \E s \in Sessions :
       createInventory(s) \/ load(s) \/ loadFails(s) \/ (\E list \in Lists : observeToolsList(s, list))
  \/ \E o \in Operators, op \in Rulings : rule(o, op)
  \/ \E r \in Registrars :
       addServer(r) \/ removeServer(r)
         \/ (\E change \in {"adding", "removing"} : forgetApprovalsOf(r, change))

InventorySpec == InventoryInit /\ [][InventoryNext]_inventoryVars

FairInventorySpec == InventorySpec /\ \A o \in Operators : WF_inventoryVars(attempt(o))

-----------------------------------------------------------------------------
(* The values each variable takes.  *)
Jobs ==
  [at : {"idle", "asked", "computed"}, op : Ops \cup {NoOp}, losses : Nat,
   seen : Entries, isCurrent : BOOLEAN]
Views == [isLoaded : BOOLEAN, isObserved : BOOLEAN, isTrusted : BOOLEAN, view : Entries]
Commands ==
  [change : {None, "adding", "removing"}, at : {"idle", "forget", "write"}, isQuiet : BOOLEAN]

InventoryTypeOK ==
  /\ entry \in Entries
  /\ job \in [Callers -> Jobs]
  /\ told \in {None, "done", "nothing", "failed"}
  /\ session \in [Sessions -> Views]
  /\ isRegistered \in BOOLEAN
  /\ command \in [Registrars -> Commands]
  /\ awaiting \in [Tools -> Versions \cup {None}]
  /\ reflects \in [Sessions -> SUBSET Tools]
  /\ foreign \subseteq Tools
  /\ wasQuiet \in BOOLEAN
  /\ begun \in Nat

-----------------------------------------------------------------------------
(* Updates of the document by any number of processes are atomic: each is  *)
(* applied once to the document as it is, or refused with nothing written, *)
(* and its caller is told so (store.ts, update).                           *)
Document == INSTANCE StateDocument WITH calls <- [c \in Callers |-> job[c].op]
UpdatesAreAtomic == Document!DocumentSpec

(* What quarantine says of a tool it says against the approval that stands *)
(* now: its direction is never that of a change from another version, in   *)
(* the document or in a session (inventory-observe.ts, buildSnapshots).    *)
isAgainstApproved(e) ==
  \A t \in Tools : isHeld(e, t) =>
    /\ e.quarantined[t].hash # e.approved[t]
    /\ e.quarantined[t] = heldRecord(e, t, e.quarantined[t].hash)

HeldAgainstApproval == isAgainstApproved(entry) /\ \A s \in Sessions : isAgainstApproved(session[s].view)

(* A tool that was listed at a version nobody approved is not allowed by   *)
(* any default, in that session or one that starts later, with or without  *)
(* a listing that omits it, until an operator rules on it or the approved  *)
(* version is back; an explicit rule allows it only if it is new or asks   *)
(* for no more than what was approved (inventory.ts, decide.ts).           *)
verdict(s, t, policy, grant) ==
  LET is == session[s]
  IN enforceCatalogTrust(
       decide([policy |-> policy, agentGrant |-> grant,
               quarantineState |-> stateOf(is.view, t), surfaceDelta |-> surfaceDeltaOf(is.view, t),
               catalogObserved |-> is.isObserved, catalogTrusted |-> is.isTrusted]),
       is.isTrusted)

ruleCovers(policy, t) ==
  /\ policy.toolRule = "allow"
  /\ \/ entry.approved[t] = None
     \/ Surface[entry.approved[t]][awaiting[t]] \in AllowSurvivingDeltas

HeldUntilReleased ==
  \A s \in Sessions, t \in Tools, policy \in Policies, grant \in {"granted", "not-granted"} :
    /\ awaiting[t] # None /\ t \in reflects[s]
    /\ policy.isQuarantining /\ ~ruleCovers(policy, t)
    => verdict(s, t, policy, grant) # "allow"

(* A server never inherits what was approved for another of its name,      *)
(* unless an approval or another registration command came between the     *)
(* steps of its own add (registry/store.ts, forgetApprovalsOf).            *)
NothingInherited == isRegistered /\ wasQuiet => foreign = {}

(* A writer that keeps losing to others is let through: an operator's      *)
(* update ends whatever sessions, commands and the writers of other        *)
(* servers' entries do (store.ts, CAS_LOSSES_BEFORE_PESSIMISTIC).          *)
RulingsEnd == \A o \in Operators : isBusy(o) ~> ~isBusy(o)
=============================================================================
