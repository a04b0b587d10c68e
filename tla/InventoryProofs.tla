---------------------------- MODULE InventoryProofs ----------------------------
(***************************************************************************)
(* The tool inventory, for any tools, versions, listings, callers, limits  *)
(* and policies.  What a caller computes it writes only over the very      *)
(* entry it computed it from (Computed), so that every step of the         *)
(* detailed specification is one of the atomic document                    *)
(* (UpdatesAreAtomic).  What quarantine says is about the approval that    *)
(* stands (HeldAgainstApproval), the version a tool was last shown at is   *)
(* the one that is held (Awaited) and sessions that have seen that hold    *)
(* the same record (Reflected): so no call of it is allowed by a default   *)
(* (HeldUntilReleased).                                                    *)
(***************************************************************************)
EXTENDS ToolInventory, TLAPS

-----------------------------------------------------------------------------
(* What the operations make of an entry.  *)
LEMMA EmptyIsEntry == EmptyServerInventory \in Entries
  BY DEF EmptyServerInventory, Entries, NotHeld

LEMMA RecordsAreHeld ==
  ASSUME NEW e \in Entries, NEW t \in Tools, NEW v \in Versions
  PROVE  heldRecord(e, t, v) \in Held
  BY InventoryAssumption DEF heldRecord, Held, surfaceDeltaAgainstApproved, Entries, Deltas

LEMMA ListsAreCatalogs ==
  ASSUME NEW l \in Lists
  PROVE  /\ DOMAIN l \subseteq Tools
         /\ \A t \in DOMAIN l : l[t] \in Versions
  BY InventoryAssumption

LEMMA ObservingKeepsEntries ==
  ASSUME NEW e \in Entries, NEW l \in Lists, NEW refused
  PROVE  /\ observeAgainst(e, l, refused) \in Entries
         /\ observeAgainst(e, l, refused).approved = e.approved
  <1>1. \A t \in DOMAIN l : heldRecord(e, t, l[t]) \in Held
    BY ListsAreCatalogs, RecordsAreHeld
  <1> QED  BY <1>1 DEF observeAgainst, Entries

LEMMA ApprovingKeepsEntries ==
  ASSUME NEW e \in Entries, NEW t \in Tools, isHeld(e, t)
  PROVE  withApprovedTool(e, t) \in Entries
  <1>1. e.quarantined[t].hash \in Versions
    BY DEF isHeld, Entries, NotHeld, Held
  <1> QED  BY <1>1 DEF withApprovedTool, Entries

LEMMA RejectingKeepsEntries ==
  ASSUME NEW e \in Entries, NEW t \in Tools
  PROVE  withRejectedTool(e, t) \in Entries
  BY DEF withRejectedTool, Entries

LEMMA CatalogsKeepEntries ==
  ASSUME NEW e \in Entries, NEW l \in Lists
  PROVE  withApprovedCatalog(e, l) \in Entries
  BY ListsAreCatalogs DEF withApprovedCatalog, Entries

LEMMA EffectIsEntry ==
  ASSUME NEW e \in Entries, NEW op \in Ops
  PROVE  effect(op, e) \in Entries
  <1>1. CASE op \in [kind : {"observe", "approveCatalog"}, list : Lists]
    BY <1>1, ObservingKeepsEntries, CatalogsKeepEntries DEF effect
  <1>2. CASE op \in [kind : {"approve", "reject"}, tool : Tools]
    BY <1>2, ApprovingKeepsEntries, RejectingKeepsEntries DEF effect
  <1>3. CASE op = [kind |-> "forget"]
    BY <1>3, EmptyIsEntry DEF effect
  <1> QED  BY <1>1, <1>2, <1>3 DEF Ops

LEMMA NoOpIsNone == NoOp \notin Ops
  BY DEF NoOp, Ops

(* A record is made against the approval that stands; what changes an      *)
(* approval takes the tool's record away.                                  *)
LEMMA RecordsDependOnApproval ==
  ASSUME NEW e, NEW f, NEW t, NEW v, e.approved[t] = f.approved[t]
  PROVE  heldRecord(e, t, v) = heldRecord(f, t, v) /\ heldRecord(e, t, v).hash = v
  BY DEF heldRecord, surfaceDeltaAgainstApproved

LEMMA RecordsMadeAgain ==
  ASSUME NEW e, NEW f, isAgainstApproved(e),
         \A t \in Tools :
           \/ f.quarantined[t] = e.quarantined[t] /\ f.approved[t] = e.approved[t]
           \/ f.quarantined[t] = NotHeld
           \/ \E v : v # f.approved[t] /\ f.quarantined[t] = heldRecord(f, t, v)
  PROVE  isAgainstApproved(f)
  <1> SUFFICES ASSUME NEW t \in Tools, isHeld(f, t)
               PROVE  /\ f.quarantined[t].hash # f.approved[t]
                      /\ f.quarantined[t] = heldRecord(f, t, f.quarantined[t].hash)
    BY DEF isAgainstApproved
  <1>1. f.quarantined[t] # NotHeld
    BY DEF isHeld, NotHeld
  <1>2. CASE f.quarantined[t] = e.quarantined[t] /\ f.approved[t] = e.approved[t]
    <2>1. isHeld(e, t)
      BY <1>2 DEF isHeld
    <2>2. /\ e.quarantined[t].hash # e.approved[t]
          /\ e.quarantined[t] = heldRecord(e, t, e.quarantined[t].hash)
      BY <2>1 DEF isAgainstApproved
    <2> QED  BY <1>2, <2>2, RecordsDependOnApproval
  <1>3. ASSUME NEW v, v # f.approved[t], f.quarantined[t] = heldRecord(f, t, v)
        PROVE  /\ f.quarantined[t].hash # f.approved[t]
               /\ f.quarantined[t] = heldRecord(f, t, f.quarantined[t].hash)
    BY <1>3, RecordsDependOnApproval
  <1> QED  BY <1>1, <1>2, <1>3

LEMMA EffectIsAgainstApproved ==
  ASSUME NEW e \in Entries, NEW op \in Ops, isAgainstApproved(e)
  PROVE  isAgainstApproved(effect(op, e))
  <1>1. CASE op \in [kind : {"observe", "approveCatalog"}, list : Lists]
    <2>1. CASE op.kind = "observe"
      <3> DEFINE after == observeAgainst(e, op.list, overflow(e, op.list))
      <3>1. after.approved = e.approved
        BY <1>1, ObservingKeepsEntries
      <3>2. \A t \in Tools : \/ after.quarantined[t] = e.quarantined[t]
                            \/ /\ t \in DOMAIN op.list /\ op.list[t] # e.approved[t]
                               /\ after.quarantined[t] = heldRecord(e, t, op.list[t])
        BY DEF observeAgainst, Entries, isKnown
      <3> HIDE DEF after
      <3>3. isAgainstApproved(after)
        <4>1. \A t \in Tools : \A v : heldRecord(e, t, v) = heldRecord(after, t, v)
          BY <3>1, RecordsDependOnApproval
        <4> QED  BY <3>1, <3>2, <4>1, RecordsMadeAgain
      <3> QED  BY <2>1, <3>3 DEF effect, after
    <2>2. CASE op.kind = "approveCatalog"
      <3>1. effect(op, e) = withApprovedCatalog(e, op.list)
        BY <2>2 DEF effect
      <3>2. \A t \in Tools :
              \/ /\ effect(op, e).quarantined[t] = e.quarantined[t]
                 /\ effect(op, e).approved[t] = e.approved[t]
              \/ effect(op, e).quarantined[t] = NotHeld
        BY <3>1 DEF withApprovedCatalog
      <3> QED  BY <3>2, RecordsMadeAgain
    <2> QED  BY <1>1, <2>1, <2>2
  <1>2. CASE op \in [kind : {"approve", "reject"}, tool : Tools]
    <2>1. CASE ~isHeld(e, op.tool)
      BY <1>2, <2>1 DEF effect
    <2>2. CASE isHeld(e, op.tool)
      <3>1. effect(op, e) \in {withApprovedTool(e, op.tool), withRejectedTool(e, op.tool)}
        BY <1>2, <2>2 DEF effect
      <3>2. \A t \in Tools :
              \/ /\ effect(op, e).quarantined[t] = e.quarantined[t]
                 /\ effect(op, e).approved[t] = e.approved[t]
              \/ effect(op, e).quarantined[t] = NotHeld
        BY <1>2, <3>1 DEF withApprovedTool, withRejectedTool, Entries
      <3> QED  BY <3>2, RecordsMadeAgain
    <2> QED  BY <2>1, <2>2
  <1>3. CASE op = [kind |-> "forget"]
    <2>1. \A t \in Tools : effect(op, e).quarantined[t] = NotHeld
      BY <1>3 DEF effect, EmptyServerInventory
    <2> QED  BY <2>1, RecordsMadeAgain
  <1> QED  BY <1>1, <1>2, <1>3 DEF Ops

LEMMA EmptyIsAgainstApproved == isAgainstApproved(EmptyServerInventory)
  BY DEF isAgainstApproved, isHeld, EmptyServerInventory, NotHeld

-----------------------------------------------------------------------------
(* An update: what is written was computed from what is there.  *)
Computed ==
  \A c \in Callers :
    /\ isBusy(c) <=> job[c].op # NoOp
    /\ job[c].at = "computed" /\ job[c].isCurrent
         => job[c].seen = entry /\ ~isUnchanged(job[c].op, entry)

(* Whatever an attempt does that changes more than where an update stands, *)
(* it is the end of an update at this instant.                             *)
OnlyJobs ==
  /\ job' \in [Callers -> Jobs]
  /\ \A d \in Callers :
       /\ job'[d].op = job[d].op
       /\ job'[d].at = "idle" <=> job[d].at = "idle"
       /\ job'[d].at = "computed" /\ job'[d].isCurrent
            => \/ job'[d] = job[d]
               \/ job'[d].seen = entry /\ ~isUnchanged(job[d].op, entry)
  /\ UNCHANGED <<entry, told, session, registryVars, historyVars, begun>>

LEMMA OneJobChanges ==
  ASSUME InventoryTypeOK, NEW c \in Callers, NEW j \in Jobs,
         job' = [job EXCEPT ![c] = j],
         j.op = job[c].op, j.at = "idle" <=> job[c].at = "idle",
         j.at = "computed" /\ j.isCurrent => j.seen = entry /\ ~isUnchanged(j.op, entry),
         UNCHANGED <<entry, told, session, registryVars, historyVars, begun>>
  PROVE  OnlyJobs
  <1>1. job \in [Callers -> Jobs]
    BY DEF InventoryTypeOK
  <1>2. \A d \in Callers : job'[d] = IF d = c THEN j ELSE job[d]
    BY <1>1
  <1>3. job' \in [Callers -> Jobs]
    BY <1>1
  <1> QED  BY <1>2, <1>3 DEF OnlyJobs

LEMMA AskedAgain ==
  ASSUME NEW op \in Ops \cup {NoOp}, NEW n \in Nat
  PROVE  LET j == [NoJob EXCEPT !.at = "asked", !.op = op, !.losses = n]
         IN  j \in Jobs /\ j.op = op /\ j.at = "asked"
  BY EmptyIsEntry DEF NoJob, Jobs

LEMMA AttemptsAre ==
  ASSUME InventoryTypeOK, Computed, NEW c \in Callers, attempt(c)
  PROVE  \/ isBusy(c) /\ ~isUnchanged(job[c].op, entry) /\ commit(c, entry)
         \/ isBusy(c) /\ isUnchanged(job[c].op, entry) /\ unchanged(c)
         \/ OnlyJobs
  <1>0. job[c] \in Jobs /\ entry \in Entries
    BY DEF InventoryTypeOK
  <1>1. CASE selectDocument(c) /\ ~isUnchanged(job[c].op, entry)
    <2> DEFINE j == [job[c] EXCEPT !.at = "computed", !.seen = entry, !.isCurrent = TRUE]
    <2>1. job' = [job EXCEPT ![c] = j]
      BY <1>0, <1>1 DEF selectDocument, InventoryTypeOK
    <2>2. j \in Jobs
      BY <1>0 DEF Jobs
    <2>3. /\ job[c].at = "asked"
          /\ UNCHANGED <<entry, told, session, registryVars, historyVars, begun>>
      BY <1>1 DEF selectDocument
    <2>4. j.op = job[c].op /\ j.at = "computed" /\ j.seen = entry
      BY <1>0 DEF Jobs
    <2> HIDE DEF j
    <2>5. OnlyJobs
      BY <1>1, <2>1, <2>2, <2>3, <2>4, OneJobChanges
    <2> QED  BY <2>5
  <1>2. CASE selectDocument(c) /\ isUnchanged(job[c].op, entry)
    BY <1>2 DEF selectDocument, isBusy
  <1>3. CASE updateDocumentCas(c) /\ job[c].isCurrent
    BY <1>3 DEF updateDocumentCas, Computed, isBusy
  <1>4. CASE updateDocumentCas(c) /\ ~job[c].isCurrent
    <2> DEFINE j == [NoJob EXCEPT !.at = "asked", !.op = job[c].op,
         !.losses = IF job[c].losses < CasLosses THEN job[c].losses + 1 ELSE CasLosses]
    <2>1. /\ job' = [job EXCEPT ![c] = j]
          /\ job[c].at = "computed"
          /\ UNCHANGED <<entry, told, session, registryVars, historyVars, begun>>
      BY <1>4 DEF updateDocumentCas, lost
    <2>2. job[c].losses \in Nat /\ CasLosses \in Nat /\ job[c].op \in Ops \cup {NoOp}
      BY <1>0, CallersAssumption DEF Jobs
    <2>3. (IF job[c].losses < CasLosses THEN job[c].losses + 1 ELSE CasLosses) \in Nat
      BY <2>2
    <2>4. j \in Jobs /\ j.op = job[c].op /\ j.at = "asked"
      BY <2>2, <2>3, AskedAgain
    <2> HIDE DEF j
    <2>5. OnlyJobs
      BY <2>1, <2>4, OneJobChanges
    <2> QED  BY <2>5
  <1>5. CASE attemptPessimistic(c)
    BY <1>5 DEF attemptPessimistic, isBusy
  <1> QED  BY <1>1, <1>2, <1>3, <1>4, <1>5 DEF attempt

LEMMA ElsewhereIsOnlyJobs ==
  ASSUME InventoryTypeOK, Elsewhere
  PROVE  OnlyJobs
  <1>1. \A c \in Callers : job[c] \in Jobs
    BY DEF InventoryTypeOK
  <1>2. \A c \in Callers : [job[c] EXCEPT !.isCurrent = FALSE] \in Jobs
    BY <1>1 DEF Jobs
  <1>3. \A c \in Callers : job'[c] = [job[c] EXCEPT !.isCurrent = FALSE]
    BY DEF Elsewhere
  <1>4. \A c \in Callers :
          job'[c].op = job[c].op /\ job'[c].at = job[c].at /\ ~job'[c].isCurrent
    BY <1>1, <1>3 DEF Jobs
  <1>5. job' \in [Callers -> Jobs]
    BY <1>2 DEF Elsewhere
  <1> QED  BY <1>4, <1>5 DEF OnlyJobs, Elsewhere

-----------------------------------------------------------------------------
(* Every variable keeps its shape.  *)
LEMMA NoJobIsJob == NoJob \in Jobs
  BY EmptyIsEntry DEF NoJob, Jobs

LEMMA NewSessionIsView == NewSession \in Views
  BY EmptyIsEntry DEF NewSession, Views

LEMMA NoCommandIsCommand == NoCommand \in Commands
  BY DEF NoCommand, Commands

LEMMA BeginIs ==
  ASSUME InventoryTypeOK, NEW c \in Callers, NEW op \in Ops, begin(c, op)
  PROVE  /\ job' \in [Callers -> Jobs]
         /\ begun' \in Nat
         /\ job[c].at = "idle"
         /\ job'[c].at = "asked" /\ job'[c].op = op
         /\ \A d \in Callers \ {c} : job'[d] = job[d]
  <1> DEFINE j == [NoJob EXCEPT !.at = "asked", !.op = op]
  <1>1. j \in Jobs /\ j.at = "asked" /\ j.op = op
    BY NoJobIsJob DEF Jobs
  <1>2. job \in [Callers -> Jobs] /\ begun \in Nat
    BY DEF InventoryTypeOK
  <1>3. job' = [job EXCEPT ![c] = j] /\ begun' = begun + 1 /\ job[c].at = "idle"
    BY DEF begin, isBusy
  <1> HIDE DEF j
  <1> QED  BY <1>1, <1>2, <1>3

LEMMA SettleIs ==
  ASSUME InventoryTypeOK, NEW c \in Callers, NEW result \in {"done", "nothing", "failed"},
         NEW before, NEW after \in Entries, settle(c, result, before, after)
  PROVE  /\ told' = result
         /\ session' \in [Sessions -> Views]
         /\ \A s \in Sessions : session'[s].view =
              IF s = c /\ result # "failed" THEN after ELSE session[s].view
  <1>1. session \in [Sessions -> Views]
    BY DEF InventoryTypeOK
  <1>2. CASE c \in Sessions
    <2>1. session[c] \in Views
      BY <1>1, <1>2
    <2>2. /\ observed(c, result, before, after) \in Views
          /\ observed(c, result, before, after).view =
               IF result # "failed" THEN after ELSE session[c].view
      BY <2>1 DEF observed, Views
    <2> QED  BY <1>1, <1>2, <2>2 DEF settle
  <1>3. CASE c \notin Sessions
    BY <1>1, <1>3 DEF settle
  <1> QED  BY <1>2, <1>3

LEMMA GoOnIs ==
  ASSUME InventoryTypeOK, NEW c \in Callers, NEW result
  PROVE  /\ goOn(c, result) \in [Registrars -> Commands]
         /\ \A r \in Registrars \ {c} : goOn(c, result)[r] = command[r]
         /\ c \in Registrars /\ result = "failed" => goOn(c, result)[c] = NoCommand
         /\ c \in Registrars /\ result # "failed"
              => /\ goOn(c, result)[c].at = "write"
                 /\ goOn(c, result)[c].change = command[c].change
                 /\ goOn(c, result)[c].isQuiet = command[c].isQuiet
  <1>1. command \in [Registrars -> Commands]
    BY DEF InventoryTypeOK
  <1>2. CASE c \in Registrars
    <2>1. command[c] \in Commands
      BY <1>1, <1>2
    <2> DEFINE next == IF result = "failed" THEN NoCommand ELSE [command[c] EXCEPT !.at = "write"]
    <2>2. /\ next \in Commands
          /\ result = "failed" => next = NoCommand
          /\ result # "failed" => /\ next.at = "write" /\ next.change = command[c].change
                                /\ next.isQuiet = command[c].isQuiet
      BY <2>1, NoCommandIsCommand DEF Commands
    <2>3. goOn(c, result) = [command EXCEPT ![c] = next]
      BY <1>2 DEF goOn
    <2> HIDE DEF next
    <2> QED  BY <1>1, <1>2, <2>2, <2>3
  <1>3. CASE c \notin Registrars
    BY <1>1, <1>3 DEF goOn
  <1> QED  BY <1>2, <1>3

LEMMA WitnessIs ==
  ASSUME InventoryTypeOK, NEW c \in Callers, NEW op \in Ops, witnessed(c, op)
  PROVE  /\ awaiting' \in [Tools -> Versions \cup {None}]
         /\ reflects' \in [Sessions -> SUBSET Tools]
         /\ foreign' \subseteq foreign /\ foreign' \subseteq Tools
         /\ command' \in [Registrars -> Commands]
         /\ \A r \in Registrars \ {c} :
              command'[r].at = command[r].at /\ command'[r].change = command[r].change
         /\ \A r \in Registrars :
              command'[r].isQuiet => command[r].isQuiet /\ approves(op) = {}
         /\ c \in Registrars => command'[c].at = "write" /\ command'[c].change = command[c].change
  <1>1. \A t \in shows(op) : op.list[t] \in Versions
    <2>1. CASE op.kind = "observe"
      <3>1. op.list \in Lists
        BY <2>1 DEF Ops
      <3> QED  BY <3>1, ListsAreCatalogs DEF shows
    <2> QED  BY <2>1 DEF shows
  <1>2. awaiting' \in [Tools -> Versions \cup {None}]
    BY <1>1 DEF InventoryTypeOK, witnessed
  <1>3. reflects' \in [Sessions -> SUBSET Tools]
    BY DEF InventoryTypeOK, witnessed
  <1>4. foreign' \subseteq foreign /\ foreign' \subseteq Tools
    BY DEF InventoryTypeOK, witnessed
  <1>5. goOn(c, "done") \in [Registrars -> Commands]
    BY GoOnIs
  <1>6. \A r \in Registrars :
          /\ command'[r] \in Commands
          /\ command'[r].at = goOn(c, "done")[r].at
          /\ command'[r].change = goOn(c, "done")[r].change
          /\ command'[r].isQuiet => goOn(c, "done")[r].isQuiet /\ approves(op) = {}
    BY <1>5 DEF witnessed, Commands
  <1>7. command' \in [Registrars -> Commands]
    BY <1>6 DEF witnessed
  <1> QED  BY <1>2, <1>3, <1>4, <1>6, <1>7, GoOnIs

LEMMA BusyHasOp ==
  ASSUME InventoryTypeOK, Computed, NEW c \in Callers, isBusy(c)
  PROVE  job[c].op \in Ops
  BY DEF InventoryTypeOK, Computed, Jobs

LEMMA JobEnds ==
  ASSUME InventoryTypeOK, NEW c \in Callers, job' = [job EXCEPT ![c] = NoJob]
  PROVE  /\ job' \in [Callers -> Jobs]
         /\ job'[c] = NoJob
         /\ \A d \in Callers \ {c} : job'[d] = job[d]
  BY NoJobIsJob DEF InventoryTypeOK

LEMMA CommitIs ==
  ASSUME InventoryTypeOK, Computed, NEW c \in Callers, isBusy(c), commit(c, entry)
  PROVE  /\ entry' = effect(job[c].op, entry) /\ entry' \in Entries
         /\ job' \in [Callers -> Jobs]
         /\ job'[c] = NoJob
         /\ \A d \in Callers \ {c} :
              job'[d].op = job[d].op /\ job'[d].at = job[d].at /\ ~job'[d].isCurrent
         /\ settle(c, "done", entry, entry')
         /\ witnessed(c, job[c].op)
         /\ UNCHANGED <<isRegistered, wasQuiet, begun>>
  <1>1. entry' = effect(job[c].op, entry) /\ entry' \in Entries
    BY BusyHasOp, EffectIsEntry DEF InventoryTypeOK, commit
  <1>2. job' = [d \in Callers |-> IF d = c THEN NoJob ELSE [job[d] EXCEPT !.isCurrent = FALSE]]
    BY DEF commit
  <1>3. \A d \in Callers :
          LET j == [job[d] EXCEPT !.isCurrent = FALSE]
          IN j \in Jobs /\ j.op = job[d].op /\ j.at = job[d].at /\ ~j.isCurrent
    BY DEF InventoryTypeOK, Jobs
  <1>4. job' \in [Callers -> Jobs]
    BY <1>2, <1>3, NoJobIsJob
  <1> QED  BY <1>1, <1>2, <1>3, <1>4 DEF commit

(* What ends an update without a write, and what starts one.  *)
LEMMA UnchangedIs ==
  ASSUME InventoryTypeOK, NEW c \in Callers, unchanged(c)
  PROVE  /\ job' \in [Callers -> Jobs] /\ job'[c] = NoJob
         /\ \A d \in Callers \ {c} : job'[d] = job[d]
         /\ settle(c, "nothing", entry, entry)
         /\ command' = goOn(c, "nothing")
         /\ UNCHANGED <<entry, isRegistered, wasQuiet, awaiting, reflects, foreign, begun>>
  BY JobEnds DEF unchanged, historyVars

LEMMA GiveUpIs ==
  ASSUME InventoryTypeOK, Computed, NEW c \in Callers, giveUp(c)
  PROVE  /\ isBusy(c)
         /\ job' \in [Callers -> Jobs] /\ job'[c] = NoJob
         /\ \A d \in Callers \ {c} : job'[d] = job[d]
         /\ settle(c, "failed", entry, entry)
         /\ command' = goOn(c, "failed")
         /\ UNCHANGED <<entry, isRegistered, wasQuiet, awaiting, reflects, foreign, begun>>
  BY JobEnds DEF giveUp, historyVars, isBusy

LEMMA RulingsAreOps == Rulings \subseteq Ops
  BY CallersAssumption DEF Rulings, Ops

LEMMA DisturbedIs ==
  ASSUME InventoryTypeOK
  PROVE  /\ disturbed \in [Registrars -> Commands]
         /\ \A r \in Registrars :
              /\ disturbed[r].at = command[r].at /\ disturbed[r].change = command[r].change
              /\ ~disturbed[r].isQuiet
  BY DEF InventoryTypeOK, disturbed, Commands

(* How a registration command starts.  *)
Starts(r, change) ==
  LET isDue == isRegistered = (change = "removing")
      forget == [kind |-> "forget"]
  IN /\ command[r].at = "idle"
     /\ command' \in [Registrars -> Commands]
     /\ \A q \in Registrars \ {r} :
          /\ command'[q].at = command[q].at /\ command'[q].change = command[q].change
          /\ ~command'[q].isQuiet
     /\ command'[r].change = change
     /\ command'[r].at = IF isDue THEN "forget" ELSE "write"
     /\ command'[r].isQuiet <=> \A q \in Registrars : command[q].at = "idle"
     /\ \/ isDue /\ begin(r, forget)
        \/ ~isDue /\ UNCHANGED <<job, begun>>
     /\ UNCHANGED <<entry, told, session, isRegistered, wasQuiet, awaiting, reflects, foreign>>

LEMMA StartIs ==
  ASSUME InventoryTypeOK, NEW r \in Registrars, NEW change \in {"adding", "removing"},
         forgetApprovalsOf(r, change)
  PROVE  Starts(r, change)
  <1> DEFINE isDue == isRegistered = (change = "removing")
             quiet == \A q \in Registrars : command[q].at = "idle"
             started == [change |-> change, at |-> IF isDue THEN "forget" ELSE "write",
                         isQuiet |-> quiet]
  <1>1. started \in Commands /\ started.change = change /\ started.isQuiet = quiet
          /\ started.at = IF isDue THEN "forget" ELSE "write"
    BY DEF Commands
  <1>2. command' = [disturbed EXCEPT ![r] = started]
    BY DEF forgetApprovalsOf
  <1> HIDE DEF started
  <1>3. /\ command' \in [Registrars -> Commands]
        /\ command'[r] = started
        /\ \A q \in Registrars \ {r} : command'[q] = disturbed[q]
    BY <1>1, <1>2, DisturbedIs
  <1> QED  BY <1>1, <1>3, DisturbedIs DEF forgetApprovalsOf, Starts, historyVars

(* A session or an operator asks for an update.  *)
Asks(c, op) ==
  /\ c \notin Registrars
  /\ begin(c, op)
  /\ session' \in [Sessions -> Views]
  /\ \A s \in Sessions : session'[s].view = session[s].view
  /\ UNCHANGED <<entry, told, registryVars, awaiting, reflects, foreign>>

LEMMA ObservingAsks ==
  ASSUME InventoryTypeOK, NEW s \in Sessions, NEW list \in Lists, observeToolsList(s, list)
  PROVE  \E op \in Ops : Asks(s, op)
  <1>1. [kind |-> "observe", list |-> list] \in Ops
    BY DEF Ops
  <1>2. session \in [Sessions -> Views]
    BY DEF InventoryTypeOK
  <1>3. [session[s] EXCEPT !.isObserved = TRUE] \in Views
          /\ [session[s] EXCEPT !.isObserved = TRUE].view = session[s].view
    BY <1>2 DEF Views
  <1>4. session' \in [Sessions -> Views] /\ \A z \in Sessions : session'[z].view = session[z].view
    BY <1>2, <1>3 DEF observeToolsList
  <1> QED  BY <1>1, <1>4, CallersAssumption DEF observeToolsList, Asks, historyVars, Callers

LEMMA RulingAsks ==
  ASSUME InventoryTypeOK, NEW o \in Operators, NEW op \in Rulings, rule(o, op)
  PROVE  Asks(o, op)
  BY CallersAssumption DEF rule, Asks, historyVars, InventoryTypeOK, Callers

(* A session opens, or takes its place anew.  *)
Opens(s) ==
  /\ session' \in [Sessions -> Views]
  /\ \A z \in Sessions \ {s} : session'[z].view = session[z].view /\ reflects'[z] = reflects[z]
  /\ \/ session'[s].view = entry /\ reflects'[s] = Tools
     \/ session'[s].view = session[s].view /\ reflects'[s] = reflects[s]
     \/ session'[s].view = EmptyServerInventory /\ reflects'[s] = {}
  /\ reflects' \in [Sessions -> SUBSET Tools]
  /\ UNCHANGED <<entry, job, told, registryVars, awaiting, foreign, begun>>

LEMMA OpeningIs ==
  ASSUME InventoryTypeOK, NEW s \in Sessions, createInventory(s) \/ load(s) \/ loadFails(s)
  PROVE  Opens(s)
  <1>1. session \in [Sessions -> Views] /\ reflects \in [Sessions -> SUBSET Tools] /\ entry \in Entries
    BY DEF InventoryTypeOK
  <1>2. CASE createInventory(s)
    BY <1>1, <1>2, NewSessionIsView DEF createInventory, Opens, NewSession
  <1>3. CASE load(s)
    <2> DEFINE v == [session[s] EXCEPT !.isLoaded = TRUE, !.view = entry, !.isTrusted = TRUE]
    <2>1. v \in Views /\ v.view = entry
      BY <1>1 DEF Views
    <2>2. session' = [session EXCEPT ![s] = v]
      BY <1>1, <1>3 DEF load, Views
    <2> HIDE DEF v
    <2> QED  BY <1>1, <1>3, <2>1, <2>2 DEF load, Opens
  <1>4. CASE loadFails(s)
    <2> DEFINE v == [session[s] EXCEPT !.isLoaded = TRUE, !.isTrusted = FALSE]
    <2>1. v \in Views /\ v.view = session[s].view
      BY <1>1 DEF Views
    <2>2. session' = [session EXCEPT ![s] = v]
      BY <1>1, <1>4 DEF loadFails, Views
    <2> HIDE DEF v
    <2> QED  BY <1>1, <1>4, <2>1, <2>2 DEF loadFails, Opens, historyVars
  <1> QED  BY <1>2, <1>3, <1>4

(* A step is one of these.  *)
Commits(c) == isBusy(c) /\ ~isUnchanged(job[c].op, entry) /\ commit(c, entry)
Returns(c) == isBusy(c) /\ isUnchanged(job[c].op, entry) /\ unchanged(c)

LEMMA StepsAre ==
  ASSUME InventoryTypeOK, Computed, InventoryNext
  PROVE  \/ OnlyJobs
         \/ \E c \in Callers : Commits(c) \/ Returns(c) \/ giveUp(c)
         \/ \E c \in Callers, op \in Ops : Asks(c, op)
         \/ \E s \in Sessions : Opens(s)
         \/ \E r \in Registrars, change \in {"adding", "removing"} : Starts(r, change)
         \/ \E r \in Registrars : addServer(r) \/ removeServer(r)
  <1>1. ASSUME NEW c \in Callers, attempt(c)
        PROVE  OnlyJobs \/ Commits(c) \/ Returns(c)
    BY <1>1, AttemptsAre DEF Commits, Returns
  <1>2. Elsewhere => OnlyJobs
    BY ElsewhereIsOnlyJobs
  <1>3. \A s \in Sessions : createInventory(s) \/ load(s) \/ loadFails(s) => Opens(s)
    BY OpeningIs
  <1>4. \A s \in Sessions, list \in Lists : observeToolsList(s, list) => \E op \in Ops : Asks(s, op)
    BY ObservingAsks
  <1>5. \A o \in Operators, op \in Rulings : rule(o, op) => Asks(o, op) /\ op \in Ops
    BY RulingAsks, RulingsAreOps
  <1>6. \A r \in Registrars, change \in {"adding", "removing"} :
          forgetApprovalsOf(r, change) => Starts(r, change)
    BY StartIs
  <1>7. Sessions \subseteq Callers /\ Operators \subseteq Callers
    BY DEF Callers
  <1> QED  BY <1>1, <1>2, <1>3, <1>4, <1>5, <1>6, <1>7 DEF InventoryNext

LEMMA RegistryWrites ==
  ASSUME InventoryTypeOK, NEW r \in Registrars, addServer(r) \/ removeServer(r)
  PROVE  /\ command[r].at = "write"
         /\ command' \in [Registrars -> Commands]
         /\ command' = [command EXCEPT ![r] = NoCommand]
         /\ isRegistered' \in BOOLEAN /\ wasQuiet' \in BOOLEAN /\ foreign' \subseteq Tools
         /\ UNCHANGED <<entry, job, told, session, awaiting, reflects, begun>>
  BY NoCommandIsCommand DEF InventoryTypeOK, addServer, removeServer, Commands

LEMMA TypeKept ==
  ASSUME InventoryTypeOK, Computed, InventoryNext
  PROVE  InventoryTypeOK'
  <1> USE DEF InventoryTypeOK
  <1>1. CASE OnlyJobs
    BY <1>1 DEF OnlyJobs, registryVars, historyVars
  <1>2. ASSUME NEW c \in Callers, Commits(c)
        PROVE  InventoryTypeOK'
    <2>1. isBusy(c) /\ commit(c, entry) /\ job[c].op \in Ops
      BY <1>2, BusyHasOp DEF Commits
    <2>2. /\ entry' \in Entries /\ job' \in [Callers -> Jobs]
          /\ settle(c, "done", entry, entry')
          /\ witnessed(c, job[c].op)
          /\ UNCHANGED <<isRegistered, wasQuiet, begun>>
      BY <2>1, CommitIs
    <2>3. told' = "done" /\ session' \in [Sessions -> Views]
      BY <2>2, SettleIs
    <2>4. /\ awaiting' \in [Tools -> Versions \cup {None}]
          /\ reflects' \in [Sessions -> SUBSET Tools]
          /\ foreign' \subseteq Tools
          /\ command' \in [Registrars -> Commands]
      BY <2>1, <2>2, WitnessIs
    <2> QED  BY <2>2, <2>3, <2>4
  <1>3. ASSUME NEW c \in Callers, Returns(c) \/ giveUp(c)
        PROVE  InventoryTypeOK'
    <2>1. PICK result \in {"nothing", "failed"} :
            /\ job' \in [Callers -> Jobs]
            /\ settle(c, result, entry, entry)
            /\ command' = goOn(c, result)
            /\ UNCHANGED <<entry, isRegistered, wasQuiet, awaiting, reflects, foreign, begun>>
      BY <1>3, UnchangedIs, GiveUpIs DEF Returns
    <2>2. told' = result /\ session' \in [Sessions -> Views]
      BY <2>1, SettleIs
    <2>3. command' \in [Registrars -> Commands]
      BY <2>1, GoOnIs
    <2> QED  BY <2>1, <2>2, <2>3
  <1>4. ASSUME NEW c \in Callers, NEW op \in Ops, Asks(c, op)
        PROVE  InventoryTypeOK'
    BY <1>4, BeginIs DEF Asks, registryVars
  <1>5. ASSUME NEW s \in Sessions, Opens(s)
        PROVE  InventoryTypeOK'
    BY <1>5 DEF Opens, registryVars
  <1>6. ASSUME NEW r \in Registrars, NEW change \in {"adding", "removing"}, Starts(r, change)
        PROVE  InventoryTypeOK'
    <2>1. r \in Callers /\ [kind |-> "forget"] \in Ops
      BY DEF Callers, Ops
    <2>2. job' \in [Callers -> Jobs] /\ begun' \in Nat
      BY <1>6, <2>1, BeginIs DEF Starts
    <2> QED  BY <1>6, <2>2 DEF Starts
  <1>7. ASSUME NEW r \in Registrars, addServer(r) \/ removeServer(r)
        PROVE  InventoryTypeOK'
    BY <1>7, RegistryWrites
  <1> QED  BY <1>1, <1>2, <1>3, <1>4, <1>5, <1>6, <1>7, StepsAre

LEMMA ComputedKept ==
  ASSUME InventoryTypeOK, Computed, InventoryNext
  PROVE  Computed'
  <1> USE DEF Computed, isBusy
  <1>1. CASE OnlyJobs
    BY <1>1 DEF OnlyJobs
  <1>2. ASSUME NEW c \in Callers, Commits(c)
        PROVE  Computed'
    BY <1>2, CommitIs DEF Commits, NoJob
  <1>3. ASSUME NEW c \in Callers, Returns(c) \/ giveUp(c)
        PROVE  Computed'
    <2>1. /\ job'[c] = NoJob
          /\ \A d \in Callers \ {c} : job'[d] = job[d]
          /\ entry' = entry
      BY <1>3, UnchangedIs, GiveUpIs DEF Returns
    <2> QED  BY <2>1 DEF NoJob
  <1>4. ASSUME NEW c \in Callers, NEW op \in Ops, begin(c, op), UNCHANGED entry
        PROVE  Computed'
    BY <1>4, BeginIs, NoOpIsNone
  <1>5. ASSUME NEW c \in Callers, NEW op \in Ops, Asks(c, op)
        PROVE  Computed'
    BY <1>4, <1>5 DEF Asks
  <1>6. ASSUME NEW s \in Sessions, Opens(s)
        PROVE  Computed'
    BY <1>6 DEF Opens
  <1>7. ASSUME NEW r \in Registrars, NEW change \in {"adding", "removing"}, Starts(r, change)
        PROVE  Computed'
    <2>1. r \in Callers /\ [kind |-> "forget"] \in Ops
      BY DEF Callers, Ops
    <2>2. CASE begin(r, [kind |-> "forget"])
      BY <1>4, <1>7, <2>1, <2>2 DEF Starts
    <2>3. CASE UNCHANGED <<job, begun>>
      BY <1>7, <2>3 DEF Starts
    <2> QED  BY <1>7, <2>2, <2>3 DEF Starts
  <1>8. ASSUME NEW r \in Registrars, addServer(r) \/ removeServer(r)
        PROVE  Computed'
    BY <1>8, RegistryWrites
  <1> QED  BY <1>1, <1>2, <1>3, <1>5, <1>6, <1>7, <1>8, StepsAre

LEMMA AgainstKept ==
  ASSUME InventoryTypeOK, Computed, HeldAgainstApproval, InventoryNext
  PROVE  HeldAgainstApproval'
  <1> USE DEF HeldAgainstApproval
  <1>1. CASE OnlyJobs
    BY <1>1 DEF OnlyJobs
  <1>2. ASSUME NEW c \in Callers, Commits(c)
        PROVE  HeldAgainstApproval'
    <2>1. isBusy(c) /\ commit(c, entry) /\ job[c].op \in Ops /\ entry \in Entries
      BY <1>2, BusyHasOp DEF Commits, InventoryTypeOK
    <2>2. /\ entry' = effect(job[c].op, entry) /\ entry' \in Entries
          /\ settle(c, "done", entry, entry')
      BY <2>1, CommitIs
    <2>3. isAgainstApproved(entry')
      BY <2>1, <2>2, EffectIsAgainstApproved
    <2>4. \A s \in Sessions : session'[s].view = IF s = c THEN entry' ELSE session[s].view
      BY <2>2, SettleIs
    <2> QED  BY <2>3, <2>4
  <1>3. ASSUME NEW c \in Callers, Returns(c) \/ giveUp(c)
        PROVE  HeldAgainstApproval'
    <2>1. PICK result \in {"nothing", "failed"} :
            settle(c, result, entry, entry) /\ UNCHANGED entry
      BY <1>3, UnchangedIs, GiveUpIs DEF Returns
    <2>2. \A s \in Sessions : session'[s].view = IF s = c /\ result # "failed" THEN entry ELSE session[s].view
      BY <2>1, SettleIs DEF InventoryTypeOK
    <2> QED  BY <2>1, <2>2
  <1>4. ASSUME NEW c \in Callers, NEW op \in Ops, Asks(c, op)
        PROVE  HeldAgainstApproval'
    BY <1>4 DEF Asks
  <1>5. ASSUME NEW s \in Sessions, Opens(s)
        PROVE  HeldAgainstApproval'
    <2>1. \A z \in Sessions :
            session'[z].view \in {entry, session[z].view, EmptyServerInventory}
      BY <1>5 DEF Opens
    <2> QED  BY <1>5, <2>1, EmptyIsAgainstApproved DEF Opens
  <1>6. ASSUME NEW r \in Registrars, NEW change \in {"adding", "removing"}, Starts(r, change)
        PROVE  HeldAgainstApproval'
    BY <1>6 DEF Starts
  <1>7. ASSUME NEW r \in Registrars, addServer(r) \/ removeServer(r)
        PROVE  HeldAgainstApproval'
    BY <1>7, RegistryWrites
  <1> QED  BY <1>1, <1>2, <1>3, <1>4, <1>5, <1>6, <1>7, StepsAre

-----------------------------------------------------------------------------
(* The atomic document means the same by an operation.  *)
LEMMA SameNames ==
  /\ Document!None = None
  /\ Document!NoOp = NoOp
  /\ Document!EmptyServerInventory = EmptyServerInventory
  /\ Document!Ops = Ops
  BY DEF Document!None, None, Document!NoOp, NoOp, Document!NotHeld, NotHeld, Document!Ops, Ops,
         Document!EmptyServerInventory, EmptyServerInventory

LEMMA SameCardinality ==
  ASSUME NEW S
  PROVE  Document!Cardinality(S) = Cardinality(S)
  BY DEF Document!Cardinality, Cardinality

LEMMA SameEffect ==
  ASSUME NEW op, NEW e
  PROVE  Document!effect(op, e) = effect(op, e)
  <1>1. Document!NotHeld = NotHeld
    BY SameNames DEF Document!NotHeld, NotHeld
  <1>2. \A t : Document!isHeld(e, t) <=> isHeld(e, t)
    BY SameNames DEF Document!isHeld, isHeld
  <1>3. \A l, t : Document!isKnown(e, l, t) <=> isKnown(e, l, t)
    BY DEF Document!isKnown, isKnown
  <1>4. \A t, v : Document!heldRecord(e, t, v) = heldRecord(e, t, v)
    BY SameNames DEF Document!heldRecord, heldRecord,
                     Document!surfaceDeltaAgainstApproved, surfaceDeltaAgainstApproved
  <1>5. \A l : Document!newcomers(e, l) = newcomers(e, l)
    BY <1>2, <1>3 DEF Document!newcomers, newcomers
  <1>6. {u \in Tools : Document!isHeld(e, u)} = {u \in Tools : isHeld(e, u)}
    BY <1>2
  <1>7. \A l : Document!overflow(e, l) = overflow(e, l)
    <2> SUFFICES ASSUME NEW l PROVE Document!overflow(e, l) = overflow(e, l)
      OBVIOUS
    <2> DEFINE within(n, h) == {t \in n : Cardinality(h) + Cardinality({u \in n : Place[u] < Place[t]}) >= MaxHeld}
    <2>1. Document!overflow(e, l) = within(Document!newcomers(e, l), {u \in Tools : Document!isHeld(e, u)})
      BY SameCardinality DEF Document!overflow
    <2>2. overflow(e, l) = within(newcomers(e, l), {u \in Tools : isHeld(e, u)})
      BY DEF overflow
    <2> HIDE DEF within
    <2> QED  BY <1>5, <1>6, <2>1, <2>2
  <1>8. \A l, refused : Document!observeAgainst(e, l, refused) = observeAgainst(e, l, refused)
    BY <1>3, <1>4 DEF Document!observeAgainst, observeAgainst
  <1>9. \A t : /\ Document!withApprovedTool(e, t) = withApprovedTool(e, t)
              /\ Document!withRejectedTool(e, t) = withRejectedTool(e, t)
    BY <1>1 DEF Document!withApprovedTool, withApprovedTool,
                Document!withRejectedTool, withRejectedTool
  <1>10. \A l : Document!withApprovedCatalog(e, l) = withApprovedCatalog(e, l)
    BY <1>1 DEF Document!withApprovedCatalog, withApprovedCatalog
  <1> QED
    BY <1>2, <1>7, <1>8, <1>9, <1>10, SameNames DEF Document!effect, effect

LEMMA SameUnchanged ==
  ASSUME NEW op, NEW e
  PROVE  Document!isUnchanged(op, e) <=> isUnchanged(op, e)
  BY SameEffect DEF Document!isUnchanged, isUnchanged

Asked == [c \in Callers |-> job[c].op]

LEMMA StepsAreAtomic ==
  ASSUME InventoryTypeOK, Computed, InventoryNext
  PROVE  Document!DocumentNext \/ UNCHANGED Document!documentVars
  <1> USE DEF Computed, isBusy
  <1>0. NoJob.op = NoOp
    BY DEF NoJob
  <1>1. CASE OnlyJobs
    BY <1>1 DEF OnlyJobs, Document!documentVars
  <1>2. ASSUME NEW c \in Callers, Commits(c)
        PROVE  Document!Take(c)
    <2>1. isBusy(c) /\ commit(c, entry) /\ ~isUnchanged(job[c].op, entry)
      BY <1>2 DEF Commits
    <2>2. /\ entry' = effect(job[c].op, entry)
          /\ job'[c] = NoJob
          /\ \A d \in Callers \ {c} : job'[d].op = job[d].op
          /\ settle(c, "done", entry, entry')
      BY <2>1, CommitIs
    <2>3. Asked' = [Asked EXCEPT ![c] = NoOp]
      BY <1>0, <2>2 DEF Asked
    <2>4. told' = "done"
      BY <2>2 DEF settle
    <2> QED  BY <2>1, <2>2, <2>3, <2>4, SameNames, SameEffect, SameUnchanged DEF Document!Take, Asked
  <1>3. ASSUME NEW c \in Callers, Returns(c)
        PROVE  Document!Take(c)
    <2>1. /\ isBusy(c) /\ unchanged(c)
          /\ isUnchanged(job[c].op, entry) /\ effect(job[c].op, entry) = entry
      BY <1>3 DEF Returns, isUnchanged
    <2>2. /\ job'[c] = NoJob
          /\ \A d \in Callers \ {c} : job'[d] = job[d]
          /\ settle(c, "nothing", entry, entry)
          /\ entry' = entry
      BY <2>1, UnchangedIs
    <2>3. Asked' = [Asked EXCEPT ![c] = NoOp]
      BY <1>0, <2>2 DEF Asked
    <2>4. told' = "nothing"
      BY <2>2 DEF settle
    <2> QED  BY <2>1, <2>2, <2>3, <2>4, SameNames, SameEffect, SameUnchanged DEF Document!Take, Asked
  <1>4. ASSUME NEW c \in Callers, giveUp(c)
        PROVE  Document!Refuse(c)
    <2>1. /\ isBusy(c)
          /\ job'[c] = NoJob
          /\ \A d \in Callers \ {c} : job'[d] = job[d]
          /\ settle(c, "failed", entry, entry)
          /\ entry' = entry
      BY <1>4, GiveUpIs
    <2>2. Asked' = [Asked EXCEPT ![c] = NoOp]
      BY <1>0, <2>1 DEF Asked
    <2>3. told' = "failed"
      BY <2>1 DEF settle
    <2> QED  BY <2>1, <2>2, <2>3, SameNames DEF Document!Refuse, Asked
  <1>5. ASSUME NEW c \in Callers, NEW op \in Ops, begin(c, op), UNCHANGED <<entry, told>>
        PROVE  Document!Begin(c, op)
    <2>1. /\ job[c].at = "idle" /\ job'[c].op = op
          /\ \A d \in Callers \ {c} : job'[d] = job[d]
      BY <1>5, BeginIs
    <2>2. Asked' = [Asked EXCEPT ![c] = op]
      BY <2>1 DEF Asked
    <2> QED  BY <1>5, <2>1, <2>2, SameNames DEF Document!Begin, Asked
  <1>6. ASSUME NEW c \in Callers, NEW op \in Ops, Asks(c, op)
        PROVE  Document!Begin(c, op)
    BY <1>5, <1>6 DEF Asks
  <1>7. ASSUME NEW s \in Sessions, Opens(s)
        PROVE  UNCHANGED Document!documentVars
    BY <1>7 DEF Opens, Document!documentVars
  <1>8. ASSUME NEW r \in Registrars, NEW change \in {"adding", "removing"}, Starts(r, change)
        PROVE  Document!DocumentNext \/ UNCHANGED Document!documentVars
    <2>1. r \in Callers /\ [kind |-> "forget"] \in Ops
      BY DEF Callers, Ops
    <2>2. CASE begin(r, [kind |-> "forget"])
      BY <1>5, <1>8, <2>1, <2>2, SameNames DEF Starts, Document!DocumentNext
    <2>3. CASE UNCHANGED <<job, begun>>
      BY <1>8, <2>3 DEF Starts, Document!documentVars
    <2> QED  BY <1>8, <2>2, <2>3 DEF Starts
  <1>9. ASSUME NEW r \in Registrars, addServer(r) \/ removeServer(r)
        PROVE  UNCHANGED Document!documentVars
    BY <1>9, RegistryWrites DEF Document!documentVars
  <1> QED
    BY <1>1, <1>2, <1>3, <1>4, <1>6, <1>7, <1>8, <1>9, SameNames, StepsAre DEF Document!DocumentNext

-----------------------------------------------------------------------------
(* A registration starts with nothing approved.  *)
Forget == [kind |-> "forget"]

OwnForget ==
  \A r \in Registrars : isBusy(r) => command[r].at = "forget" /\ job[r].op = Forget

NothingApproved == \A t \in Tools : entry.approved[t] = None

(* An undisturbed add is the only command, and has what it forgot behind   *)
(* it.                                                                     *)
QuietAdds ==
  \A r \in Registrars :
    command[r].change = "adding" /\ command[r].at # "idle" /\ command[r].isQuiet
    => /\ \A q \in Registrars \ {r} : command[q].at = "idle"
       /\ command[r].at = "write" => isRegistered \/ NothingApproved

LEMMA OnlyApprovalsApprove ==
  ASSUME NEW e \in Entries, NEW op \in Ops, approves(op) = {}, NEW t \in Tools
  PROVE  effect(op, e).approved[t] \in {e.approved[t], None}
  <1>1. CASE op \in [kind : {"observe", "approveCatalog"}, list : Lists]
    <2>1. CASE op.kind = "observe"
      <3>1. effect(op, e).approved = e.approved
        BY <1>1, <2>1, ObservingKeepsEntries DEF effect
      <3> QED  BY <3>1
    <2>2. CASE op.kind = "approveCatalog"
      BY <1>1, <2>2 DEF effect, withApprovedCatalog, approves
    <2> QED  BY <1>1, <2>1, <2>2
  <1>2. CASE op \in [kind : {"approve", "reject"}, tool : Tools]
    BY <1>2 DEF effect, withRejectedTool, approves, Entries
  <1>3. CASE op = [kind |-> "forget"]
    BY <1>3 DEF effect, EmptyServerInventory
  <1> QED  BY <1>1, <1>2, <1>3 DEF Ops

LEMMA ForgettingLeavesNothing ==
  ASSUME NEW t \in Tools
  PROVE  effect(Forget, entry).approved[t] = None
  BY DEF Forget, effect, EmptyServerInventory

Inheritance == OwnForget /\ QuietAdds /\ NothingInherited

LEMMA InheritanceKept ==
  ASSUME InventoryTypeOK, Computed, Inheritance, InventoryNext
  PROVE  Inheritance'
  <1> USE DEF Inheritance, isBusy
  <1>1. CASE OnlyJobs
    BY <1>1 DEF OnlyJobs, registryVars, historyVars, OwnForget, QuietAdds, NothingApproved, NothingInherited,
                Callers
  <1>2. ASSUME NEW c \in Callers, Commits(c)
        PROVE  Inheritance'
    <2>1. isBusy(c) /\ commit(c, entry) /\ job[c].op \in Ops /\ entry \in Entries
      BY <1>2, BusyHasOp DEF Commits, InventoryTypeOK
    <2>2. /\ entry' = effect(job[c].op, entry)
          /\ job'[c] = NoJob
          /\ \A d \in Callers \ {c} : job'[d].op = job[d].op /\ job'[d].at = job[d].at
          /\ witnessed(c, job[c].op)
          /\ UNCHANGED <<isRegistered, wasQuiet>>
      BY <2>1, CommitIs
    <2>3. /\ foreign' \subseteq foreign
          /\ \A r \in Registrars \ {c} :
               command'[r].at = command[r].at /\ command'[r].change = command[r].change
          /\ \A r \in Registrars :
               command'[r].isQuiet => command[r].isQuiet /\ approves(job[c].op) = {}
          /\ c \in Registrars => command'[c].at = "write" /\ command'[c].change = command[c].change
      BY <2>1, <2>2, WitnessIs
    <2>4. OwnForget'
      BY <2>2, <2>3 DEF OwnForget, NoJob, Callers
    <2>5. NothingInherited'
      BY <2>2, <2>3 DEF NothingInherited
    <2>6. ASSUME NEW r \in Registrars, (command[r].change = "adding")', (command[r].at # "idle")',
                 (command[r].isQuiet)'
          PROVE  /\ \A q \in Registrars \ {r} : (command[q].at)' = "idle"
                 /\ (command[r].at)' = "write" => isRegistered' \/ NothingApproved'
      <3>1. command[r].isQuiet /\ approves(job[c].op) = {}
        BY <2>3, <2>6
      <3>2. command[r].change = "adding" /\ command[r].at # "idle"
        BY <2>1, <2>3, <2>6 DEF OwnForget
      <3>3. \A q \in Registrars \ {r} : command[q].at = "idle"
        BY <3>1, <3>2 DEF QuietAdds
      <3>4. c \in Registrars => c = r
        BY <2>1, <3>3 DEF OwnForget
      <3>5. NothingApproved => NothingApproved'
        BY <2>1, <2>2, <3>1, OnlyApprovalsApprove DEF NothingApproved
      <3>6. c = r => NothingApproved'
        BY <2>1, <2>2, ForgettingLeavesNothing DEF OwnForget, NothingApproved
      <3> QED  BY <2>2, <2>3, <2>6, <3>1, <3>2, <3>3, <3>4, <3>5, <3>6 DEF QuietAdds
    <2> QED  BY <2>4, <2>5, <2>6 DEF QuietAdds
  <1>3. ASSUME NEW c \in Callers, NEW result \in {"nothing", "failed"}, isBusy(c),
               job'[c] = NoJob, \A d \in Callers \ {c} : job'[d] = job[d],
               command' = goOn(c, result),
               result = "nothing" => effect(job[c].op, entry) = entry,
               UNCHANGED <<entry, isRegistered, wasQuiet, foreign>>
        PROVE  Inheritance'
    <2>1. /\ \A r \in Registrars \ {c} : command'[r] = command[r]
          /\ c \in Registrars /\ result = "failed" => command'[c] = NoCommand
          /\ c \in Registrars /\ result # "failed"
               => /\ command'[c].at = "write" /\ command'[c].change = command[c].change
                  /\ command'[c].isQuiet = command[c].isQuiet
      BY <1>3, GoOnIs
    <2>2. OwnForget' /\ NothingInherited'
      BY <1>3, <2>1 DEF OwnForget, NothingInherited, NoJob, Callers
    <2>3. ASSUME NEW r \in Registrars, (command[r].change = "adding")', (command[r].at # "idle")',
                 (command[r].isQuiet)'
          PROVE  /\ \A q \in Registrars \ {r} : (command[q].at)' = "idle"
                 /\ (command[r].at)' = "write" => isRegistered' \/ NothingApproved'
      <3>1. NothingApproved' <=> NothingApproved
        BY <1>3 DEF NothingApproved
      <3>2. command[r].change = "adding" /\ command[r].at # "idle" /\ command[r].isQuiet
        BY <1>3, <2>1, <2>3 DEF NoCommand, OwnForget
      <3>3. \A q \in Registrars \ {r} : command[q].at = "idle"
        BY <3>2 DEF QuietAdds
      <3>4. c \in Registrars => c = r
        BY <1>3, <3>3 DEF OwnForget
      <3>5. c = r => result = "nothing" /\ NothingApproved
        BY <1>3, <2>1, <2>3, ForgettingLeavesNothing DEF OwnForget, NothingApproved, NoCommand
      <3> QED  BY <1>3, <2>1, <3>1, <3>2, <3>3, <3>4, <3>5 DEF QuietAdds
    <2> QED  BY <2>2, <2>3 DEF QuietAdds
  <1>4. ASSUME NEW c \in Callers, Returns(c)
        PROVE  Inheritance'
    BY <1>3, <1>4, UnchangedIs DEF Returns, isUnchanged
  <1>5. ASSUME NEW c \in Callers, giveUp(c)
        PROVE  Inheritance'
    BY <1>3, <1>5, GiveUpIs
  <1>6. ASSUME NEW c \in Callers, NEW op \in Ops, Asks(c, op)
        PROVE  Inheritance'
    <2>1. \A d \in Callers \ {c} : job'[d] = job[d]
      BY <1>6, BeginIs DEF Asks
    <2> QED  BY <1>6, <2>1 DEF Asks, registryVars, OwnForget, QuietAdds, NothingApproved, NothingInherited, Callers
  <1>7. ASSUME NEW s \in Sessions, Opens(s)
        PROVE  Inheritance'
    BY <1>7 DEF Opens, registryVars, OwnForget, QuietAdds, NothingApproved, NothingInherited
  <1>8. ASSUME NEW r \in Registrars, NEW change \in {"adding", "removing"}, Starts(r, change)
        PROVE  Inheritance'
    <2>1. NothingInherited' /\ (NothingApproved' <=> NothingApproved)
      BY <1>8 DEF Starts, NothingInherited, NothingApproved
    <2>2. OwnForget'
      <3>1. CASE begin(r, Forget) /\ command'[r].at = "forget"
        <4>1. job'[r].op = Forget /\ \A d \in Callers \ {r} : job'[d] = job[d]
          BY <3>1, BeginIs DEF Callers, Ops, Forget
        <4> QED  BY <1>8, <3>1, <4>1 DEF Starts, OwnForget, Callers
      <3>2. CASE UNCHANGED job
        BY <1>8, <3>2 DEF Starts, OwnForget
      <3> QED  BY <1>8, <3>1, <3>2 DEF Starts, Forget
    <2>3. QuietAdds'
      BY <1>8, <2>1 DEF Starts, QuietAdds, InventoryTypeOK
    <2> QED  BY <2>1, <2>2, <2>3
  <1>9. ASSUME NEW r \in Registrars, addServer(r) \/ removeServer(r)
        PROVE  Inheritance'
    <2>1. /\ command[r].at = "write"
          /\ command'[r] = NoCommand
          /\ \A q \in Registrars \ {r} : command'[q] = command[q]
          /\ UNCHANGED <<entry, job>>
      BY <1>9, RegistryWrites DEF InventoryTypeOK
    <2>2. OwnForget'
      BY <2>1 DEF OwnForget
    <2>3. \A q \in Registrars \ {r} :
            ~(command[q].change = "adding" /\ command[q].at # "idle" /\ command[q].isQuiet)
      BY <2>1 DEF QuietAdds
    <2>4. QuietAdds'
      BY <2>1, <2>3 DEF QuietAdds, NoCommand
    <2>5. NothingInherited'
      <3>1. CASE addServer(r) /\ ~isRegistered
        BY <2>1, <3>1 DEF addServer, NothingInherited, QuietAdds, NothingApproved
      <3>2. CASE ~(addServer(r) /\ ~isRegistered)
        BY <1>9, <3>2 DEF addServer, removeServer, NothingInherited
      <3> QED  BY <3>1, <3>2
    <2> QED  BY <2>2, <2>4, <2>5
  <1> QED  BY <1>1, <1>2, <1>4, <1>5, <1>6, <1>7, <1>8, <1>9, StepsAre

-----------------------------------------------------------------------------
(* What was shown and is not ruled on is what is held, and a session that  *)
(* has seen that holds the same record.                                    *)
Awaited ==
  \A t \in Tools : awaiting[t] # None =>
    /\ entry.quarantined[t].hash = awaiting[t]
    /\ entry.approved[t] # awaiting[t]

Reflected ==
  \A s \in Sessions : \A t \in reflects[s] : awaiting[t] # None =>
    /\ session[s].view.quarantined[t] = entry.quarantined[t]
    /\ session[s].view.approved[t] = entry.approved[t]

Waits(op, t) ==
  IF t \in shows(op) THEN op.list[t] ELSE IF t \in ruledOn(op) THEN None ELSE awaiting[t]

(* Of a tool that still waits, for the same version or a new one.  *)
StillHeld(op, t) ==
  /\ effect(op, entry).quarantined[t].hash = Waits(op, t)
  /\ effect(op, entry).approved[t] # Waits(op, t)
  /\ Waits(op, t) = awaiting[t]
       => /\ effect(op, entry).quarantined[t] = entry.quarantined[t]
          /\ effect(op, entry).approved[t] = entry.approved[t]

LEMMA ObservedStillHeld ==
  ASSUME InventoryTypeOK, Awaited, NEW op \in Ops, op.kind = "observe", op.list \in Lists,
         NEW t \in Tools, Waits(op, t) # None
  PROVE  StillHeld(op, t)
  <1> DEFINE refused == overflow(entry, op.list)
             after == observeAgainst(entry, op.list, refused)
  <1>1. effect(op, entry) = after /\ after.approved = entry.approved
    BY ObservingKeepsEntries DEF effect, InventoryTypeOK
  <1>2. after.quarantined[t] =
          IF t \in DOMAIN op.list \ refused /\ ~isKnown(entry, op.list, t)
               /\ entry.quarantined[t].hash # op.list[t]
          THEN heldRecord(entry, t, op.list[t]) ELSE entry.quarantined[t]
    BY DEF observeAgainst, InventoryTypeOK, Entries
  <1>3. heldRecord(entry, t, op.list[t]).hash = op.list[t]
    BY DEF heldRecord
  <1>4. refused \subseteq {u \in DOMAIN op.list : ~isKnown(entry, op.list, u) /\ ~isHeld(entry, u)}
    BY DEF overflow, newcomers
  <1>5. shows(op) = {u \in DOMAIN op.list : ~isKnown(entry, op.list, u)} \ refused
    BY DEF shows
  <1>6. ruledOn(op) = {u \in DOMAIN op.list : isKnown(entry, op.list, u)}
    BY DEF ruledOn
  <1> HIDE DEF refused, after
  <1>7. CASE t \in shows(op)
    <2>1. /\ t \in DOMAIN op.list \ refused /\ ~isKnown(entry, op.list, t)
          /\ Waits(op, t) = op.list[t]
      BY <1>5, <1>7 DEF Waits
    <2>2. after.quarantined[t].hash = op.list[t]
      BY <1>2, <1>3, <2>1
    <2>3. entry.approved[t] # op.list[t]
      BY <2>1 DEF isKnown
    <2>4. op.list[t] = awaiting[t] => after.quarantined[t] = entry.quarantined[t]
      BY <1>2, <1>7, <2>1 DEF Awaited
    <2> QED  BY <1>1, <2>1, <2>2, <2>3, <2>4 DEF StillHeld
  <1>8. CASE t \notin shows(op)
    <2>1. Waits(op, t) = awaiting[t] /\ t \notin ruledOn(op)
      BY <1>8 DEF Waits
    <2>2. /\ entry.quarantined[t].hash = awaiting[t]
          /\ entry.approved[t] # awaiting[t]
      BY <2>1 DEF Awaited
    <2>3. t \notin DOMAIN op.list
      BY <1>4, <1>5, <1>6, <1>8, <2>1, <2>2 DEF isHeld
    <2> QED  BY <1>1, <1>2, <2>1, <2>2, <2>3 DEF StillHeld
  <1> QED  BY <1>7, <1>8

LEMMA OpsStillHold ==
  ASSUME InventoryTypeOK, Awaited, NEW op \in Ops, NEW t \in Tools, Waits(op, t) # None
  PROVE  StillHeld(op, t)
  <1>1. CASE op.kind = "observe"
    <2>1. op.list \in Lists
      BY <1>1 DEF Ops
    <2> QED  BY <1>1, <2>1, ObservedStillHeld
  <1>2. CASE op.kind # "observe"
    <2>1. t \notin ruledOn(op) /\ Waits(op, t) = awaiting[t]
      BY <1>2 DEF Waits, shows
    <2>2. entry.quarantined[t].hash = awaiting[t] /\ entry.approved[t] # awaiting[t]
      BY <2>1 DEF Awaited
    <2>3. /\ effect(op, entry).quarantined[t] = entry.quarantined[t]
          /\ effect(op, entry).approved[t] = entry.approved[t]
      <3>1. CASE op \in [kind : {"observe", "approveCatalog"}, list : Lists]
        BY <1>2, <2>1, <3>1 DEF effect, ruledOn, withApprovedCatalog
      <3>2. CASE op \in [kind : {"approve", "reject"}, tool : Tools]
        <4>1. t # op.tool
          BY <2>1, <3>2 DEF ruledOn
        <4> QED
          BY <3>2, <4>1 DEF effect, withApprovedTool, withRejectedTool, InventoryTypeOK, Entries
      <3>3. CASE op = [kind |-> "forget"]
        BY <2>1, <3>3 DEF ruledOn
      <3> QED  BY <3>1, <3>2, <3>3 DEF Ops
    <2> QED  BY <2>1, <2>2, <2>3 DEF StillHeld
  <1> QED  BY <1>1, <1>2

Watching == Awaited /\ Reflected

LEMMA WatchingKept ==
  ASSUME InventoryTypeOK, Computed, Watching, InventoryNext
  PROVE  Watching'
  <1> USE DEF Watching
  <1>1. CASE UNCHANGED <<entry, awaiting, reflects>> /\ \A s \in Sessions : session'[s].view \in {session[s].view, entry}
    BY <1>1 DEF Awaited, Reflected
  <1>2. CASE OnlyJobs
    BY <1>1, <1>2 DEF OnlyJobs, historyVars
  <1>3. ASSUME NEW c \in Callers, Commits(c)
        PROVE  Watching'
    <2>1. isBusy(c) /\ commit(c, entry) /\ job[c].op \in Ops
      BY <1>3, BusyHasOp DEF Commits
    <2>2. /\ entry' = effect(job[c].op, entry) /\ entry' \in Entries
          /\ settle(c, "done", entry, entry')
          /\ witnessed(c, job[c].op)
      BY <2>1, CommitIs
    <2>3. \A s \in Sessions : session'[s].view = IF s = c THEN entry' ELSE session[s].view
      BY <2>2, SettleIs
    <2>4. /\ \A t \in Tools : awaiting'[t] = Waits(job[c].op, t)
          /\ \A s \in Sessions \ {c} : reflects'[s] = {t \in reflects[s] : awaiting'[t] = awaiting[t]}
      BY <2>2 DEF witnessed, Waits
    <2>5. \A t \in Tools : awaiting'[t] # None => StillHeld(job[c].op, t)
      BY <2>1, <2>4, OpsStillHold
    <2>6. Awaited'
      BY <2>2, <2>4, <2>5 DEF Awaited, StillHeld
    <2>7. Reflected'
      <3> SUFFICES ASSUME NEW s \in Sessions, NEW t \in reflects'[s], awaiting'[t] # None
                   PROVE  /\ session'[s].view.quarantined[t] = entry'.quarantined[t]
                          /\ session'[s].view.approved[t] = entry'.approved[t]
        BY DEF Reflected
      <3>1. CASE s = c
        BY <2>3, <3>1
      <3>2. CASE s # c
        <4>1. t \in reflects[s] /\ awaiting'[t] = awaiting[t]
          BY <2>4, <3>2
        <4>2. t \in Tools
          BY <4>1 DEF InventoryTypeOK
        <4> QED  BY <2>2, <2>3, <2>4, <2>5, <3>2, <4>1, <4>2 DEF Reflected, StillHeld
      <3> QED  BY <3>1, <3>2
    <2> QED  BY <2>6, <2>7
  <1>4. ASSUME NEW c \in Callers, Returns(c) \/ giveUp(c)
        PROVE  Watching'
    <2>1. PICK result \in {"nothing", "failed"} :
            /\ settle(c, result, entry, entry)
            /\ UNCHANGED <<entry, awaiting, reflects>>
      BY <1>4, UnchangedIs, GiveUpIs DEF Returns
    <2>2. \A s \in Sessions : session'[s].view \in {session[s].view, entry}
      BY <2>1, SettleIs DEF InventoryTypeOK
    <2> QED  BY <1>1, <2>1, <2>2
  <1>5. ASSUME NEW c \in Callers, NEW op \in Ops, Asks(c, op)
        PROVE  Watching'
    BY <1>1, <1>5 DEF Asks
  <1>6. ASSUME NEW s \in Sessions, Opens(s)
        PROVE  Watching'
    BY <1>6 DEF Opens, Awaited, Reflected
  <1>7. ASSUME NEW r \in Registrars, NEW change \in {"adding", "removing"}, Starts(r, change)
        PROVE  Watching'
    BY <1>1, <1>7 DEF Starts
  <1>8. ASSUME NEW r \in Registrars, addServer(r) \/ removeServer(r)
        PROVE  Watching'
    <2>1. UNCHANGED <<entry, awaiting, reflects, session>>
      BY <1>8 DEF addServer, removeServer
    <2> QED  BY <1>1, <2>1
  <1> QED  BY <1>2, <1>3, <1>4, <1>5, <1>6, <1>7, <1>8, StepsAre

-----------------------------------------------------------------------------
(* The chain of rules does not allow a call of a tool in quarantine, unless *)
(* an explicit rule does and the surface change has not withdrawn it.       *)
LEMMA QuarantineIsNeverAllowed ==
  ASSUME NEW in, in.policy.isQuarantining, in.quarantineState \in {"new", "changed"},
         in.policy.toolRule = "allow"
           => in.quarantineState = "changed" /\ in.surfaceDelta \notin AllowSurvivingDeltas
  PROVE  decide(in) # "allow"
  <1> DEFINE closed == failClosedQuarantineOutcome(in.policy)
  <1>1. closed # "allow" /\ closed # NoVerdict
    BY DEF failClosedQuarantineOutcome, NoVerdict
  <1>2. decideByAgentGrant(in) # "allow"
    BY DEF decideByAgentGrant, NoVerdict
  <1>3. decideByToolRule(in) # "allow"
    <2>1. in.policy.toolRule = "allow" => withdrawnBySurfaceChange(in)
      BY DEF withdrawnBySurfaceChange
    <2>2. in.policy.toolRule # "allow" => said(in.policy.toolRule) # "allow"
      BY DEF said, NoVerdict
    <2> QED  BY <1>1, <2>1, <2>2 DEF decideByToolRule
  <1>4. decideByCatalogUntrusted(in) # "allow"
    BY <1>1 DEF decideByCatalogUntrusted, NoVerdict
  <1>5. decideByQuarantine(in) = closed
    BY DEF decideByQuarantine
  <1> HIDE DEF closed
  <1> QED  BY <1>1, <1>2, <1>3, <1>4, <1>5 DEF decide, orElse

LEMMA WaitingIsNotAllowed ==
  ASSUME InventoryTypeOK, HeldAgainstApproval, Watching
  PROVE  HeldUntilReleased
  <1> SUFFICES ASSUME NEW s \in Sessions, NEW t \in Tools, NEW policy \in Policies,
                      NEW grant \in {"granted", "not-granted"},
                      awaiting[t] # None, t \in reflects[s],
                      policy.isQuarantining, ~ruleCovers(policy, t)
               PROVE  verdict(s, t, policy, grant) # "allow"
    BY DEF HeldUntilReleased
  <1> DEFINE view == session[s].view
             in == [policy |-> policy, agentGrant |-> grant,
                    quarantineState |-> stateOf(view, t), surfaceDelta |-> surfaceDeltaOf(view, t),
                    catalogObserved |-> session[s].isObserved, catalogTrusted |-> session[s].isTrusted]
  <1>1. /\ view.quarantined[t] = entry.quarantined[t] /\ view.approved[t] = entry.approved[t]
        /\ entry.quarantined[t].hash = awaiting[t]
    BY DEF Watching, Awaited, Reflected
  <1>2. isHeld(view, t)
    BY <1>1 DEF isHeld
  <1>3. view.quarantined[t] = heldRecord(view, t, awaiting[t])
    BY <1>1, <1>2 DEF HeldAgainstApproval, isAgainstApproved
  <1>4. stateOf(view, t) = IF entry.approved[t] = None THEN "new" ELSE "changed"
    BY <1>1, <1>2, <1>3 DEF stateOf, heldRecord
  <1>5. entry.approved[t] # None => surfaceDeltaOf(view, t) = Surface[entry.approved[t]][awaiting[t]]
    BY <1>1, <1>3 DEF surfaceDeltaOf, heldRecord, surfaceDeltaAgainstApproved
  <1> HIDE DEF view
  <1>6. /\ in.policy = policy
        /\ in.quarantineState = stateOf(view, t)
        /\ in.surfaceDelta = surfaceDeltaOf(view, t)
    OBVIOUS
  <1>7. verdict(s, t, policy, grant) = enforceCatalogTrust(decide(in), session[s].isTrusted)
    BY DEF verdict, view
  <1> HIDE DEF in
  <1>8. policy.toolRule = "allow"
          => entry.approved[t] # None /\ Surface[entry.approved[t]][awaiting[t]] \notin AllowSurvivingDeltas
    BY DEF ruleCovers
  <1>9. decide(in) # "allow"
    BY <1>4, <1>5, <1>6, <1>8, QuarantineIsNeverAllowed
  <1> QED  BY <1>7, <1>9 DEF enforceCatalogTrust

-----------------------------------------------------------------------------
(* All of it together, of every reachable state.  *)
InventoryInv ==
  InventoryTypeOK /\ Computed /\ HeldAgainstApproval /\ Inheritance /\ Watching

LEMMA InvHoldsAtFirst == InventoryInit => InventoryInv
  <1> SUFFICES ASSUME InventoryInit PROVE InventoryInv
    OBVIOUS
  <1> USE DEF InventoryInit
  <1>1. InventoryTypeOK
    BY EmptyIsEntry, NoJobIsJob, NewSessionIsView, NoCommandIsCommand DEF InventoryTypeOK
  <1>2. Computed
    BY DEF Computed, isBusy, NoJob
  <1>3. HeldAgainstApproval
    BY EmptyIsAgainstApproved DEF HeldAgainstApproval, NewSession
  <1>4. Inheritance
    BY DEF Inheritance, OwnForget, QuietAdds, NothingInherited, isBusy, NoJob, NoCommand, Callers
  <1>5. Watching
    BY DEF Watching, Awaited, Reflected
  <1> QED  BY <1>1, <1>2, <1>3, <1>4, <1>5 DEF InventoryInv

LEMMA InvIsKept == InventoryInv /\ [InventoryNext]_inventoryVars => InventoryInv'
  <1>1. InventoryInv /\ InventoryNext => InventoryInv'
    BY TypeKept, ComputedKept, AgainstKept, InheritanceKept, WatchingKept DEF InventoryInv
  <1>2. InventoryInv /\ UNCHANGED inventoryVars => InventoryInv'
    BY DEF InventoryInv, inventoryVars, registryVars, historyVars, InventoryTypeOK, Computed, isBusy,
           HeldAgainstApproval, Inheritance, OwnForget, QuietAdds, NothingApproved, NothingInherited,
           Watching, Awaited, Reflected
  <1> QED  BY <1>1, <1>2

(* The inductive invariant of the inventory, its document and its registry. *)
THEOREM InventoryInvariant == InventorySpec => []InventoryInv
  BY InvHoldsAtFirst, InvIsKept, PTL DEF InventorySpec

(* Every variable of the inventory keeps its shape.  *)
THEOREM InventoryTypeCorrect == InventorySpec => []InventoryTypeOK
  BY InventoryInvariant, PTL DEF InventoryInv

(* A quarantined tool's state and direction are those of the approval that *)
(* stands, in the document and in every session.                           *)
THEOREM HeldIsAgainstApproval == InventorySpec => []HeldAgainstApproval
  BY InventoryInvariant, PTL DEF InventoryInv

(* No default allows a call of a tool at a version nobody approved, in any *)
(* session that has seen it listed, for any policies and any listings.     *)
THEOREM UnapprovedIsNotAllowed == InventorySpec => []HeldUntilReleased
  <1>1. InventoryInv => HeldUntilReleased
    BY WaitingIsNotAllowed DEF InventoryInv
  <1> QED  BY <1>1, InventoryInvariant, PTL

(* What was approved for a server does not pass to the next of its name.  *)
THEOREM ApprovalsAreNotInherited == InventorySpec => []NothingInherited
  BY InventoryInvariant, PTL DEF InventoryInv, Inheritance

(* The optimistic updates of any number of processes implement an atomic   *)
(* document.                                                               *)
THEOREM InventoryImplementsDocument == InventorySpec => UpdatesAreAtomic
  <1>1. InventoryInit => Document!DocumentInit
    BY SameNames DEF InventoryInit, Document!DocumentInit, NoJob
  <1>2. InventoryInv /\ [InventoryNext]_inventoryVars => [Document!DocumentNext]_(Document!documentVars)
    <2>1. InventoryInv /\ InventoryNext => Document!DocumentNext \/ UNCHANGED Document!documentVars
      BY StepsAreAtomic DEF InventoryInv
    <2>2. UNCHANGED inventoryVars => UNCHANGED Document!documentVars
      BY DEF inventoryVars, Document!documentVars
    <2> QED  BY <2>1, <2>2
  <1> QED
    BY <1>1, <1>2, InventoryInvariant, PTL DEF InventorySpec, UpdatesAreAtomic, Document!DocumentSpec
=============================================================================
