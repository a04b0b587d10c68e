---------------------------- MODULE ServerInventory ----------------------------
(***************************************************************************)
(* What the inventory document holds of one server, and what each          *)
(* operation makes of it (policy/inventory.ts, inventory-observe.ts):      *)
(* tools approved at a schema hash, and tools held in quarantine because   *)
(* they are new or differ from what was approved.  All functions, without  *)
(* state.                                                                  *)
(*                                                                         *)
(* A Version stands for a descriptor and its hash; Surface is the diff of  *)
(* two of them, "none" where no direction can be claimed.  A listing is a  *)
(* function from the tools it names, in the order of Place, to versions.   *)
(***************************************************************************)
EXTENDS Naturals, FiniteSets

CONSTANTS
  Tools,
  Versions,
  Surface,     \* Surface[a][b]: b's accepted inputs against those of a
  Place,       \* where a listing names a tool
  Lists,       \* the listings a server may answer with
  MaxHeld      \* MAX_QUARANTINED_TOOLS_PER_SERVER

None == "none"
Deltas == {"widened", "narrowed", "changed", "neutral", None}

ASSUME InventoryAssumption ==
  /\ IsFiniteSet(Tools)
  /\ None \notin Versions
  /\ Surface \in [Versions -> [Versions -> Deltas]]
  /\ Place \in [Tools -> Nat]
  /\ \A l \in Lists : DOMAIN l \subseteq Tools /\ \A t \in DOMAIN l : l[t] \in Versions
  /\ MaxHeld \in Nat

Held == [hash : Versions, state : {"new", "changed"}, surfaceDelta : Deltas]
NotHeld == [hash |-> None, state |-> None, surfaceDelta |-> None]
Entries == [approved : [Tools -> Versions \cup {None}], quarantined : [Tools -> Held \cup {NotHeld}]]

EmptyServerInventory ==
  [approved |-> [t \in Tools |-> None], quarantined |-> [t \in Tools |-> NotHeld]]

isHeld(entry, t) == entry.quarantined[t].hash # None

isKnown(entry, list, t) == entry.approved[t] = list[t]

surfaceDeltaAgainstApproved(entry, t, v) ==
  IF entry.approved[t] = None THEN None ELSE Surface[entry.approved[t]][v]

heldRecord(entry, t, v) ==
  [hash |-> v,
   state |-> IF entry.approved[t] = None THEN "new" ELSE "changed",
   surfaceDelta |-> surfaceDeltaAgainstApproved(entry, t, v)]

(* The listed tools that ask for a place in quarantine they do not have.   *)
newcomers(entry, list) == {t \in DOMAIN list : ~isKnown(entry, list, t) /\ ~isHeld(entry, t)}

overflow(entry, list) ==
  {t \in newcomers(entry, list) :
     Cardinality({u \in Tools : isHeld(entry, u)})
       + Cardinality({u \in newcomers(entry, list) : Place[u] < Place[t]}) >= MaxHeld}

(* A tool's one slot is replaced when it is listed at another version.     *)
observeAgainst(entry, list, refused) ==
  [entry EXCEPT !.quarantined =
     [t \in Tools |->
        IF t \in DOMAIN list \ refused /\ ~isKnown(entry, list, t)
                /\ entry.quarantined[t].hash # list[t]
        THEN heldRecord(entry, t, list[t])
        ELSE entry.quarantined[t]]]

withApprovedTool_StaysHeld(entry, t) ==  \* mutant: what is approved stays in quarantine
  [entry EXCEPT !.approved[t] = entry.quarantined[t].hash]

withApprovedTool(entry, t) ==
  [approved |-> [entry.approved EXCEPT ![t] = entry.quarantined[t].hash],
   quarantined |-> [entry.quarantined EXCEPT ![t] = NotHeld]]

withRejectedTool(entry, t) == [entry EXCEPT !.quarantined[t] = NotHeld]

(* Listed without a cap, then every listed tool approved at its hash; one  *)
(* that was known is let out of quarantine if an older version kept it.    *)
withApprovedCatalog(entry, list) ==
  [approved |-> [t \in Tools |-> IF t \in DOMAIN list THEN list[t] ELSE entry.approved[t]],
   quarantined |-> [t \in Tools |-> IF t \in DOMAIN list THEN NotHeld ELSE entry.quarantined[t]]]

-----------------------------------------------------------------------------
(* The operations, and whether one hands its snapshot back as it is.       *)
NoOp == [kind |-> "none"]

Ops ==
  [kind : {"observe", "approveCatalog"}, list : Lists]
    \cup [kind : {"approve", "reject"}, tool : Tools]
    \cup {[kind |-> "forget"]}

effect(op, entry) ==
  CASE op.kind = "observe" -> observeAgainst(entry, op.list, overflow(entry, op.list))
    [] op.kind = "approve" -> IF isHeld(entry, op.tool) THEN withApprovedTool(entry, op.tool) ELSE entry
    [] op.kind = "reject" -> IF isHeld(entry, op.tool) THEN withRejectedTool(entry, op.tool) ELSE entry
    [] op.kind = "approveCatalog" -> withApprovedCatalog(entry, op.list)
    [] op.kind = "forget" -> EmptyServerInventory

(* observeToolsList always builds a new value.  *)
isUnchanged(op, entry) == op.kind # "observe" /\ effect(op, entry) = entry

-----------------------------------------------------------------------------
(* What a session's synchronous lookups answer from the entry it last saw. *)
stateOf_ApprovedFirst(entry, t) ==  \* mutant: the approved catalog laid over the quarantine
  IF entry.approved[t] # None THEN "known"
  ELSE IF isHeld(entry, t) THEN entry.quarantined[t].state ELSE "unknown"

stateOf(entry, t) ==
  IF isHeld(entry, t) THEN entry.quarantined[t].state
  ELSE IF entry.approved[t] # None THEN "known" ELSE "unknown"

surfaceDeltaOf(entry, t) ==
  IF entry.quarantined[t].state = "changed" THEN entry.quarantined[t].surfaceDelta ELSE None
=============================================================================
