------------------------------ MODULE PoolMembers ------------------------------
(***************************************************************************)
(* The pool sessions of one agent at one of its servers (src/pool), and    *)
(* the supervisor that holds a session of that server between them         *)
(* (src/cli/serve-residents.ts).  A pool routes the agent's calls to one   *)
(* child, an instance of the server: the held session, which one pool at a *)
(* time is attached to, or a child of its own when another pool has it.    *)
(*                                                                         *)
(* A correlator knows a request by the server's name and its id alone.     *)
(* Two pools use the same ids, and so do two instances of the server one   *)
(* after the other.  Every handler is one step; what a pool awaits (the    *)
(* open, the handshake, a list, the end of a session it closed) is a state *)
(* of its own, with every other handler in between.                        *)
(***************************************************************************)
EXTENDS Integers

CONSTANTS
  Pools,      \* pool sessions of the agent
  Ids,        \* ids the agent's client uses, the same in every pool
  MaxOpened,  \* bound: sessions of the server that may ever be opened
  MaxAsks     \* bound: requests of its own a pool may send

ASSUME PoolAssumption ==
  /\ MaxOpened \in Nat /\ MaxAsks \in Nat
  /\ Ids \cap Nat = {}
  /\ Pools \cap {"unborn", "supervisor"} = {}

None == 0  \* no child; sessions are numbered as they open
Instances == 1..MaxOpened
Keys == Ids \cup 1..MaxAsks  \* a client's id, or one the plane minted

VARIABLES
  closed,   \* isClosed of a pool
  list,     \* the agent's list: NoList, Ensuring, or the request it waits on
  opening,  \* the open in flight: how far, its child, its handshake's request
  route,    \* the child in the route table
  pending,  \* keys in the correlator
  asks,     \* fanoutCounter
  outcome,  \* what the agent has heard of each call
  owed,     \* requests an instance has received and not settled
  life,     \* of an instance
  owner,    \* who opened an instance: a pool or the supervisor
  resident, \* the session the supervisor holds, if any
  timedOut, \* history: handshake requests that ran out of time
  tainted   \* history: held sessions let go by the end of another child

poolVars == <<closed, list, opening, route, pending, asks, outcome>>
childVars == <<owed, life, owner, resident>>
history == <<timedOut, tainted>>
vars == <<closed, list, opening, route, pending, asks, outcome,
          owed, life, owner, resident, timedOut, tainted>>

NoList == -1
Ensuring == 0  \* requests are numbered from 1
NotOpening == [at |-> "no", child |-> None, ask |-> 0]
nowOpening(p, o) == opening' = [opening EXCEPT ![p] = o]

(* isCurrentInstance: the routed child, or one in the middle of its start. *)
hears(i) == {p \in Pools : ~closed[p] /\ (route[p] = i \/ opening[p].child = i)}

isNext(i) == owner[i] = "unborn" /\ \A j \in 1..(i - 1) : owner[j] # "unborn"
isHeldReady == resident # None /\ \A p \in Pools : route[p] # resident

-----------------------------------------------------------------------------
(* Letting a child go *)

released(p, k) == k \in Ids /\ k \in pending[p]

releaseServer_Silent(p) ==  \* mutant: the entries go and nobody is told
  /\ pending' = [pending EXCEPT ![p] = {}]
  /\ UNCHANGED outcome

(* dropServer, and a member-gone error for each of the agent's calls. *)
releaseServer(p) ==
  /\ pending' = [pending EXCEPT ![p] = {}]
  /\ outcome' = [outcome EXCEPT ![p] = [k \in Ids |-> IF released(p, k) THEN "gone" ELSE @[k]]]

(* A session being closed still answers what it has, for its grace. *)
shut(lives, i) == [lives EXCEPT ![i] = IF @ = "live" THEN "ending" ELSE @]

(* close of a child; for the held session onReleased decides.  A clean one  *)
(* is kept, unless it is stale, retiring, not to be kept idle, or sealed.   *)
closeChild(lives, i, dirty) ==
  \/ /\ owner[i] = "supervisor" /\ ~dirty
     /\ life' = lives
     /\ UNCHANGED resident
  \/ /\ owner[i] = "supervisor"
     /\ life' = shut(lives, i)
     /\ resident' = None
  \/ /\ owner[i] \in Pools
     /\ life' = shut(lives, i)
     /\ UNCHANGED resident

(* detachRoute, and the detach event every departure reports. *)
detachRoute(p) ==
  /\ route' = [route EXCEPT ![p] = None]
  /\ releaseServer(p)

detach(p, dirty) ==
  /\ detachRoute(p)
  /\ closeChild(life, route[p], dirty)

membershipChanged_JudgedLate(p) ==  \* mutant: judged dirty after the release
  /\ ~closed[p] /\ route[p] # None
  /\ detach(p, FALSE)
  /\ UNCHANGED <<closed, list, opening, asks, owed, owner>>
  /\ UNCHANGED history

(* onMembershipChanged, for a server no longer granted. *)
membershipChanged(p) ==
  /\ ~closed[p] /\ route[p] # None
  /\ detach(p, pending[p] # {})
  /\ UNCHANGED <<closed, list, opening, asks, owed, owner>>
  /\ UNCHANGED history

(* close of the pool: the front has refused its calls, none is released. *)
close(p) ==
  /\ ~closed[p]
  /\ closed' = [closed EXCEPT ![p] = TRUE]
  /\ route' = [route EXCEPT ![p] = None]
  /\ IF route[p] = None
     THEN UNCHANGED <<life, resident>>
     ELSE closeChild(life, route[p], pending[p] # {})
  /\ UNCHANGED <<list, opening, pending, asks, outcome, owed, owner>>
  /\ UNCHANGED history

-----------------------------------------------------------------------------
(* The agent's calls *)

(* A frame written to a session that is ending reaches nobody. *)
write(p, i, k) ==
  owed' = IF life[i] = "live" THEN [owed EXCEPT ![i] = @ \cup {<<p, k>>}] ELSE owed

(* A call to a server that is not routed is answered with an error at once,  *)
(* and changes nothing: only the others are calls here.                      *)
handleAddressed(p, k) ==
  /\ ~closed[p] /\ outcome[p][k] = "new" /\ route[p] # None
  /\ pending' = [pending EXCEPT ![p] = @ \cup {k}]
  /\ outcome' = [outcome EXCEPT ![p][k] = "asked"]
  /\ write(p, route[p], k)
  /\ UNCHANGED <<closed, list, opening, route, asks, life, owner, resident>>
  /\ UNCHANGED history

(* An answer is the agent's own when it is the one that asked. *)
answered(p, k, r) == IF r = <<p, k>> THEN "result" ELSE "another's"

settle(p, k, r) ==
  /\ pending' = [pending EXCEPT ![p] = @ \ {k}]
  /\ outcome' = IF k \in Ids THEN [outcome EXCEPT ![p][k] = answered(p, k, r)] ELSE outcome
  /\ list' = IF list[p] = k THEN [list EXCEPT ![p] = NoList] ELSE list

(* handleChildFrame: an answer settles what is in flight under its id, and  *)
(* the handshake's own makes the child a member.                            *)
handleResponse(p, i, r) ==
  LET k == r[2] IN
  /\ k \in pending[p]
  /\ settle(p, k, r)
  /\ IF opening[p].at = "handshake" /\ opening[p].ask = k
     THEN nowOpening(p, NotOpening) /\ route' = [route EXCEPT ![p] = i]
     ELSE UNCHANGED <<opening, route>>

Reply(i, r) ==
  /\ r \in owed[i]
  /\ owed' = [owed EXCEPT ![i] = @ \ {r}]
  /\ \/ \E p \in hears(i) : handleResponse(p, i, r)
     \/ /\ \A p \in hears(i) : r[2] \notin pending[p]
        /\ UNCHANGED <<list, opening, route, pending, outcome>>
  /\ UNCHANGED <<closed, asks, life, owner, resident>>
  /\ UNCHANGED history

(* onRequestDropped: the child's gate withdrew a held call its agent left.  *)
forgetClient(i, r) ==
  /\ r \in owed[i] /\ r[2] \in Ids
  /\ owed' = [owed EXCEPT ![i] = @ \ {r}]
  /\ \/ \E p \in hears(i) :
          /\ r[2] \in pending[p]
          /\ pending' = [pending EXCEPT ![p] = @ \ {r[2]}]
          /\ outcome' = [outcome EXCEPT ![p][r[2]] = "dropped"]
     \/ /\ \A p \in hears(i) : r[2] \notin pending[p]
        /\ UNCHANGED <<pending, outcome>>
  /\ UNCHANGED <<closed, list, opening, route, asks, life, owner, resident>>
  /\ UNCHANGED history

-----------------------------------------------------------------------------
(* The agent's list opens the child, then asks it. *)

handleList(p) ==
  /\ ~closed[p] /\ list[p] = NoList
  /\ list' = [list EXCEPT ![p] = Ensuring]
  /\ IF route[p] = None /\ opening[p].at = "no"
     THEN nowOpening(p, [at |-> "acquire", child |-> None, ask |-> 0])
     ELSE UNCHANGED opening
  /\ UNCHANGED <<closed, route, pending, asks, outcome>>
  /\ UNCHANGED childVars
  /\ UNCHANGED history

(* trackFanout; a full table asks nothing, and here neither does a pool at   *)
(* its bound.                                                                *)
ask(p, i) ==
  /\ asks' = [asks EXCEPT ![p] = @ + 1]
  /\ pending' = [pending EXCEPT ![p] = @ \cup {asks[p] + 1}]
  /\ write(p, i, asks[p] + 1)

canAsk(p) == asks[p] < MaxAsks

drain(p) ==
  /\ list[p] = Ensuring /\ opening[p].at = "no"
  /\ IF route[p] # None /\ canAsk(p)
     THEN ask(p, route[p]) /\ list' = [list EXCEPT ![p] = asks[p] + 1]
     ELSE list' = [list EXCEPT ![p] = NoList] /\ UNCHANGED <<asks, pending, owed>>
  /\ UNCHANGED <<closed, opening, route, outcome, life, owner, resident>>
  /\ UNCHANGED history

(* onTimeout: the server is detached by its name, whoever is routed now. *)
fanoutTimeout(p) ==
  /\ list[p] \in 1..MaxAsks
  /\ list' = [list EXCEPT ![p] = NoList]
  /\ IF route[p] = None
     THEN UNCHANGED <<route, pending, outcome, life, resident>>
     ELSE detach(p, TRUE)
  /\ UNCHANGED <<closed, opening, asks, owed, owner>>
  /\ UNCHANGED history

-----------------------------------------------------------------------------
(* openOne *)

refuse(p) ==
  /\ opening[p].at = "acquire"
  /\ nowOpening(p, NotOpening)
  /\ UNCHANGED <<closed, list, route, pending, asks, outcome>>
  /\ UNCHANGED childVars
  /\ UNCHANGED history

(* attachReady; a pool closed meanwhile gives the session back at once. *)
attach(p) ==
  /\ opening[p].at = "acquire" /\ isHeldReady
  /\ nowOpening(p, NotOpening)
  /\ IF closed[p]
     THEN closeChild(life, resident, FALSE) /\ UNCHANGED route
     ELSE route' = [route EXCEPT ![p] = resident] /\ UNCHANGED <<life, resident>>
  /\ UNCHANGED <<closed, list, pending, asks, outcome, owed, owner>>
  /\ UNCHANGED history

(* busy: openOwnChild, and the handshake with it. *)
openOwnChild(p, i) ==
  /\ opening[p].at = "acquire" /\ canAsk(p)
  /\ resident # None /\ ~isHeldReady
  /\ isNext(i)
  /\ owner' = [owner EXCEPT ![i] = p]
  /\ life' = [life EXCEPT ![i] = "live"]
  /\ nowOpening(p, [at |-> "handshake", child |-> i, ask |-> asks[p] + 1])
  /\ asks' = [asks EXCEPT ![p] = @ + 1]
  /\ pending' = [pending EXCEPT ![p] = @ \cup {asks[p] + 1}]
  /\ owed' = [owed EXCEPT ![i] = {<<p, asks[p] + 1>>}]
  /\ UNCHANGED <<closed, list, route, outcome, resident>>
  /\ UNCHANGED history

(* The start's deadline: the child is closed, and openOne waits for that.   *)
(* Nothing takes the handshake's own entry out of the correlator.           *)
startTimeout(p) ==
  /\ opening[p].at = "handshake"
  /\ nowOpening(p, [at |-> "ending", child |-> opening[p].child, ask |-> opening[p].ask])
  /\ life' = shut(life, opening[p].child)
  /\ timedOut' = [timedOut EXCEPT ![p] = @ \cup {opening[p].ask}]
  /\ UNCHANGED <<closed, list, route, pending, asks, outcome, owed, owner, resident, tainted>>

-----------------------------------------------------------------------------
(* The supervisor *)

(* A pool that acquires, or reconcile, has a session started; a start waits  *)
(* for the session before it to be closed, and may fail.                     *)
startReady(i) ==
  /\ resident = None /\ isNext(i)
  /\ \A j \in Instances : owner[j] = "supervisor" => life[j] = "ended"
  /\ owner' = [owner EXCEPT ![i] = "supervisor"]
  /\ life' = [life EXCEPT ![i] = "live"]
  /\ resident' = i
  /\ UNCHANGED owed
  /\ UNCHANGED poolVars
  /\ UNCHANGED history

(* An idle warm session expires or makes room, a stale one is replaced, one  *)
(* no longer granted is stopped.                                             *)
stopReady ==
  /\ isHeldReady
  /\ life' = shut(life, resident)
  /\ resident' = None
  /\ UNCHANGED <<owed, owner>>
  /\ UNCHANGED poolVars
  /\ UNCHANGED history

-----------------------------------------------------------------------------
(* The end of a session *)

(* The server's side is gone, the agent's grant, or the session's journal:   *)
(* nothing new goes in; what was sent may be answered until its end.         *)
endSession(i) ==
  /\ owner[i] # "unborn" /\ life[i] = "live"
  /\ life' = [life EXCEPT ![i] = "ending"]
  /\ UNCHANGED <<owed, owner, resident>>
  /\ UNCHANGED poolVars
  /\ UNCHANGED history

(* onEnd of a child that never became a member: the waits of its start, and  *)
(* every other on that server, end at once.                                  *)
endDuringStart(p, i, lives) ==
  /\ opening[p].child = i
  /\ nowOpening(p, NotOpening)
  /\ IF opening[p].at = "handshake"
     THEN /\ pending' = [pending EXCEPT ![p] = {}]
          /\ list' = IF list[p] \in 1..MaxAsks THEN [list EXCEPT ![p] = NoList] ELSE list
     ELSE UNCHANGED <<pending, list>>
  /\ life' = lives
  /\ UNCHANGED <<route, outcome, resident, tainted>>

(* onEnd of a member: the route that goes is the one in the table, whether   *)
(* it is this child or the one after it, and it is let go as a clean one.    *)
endOfMember(p, i, lives) ==
  /\ opening[p].child # i
  /\ IF route[p] = None
     THEN /\ life' = lives
          /\ UNCHANGED <<route, pending, outcome, resident, tainted>>
     ELSE /\ detachRoute(p)
          /\ closeChild(lives, route[p], FALSE)
          /\ tainted' = IF owed[route[p]] # {} /\ owner[route[p]] = "supervisor"
                        THEN tainted \cup {route[p]} ELSE tainted
  /\ UNCHANGED <<opening, list>>

(* The held session ends: its pool hears it, then the supervisor. *)
endOfHeld(i, lives) ==
  /\ IF \E p \in Pools : route[p] = i
     THEN \E p \in Pools : route[p] = i /\ detachRoute(p)
     ELSE UNCHANGED <<route, pending, outcome>>
  /\ IF resident = i THEN resident' = None ELSE UNCHANGED resident
  /\ life' = lives
  /\ UNCHANGED <<opening, list, tainted>>

sessionEnded(i) ==
  /\ life[i] = "ending"
  /\ owed' = [owed EXCEPT ![i] = {}]
  /\ LET lives == [life EXCEPT ![i] = "ended"] IN
     \/ owner[i] \in Pools /\ endDuringStart(owner[i], i, lives)
     \/ owner[i] \in Pools /\ endOfMember(owner[i], i, lives)
     \/ owner[i] = "supervisor" /\ endOfHeld(i, lives)
  /\ UNCHANGED <<closed, asks, owner, timedOut>>

-----------------------------------------------------------------------------
Init ==
  /\ closed = [p \in Pools |-> FALSE]
  /\ list = [p \in Pools |-> NoList]
  /\ opening = [p \in Pools |-> NotOpening]
  /\ route = [p \in Pools |-> None]
  /\ pending = [p \in Pools |-> {}]
  /\ asks = [p \in Pools |-> 0]
  /\ outcome = [p \in Pools |-> [k \in Ids |-> "new"]]
  /\ owed = [i \in Instances |-> {}]
  /\ life = [i \in Instances |-> "live"]
  /\ owner = [i \in Instances |-> "unborn"]
  /\ resident = None
  /\ timedOut = [p \in Pools |-> {}]
  /\ tainted = {}

Pool(p) ==
  \/ drain(p) \/ fanoutTimeout(p)
  \/ attach(p) \/ refuse(p) \/ startTimeout(p)
  \/ \E i \in Instances : openOwnChild(p, i)

Agent(p) ==
  \/ handleList(p) \/ close(p) \/ membershipChanged(p)
  \/ \E k \in Ids : handleAddressed(p, k)

Answer(i) == \E r \in Pools \X Keys : Reply(i, r) \/ forgetClient(i, r)

Supervisor == \E i \in Instances : startReady(i)

Next ==
  \/ \E p \in Pools : Pool(p) \/ Agent(p)
  \/ \E i \in Instances : Answer(i) \/ endSession(i) \/ sessionEnded(i)
  \/ Supervisor \/ stopReady

Spec == Init /\ [][Next]_vars

(* Timers fire, starts end, a session that is closed ends, and a server that *)
(* lives answers what it was asked.                                          *)
Fairness ==
  /\ \A p \in Pools : WF_vars(Pool(p))
  /\ \A i \in Instances : WF_vars(Answer(i)) /\ WF_vars(sessionEnded(i))
  /\ WF_vars(Supervisor)

FairSpec == Spec /\ Fairness

-----------------------------------------------------------------------------
Waits == {NoList, Ensuring} \cup 1..MaxAsks
Openings == [at : {"no", "acquire", "handshake", "ending"}, child : Instances \cup {None}, ask : 0..MaxAsks]
Outcomes == {"new", "asked", "result", "another's", "gone", "dropped"}
Lives == {"live", "ending", "ended"}

(* Every variable has its shape. *)
PoolTypeOK ==
  /\ closed \in [Pools -> BOOLEAN]
  /\ list \in [Pools -> Waits]
  /\ opening \in [Pools -> Openings]
  /\ route \in [Pools -> Instances \cup {None}]
  /\ pending \in [Pools -> SUBSET Keys]
  /\ asks \in [Pools -> 0..MaxAsks]
  /\ outcome \in [Pools -> [Ids -> Outcomes]]
  /\ owed \in [Instances -> SUBSET (Pools \X Keys)]
  /\ life \in [Instances -> Lives]
  /\ owner \in [Instances -> Pools \cup {"unborn", "supervisor"}]
  /\ resident \in Instances \cup {None}
  /\ timedOut \in [Pools -> SUBSET (1..MaxAsks)]
  /\ tainted \subseteq Instances

(* RS5: a held session that still owes an answer is never free to be         *)
(* attached again, so nobody hears an answer to another's call.  The one     *)
(* way it happens is the late end of an earlier child of the same pool,      *)
(* which lets go of its successor as if it were clean (children.ts:280).     *)
FreeOwesNothing ==
  /\ isHeldReady => owed[resident] = {} \/ resident \in tainted
  /\ \A p \in Pools, k \in Ids : outcome[p][k] = "another's" => tainted # {}

(* Whatever leaves, and in whatever order, an entry of an open pool's        *)
(* correlator waits for something that can still come: an answer of the      *)
(* child in the table, its end, or the handshake under way.  Only the        *)
(* request of a handshake that ran out of time is left behind.               *)
NothingStranded ==
  \A p \in Pools : ~closed[p] =>
    \A k \in pending[p] :
      \/ route[p] # None /\ (<<p, k>> \in owed[route[p]] \/ life[route[p]] # "live")
      \/ opening[p].at = "handshake" /\ opening[p].ask = k
      \/ k \in timedOut[p]

(* An agent hears one outcome of a call: no later answer, drop or departure  *)
(* adds another.                                                             *)
OutcomeStands ==
  [][\A p \in Pools, k \in Ids :
       outcome[p][k] \notin {"new", "asked"} => outcome'[p][k] = outcome[p][k]]_vars

(* Every call the pool took on is answered, unless the pool session closes,  *)
(* and every list the agent asked for comes back.                            *)
CallsEnd ==
  \A p \in Pools :
    []<>(list[p] = NoList /\ (closed[p] \/ \A k \in Ids : outcome[p][k] # "asked"))
=============================================================================
