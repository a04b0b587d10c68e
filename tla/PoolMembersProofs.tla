--------------------------- MODULE PoolMembersProofs ---------------------------
(***************************************************************************)
(* An agent hears one outcome of a call (OutcomeStands), nothing in a      *)
(* correlator waits for what cannot come (NothingStranded), and a shared   *)
(* session is not handed on with calls in it (FreeOwesNothing), for any    *)
(* number of pools, ids and sessions of the server.                        *)
(*                                                                         *)
(* They rest on who may be routed where: no two pools hear one session,    *)
(* a pool that opens has no route, and what a session owes is what its     *)
(* pool has in flight.                                                     *)
(***************************************************************************)
EXTENDS PoolMembers, TLAPS

USE PoolAssumption DEF Instances, None, NoList, Ensuring

(* Who is routed where. *)
Routes ==
  /\ \A p \in Pools : route[p] # None =>
       /\ ~closed[p]
       /\ owner[route[p]] \in {p, "supervisor"}
       /\ owner[route[p]] = "supervisor" => resident = route[p]
  /\ \A p, q \in Pools : route[p] # None /\ route[p] = route[q] => p = q
  /\ \A p \in Pools : opening[p].at # "no" => route[p] = None
  /\ \A p \in Pools : opening[p].child # None =>
       opening[p].at \in {"handshake", "ending"} /\ owner[opening[p].child] = p
  /\ \A p \in Pools : opening[p].at \in {"handshake", "ending"} =>
       opening[p].child # None /\ opening[p].ask \in 1..MaxAsks
  /\ resident # None => owner[resident] = "supervisor"
  /\ \A i \in Instances : owner[i] = "unborn" => owed[i] = {}

(* An agent's call in the correlator has not been answered. *)
PendingAsked == \A p \in Pools : \A k \in Ids \cap pending[p] : outcome[p][k] = "asked"

(* What a session owes is in flight at its pool, and is that pool's. *)
OwedIsPending ==
  /\ resident # None /\ resident \notin tainted =>
       \A r \in owed[resident] : route[r[1]] = resident /\ r[2] \in pending[r[1]]
  /\ \A i \in Instances : owner[i] \in Pools => \A r \in owed[i] : r[1] = owner[i]
  /\ \A p \in Pools, k \in Ids : outcome[p][k] = "another's" => tainted # {}

PoolInv == PoolTypeOK /\ Routes /\ PendingAsked /\ NothingStranded /\ OwedIsPending

LEMMA InitPool == Init => PoolInv
  <1> SUFFICES ASSUME Init PROVE PoolInv
    OBVIOUS
  <1>1. PoolTypeOK
    BY DEF Init, PoolTypeOK, NotOpening, Waits, Openings, Outcomes, Lives
  <1>2. Routes
    BY DEF Init, Routes, NotOpening
  <1>3. PendingAsked /\ NothingStranded
    BY DEF Init, PendingAsked, NothingStranded
  <1>4. OwedIsPending
    BY DEF Init, OwedIsPending
  <1> QED  BY <1>1, <1>2, <1>3, <1>4 DEF PoolInv


(* No two pools hear one session. *)
LEMMA OneHears ==
  ASSUME PoolTypeOK, Routes, NEW i \in Instances, NEW p \in hears(i), NEW q \in hears(i)
  PROVE  p = q
  <1>1. p \in Pools /\ q \in Pools /\ i \in 1..MaxOpened /\ i # 0
    BY DEF hears
  <1>2. /\ route[p] = i \/ opening[p].child = i
        /\ route[q] = i \/ opening[q].child = i
    BY DEF hears
  <1>3. ASSUME NEW x \in Pools, opening[x].child = i PROVE owner[i] = x /\ route[x] = None
    BY <1>1, <1>3 DEF Routes
  <1>4. ASSUME NEW x \in Pools, route[x] = i PROVE owner[i] \in {x, "supervisor"}
    BY <1>1, <1>4 DEF Routes
  <1>5. CASE route[p] = i /\ route[q] = i
    BY <1>1, <1>5 DEF Routes
  <1>6. CASE opening[p].child = i
    BY <1>1, <1>2, <1>3, <1>4, <1>6
  <1>7. CASE opening[q].child = i
    BY <1>1, <1>2, <1>3, <1>4, <1>7
  <1> QED  BY <1>2, <1>5, <1>6, <1>7

-----------------------------------------------------------------------------
(* The values a step assigns. *)

LEMMA Values ==
  /\ NotOpening \in Openings
  /\ [at |-> "acquire", child |-> None, ask |-> 0] \in Openings
  /\ \A i \in Instances \cup {None}, a \in 0..MaxAsks : \A at \in {"handshake", "ending"} :
       [at |-> at, child |-> i, ask |-> a] \in Openings
  /\ NoList \in Waits /\ Ensuring \in Waits /\ \A a \in 1..MaxAsks : a \in Waits
  /\ \A a \in 1..MaxAsks : a \in Keys
  /\ \A k \in Ids : k \in Keys
  /\ {"new", "asked", "result", "another's", "gone", "dropped"} \subseteq Outcomes
  /\ "live" \in Lives /\ "ending" \in Lives /\ "ended" \in Lives
  /\ None \in Instances \cup {None}
  BY DEF NotOpening, Openings, Waits, Keys, Outcomes, Lives

LEMMA OpeningFields ==
  ASSUME PoolTypeOK, NEW p \in Pools
  PROVE  opening[p].child \in Instances \cup {None} /\ opening[p].ask \in 0..MaxAsks
  BY DEF PoolTypeOK, Openings

LEMMA ReleaseType ==
  ASSUME PoolTypeOK, NEW p \in Pools, releaseServer(p)
  PROVE  /\ pending' \in [Pools -> SUBSET Keys]
         /\ outcome' \in [Pools -> [Ids -> Outcomes]]
  <1>1. pending' \in [Pools -> SUBSET Keys]
    BY DEF releaseServer, PoolTypeOK
  <1>2. [k \in Ids |-> IF released(p, k) THEN "gone" ELSE outcome[p][k]] \in [Ids -> Outcomes]
    BY Values DEF PoolTypeOK
  <1>3. outcome \in [Pools -> [Ids -> Outcomes]]
    BY DEF PoolTypeOK
  <1>4. outcome' = [outcome EXCEPT ![p] = [k \in Ids |-> IF released(p, k) THEN "gone" ELSE outcome[p][k]]]
    BY <1>3 DEF releaseServer
  <1> QED  BY <1>1, <1>2, <1>3, <1>4

LEMMA CloseChild ==
  ASSUME NEW lives \in [Instances -> Lives], NEW i \in Instances, NEW dirty \in BOOLEAN,
         closeChild(lives, i, dirty)
  PROVE  /\ life' \in [Instances -> Lives]
         /\ resident' \in {resident, None}
         /\ \A j \in Instances : life'[j] = lives[j] \/ life'[j] = "ending"
         /\ owner[i] = "supervisor" /\ dirty => resident' = None
         /\ owner[i] \in Pools => resident' = resident
  BY DEF closeChild, shut, Lives

LEMMA DetachType ==
  ASSUME PoolTypeOK, NEW p \in Pools, NEW dirty \in BOOLEAN, route[p] # None, detach(p, dirty)
  PROVE  /\ route' \in [Pools -> Instances \cup {None}]
         /\ pending' \in [Pools -> SUBSET Keys]
         /\ outcome' \in [Pools -> [Ids -> Outcomes]]
         /\ life' \in [Instances -> Lives]
         /\ resident' \in Instances \cup {None}
  <1>1. route[p] \in Instances /\ life \in [Instances -> Lives] /\ resident \in Instances \cup {None}
    BY DEF PoolTypeOK
  <1>2. releaseServer(p) /\ closeChild(life, route[p], dirty)
    BY DEF detach, detachRoute
  <1>3. route' \in [Pools -> Instances \cup {None}]
    BY DEF detach, detachRoute, PoolTypeOK
  <1>4. life' \in [Instances -> Lives] /\ resident' \in {resident, None}
    BY <1>1, <1>2, CloseChild
  <1> QED  BY <1>1, <1>2, <1>3, <1>4, ReleaseType

(* Routes and openings that go, and a held session let go by who had it, leave *)
(* the others where they are.                                                   *)
LEMMA RoutesLoosened ==
  ASSUME PoolTypeOK, Routes, closed' = closed, owner' = owner,
         \A p \in Pools : route'[p] \in {route[p], None},
         \A p \in Pools : opening'[p] = opening[p] \/ opening'[p] = NotOpening,
         resident' \in {resident, None},
         \A p \in Pools : route'[p] # None => resident' = resident \/ route[p] # resident,
         \A i \in Instances : owner[i] = "unborn" => owed'[i] = {}
  PROVE  Routes'
  <1>1. ASSUME NEW p \in Pools, route'[p] # None
        PROVE  route'[p] = route[p] /\ route[p] \in Instances
    BY <1>1 DEF PoolTypeOK
  <1>2. ASSUME NEW p \in Pools, opening'[p].at # "no" \/ opening'[p].child # None
        PROVE  opening'[p] = opening[p]
    BY <1>2 DEF NotOpening
  <1>3. \A p \in Pools : route'[p] # None =>
           /\ ~closed'[p]
           /\ owner'[route'[p]] \in {p, "supervisor"}
           /\ owner'[route'[p]] = "supervisor" => resident' = route'[p]
    BY <1>1 DEF Routes
  <1>4. \A p, q \in Pools : route'[p] # None /\ route'[p] = route'[q] => p = q
    BY <1>1 DEF Routes
  <1>5. \A p \in Pools : opening'[p].at # "no" => route'[p] = None
    BY <1>1, <1>2 DEF Routes
  <1>6. \A p \in Pools : opening'[p].child # None =>
          opening'[p].at \in {"handshake", "ending"} /\ owner'[opening'[p].child] = p
    BY <1>2 DEF Routes
  <1>7. \A p \in Pools : opening'[p].at \in {"handshake", "ending"} =>
          opening'[p].child # None /\ opening'[p].ask \in 1..MaxAsks
    BY <1>2 DEF Routes
  <1>8. resident' # None => owner'[resident'] = "supervisor"
    BY DEF Routes
  <1> QED  BY <1>3, <1>4, <1>5, <1>6, <1>7, <1>8 DEF Routes


(* A pool that was opening gets its route. *)
LEMMA RoutesGained ==
  ASSUME PoolTypeOK, Routes, NEW p \in Pools, NEW i \in Instances,
         ~closed[p], owner[i] \in {p, "supervisor"}, owner[i] = "supervisor" => resident = i,
         \A q \in Pools : route[q] # i,
         UNCHANGED <<closed, owner, resident>>,
         \A q \in Pools : route'[q] = IF q = p THEN i ELSE route[q],
         \A q \in Pools : opening'[q] = IF q = p THEN NotOpening ELSE opening[q],
         \A j \in Instances : owner[j] = "unborn" => owed'[j] = {}
  PROVE  Routes'
  <1>0. NotOpening.at = "no" /\ NotOpening.child = None
    BY DEF NotOpening
  <1>1. \A q \in Pools : route'[q] # None =>
           /\ ~closed'[q]
           /\ owner'[route'[q]] \in {q, "supervisor"}
           /\ owner'[route'[q]] = "supervisor" => resident' = route'[q]
    BY DEF Routes
  <1>2. \A q, s \in Pools : route'[q] # None /\ route'[q] = route'[s] => q = s
    BY DEF Routes
  <1>3. \A q \in Pools : opening'[q].at # "no" => route'[q] = None
    BY <1>0 DEF Routes
  <1>4. \A q \in Pools : opening'[q].child # None =>
          opening'[q].at \in {"handshake", "ending"} /\ owner'[opening'[q].child] = q
    BY <1>0 DEF Routes
  <1>5. \A q \in Pools : opening'[q].at \in {"handshake", "ending"} =>
          opening'[q].child # None /\ opening'[q].ask \in 1..MaxAsks
    BY <1>0 DEF Routes
  <1>6. resident' # None => owner'[resident'] = "supervisor"
    BY DEF Routes
  <1> QED  BY <1>1, <1>2, <1>3, <1>4, <1>5, <1>6 DEF Routes


(* Calls that leave the correlator, and those that stay with their outcome. *)
LEMMA AskedKept ==
  ASSUME PendingAsked,
         \A q \in Pools : \A k \in Ids \cap pending'[q] :
           k \in pending[q] /\ outcome'[q][k] = outcome[q][k]
  PROVE  PendingAsked'
  BY DEF PendingAsked

LEMMA AskedReleased ==
  ASSUME PoolTypeOK, PendingAsked, NEW p \in Pools, releaseServer(p)
  PROVE  PendingAsked'
  <1>1. \A q \in Pools : pending'[q] = IF q = p THEN {} ELSE pending[q]
    BY DEF releaseServer, PoolTypeOK
  <1>2. \A q \in Pools \ {p} : outcome'[q] = outcome[q]
    BY DEF releaseServer, PoolTypeOK
  <1> QED  BY <1>1, <1>2, AskedKept


LEMMA MintedIsNoClientId ==
  ASSUME PoolTypeOK, NEW p \in Pools
  PROVE  asks[p] + 1 \notin Ids
  <1>1. asks[p] + 1 \in Nat
    BY DEF PoolTypeOK
  <1> QED  BY <1>1


LEMMA OwedKept ==
  ASSUME PoolTypeOK, OwedIsPending, UNCHANGED owner, tainted \subseteq tainted',
         \A j \in Instances : owed'[j] \subseteq owed[j],
         resident' \in {resident, None},
         resident' # None /\ resident \notin tainted' =>
           \A s \in owed'[resident] : route'[s[1]] = resident /\ s[2] \in pending'[s[1]],
         \A q \in Pools, k \in Ids : outcome'[q][k] = "another's" => tainted # {} \/ outcome[q][k] = "another's"
  PROVE  OwedIsPending'
  <1>1. resident' # None /\ resident' \notin tainted' =>
          \A s \in owed'[resident'] : route'[s[1]] = resident' /\ s[2] \in pending'[s[1]]
    OBVIOUS
  <1>2. \A j \in Instances : owner'[j] \in Pools => \A s \in owed'[j] : s[1] = owner'[j]
    BY DEF OwedIsPending
  <1>3. \A q \in Pools, k \in Ids : outcome'[q][k] = "another's" => tainted' # {}
    BY DEF OwedIsPending
  <1> QED  BY <1>1, <1>2, <1>3 DEF OwedIsPending

(* Who hears a session a request is owed by is who sent the request, but for *)
(* a held session let go with calls in it.                                   *)
LEMMA OwnAnswers ==
  ASSUME PoolTypeOK, Routes, OwedIsPending,
         NEW i \in Instances, NEW r \in Pools \X Keys, r \in owed[i], NEW p \in hears(i)
  PROVE  r[1] = p \/ tainted # {}
  <1>1. p \in Pools /\ ~closed[p] /\ (route[p] = i \/ opening[p].child = i) /\ i # None
    BY DEF hears
  <1>2. CASE owner[i] \in Pools
    <2>1. owner[i] = p
      BY <1>1, <1>2 DEF Routes
    <2> QED  BY <1>2, <2>1 DEF OwedIsPending
  <1>3. CASE owner[i] \notin Pools
    <2>1. route[p] = i /\ resident = i
      BY <1>1, <1>3 DEF Routes
    <2>2. CASE i \notin tainted
      <3>1. route[r[1]] = i
        BY <1>1, <2>1, <2>2 DEF OwedIsPending
      <3> QED  BY <1>1, <2>1, <3>1 DEF Routes
    <2> QED  BY <2>2
  <1> QED  BY <1>2, <1>3

(* An answer or a drop takes one request from the session and at most one     *)
(* entry, that request's, from the correlator.                                *)
LEMMA OwedSettled ==
  ASSUME PoolTypeOK, Routes, OwedIsPending,
         NEW i \in Instances, NEW r \in Pools \X Keys, r \in owed[i], NEW p \in hears(i),
         owed' = [owed EXCEPT ![i] = @ \ {r}],
         pending' = [pending EXCEPT ![p] = @ \ {r[2]}],
         \A q \in Pools : route[q] # None => route'[q] = route[q],
         UNCHANGED <<owner, resident, tainted>>,
         \A q \in Pools, k \in Ids : outcome'[q][k] = "another's" => tainted # {} \/ outcome[q][k] = "another's"
  PROVE  OwedIsPending'
  <1>1. p \in Pools /\ ~closed[p] /\ (route[p] = i \/ opening[p].child = i) /\ i # None
    BY DEF hears
  <1>2. \A j \in Instances : owed'[j] \subseteq owed[j]
    BY DEF PoolTypeOK
  <1>3. ASSUME resident # None, resident \notin tainted, NEW s \in owed'[resident]
        PROVE  route'[s[1]] = resident /\ s[2] \in pending'[s[1]]
    <2>1. resident \in Instances
      BY <1>3 DEF PoolTypeOK
    <2>2. s \in owed[resident] /\ s \in Pools \X Keys
      BY <1>2, <1>3, <2>1 DEF PoolTypeOK
    <2>3. s[1] \in Pools /\ route[s[1]] = resident /\ s[2] \in pending[s[1]]
      BY <1>3, <2>2 DEF OwedIsPending
    <2>4. CASE s[1] = p /\ s[2] = r[2]
      <3>1. i = resident
        BY <1>1, <1>3, <2>3, <2>4 DEF Routes
      <3>2. r[1] = p
        <4>1. route[r[1]] = i
          BY <1>3, <3>1 DEF OwedIsPending
        <4> QED  BY <1>1, <2>3, <2>4, <3>1, <4>1 DEF Routes
      <3>3. s = r
        BY <2>2, <2>4, <3>2
      <3>4. r \notin owed'[i]
        BY DEF PoolTypeOK
      <3> QED  BY <1>3, <3>1, <3>3, <3>4
    <2>5. CASE ~(s[1] = p /\ s[2] = r[2])
      <3>1. s[2] \in pending'[s[1]]
        BY <1>1, <2>3, <2>5 DEF PoolTypeOK
      <3> QED  BY <1>3, <2>3, <3>1
    <2> QED  BY <2>4, <2>5
  <1> HIDE DEF PoolTypeOK
  <1> QED  BY <1>2, <1>3, OwedKept

(* What a pool that is not on the held session lets go of is not the held's. *)
LEMMA OwedElsewhere ==
  ASSUME PoolTypeOK, Routes, OwedIsPending, NEW p \in Pools, route[p] # resident \/ resident' = None,
         UNCHANGED owner, tainted \subseteq tainted',
         \A j \in Instances : owed'[j] \subseteq owed[j],
         resident' \in {resident, None},
         \A q \in Pools \ {p} : route'[q] = route[q] /\ pending'[q] = pending[q],
         \A q \in Pools, k \in Ids : outcome'[q][k] = "another's" => outcome[q][k] = "another's"
  PROVE  OwedIsPending'
  <1>1. ASSUME resident' # None, resident \notin tainted', NEW s \in owed'[resident]
        PROVE  route'[s[1]] = resident /\ s[2] \in pending'[s[1]]
    <2>1. resident \in Instances /\ resident # None /\ resident \notin tainted
      BY <1>1 DEF PoolTypeOK
    <2>2. s \in owed[resident] /\ s \in Pools \X Keys
      BY <1>1, <2>1 DEF PoolTypeOK
    <2>3. s[1] \in Pools /\ route[s[1]] = resident /\ s[2] \in pending[s[1]]
      BY <2>1, <2>2 DEF OwedIsPending
    <2> QED  BY <1>1, <2>3
  <1> QED  BY <1>1, OwedKept

-----------------------------------------------------------------------------
(* Shape. *)

LEMMA TypeStep ==
  ASSUME PoolTypeOK, Routes, [Next]_vars
  PROVE  PoolTypeOK'
  <1>1. ASSUME NEW p \in Pools, membershipChanged(p) PROVE PoolTypeOK'
    BY <1>1, DetachType DEF membershipChanged, history, PoolTypeOK
  <1>2. ASSUME NEW p \in Pools, close(p) PROVE PoolTypeOK'
    <2>1. closed' \in [Pools -> BOOLEAN]
      BY <1>2 DEF close, PoolTypeOK
    <2>2. route' \in [Pools -> Instances \cup {None}]
      BY <1>2 DEF close, PoolTypeOK
    <2>3. life' \in [Instances -> Lives] /\ resident' \in Instances \cup {None}
      <3>1. CASE route[p] = None
        BY <1>2, <3>1 DEF close, PoolTypeOK
      <3>2. CASE route[p] # None
        <4>1. route[p] \in Instances /\ life \in [Instances -> Lives] /\ resident \in Instances \cup {None}
          BY <3>2 DEF PoolTypeOK
        <4>2. closeChild(life, route[p], pending[p] # {}) /\ (pending[p] # {}) \in BOOLEAN
          BY <1>2, <3>2 DEF close
        <4>3. life' \in [Instances -> Lives] /\ resident' \in {resident, None}
          BY <4>1, <4>2, CloseChild
        <4> QED  BY <4>1, <4>3
      <3> QED  BY <3>1, <3>2
    <2> QED  BY <1>2, <2>1, <2>2, <2>3 DEF close, history, PoolTypeOK
  <1>3. ASSUME NEW p \in Pools, NEW k \in Ids, handleAddressed(p, k) PROVE PoolTypeOK'
    <2>1. k \in Keys /\ p \in Pools
      BY Values
    <2>2. pending' \in [Pools -> SUBSET Keys]
      BY <1>3, <2>1 DEF handleAddressed, PoolTypeOK
    <2>3. outcome' \in [Pools -> [Ids -> Outcomes]]
      BY <1>3, Values DEF handleAddressed, PoolTypeOK
    <2>4. owed' \in [Instances -> SUBSET (Pools \X Keys)]
      BY <1>3, <2>1 DEF handleAddressed, write, PoolTypeOK
    <2> QED  BY <1>3, <2>2, <2>3, <2>4 DEF handleAddressed, history, PoolTypeOK
  <1>4. ASSUME NEW i \in Instances, NEW r \in Pools \X Keys, Reply(i, r) PROVE PoolTypeOK'
    <2>1. owed' \in [Instances -> SUBSET (Pools \X Keys)]
      BY <1>4 DEF Reply, PoolTypeOK
    <2>2. CASE UNCHANGED <<list, opening, route, pending, outcome>>
      BY <1>4, <2>1, <2>2 DEF Reply, history, PoolTypeOK
    <2>3. ASSUME NEW p \in hears(i), handleResponse(p, i, r) PROVE PoolTypeOK'
      <3>1. p \in Pools /\ settle(p, r[2], r)
        BY <2>3 DEF hears, handleResponse
      <3>2. pending' \in [Pools -> SUBSET Keys]
        BY <3>1 DEF settle, PoolTypeOK
      <3>3. list' \in [Pools -> Waits]
        BY <3>1, Values DEF settle, PoolTypeOK
      <3>4. outcome' \in [Pools -> [Ids -> Outcomes]]
        BY <3>1, Values DEF settle, answered, PoolTypeOK
      <3>5. /\ route' = [route EXCEPT ![p] = i] \/ route' = route
            /\ opening' = [opening EXCEPT ![p] = NotOpening] \/ opening' = opening
        BY <2>3 DEF handleResponse, nowOpening
      <3>6. route' \in [Pools -> Instances \cup {None}]
        <4>1. CASE route' = [route EXCEPT ![p] = i]
          BY <3>1, <4>1 DEF PoolTypeOK
        <4>2. CASE route' = route
          BY <4>2 DEF PoolTypeOK
        <4> QED  BY <3>5, <4>1, <4>2
      <3>7. opening' \in [Pools -> Openings]
        <4>1. CASE opening' = [opening EXCEPT ![p] = NotOpening]
          BY <3>1, <4>1, Values DEF PoolTypeOK
        <4>2. CASE opening' = opening
          BY <4>2 DEF PoolTypeOK
        <4> QED  BY <3>5, <4>1, <4>2
      <3> QED  BY <1>4, <2>1, <3>2, <3>3, <3>4, <3>6, <3>7 DEF Reply, history, PoolTypeOK
    <2> QED  BY <1>4, <2>2, <2>3 DEF Reply
  <1>5. ASSUME NEW i \in Instances, NEW r \in Pools \X Keys, forgetClient(i, r) PROVE PoolTypeOK'
    <2>1. owed' \in [Instances -> SUBSET (Pools \X Keys)]
      BY <1>5 DEF forgetClient, PoolTypeOK
    <2>2. CASE UNCHANGED <<pending, outcome>>
      BY <1>5, <2>1, <2>2 DEF forgetClient, history, PoolTypeOK
    <2>3. ASSUME NEW p \in hears(i), pending' = [pending EXCEPT ![p] = @ \ {r[2]}],
                 outcome' = [outcome EXCEPT ![p][r[2]] = "dropped"]
          PROVE  PoolTypeOK'
      <3>1. p \in Pools
        BY DEF hears
      <3>2. outcome' \in [Pools -> [Ids -> Outcomes]]
        BY <2>3, <3>1, Values DEF PoolTypeOK
      <3>3. pending' \in [Pools -> SUBSET Keys]
        BY <2>3, <3>1 DEF PoolTypeOK
      <3> QED  BY <1>5, <2>1, <3>2, <3>3 DEF forgetClient, history, PoolTypeOK
    <2> QED  BY <1>5, <2>2, <2>3 DEF forgetClient
  <1>6. ASSUME NEW p \in Pools, handleList(p) PROVE PoolTypeOK'
    <2>1. list' \in [Pools -> Waits]
      BY <1>6, Values DEF handleList, PoolTypeOK
    <2>2. opening' \in [Pools -> Openings]
      BY <1>6, Values DEF handleList, nowOpening, PoolTypeOK
    <2> QED  BY <1>6, <2>1, <2>2 DEF handleList, childVars, history, PoolTypeOK
  <1>7. ASSUME NEW p \in Pools, drain(p) PROVE PoolTypeOK'
    <2>1. CASE route[p] # None /\ canAsk(p)
      <3>1. asks[p] + 1 \in 1..MaxAsks
        BY <2>1 DEF canAsk, PoolTypeOK
      <3>2. asks[p] + 1 \in Keys /\ asks[p] + 1 \in Waits /\ asks[p] + 1 \in 0..MaxAsks
        BY <3>1, Values
      <3>3. /\ asks' = [asks EXCEPT ![p] = asks[p] + 1]
            /\ pending' = [pending EXCEPT ![p] = pending[p] \cup {asks[p] + 1}]
            /\ list' = [list EXCEPT ![p] = asks[p] + 1]
            /\ \/ owed' = owed
               \/ owed' = [owed EXCEPT ![route[p]] = owed[route[p]] \cup {<<p, asks[p] + 1>>}]
        BY <1>7, <2>1 DEF drain, ask, write, PoolTypeOK
      <3>4. asks' \in [Pools -> 0..MaxAsks] /\ pending' \in [Pools -> SUBSET Keys]
        BY <3>2, <3>3 DEF PoolTypeOK
      <3>5. owed' \in [Instances -> SUBSET (Pools \X Keys)]
        <4>1. CASE owed' = owed
          BY <4>1 DEF PoolTypeOK
        <4>2. CASE owed' = [owed EXCEPT ![route[p]] = owed[route[p]] \cup {<<p, asks[p] + 1>>}]
          <5>1. <<p, asks[p] + 1>> \in Pools \X Keys
            BY <3>2
          <5> QED  BY <4>2, <5>1 DEF PoolTypeOK
        <4> QED  BY <3>3, <4>1, <4>2
      <3>6. list' \in [Pools -> Waits]
        BY <3>2, <3>3 DEF PoolTypeOK
      <3> QED  BY <1>7, <3>4, <3>5, <3>6 DEF drain, history, PoolTypeOK
    <2>2. CASE ~(route[p] # None /\ canAsk(p))
      <3>1. list' = [list EXCEPT ![p] = NoList]
        BY <1>7, <2>2 DEF drain
      <3>2. list' \in [Pools -> Waits]
        BY <3>1, Values DEF PoolTypeOK
      <3> QED  BY <1>7, <2>2, <3>2 DEF drain, history, PoolTypeOK
    <2> QED  BY <2>1, <2>2
  <1>8. ASSUME NEW p \in Pools, fanoutTimeout(p) PROVE PoolTypeOK'
    <2>1. list' \in [Pools -> Waits]
      BY <1>8, Values DEF fanoutTimeout, PoolTypeOK
    <2>2. CASE route[p] = None
      BY <1>8, <2>1, <2>2 DEF fanoutTimeout, history, PoolTypeOK
    <2>3. CASE route[p] # None
      BY <1>8, <2>1, <2>3, DetachType DEF fanoutTimeout, history, PoolTypeOK
    <2> QED  BY <2>2, <2>3
  <1>9. ASSUME NEW p \in Pools, refuse(p) PROVE PoolTypeOK'
    <2>1. opening' \in [Pools -> Openings]
      BY <1>9, Values DEF refuse, nowOpening, PoolTypeOK
    <2> QED  BY <1>9, <2>1 DEF refuse, childVars, history, PoolTypeOK
  <1>10. ASSUME NEW p \in Pools, attach(p) PROVE PoolTypeOK'
    <2>1. opening' \in [Pools -> Openings]
      BY <1>10, Values DEF attach, nowOpening, PoolTypeOK
    <2>2. resident \in Instances /\ life \in [Instances -> Lives]
      BY <1>10 DEF attach, isHeldReady, PoolTypeOK
    <2>3. /\ life' \in [Instances -> Lives] /\ resident' \in {resident, None}
          /\ route' \in [Pools -> Instances \cup {None}]
      <3>1. CASE closed[p]
        BY <1>10, <2>2, <3>1, CloseChild DEF attach, PoolTypeOK
      <3>2. CASE ~closed[p]
        BY <1>10, <2>2, <3>2 DEF attach, PoolTypeOK
      <3> QED  BY <3>1, <3>2
    <2> QED  BY <1>10, <2>1, <2>2, <2>3 DEF attach, history, PoolTypeOK
  <1>11. ASSUME NEW p \in Pools, NEW i \in Instances, openOwnChild(p, i) PROVE PoolTypeOK'
    <2>1. asks[p] + 1 \in 1..MaxAsks
      BY <1>11 DEF openOwnChild, canAsk, PoolTypeOK
    <2>2. asks[p] + 1 \in Keys /\ asks[p] + 1 \in 0..MaxAsks
      BY <2>1, Values
    <2>3. opening' \in [Pools -> Openings]
      BY <1>11, <2>2, Values DEF openOwnChild, nowOpening, PoolTypeOK
    <2>4. asks' \in [Pools -> 0..MaxAsks] /\ pending' \in [Pools -> SUBSET Keys]
      BY <1>11, <2>2 DEF openOwnChild, PoolTypeOK
    <2>5. owed' \in [Instances -> SUBSET (Pools \X Keys)]
      BY <1>11, <2>2 DEF openOwnChild, PoolTypeOK
    <2>6. /\ life' \in [Instances -> Lives]
          /\ owner' \in [Instances -> Pools \cup {"unborn", "supervisor"}]
      BY <1>11, Values DEF openOwnChild, PoolTypeOK
    <2> QED  BY <1>11, <2>3, <2>4, <2>5, <2>6 DEF openOwnChild, history, PoolTypeOK
  <1>12. ASSUME NEW p \in Pools, startTimeout(p) PROVE PoolTypeOK'
    <2>1. opening' \in [Pools -> Openings]
      BY <1>12, OpeningFields, Values DEF startTimeout, nowOpening, PoolTypeOK
    <2>2. life' \in [Instances -> Lives]
      BY <1>12, Values DEF startTimeout, shut, PoolTypeOK
    <2>3. opening[p].ask \in 1..MaxAsks
      BY <1>12 DEF startTimeout, Routes
    <2>4. timedOut' \in [Pools -> SUBSET (1..MaxAsks)]
      BY <1>12, <2>3 DEF startTimeout, PoolTypeOK
    <2> QED  BY <1>12, <2>1, <2>2, <2>4 DEF startTimeout, PoolTypeOK
  <1>13. ASSUME NEW i \in Instances, startReady(i) PROVE PoolTypeOK'
    <2>1. /\ life' \in [Instances -> Lives]
          /\ owner' \in [Instances -> Pools \cup {"unborn", "supervisor"}]
      BY <1>13, Values DEF startReady, PoolTypeOK
    <2> QED  BY <1>13, <2>1 DEF startReady, poolVars, history, PoolTypeOK
  <1>14. ASSUME stopReady PROVE PoolTypeOK'
    <2>1. life' \in [Instances -> Lives]
      BY <1>14, Values DEF stopReady, shut, PoolTypeOK
    <2> QED  BY <1>14, <2>1, Values DEF stopReady, poolVars, history, PoolTypeOK
  <1>15. ASSUME NEW i \in Instances, endSession(i) PROVE PoolTypeOK'
    <2>1. life' \in [Instances -> Lives]
      BY <1>15, Values DEF endSession, PoolTypeOK
    <2> QED  BY <1>15, <2>1 DEF endSession, poolVars, history, PoolTypeOK
  <1>16. ASSUME NEW i \in Instances, sessionEnded(i) PROVE PoolTypeOK'
    <2>0. /\ owed' \in [Instances -> SUBSET (Pools \X Keys)]
          /\ [life EXCEPT ![i] = "ended"] \in [Instances -> Lives]
      BY <1>16, Values DEF sessionEnded, PoolTypeOK
    <2>1. CASE owner[i] \in Pools /\ endDuringStart(owner[i], i, [life EXCEPT ![i] = "ended"])
      <3>1. opening' \in [Pools -> Openings]
        BY <2>1, Values DEF endDuringStart, nowOpening, PoolTypeOK
      <3>2. pending' \in [Pools -> SUBSET Keys]
        BY <2>1 DEF endDuringStart, PoolTypeOK
      <3>3. list' = [list EXCEPT ![owner[i]] = NoList] \/ list' = list
        BY <2>1 DEF endDuringStart
      <3>4. list' \in [Pools -> Waits]
        <4>1. CASE list' = [list EXCEPT ![owner[i]] = NoList]
          BY <2>1, <4>1, Values DEF PoolTypeOK
        <4>2. CASE list' = list
          BY <4>2 DEF PoolTypeOK
        <4> QED  BY <3>3, <4>1, <4>2
      <3> QED  BY <1>16, <2>1, <2>0, <3>1, <3>2, <3>4 DEF sessionEnded, endDuringStart, PoolTypeOK
    <2>2. CASE owner[i] \in Pools /\ endOfMember(owner[i], i, [life EXCEPT ![i] = "ended"])
      <3>2. CASE route[owner[i]] = None
        BY <1>16, <2>2, <2>0, <3>2 DEF sessionEnded, endOfMember, PoolTypeOK
      <3>3. CASE route[owner[i]] # None
        <4>1. /\ releaseServer(owner[i])
              /\ closeChild([life EXCEPT ![i] = "ended"], route[owner[i]], FALSE)
              /\ route' = [route EXCEPT ![owner[i]] = None]
          BY <2>2, <3>3 DEF endOfMember, detachRoute
        <4>2. route[owner[i]] \in Instances
          BY <2>2, <3>3 DEF PoolTypeOK
        <4>3. life' \in [Instances -> Lives] /\ resident' \in {resident, None}
          BY <2>0, <4>1, <4>2, CloseChild
        <4>4. tainted' \subseteq Instances
          BY <2>2, <3>3, <4>2 DEF endOfMember, PoolTypeOK
        <4>5. route' \in [Pools -> Instances \cup {None}]
          BY <4>1 DEF PoolTypeOK
        <4>6. pending' \in [Pools -> SUBSET Keys] /\ outcome' \in [Pools -> [Ids -> Outcomes]]
          BY <2>2, <4>1, ReleaseType
        <4> QED
          BY <1>16, <2>2, <2>0, <4>3, <4>4, <4>5, <4>6 DEF sessionEnded, endOfMember, PoolTypeOK
      <3> QED  BY <3>2, <3>3
    <2>3. CASE owner[i] = "supervisor" /\ endOfHeld(i, [life EXCEPT ![i] = "ended"])
      <3>2. resident' \in Instances \cup {None}
        BY <2>3, Values DEF endOfHeld, PoolTypeOK
      <3>3. /\ route' \in [Pools -> Instances \cup {None}]
            /\ pending' \in [Pools -> SUBSET Keys]
            /\ outcome' \in [Pools -> [Ids -> Outcomes]]
        <4>1. ASSUME NEW p \in Pools, detachRoute(p)
              PROVE  route' \in [Pools -> Instances \cup {None}] /\ releaseServer(p)
          BY <4>1 DEF detachRoute, PoolTypeOK
        <4>2. CASE \E p \in Pools : route[p] = i
          BY <2>3, <4>1, <4>2, ReleaseType DEF endOfHeld
        <4>3. CASE ~\E p \in Pools : route[p] = i
          BY <2>3, <4>3 DEF endOfHeld, PoolTypeOK
        <4> QED  BY <4>2, <4>3
      <3> QED  BY <1>16, <2>3, <2>0, <3>2, <3>3 DEF sessionEnded, endOfHeld, PoolTypeOK
    <2> QED  BY <1>16, <2>1, <2>2, <2>3 DEF sessionEnded
  <1>17. CASE UNCHANGED vars
    BY <1>17 DEF vars, PoolTypeOK
  <1> QED
    BY <1>1, <1>2, <1>3, <1>4, <1>5, <1>6, <1>7, <1>8, <1>9,
       <1>10, <1>11, <1>12, <1>13, <1>14, <1>15, <1>16, <1>17
    DEF Next, Pool, Agent, Answer, Supervisor

-----------------------------------------------------------------------------
(* Routes. *)

LEMMA RoutesStep ==
  ASSUME PoolTypeOK, Routes, [Next]_vars
  PROVE  Routes'
  <1> USE DEF PoolTypeOK, Routes
  <1>1. ASSUME NEW p \in Pools, membershipChanged(p) PROVE Routes'
    BY <1>1 DEF membershipChanged, detach, detachRoute, releaseServer, released, closeChild, shut, history
  <1>2. ASSUME NEW p \in Pools, close(p) PROVE Routes'
    BY <1>2 DEF close, closeChild, shut, history
  <1>3. ASSUME NEW p \in Pools, NEW k \in Ids, handleAddressed(p, k) PROVE Routes'
    BY <1>3 DEF handleAddressed, write, history
  <1>4. ASSUME NEW i \in Instances, NEW r \in Pools \X Keys, Reply(i, r) PROVE Routes'
    <2>1. \A j \in Instances : owner[j] = "unborn" => owed'[j] = {}
      BY <1>4 DEF Reply, Routes, PoolTypeOK
    <2>2. CASE UNCHANGED <<list, opening, route, pending, outcome>>
      BY <1>4, <2>1, <2>2, RoutesLoosened DEF Reply
    <2>3. ASSUME NEW p \in hears(i), handleResponse(p, i, r) PROVE Routes'
      <3>1. p \in Pools /\ ~closed[p] /\ (route[p] = i \/ opening[p].child = i) /\ i # None
        BY DEF hears
      <3>2. CASE UNCHANGED <<opening, route>>
        BY <1>4, <2>1, <3>2, RoutesLoosened DEF Reply
      <3>3. CASE /\ opening[p].at = "handshake" /\ opening' = [opening EXCEPT ![p] = NotOpening]
                 /\ route' = [route EXCEPT ![p] = i]
        <4>1. route[p] = None /\ opening[p].child = i /\ owner[i] = p
          BY <3>1, <3>3 DEF Routes
        <4>2. \A q \in Pools : route[q] # i
          BY <3>1, <4>1 DEF Routes
        <4>3. /\ \A q \in Pools : route'[q] = IF q = p THEN i ELSE route[q]
              /\ \A q \in Pools : opening'[q] = IF q = p THEN NotOpening ELSE opening[q]
          BY <3>1, <3>3 DEF PoolTypeOK
        <4>4. UNCHANGED <<closed, owner, resident>>
          BY <1>4 DEF Reply
        <4>5. owner[i] \in {p, "supervisor"} /\ (owner[i] = "supervisor" => resident = i)
          BY <3>1, <4>1
        <4> HIDE DEF Routes, PoolTypeOK
        <4> QED  BY <2>1, <3>1, <4>2, <4>3, <4>4, <4>5, RoutesGained
      <3> QED  BY <2>3, <3>2, <3>3 DEF handleResponse, nowOpening
    <2> QED  BY <1>4, <2>2, <2>3 DEF Reply
  <1>5. ASSUME NEW i \in Instances, NEW r \in Pools \X Keys, forgetClient(i, r) PROVE Routes'
    BY <1>5 DEF forgetClient, history, hears
  <1>6. ASSUME NEW p \in Pools, handleList(p) PROVE Routes'
    <2>1. UNCHANGED <<closed, route, owner, resident, owed>> /\ ~closed[p]
      BY <1>6 DEF handleList, childVars
    <2>2. CASE opening' = opening
      BY <2>1, <2>2 DEF Routes
    <2>3. CASE route[p] = None /\ opening' = [opening EXCEPT ![p] = [at |-> "acquire", child |-> None, ask |-> 0]]
      <3>1. /\ \A q \in Pools \ {p} : opening'[q] = opening[q]
            /\ opening'[p].at = "acquire" /\ opening'[p].child = None
        BY <2>3 DEF PoolTypeOK
      <3> QED  BY <2>1, <2>3, <3>1 DEF Routes
    <2> QED  BY <1>6, <2>2, <2>3 DEF handleList, nowOpening
  <1>7. ASSUME NEW p \in Pools, drain(p) PROVE Routes'
    <2>1. UNCHANGED <<closed, opening, route, owner, resident>>
      BY <1>7 DEF drain
    <2>2. CASE owed' = owed
      BY <2>1, <2>2 DEF Routes
    <2>3. CASE route[p] # None /\ \E a : owed' = [owed EXCEPT ![route[p]] = a]
      <3>1. owner[route[p]] # "unborn"
        BY <2>3 DEF Routes
      <3>2. \A j \in Instances : owner[j] = "unborn" => owed'[j] = owed[j]
        BY <2>3, <3>1 DEF PoolTypeOK
      <3> QED  BY <2>1, <3>2 DEF Routes
    <2> QED  BY <1>7, <2>2, <2>3 DEF drain, ask, write
  <1>8. ASSUME NEW p \in Pools, fanoutTimeout(p) PROVE Routes'
    <2>1. UNCHANGED <<closed, opening, owner, owed>>
      BY <1>8 DEF fanoutTimeout
    <2>2. CASE UNCHANGED <<route, resident>>
      BY <2>1, <2>2 DEF Routes
    <2>3. CASE route[p] # None /\ detach(p, TRUE)
      <3>1. route[p] \in Instances /\ life \in [Instances -> Lives]
        BY <2>3 DEF PoolTypeOK
      <3>2. /\ resident' \in {resident, None}
            /\ owner[route[p]] \in Pools => resident' = resident
        BY <2>3, <3>1, CloseChild DEF detach
      <3>3. /\ \A q \in Pools \ {p} : route'[q] = route[q]
            /\ route'[p] = None
        BY <2>3 DEF detach, detachRoute, PoolTypeOK
      <3>4. \A q \in Pools : route'[q] # None => resident' = resident \/ route[q] # resident
        BY <2>3, <3>2, <3>3 DEF Routes
      <3>5. \A j \in Instances : owner[j] = "unborn" => owed'[j] = {}
        BY <2>1 DEF Routes
      <3> QED  BY <2>1, <3>2, <3>3, <3>4, <3>5, RoutesLoosened
    <2> QED  BY <1>8, <2>2, <2>3 DEF fanoutTimeout
  <1>9. ASSUME NEW p \in Pools, refuse(p) PROVE Routes'
    BY <1>9 DEF refuse, nowOpening, NotOpening, childVars, history
  <1>10. ASSUME NEW p \in Pools, attach(p) PROVE Routes'
    <2>1. UNCHANGED <<closed, owner, owed>> /\ resident # None /\ \A q \in Pools : route[q] # resident
      BY <1>10 DEF attach, isHeldReady
    <2>2. opening' = [opening EXCEPT ![p] = NotOpening] /\ opening[p].at = "acquire"
      BY <1>10 DEF attach, nowOpening
    <2>3. \A q \in Pools : opening'[q] = IF q = p THEN NotOpening ELSE opening[q]
      BY <2>2 DEF PoolTypeOK
    <2>4. CASE closed[p]
      <3>1. closeChild(life, resident, FALSE) /\ route' = route
        BY <1>10, <2>4 DEF attach
      <3>2. resident' \in {resident, None}
        BY <3>1 DEF closeChild
      <3>3. \A j \in Instances : owner[j] = "unborn" => owed'[j] = {}
        BY <2>1 DEF Routes
      <3> QED  BY <2>1, <2>3, <3>1, <3>2, <3>3, RoutesLoosened
    <2>5. CASE ~closed[p]
      <3>1. /\ resident' = resident
            /\ \A q \in Pools : route'[q] = IF q = p THEN resident ELSE route[q]
        BY <1>10, <2>5 DEF attach, PoolTypeOK
      <3>2. owner[resident] = "supervisor" /\ resident \in Instances
        BY <2>1 DEF Routes, PoolTypeOK
      <3>3. \A j \in Instances : owner[j] = "unborn" => owed'[j] = {}
        BY <2>1 DEF Routes
      <3>4. UNCHANGED <<closed, owner, resident>>
        BY <2>1, <3>1
      <3> HIDE DEF Routes, PoolTypeOK
      <3> QED  BY <2>1, <2>3, <2>5, <3>1, <3>2, <3>3, <3>4, RoutesGained
    <2> QED  BY <2>4, <2>5
  <1>11. ASSUME NEW p \in Pools, NEW i \in Instances, openOwnChild(p, i) PROVE Routes'
    BY <1>11 DEF openOwnChild, canAsk, isNext, nowOpening, history
  <1>12. ASSUME NEW p \in Pools, startTimeout(p) PROVE Routes'
    BY <1>12 DEF startTimeout, nowOpening, shut
  <1>13. ASSUME NEW i \in Instances, startReady(i) PROVE Routes'
    BY <1>13 DEF startReady, isNext, poolVars, history
  <1>14. ASSUME stopReady PROVE Routes'
    BY <1>14 DEF stopReady, isHeldReady, shut, poolVars, history
  <1>15. ASSUME NEW i \in Instances, endSession(i) PROVE Routes'
    BY <1>15 DEF endSession, poolVars, history
  <1>16. ASSUME NEW i \in Instances, sessionEnded(i) PROVE Routes'
    <2>0. /\ UNCHANGED <<closed, owner>>
          /\ \A j \in Instances : owner[j] = "unborn" => owed'[j] = {}
      BY <1>16 DEF sessionEnded, Routes, PoolTypeOK
    <2>1. CASE owner[i] \in Pools /\ endDuringStart(owner[i], i, [life EXCEPT ![i] = "ended"])
      BY <1>16, <2>1 DEF sessionEnded, endDuringStart, nowOpening, NotOpening
    <2>2. CASE owner[i] \in Pools /\ endOfMember(owner[i], i, [life EXCEPT ![i] = "ended"])
      <3>1. opening' = opening
        BY <2>2 DEF endOfMember
      <3>2. CASE UNCHANGED <<route, resident>>
        BY <2>0, <3>1, <3>2, RoutesLoosened
      <3>3. CASE /\ route[owner[i]] # None /\ detachRoute(owner[i])
                 /\ closeChild([life EXCEPT ![i] = "ended"], route[owner[i]], FALSE)
        <4>1. /\ resident' \in {resident, None}
              /\ owner[route[owner[i]]] \in Pools => resident' = resident
          BY <3>3, PoolAssumption DEF closeChild
        <4>2. /\ \A q \in Pools \ {owner[i]} : route'[q] = route[q]
              /\ route'[owner[i]] = None
          BY <2>2, <3>3 DEF detachRoute, PoolTypeOK
        <4>3. \A q \in Pools : route'[q] # None => resident' = resident \/ route[q] # resident
          <5>1. owner[route[owner[i]]] \in Pools \/ resident = route[owner[i]]
            BY <2>2, <3>3 DEF Routes
          <5>2. \A q \in Pools : route[q] = route[owner[i]] => q = owner[i]
            BY <2>2, <3>3 DEF Routes
          <5> QED  BY <2>2, <3>3, <4>1, <4>2, <5>1, <5>2
        <4> QED  BY <2>0, <3>1, <4>1, <4>2, <4>3, RoutesLoosened
      <3> QED  BY <2>2, <3>2, <3>3 DEF endOfMember
    <2>3. CASE owner[i] = "supervisor" /\ endOfHeld(i, [life EXCEPT ![i] = "ended"])
      <3>1. opening' = opening /\ resident' = IF resident = i THEN None ELSE resident
        BY <2>3 DEF endOfHeld
      <3>2. \A q \in Pools : /\ route'[q] \in {route[q], None}
                             /\ route[q] = i => route'[q] = None
        <4>1. CASE \E p \in Pools : route[p] = i
          <5>1. PICK p \in Pools : route[p] = i /\ route' = [route EXCEPT ![p] = None]
            BY <2>3, <4>1 DEF endOfHeld, detachRoute
          <5>2. \A q \in Pools : route[q] = i => q = p
            BY <5>1 DEF Routes
          <5> QED  BY <5>1, <5>2 DEF PoolTypeOK
        <4>2. CASE ~\E p \in Pools : route[p] = i
          BY <2>3, <4>2 DEF endOfHeld
        <4> QED  BY <4>1, <4>2
      <3>3. \A q \in Pools : route'[q] # None => resident' = resident \/ route[q] # resident
        BY <3>1, <3>2
      <3>4. resident' \in {resident, None}
        BY <3>1
      <3> QED  BY <2>0, <3>1, <3>2, <3>3, <3>4, RoutesLoosened
    <2> QED  BY <1>16, <2>1, <2>2, <2>3 DEF sessionEnded
  <1>17. CASE UNCHANGED vars
    BY <1>17 DEF vars
  <1> QED
    BY <1>1, <1>2, <1>3, <1>4, <1>5, <1>6, <1>7, <1>8, <1>9,
       <1>10, <1>11, <1>12, <1>13, <1>14, <1>15, <1>16, <1>17
    DEF Next, Pool, Agent, Answer, Supervisor

-----------------------------------------------------------------------------
(* Calls in flight. *)

LEMMA AskedStep ==
  ASSUME PoolTypeOK, PendingAsked, [Next]_vars
  PROVE  PendingAsked'
  <1> USE DEF PoolTypeOK, PendingAsked
  <1>1. ASSUME NEW p \in Pools, membershipChanged(p) PROVE PendingAsked'
    BY <1>1 DEF membershipChanged, detach, detachRoute, releaseServer, released, closeChild, shut, history
  <1>2. ASSUME NEW p \in Pools, close(p) PROVE PendingAsked'
    BY <1>2 DEF close, closeChild, shut, history
  <1>3. ASSUME NEW p \in Pools, NEW k \in Ids, handleAddressed(p, k) PROVE PendingAsked'
    BY <1>3 DEF handleAddressed, write, history
  <1>4. ASSUME NEW i \in Instances, NEW r \in Pools \X Keys, Reply(i, r) PROVE PendingAsked'
    <2>1. CASE UNCHANGED <<pending, outcome>>
      BY <2>1
    <2>2. ASSUME NEW p \in hears(i), handleResponse(p, i, r) PROVE PendingAsked'
      <3>1. p \in Pools /\ settle(p, r[2], r)
        BY <2>2 DEF hears, handleResponse
      <3>2. \A q \in Pools : pending'[q] = IF q = p THEN pending[p] \ {r[2]} ELSE pending[q]
        BY <3>1 DEF settle
      <3>3. \A q \in Pools, k \in Ids : q # p \/ k # r[2] => outcome'[q][k] = outcome[q][k]
        BY <3>1 DEF settle
      <3> QED  BY <3>2, <3>3, AskedKept
    <2> QED  BY <1>4, <2>1, <2>2 DEF Reply
  <1>5. ASSUME NEW i \in Instances, NEW r \in Pools \X Keys, forgetClient(i, r) PROVE PendingAsked'
    <2>1. CASE UNCHANGED <<pending, outcome>>
      BY <2>1
    <2>2. ASSUME NEW p \in hears(i), pending' = [pending EXCEPT ![p] = @ \ {r[2]}],
                 outcome' = [outcome EXCEPT ![p][r[2]] = "dropped"]
          PROVE  PendingAsked'
      <3>1. p \in Pools
        BY DEF hears
      <3>2. \A q \in Pools : pending'[q] = IF q = p THEN pending[p] \ {r[2]} ELSE pending[q]
        BY <2>2, <3>1
      <3>3. \A q \in Pools, k \in Ids : q # p \/ k # r[2] => outcome'[q][k] = outcome[q][k]
        BY <2>2, <3>1
      <3> QED  BY <3>2, <3>3, AskedKept
    <2> QED  BY <1>5, <2>1, <2>2 DEF forgetClient
  <1>6. ASSUME NEW p \in Pools, handleList(p) PROVE PendingAsked'
    BY <1>6 DEF handleList, nowOpening, NotOpening, childVars, history
  <1>7. ASSUME NEW p \in Pools, drain(p) PROVE PendingAsked'
    <2>1. CASE UNCHANGED pending
      BY <1>7, <2>1 DEF drain
    <2>2. CASE ask(p, route[p])
      <3>1. asks[p] + 1 \notin Ids
        BY MintedIsNoClientId
      <3>2. \A q \in Pools : pending'[q] \subseteq pending[q] \cup {asks[p] + 1}
        BY <2>2 DEF ask
      <3> QED  BY <1>7, <3>1, <3>2 DEF drain
    <2> QED  BY <1>7, <2>1, <2>2 DEF drain
  <1>8. ASSUME NEW p \in Pools, fanoutTimeout(p) PROVE PendingAsked'
    <2>1. UNCHANGED <<pending, outcome>> \/ releaseServer(p)
      BY <1>8 DEF fanoutTimeout, detach, detachRoute
    <2> QED  BY <2>1, AskedReleased
  <1>9. ASSUME NEW p \in Pools, refuse(p) PROVE PendingAsked'
    BY <1>9 DEF refuse, nowOpening, NotOpening, childVars, history
  <1>10. ASSUME NEW p \in Pools, attach(p) PROVE PendingAsked'
    BY <1>10 DEF attach, isHeldReady, nowOpening, NotOpening, closeChild, shut, history
  <1>11. ASSUME NEW p \in Pools, NEW i \in Instances, openOwnChild(p, i) PROVE PendingAsked'
    <2>1. asks[p] + 1 \notin Ids
      BY MintedIsNoClientId
    <2>2. \A q \in Pools : pending'[q] \subseteq pending[q] \cup {asks[p] + 1}
      BY <1>11 DEF openOwnChild
    <2> QED  BY <1>11, <2>1, <2>2 DEF openOwnChild
  <1>12. ASSUME NEW p \in Pools, startTimeout(p) PROVE PendingAsked'
    BY <1>12 DEF startTimeout, nowOpening, shut
  <1>13. ASSUME NEW i \in Instances, startReady(i) PROVE PendingAsked'
    BY <1>13 DEF startReady, isNext, poolVars, history
  <1>14. ASSUME stopReady PROVE PendingAsked'
    BY <1>14 DEF stopReady, isHeldReady, shut, poolVars, history
  <1>15. ASSUME NEW i \in Instances, endSession(i) PROVE PendingAsked'
    BY <1>15 DEF endSession, poolVars, history
  <1>16. ASSUME NEW i \in Instances, sessionEnded(i) PROVE PendingAsked'
    <2>1. CASE owner[i] \in Pools /\ endDuringStart(owner[i], i, [life EXCEPT ![i] = "ended"])
      <3>1. outcome' = outcome /\ \A q \in Pools : pending'[q] \in {pending[q], {}}
        BY <2>1 DEF endDuringStart
      <3> QED  BY <3>1
    <2>2. CASE owner[i] \in Pools /\ endOfMember(owner[i], i, [life EXCEPT ![i] = "ended"])
      <3>1. UNCHANGED <<pending, outcome>> \/ releaseServer(owner[i])
        BY <2>2 DEF endOfMember, detachRoute
      <3> QED  BY <2>2, <3>1, AskedReleased
    <2>3. CASE owner[i] = "supervisor" /\ endOfHeld(i, [life EXCEPT ![i] = "ended"])
      <3>1. UNCHANGED <<pending, outcome>> \/ \E p \in Pools : releaseServer(p)
        BY <2>3 DEF endOfHeld, detachRoute
      <3> QED  BY <3>1, AskedReleased
    <2> QED  BY <1>16, <2>1, <2>2, <2>3 DEF sessionEnded
  <1>17. CASE UNCHANGED vars
    BY <1>17 DEF vars
  <1> QED
    BY <1>1, <1>2, <1>3, <1>4, <1>5, <1>6, <1>7, <1>8, <1>9,
       <1>10, <1>11, <1>12, <1>13, <1>14, <1>15, <1>16, <1>17
    DEF Next, Pool, Agent, Answer, Supervisor

-----------------------------------------------------------------------------
(* What the correlator waits for. *)

LEMMA StrandedStep ==
  ASSUME PoolTypeOK, Routes, NothingStranded, [Next]_vars
  PROVE  NothingStranded'
  <1> USE DEF PoolTypeOK, Routes, NothingStranded
  <1>1. ASSUME NEW p \in Pools, membershipChanged(p) PROVE NothingStranded'
    BY <1>1 DEF membershipChanged, detach, detachRoute, releaseServer, released, closeChild, shut, history
  <1>2. ASSUME NEW p \in Pools, close(p) PROVE NothingStranded'
    BY <1>2 DEF close, closeChild, shut, history
  <1>3. ASSUME NEW p \in Pools, NEW k \in Ids, handleAddressed(p, k) PROVE NothingStranded'
    BY <1>3 DEF handleAddressed, write, history
  <1>4. ASSUME NEW i \in Instances, NEW r \in Pools \X Keys, Reply(i, r) PROVE NothingStranded'
    BY <1>4 DEF Reply, handleResponse, settle, answered, nowOpening, NotOpening, history, hears
  <1>5. ASSUME NEW i \in Instances, NEW r \in Pools \X Keys, forgetClient(i, r) PROVE NothingStranded'
    <2> HIDE DEF PoolTypeOK, Routes, NothingStranded
    <2>1. UNCHANGED <<closed, opening, route, life, timedOut>>
      BY <1>5 DEF forgetClient, history
    <2>2. \A q \in Pools : pending'[q] \subseteq pending[q]
      <3>1. \/ pending' = pending
            \/ \E p \in Pools : pending' = [pending EXCEPT ![p] = @ \ {r[2]}]
        BY <1>5 DEF forgetClient, hears
      <3>2. CASE pending' = pending
        BY <3>2
      <3>3. ASSUME NEW p \in Pools, pending' = [pending EXCEPT ![p] = @ \ {r[2]}]
            PROVE  \A q \in Pools : pending'[q] \subseteq pending[q]
        BY <3>3 DEF PoolTypeOK
      <3> QED  BY <3>1, <3>2, <3>3
    <2>3. ASSUME NEW q \in Pools, ~closed[q], route[q] = i, r[2] \in pending'[q] PROVE FALSE
      <3>1. q \in hears(i) /\ r[2] \in pending[q]
        BY <2>2, <2>3 DEF hears
      <3>2. PICK p \in hears(i) : pending' = [pending EXCEPT ![p] = @ \ {r[2]}]
        BY <1>5, <3>1 DEF forgetClient
      <3>3. p = q
        BY <3>1, OneHears
      <3>4. r[2] \notin pending'[q]
        BY <3>2, <3>3 DEF PoolTypeOK
      <3> QED  BY <2>3, <3>4
    <2>4. \A s \in Pools \X Keys, j \in Instances : s \in owed[j] /\ s \notin owed'[j] => j = i /\ s = r
      BY <1>5 DEF forgetClient, PoolTypeOK
    <2>5. ASSUME NEW q \in Pools, ~closed[q], NEW k \in pending'[q],
                 route[q] # None, <<q, k>> \in owed[route[q]]
          PROVE  <<q, k>> \in owed'[route[q]]
      <3>1. <<q, k>> \in Pools \X Keys /\ route[q] \in Instances
        BY <2>2, <2>5 DEF PoolTypeOK
      <3>2. CASE route[q] = i /\ <<q, k>> = r
        BY <2>3, <2>5, <3>2
      <3> QED  BY <2>4, <2>5, <3>1, <3>2
    <2> QED  BY <2>1, <2>2, <2>5 DEF NothingStranded
  <1>6. ASSUME NEW p \in Pools, handleList(p) PROVE NothingStranded'
    <2>1. UNCHANGED <<closed, route, pending, owed, life, timedOut>>
      BY <1>6 DEF handleList, childVars, history
    <2>2. \A q \in Pools : opening[q].at = "handshake" => opening'[q] = opening[q]
      BY <1>6 DEF handleList, nowOpening
    <2> HIDE DEF PoolTypeOK, Routes
    <2> QED  BY <2>1, <2>2
  <1>7. ASSUME NEW p \in Pools, drain(p) PROVE NothingStranded'
    BY <1>7 DEF drain, ask, canAsk, write, history
  <1>8. ASSUME NEW p \in Pools, fanoutTimeout(p) PROVE NothingStranded'
    BY <1>8 DEF fanoutTimeout, detach, detachRoute, releaseServer, released, closeChild, shut, history
  <1>9. ASSUME NEW p \in Pools, refuse(p) PROVE NothingStranded'
    BY <1>9 DEF refuse, nowOpening, NotOpening, childVars, history
  <1>10. ASSUME NEW p \in Pools, attach(p) PROVE NothingStranded'
    BY <1>10 DEF attach, isHeldReady, nowOpening, NotOpening, closeChild, shut, history
  <1>11. ASSUME NEW p \in Pools, NEW i \in Instances, openOwnChild(p, i) PROVE NothingStranded'
    BY <1>11 DEF openOwnChild, canAsk, isNext, nowOpening, history
  <1>12. ASSUME NEW p \in Pools, startTimeout(p) PROVE NothingStranded'
    BY <1>12 DEF startTimeout, nowOpening, shut
  <1>13. ASSUME NEW i \in Instances, startReady(i) PROVE NothingStranded'
    BY <1>13 DEF startReady, isNext, poolVars, history
  <1>14. ASSUME stopReady PROVE NothingStranded'
    BY <1>14 DEF stopReady, isHeldReady, shut, poolVars, history
  <1>15. ASSUME NEW i \in Instances, endSession(i) PROVE NothingStranded'
    BY <1>15 DEF endSession, poolVars, history
  <1>16. ASSUME NEW i \in Instances, sessionEnded(i) PROVE NothingStranded'
    <2>1. CASE owner[i] \in Pools /\ endDuringStart(owner[i], i, [life EXCEPT ![i] = "ended"])
      BY <1>16, <2>1 DEF sessionEnded, endDuringStart, nowOpening, NotOpening
    <2>2. CASE owner[i] \in Pools /\ endOfMember(owner[i], i, [life EXCEPT ![i] = "ended"])
      BY <1>16, <2>2 DEF sessionEnded, endOfMember, detachRoute, releaseServer, released, closeChild, shut
    <2>3. CASE owner[i] = "supervisor" /\ endOfHeld(i, [life EXCEPT ![i] = "ended"])
      BY <1>16, <2>3 DEF sessionEnded, endOfHeld, detachRoute, releaseServer, released
    <2> QED  BY <1>16, <2>1, <2>2, <2>3 DEF sessionEnded
  <1>17. CASE UNCHANGED vars
    BY <1>17 DEF vars
  <1> QED
    BY <1>1, <1>2, <1>3, <1>4, <1>5, <1>6, <1>7, <1>8, <1>9,
       <1>10, <1>11, <1>12, <1>13, <1>14, <1>15, <1>16, <1>17
    DEF Next, Pool, Agent, Answer, Supervisor

-----------------------------------------------------------------------------
(* What a session owes. *)

LEMMA OwedStep ==
  ASSUME PoolTypeOK, Routes, NothingStranded, OwedIsPending, [Next]_vars
  PROVE  OwedIsPending'
  <1> USE DEF PoolTypeOK, Routes, OwedIsPending
  <1>1. ASSUME NEW p \in Pools, membershipChanged(p) PROVE OwedIsPending'
    BY <1>1 DEF membershipChanged, detach, detachRoute, releaseServer, released, closeChild, shut, history
  <1>2. ASSUME NEW p \in Pools, close(p) PROVE OwedIsPending'
    BY <1>2 DEF close, closeChild, shut, history
  <1>3. ASSUME NEW p \in Pools, NEW k \in Ids, handleAddressed(p, k) PROVE OwedIsPending'
    BY <1>3 DEF handleAddressed, write, history
  <1>4. ASSUME NEW i \in Instances, NEW r \in Pools \X Keys, Reply(i, r) PROVE OwedIsPending'
    <2> HIDE DEF PoolTypeOK, Routes, OwedIsPending
    <2>1. /\ r \in owed[i] /\ owed' = [owed EXCEPT ![i] = @ \ {r}]
          /\ UNCHANGED <<owner, resident, tainted>>
      BY <1>4 DEF Reply, history
    <2>2. CASE UNCHANGED <<route, pending, outcome>>
      <3>1. \A j \in Instances : owed'[j] \subseteq owed[j]
        BY <2>1 DEF PoolTypeOK
      <3> QED  BY <2>1, <2>2, <3>1 DEF OwedIsPending, PoolTypeOK
    <2>3. ASSUME NEW p \in hears(i), handleResponse(p, i, r) PROVE OwedIsPending'
      <3>1. p \in Pools /\ settle(p, r[2], r)
        BY <2>3 DEF hears, handleResponse
      <3>2. pending' = [pending EXCEPT ![p] = @ \ {r[2]}]
        BY <3>1 DEF settle
      <3>3. \A q \in Pools : route[q] # None => route'[q] = route[q]
        <4>1. CASE route' = route
          BY <4>1
        <4>2. CASE opening[p].at = "handshake" /\ route' = [route EXCEPT ![p] = i]
          <5>1. route[p] = None
            BY <3>1, <4>2 DEF Routes
          <5> QED  BY <4>2, <5>1 DEF PoolTypeOK
        <4> QED  BY <2>3, <4>1, <4>2 DEF handleResponse
      <3>4. \A q \in Pools, k \in Ids :
              outcome'[q][k] = "another's" => tainted # {} \/ outcome[q][k] = "another's"
        <4>1. CASE outcome' = outcome
          BY <4>1
        <4>2. CASE outcome' = [outcome EXCEPT ![p][r[2]] = answered(p, r[2], r)]
          <5>1. r[1] = p \/ tainted # {}
            BY <2>1, OwnAnswers
          <5>2. answered(p, r[2], r) = "another's" => tainted # {}
            BY <5>1 DEF answered
          <5>3. \A q \in Pools, k \in Ids :
                  outcome'[q][k] = IF q = p /\ k = r[2] THEN answered(p, r[2], r) ELSE outcome[q][k]
            BY <4>2 DEF PoolTypeOK
          <5> QED  BY <5>2, <5>3
        <4> QED  BY <3>1, <4>1, <4>2 DEF settle
      <3> QED  BY <2>1, <3>2, <3>3, <3>4, OwedSettled
    <2> QED  BY <1>4, <2>2, <2>3 DEF Reply
  <1>5. ASSUME NEW i \in Instances, NEW r \in Pools \X Keys, forgetClient(i, r) PROVE OwedIsPending'
    <2> HIDE DEF PoolTypeOK, Routes, OwedIsPending
    <2>1. /\ r \in owed[i] /\ owed' = [owed EXCEPT ![i] = @ \ {r}]
          /\ UNCHANGED <<owner, resident, tainted, route>>
      BY <1>5 DEF forgetClient, history
    <2>2. CASE UNCHANGED <<pending, outcome>>
      <3>1. \A j \in Instances : owed'[j] \subseteq owed[j]
        BY <2>1 DEF PoolTypeOK
      <3> QED  BY <2>1, <2>2, <3>1 DEF OwedIsPending, PoolTypeOK
    <2>3. ASSUME NEW p \in hears(i), pending' = [pending EXCEPT ![p] = @ \ {r[2]}],
                 outcome' = [outcome EXCEPT ![p][r[2]] = "dropped"]
          PROVE  OwedIsPending'
      <3>1. \A q \in Pools, k \in Ids :
              outcome'[q][k] \in {outcome[q][k], "dropped"}
        BY <2>3 DEF PoolTypeOK
      <3> QED  BY <2>1, <2>3, <3>1, OwedSettled
    <2> QED  BY <1>5, <2>2, <2>3 DEF forgetClient
  <1>6. ASSUME NEW p \in Pools, handleList(p) PROVE OwedIsPending'
    BY <1>6 DEF handleList, nowOpening, NotOpening, childVars, history
  <1>7. ASSUME NEW p \in Pools, drain(p) PROVE OwedIsPending'
    <2>1. UNCHANGED <<route, outcome, owner, resident, tainted>>
      BY <1>7 DEF drain, history
    <2>2. CASE UNCHANGED <<pending, owed>>
      BY <2>1, <2>2
    <2>3. CASE route[p] # None /\ ask(p, route[p])
      <3> DEFINE k == asks[p] + 1
      <3>1. \A q \in Pools : pending'[q] = IF q = p THEN pending[p] \cup {k} ELSE pending[q]
        BY <2>3 DEF ask
      <3>2. \A j \in Instances :
              owed'[j] \subseteq IF j = route[p] THEN owed[j] \cup {<<p, k>>} ELSE owed[j]
        <4> HIDE DEF k, Routes, OwedIsPending
        <4>1. CASE owed' = owed
          BY <4>1
        <4>2. CASE owed' = [owed EXCEPT ![route[p]] = @ \cup {<<p, k>>}]
          BY <4>2
        <4> USE DEF k
        <4> QED  BY <2>3, <4>1, <4>2 DEF ask, write
      <3>3. owner[route[p]] \in {p, "supervisor"}
        BY <2>3
      <3> HIDE DEF k
      <3>4. ASSUME resident # None, resident \notin tainted, NEW s \in owed'[resident]
            PROVE  route[s[1]] = resident /\ s[2] \in pending'[s[1]]
        BY <3>1, <3>2, <3>4
      <3>5. ASSUME NEW j \in Instances, owner[j] \in Pools, NEW s \in owed'[j] PROVE s[1] = owner[j]
        BY <3>2, <3>3, <3>5
      <3> QED  BY <2>1, <3>4, <3>5
    <2> QED  BY <1>7, <2>2, <2>3 DEF drain
  <1>8. ASSUME NEW p \in Pools, fanoutTimeout(p) PROVE OwedIsPending'
    <2> HIDE DEF PoolTypeOK, Routes, OwedIsPending
    <2>1. UNCHANGED <<owner, owed, tainted>>
      BY <1>8 DEF fanoutTimeout, history
    <2>2. CASE UNCHANGED <<route, pending, outcome, resident>>
      BY <2>1, <2>2 DEF OwedIsPending
    <2>3. CASE route[p] # None /\ detach(p, TRUE)
      <3>1. route[p] \in Instances /\ owner[route[p]] \in {p, "supervisor"}
        BY <2>3 DEF PoolTypeOK, Routes
      <3>2. /\ resident' \in {resident, None}
            /\ owner[route[p]] = "supervisor" => resident' = None
        BY <2>3 DEF detach, closeChild
      <3>3. route[p] # resident \/ resident' = None
        BY <2>3, <3>1, <3>2 DEF Routes
      <3>4. /\ \A q \in Pools \ {p} : route'[q] = route[q] /\ pending'[q] = pending[q]
            /\ \A q \in Pools, k \in Ids : outcome'[q][k] \in {outcome[q][k], "gone"}
        BY <2>3 DEF detach, detachRoute, releaseServer, PoolTypeOK
      <3>5. \A j \in Instances : owed'[j] \subseteq owed[j]
        BY <2>1
      <3> QED  BY <2>1, <3>2, <3>3, <3>4, <3>5, OwedElsewhere
    <2> QED  BY <1>8, <2>2, <2>3 DEF fanoutTimeout
  <1>9. ASSUME NEW p \in Pools, refuse(p) PROVE OwedIsPending'
    BY <1>9 DEF refuse, nowOpening, NotOpening, childVars, history
  <1>10. ASSUME NEW p \in Pools, attach(p) PROVE OwedIsPending'
    BY <1>10 DEF attach, isHeldReady, nowOpening, NotOpening, closeChild, shut, history
  <1>11. ASSUME NEW p \in Pools, NEW i \in Instances, openOwnChild(p, i) PROVE OwedIsPending'
    BY <1>11 DEF openOwnChild, canAsk, isNext, nowOpening, history
  <1>12. ASSUME NEW p \in Pools, startTimeout(p) PROVE OwedIsPending'
    BY <1>12 DEF startTimeout, nowOpening, shut
  <1>13. ASSUME NEW i \in Instances, startReady(i) PROVE OwedIsPending'
    BY <1>13 DEF startReady, isNext, poolVars, history
  <1>14. ASSUME stopReady PROVE OwedIsPending'
    BY <1>14 DEF stopReady, isHeldReady, shut, poolVars, history
  <1>15. ASSUME NEW i \in Instances, endSession(i) PROVE OwedIsPending'
    BY <1>15 DEF endSession, poolVars, history
  <1>16. ASSUME NEW i \in Instances, sessionEnded(i) PROVE OwedIsPending'
    <2> HIDE DEF PoolTypeOK, Routes, OwedIsPending
    <2>0. /\ UNCHANGED owner
          /\ \A j \in Instances : owed'[j] = IF j = i THEN {} ELSE owed[j]
          /\ \A j \in Instances : owed'[j] \subseteq owed[j]
      BY <1>16 DEF sessionEnded, PoolTypeOK
    <2>1. CASE owner[i] \in Pools /\ endDuringStart(owner[i], i, [life EXCEPT ![i] = "ended"])
      <3>1. /\ UNCHANGED <<route, outcome, resident, tainted>> /\ opening[owner[i]].child = i
            /\ \A q \in Pools \ {owner[i]} : pending'[q] = pending[q]
        BY <2>1 DEF endDuringStart, PoolTypeOK
      <3>2. route[owner[i]] = None
        <4>1. opening[owner[i]].child # None
          BY <3>1
        <4> QED  BY <2>1, <4>1 DEF Routes
      <3>3. route[owner[i]] # resident \/ resident' = None
        BY <3>1, <3>2
      <3>4. resident' \in {resident, None} /\ tainted \subseteq tainted'
        BY <3>1
      <3> QED  BY <2>1, <2>0, <3>1, <3>3, <3>4, OwedElsewhere
    <2>2. CASE owner[i] \in Pools /\ endOfMember(owner[i], i, [life EXCEPT ![i] = "ended"])
      <3> DEFINE p == owner[i]
      <3>1. CASE UNCHANGED <<route, pending, outcome, resident, tainted>>
        BY <2>0, <3>1 DEF OwedIsPending, PoolTypeOK
      <3>2. CASE /\ route[p] # None /\ detachRoute(p)
                 /\ closeChild([life EXCEPT ![i] = "ended"], route[p], FALSE)
                 /\ tainted' = IF owed[route[p]] # {} /\ owner[route[p]] = "supervisor"
                               THEN tainted \cup {route[p]} ELSE tainted
        <4>1. route[p] \in Instances /\ owner[route[p]] \in {p, "supervisor"} /\ p \in Pools
          BY <2>2, <3>2 DEF PoolTypeOK, Routes
        <4>2. resident' \in {resident, None} /\ tainted \subseteq tainted'
          BY <3>2 DEF closeChild
        <4>3. /\ \A q \in Pools \ {p} : route'[q] = route[q] /\ pending'[q] = pending[q]
              /\ \A q \in Pools, k \in Ids : outcome'[q][k] \in {outcome[q][k], "gone"}
          BY <2>2, <3>2 DEF detachRoute, releaseServer, PoolTypeOK
        <4>4. \A q \in Pools, k \in Ids : outcome'[q][k] = "another's" => outcome[q][k] = "another's"
          BY <4>3
        <4> HIDE DEF p
        <4>5. CASE owner[route[p]] = p
          <5>1. route[p] # resident
            BY <3>2, <4>1, <4>5 DEF Routes
          <5> QED  BY <2>0, <4>1, <4>2, <4>3, <4>4, <5>1, OwedElsewhere
        <4>6. CASE owner[route[p]] = "supervisor"
          <5>1. route[p] = resident
            BY <3>2, <4>1, <4>6 DEF Routes
          <5>2. resident \notin tainted' => owed'[resident] = {}
            BY <2>0, <3>2, <4>1, <4>6, <5>1
          <5> QED  BY <2>0, <4>2, <4>4, <5>2, OwedKept
        <4> QED  BY <4>1, <4>5, <4>6
      <3> QED  BY <2>2, <3>1, <3>2 DEF endOfMember
    <2>3. CASE owner[i] = "supervisor" /\ endOfHeld(i, [life EXCEPT ![i] = "ended"])
      <3>1. UNCHANGED tainted /\ resident' = IF resident = i THEN None ELSE resident
        BY <2>3 DEF endOfHeld
      <3>2. CASE UNCHANGED <<route, pending, outcome>>
        BY <2>0, <3>1, <3>2 DEF OwedIsPending, PoolTypeOK
      <3>3. ASSUME NEW p \in Pools, route[p] = i, detachRoute(p) PROVE OwedIsPending'
        <4>1. /\ \A q \in Pools \ {p} : route'[q] = route[q] /\ pending'[q] = pending[q]
              /\ \A q \in Pools, k \in Ids : outcome'[q][k] \in {outcome[q][k], "gone"}
          BY <3>3 DEF detachRoute, releaseServer, PoolTypeOK
        <4>2. \A q \in Pools, k \in Ids : outcome'[q][k] = "another's" => outcome[q][k] = "another's"
          BY <4>1
        <4>3. route[p] # resident \/ resident' = None
          BY <3>1, <3>3
        <4>4. resident' \in {resident, None} /\ tainted \subseteq tainted'
          BY <3>1
        <4> QED  BY <2>0, <4>1, <4>2, <4>3, <4>4, OwedElsewhere
      <3> QED  BY <2>3, <3>2, <3>3 DEF endOfHeld
    <2> QED  BY <1>16, <2>1, <2>2, <2>3 DEF sessionEnded
  <1>17. CASE UNCHANGED vars
    BY <1>17 DEF vars
  <1> QED
    BY <1>1, <1>2, <1>3, <1>4, <1>5, <1>6, <1>7, <1>8, <1>9,
       <1>10, <1>11, <1>12, <1>13, <1>14, <1>15, <1>16, <1>17
    DEF Next, Pool, Agent, Answer, Supervisor

-----------------------------------------------------------------------------
(* The theorems. *)

(* The pools' inductive invariant: the shape of the state, who is routed     *)
(* where, and what calls, correlators and sessions owe each other.           *)
THEOREM PoolInvariant == Spec => []PoolInv
  <1>1. PoolInv /\ [Next]_vars => PoolInv'
    BY TypeStep, RoutesStep, AskedStep, StrandedStep, OwedStep DEF PoolInv
  <1> QED  BY InitPool, <1>1, PTL DEF Spec

(* Every variable keeps its shape: a routed child is a session that was      *)
(* opened, and the correlator holds ids of clients and minted ones only.     *)
THEOREM PoolTypeCorrect == Spec => []PoolTypeOK
  <1>1. PoolInv => PoolTypeOK
    BY DEF PoolInv
  <1> QED  BY PoolInvariant, <1>1, PTL

(* detachRoute, settle, forgetClient: an entry of an open pool waits for     *)
(* something that can still come.                                            *)
THEOREM NothingIsStranded == Spec => []NothingStranded
  <1>1. PoolInv => NothingStranded
    BY DEF PoolInv
  <1> QED  BY PoolInvariant, <1>1, PTL

(* onReleased: a session that is free to be attached owes nothing (RS5), and *)
(* nobody hears an answer to another pool's call.                            *)
THEOREM FreeSessionsOweNothing == Spec => []FreeOwesNothing
  <1>1. ASSUME PoolInv PROVE FreeOwesNothing
    <2>1. ASSUME isHeldReady, resident \notin tainted PROVE owed[resident] = {}
      <3>1. resident \in Instances /\ resident # None /\ \A p \in Pools : route[p] # resident
        BY <1>1, <2>1 DEF isHeldReady, PoolInv, PoolTypeOK
      <3>2. \A r \in owed[resident] : r \in Pools \X Keys /\ route[r[1]] = resident
        BY <1>1, <2>1, <3>1 DEF PoolInv, PoolTypeOK, OwedIsPending
      <3> QED  BY <3>1, <3>2
    <2> QED  BY <1>1, <2>1 DEF FreeOwesNothing, PoolInv, OwedIsPending
  <1> QED  BY PoolInvariant, <1>1, PTL

(* An agent hears one outcome of a call: only a call in the correlator gets  *)
(* one, and such a call has none yet.                                        *)
THEOREM OutcomesStand == Spec => OutcomeStands
  <1> DEFINE Stand == \A p \in Pools, k \in Ids :
                        outcome[p][k] \notin {"new", "asked"} => outcome'[p][k] = outcome[p][k]
  <1>1. ASSUME PoolTypeOK, PendingAsked, NEW p \in Pools, releaseServer(p) PROVE Stand
    <2>1. \A q \in Pools, k \in Ids :
            outcome'[q][k] = IF q = p /\ k \in pending[p] THEN "gone" ELSE outcome[q][k]
      BY <1>1 DEF releaseServer, released, PoolTypeOK
    <2> QED  BY <1>1, <2>1 DEF PendingAsked
  <1>2. ASSUME PoolTypeOK, PendingAsked, NEW p \in Pools, NEW k \in Keys, NEW o,
               k \in pending[p], outcome' = [outcome EXCEPT ![p][k] = o]
        PROVE  Stand
    <2>1. \A q \in Pools, j \in Ids : q # p \/ j # k => outcome'[q][j] = outcome[q][j]
      BY <1>2 DEF PoolTypeOK
    <2> QED  BY <1>2, <2>1 DEF PendingAsked
  <1>3. ASSUME PoolInv, [Next]_vars PROVE Stand
    <2>0. PoolTypeOK /\ PendingAsked
      BY <1>3 DEF PoolInv
    <2> HIDE DEF Stand
    <2>1. CASE outcome' = outcome
      BY <2>1 DEF Stand
    <2>2. ASSUME NEW p \in Pools, membershipChanged(p) \/ fanoutTimeout(p) PROVE Stand
      BY <1>1, <2>0, <2>1, <2>2 DEF membershipChanged, fanoutTimeout, detach, detachRoute
    <2>3. ASSUME NEW p \in Pools, NEW k \in Ids, handleAddressed(p, k) PROVE Stand
      <3>1. outcome[p][k] = "new" /\ outcome' = [outcome EXCEPT ![p][k] = "asked"]
        BY <2>3 DEF handleAddressed
      <3>2. \A q \in Pools, j \in Ids : q # p \/ j # k => outcome'[q][j] = outcome[q][j]
        BY <2>0, <3>1 DEF PoolTypeOK
      <3> QED  BY <3>1, <3>2 DEF Stand
    <2>4. ASSUME NEW i \in Instances, NEW r \in Pools \X Keys, Reply(i, r) PROVE Stand
      <3>1. ASSUME NEW p \in hears(i), handleResponse(p, i, r) PROVE Stand
        <4>1. p \in Pools /\ r[2] \in Keys /\ r[2] \in pending[p] /\ settle(p, r[2], r)
          BY <3>1 DEF hears, handleResponse
        <4> QED  BY <1>2, <2>0, <2>1, <4>1 DEF settle
      <3> QED  BY <2>1, <2>4, <3>1 DEF Reply
    <2>5. ASSUME NEW i \in Instances, NEW r \in Pools \X Keys, forgetClient(i, r) PROVE Stand
      <3>1. ASSUME NEW p \in hears(i), r[2] \in pending[p],
                   outcome' = [outcome EXCEPT ![p][r[2]] = "dropped"]
            PROVE  Stand
        <4>1. p \in Pools /\ r[2] \in Keys
          BY DEF hears
        <4> QED  BY <1>2, <2>0, <3>1, <4>1
      <3> QED  BY <2>1, <2>5, <3>1 DEF forgetClient
    <2>6. ASSUME NEW i \in Instances, sessionEnded(i) PROVE Stand
      <3>1. outcome' = outcome \/ \E p \in Pools : releaseServer(p)
        BY <2>6 DEF sessionEnded, endDuringStart, endOfMember, endOfHeld, detachRoute
      <3> QED  BY <1>1, <2>0, <2>1, <3>1
    <2>7. ASSUME NEW p \in Pools,
                 \/ drain(p) \/ attach(p) \/ refuse(p) \/ startTimeout(p)
                 \/ handleList(p) \/ close(p)
                 \/ \E i \in Instances : openOwnChild(p, i)
          PROVE  Stand
      BY <2>1, <2>7 DEF drain, attach, refuse, startTimeout, handleList, close, openOwnChild
    <2>8. ASSUME stopReady \/ \E i \in Instances : startReady(i) \/ endSession(i) PROVE Stand
      BY <2>1, <2>8 DEF stopReady, startReady, endSession, poolVars
    <2>9. CASE UNCHANGED vars
      BY <2>1, <2>9 DEF vars
    <2> QED
      BY <1>3, <2>2, <2>3, <2>4, <2>5, <2>6, <2>7, <2>8, <2>9
      DEF Next, Pool, Agent, Answer, Supervisor
  <1> QED  BY PoolInvariant, <1>3, PTL DEF Spec, OutcomeStands
=============================================================================
