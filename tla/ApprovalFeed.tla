----------------------------- MODULE ApprovalFeed -----------------------------
(***************************************************************************)
(* The change feed of the approvals queue (queue-changes.ts, the counter   *)
(* of queue-db.ts) and the UI's watcher on it (src/ui/watch.ts).  Every    *)
(* write that settles or inserts a row stamps it with the next value of    *)
(* the counter; the watcher keeps a watermark and the set of cards it has  *)
(* announced.  Ticks of its interval may overlap: each call of             *)
(* changesSince awaits a stat of the database first.                       *)
(***************************************************************************)
EXTENDS ApprovalQueue

CONSTANTS
  Ticks,      \* polls of the watcher that may be in flight at once
  PageLimit,  \* APPROVALS_LIST_MAX_ROWS: rows one changesSince delivers
  MaxFaults   \* bound on the polls that fail and the restarts of the UI

ASSUME FeedAssumption ==
  /\ IsFiniteSet(Requests)
  /\ PageLimit \in Nat \ {0}
  /\ MaxFaults \in Nat

NoSeq == -1

VARIABLES
  changeSeq,  \* the counter row of approvals_meta
  seqOf,      \* a row's change_seq, 0 before it exists
  isSeeded,   \* announced # null
  announced,  \* the cards announced as pending; the replay's set while seeding
  watermark,  \* where the next poll reads from
  since,      \* the sequence a poll in flight asked from, NoSeq when idle
  head,       \* the counter as a poll in flight has read it, NoSeq before
  faults      \* how many polls failed and how often the UI restarted

watcher == <<isSeeded, announced, watermark, since, head, faults>>
feedVars == <<queueVars, changeSeq, seqOf, watcher>>

-----------------------------------------------------------------------------
(* bumpChangeSeq: in its own transaction, every row a write inserts or     *)
(* settles takes a sequence of its own.                                    *)
bumpChangeSeq ==
  LET moved == {r \in Requests : status'[r] # status[r]} IN
  /\ changeSeq' = changeSeq + Cardinality(moved)
  /\ \E order \in [moved -> (changeSeq + 1)..changeSeq'] :
       /\ \A r, q \in moved : order[r] = order[q] => r = q
       /\ seqOf' = [r \in Requests |-> IF r \in moved THEN order[r] ELSE seqOf[r]]

(* One page: the first PageLimit rows past s, in the order of their        *)
(* sequences.  Rows that retention deleted are not in the table.           *)
changesPast(s) == {r \in Requests \ pruned : seqOf[r] > s}

isTruncated(s) == Cardinality(changesPast(s)) > PageLimit

delivered(s) ==
  {r \in changesPast(s) : Cardinality({q \in changesPast(s) : seqOf[q] < seqOf[r]}) < PageLimit}

isLastDelivered(s, r) == r \in delivered(s) /\ \A q \in delivered(s) : seqOf[q] <= seqOf[r]

latestSeq_Global(t, seq) == seq = head[t]  \* mutant: a truncated page reports the counter

(* The watermark a page reports: a truncated one stops at its last row. *)
latestSeq(t, seq) ==
  IF isTruncated(since[t])
  THEN \E r \in Requests : isLastDelivered(since[t], r) /\ seq = seqOf[r]
  ELSE seq = head[t]

publishApprovalDeltas_AddsOnly(page) == announced \cup (page \cap Pending)  \* mutant: no card is taken down

(* publishApprovalDeltas, and the same update of the set a seed rebuilds. *)
publishApprovalDeltas(page) == (announced \cup (page \cap Pending)) \ (page \ Pending)

-----------------------------------------------------------------------------
(* The watcher.  A tick seeds while nothing is announced yet (one seed at  *)
(* a time), and polls afterwards.                                          *)

pollApprovals(t) ==
  /\ since[t] = NoSeq
  /\ \A u \in Ticks : head[u] = NoSeq
  /\ isSeeded \/ \A u \in Ticks : since[u] = NoSeq
  /\ since' = [since EXCEPT ![t] = IF isSeeded THEN watermark ELSE 0]
  /\ announced' = IF isSeeded THEN announced ELSE {}
  /\ UNCHANGED <<isSeeded, watermark, head, faults>>

(* changesSince reads the counter, then the rows; both in one run of the   *)
(* event loop, so that only other processes write in between.              *)
selectLatestChangeSeq(t) ==
  /\ since[t] # NoSeq
  /\ \A u \in Ticks : head[u] = NoSeq
  /\ head' = [head EXCEPT ![t] = changeSeq]
  /\ UNCHANGED <<isSeeded, announced, watermark, since, faults>>

(* A page of the seed: the walk goes on while pages are truncated. *)
seedApprovals(t, seq) ==
  IF isTruncated(since[t]) /\ seq > since[t]
  THEN /\ since' = [since EXCEPT ![t] = seq]
       /\ UNCHANGED <<isSeeded, watermark>>
  ELSE /\ since' = [since EXCEPT ![t] = NoSeq]
       /\ isSeeded' = TRUE
       /\ watermark' = IF seq > since[t] THEN seq ELSE since[t]

(* A page of a poll: a truncated one is followed by the next, unless the   *)
(* tick has read its UI_QUEUE_DRAIN_MAX_PAGES.                             *)
drain(t, seq) ==
  /\ watermark' = seq
  /\ since' \in {[since EXCEPT ![t] = NoSeq]} \cup
               (IF isTruncated(since[t]) THEN {[since EXCEPT ![t] = seq]} ELSE {})
  /\ UNCHANGED isSeeded

selectChangesSince(t) ==
  /\ head[t] # NoSeq
  /\ announced' = publishApprovalDeltas(delivered(since[t]))
  /\ \E seq \in 0..changeSeq :
       /\ latestSeq(t, seq)
       /\ IF isSeeded THEN drain(t, seq) ELSE seedApprovals(t, seq)
  /\ head' = [head EXCEPT ![t] = NoSeq]
  /\ UNCHANGED faults

(* A read that throws ends its tick; a seed it ends starts over. *)
pollFails(t) ==
  /\ since[t] # NoSeq /\ faults < MaxFaults
  /\ \A u \in Ticks \ {t} : head[u] = NoSeq
  /\ faults' = faults + 1
  /\ since' = [since EXCEPT ![t] = NoSeq]
  /\ head' = [head EXCEPT ![t] = NoSeq]
  /\ UNCHANGED <<isSeeded, announced, watermark>>

(* The UI's process is restarted: the watcher starts from nothing. *)
restartUi ==
  /\ faults < MaxFaults
  /\ faults' = faults + 1
  /\ isSeeded' = FALSE
  /\ announced' = {}
  /\ watermark' = 0
  /\ since' = [t \in Ticks |-> NoSeq]
  /\ head' = [t \in Ticks |-> NoSeq]

-----------------------------------------------------------------------------
FeedInit ==
  /\ QueueInit
  /\ changeSeq = 0
  /\ seqOf = [r \in Requests |-> 0]
  /\ isSeeded = FALSE
  /\ announced = {}
  /\ watermark = 0
  /\ since = [t \in Ticks |-> NoSeq]
  /\ head = [t \in Ticks |-> NoSeq]
  /\ faults = 0

Write == QueueNext /\ bumpChangeSeq /\ UNCHANGED watcher

TickStep(t) == pollApprovals(t) \/ selectLatestChangeSeq(t) \/ selectChangesSince(t)

Watch ==
  /\ \/ \E t \in Ticks : TickStep(t) \/ pollFails(t)
     \/ restartUi
  /\ UNCHANGED <<queueVars, changeSeq, seqOf>>

FeedNext == Write \/ Watch

FeedSpec == FeedInit /\ [][FeedNext]_feedVars

(* The interval keeps firing and a read that does not fail returns. *)
Polling == (\E t \in Ticks : TickStep(t)) /\ UNCHANGED <<queueVars, changeSeq, seqOf>>

FairFeedSpec == FeedSpec /\ WF_feedVars(Polling)

-----------------------------------------------------------------------------
(* Properties. *)

(* Every variable of the feed has the shape of the state it models. *)
FeedTypeOK ==
  /\ changeSeq \in Nat
  /\ seqOf \in [Requests -> 0..changeSeq]
  /\ isSeeded \in BOOLEAN
  /\ announced \subseteq Requests
  /\ watermark \in 0..changeSeq
  /\ since \in [Ticks -> (0..changeSeq) \cup {NoSeq}]
  /\ head \in [Ticks -> (0..changeSeq) \cup {NoSeq}]
  /\ faults \in 0..MaxFaults

(* What the watcher has been told is exact up to sequence s: it shows a card   *)
(* for every pending request it has passed, and for no settled one, except one *)
(* that retention deleted before it was read.                                  *)
Covered(s) == \A r \in Requests \ pruned : seqOf[r] <= s => (r \in announced <=> r \in Pending)

(* The watermark never passes a change the watcher has not shown               *)
(* (queue-changes.ts: this order can only re-deliver a change, never lose      *)
(* one), with writers committing between the two reads of a page, pages cut    *)
(* short, overlapping ticks and a seed that is itself overtaken by changes.    *)
NoChangeSkipped == isSeeded => Covered(watermark)

(* The console catches up: again and again, whatever polls fail, overlap or    *)
(* restart, every pending request has its card and no settled one still has    *)
(* one, except a request whose settled row was deleted unread.                 *)
CardsCatchUp == []<>(isSeeded /\ \A r \in Requests \ pruned : r \in announced <=> r \in Pending)
=============================================================================
