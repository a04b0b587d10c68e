# mcpcut: a TLA+ specification

mcpcut sits between agents (MCP clients) and MCP servers. Each `tools/call` of
an agent is decided by a policy: allowed, denied, or held until an operator
answers; what happens is written to a hash-chained journal. These modules specify
the parts of it whose correctness depends on the order of things: a held call and
the queue it waits in, the delivery of its answer under resends, the bridge that
produces those resends, the sharing of a server between an agent's sessions, the
inventory that keeps changed tools in quarantine, the policy file and its reload,
the journal, and the file lock.

Paths are relative to `src/src/` unless they start with `src/`. "Only
model-checked" means checked by TLC on the instance of its run; everything called
a theorem is proved by TLAPS for every value of the constants.

1. [Inventory](#1-inventory)
2. [Modules](#2-modules)
3. [Runs](#3-runs): properties, bounds, fairness
4. [Proofs](#4-proofs)
5. [Where the code and its comments differ](#5-where-the-code-and-its-comments-differ)
6. [What the models leave out](#6-what-the-models-leave-out)
7. [Not modelled, and what would come next](#7-not-modelled-and-what-would-come-next)

## 1. Inventory

### 1.1 Parts that are modelled

**Approvals queue** (`policy/approvals/queue*.ts`, `holder.ts`, `withdraw.ts`).
State: a row per request (status, requestedAt, expiresAt, waitExpiresAt,
resolvedAt, reason, change_seq) and a hold row beside each pending one (pid,
host, heartbeat). Operations: `enqueue`, `resolve`, `withdraw`, `markExpired`,
`heartbeat`, `readResolution`, `list`/`countPending` (which sweep first: expire,
then find and withdraw the requests of dead holders), retention after an enqueue.
Hard: several processes settle one row; a sweep reads in one transaction and
writes in another; the holder may be dead, asleep or unreachable; clocks are read
at different moments; writes are refused while the database is contended. Correct
when: a row has one winner; an approval is on record only if somebody still waited
for it; a request is given up as *process-lost* only if its process is dead; an
orphan leaves the queue.

**Change feed and UI watcher** (`queue-changes.ts`, `ui/watch.ts`). State: the
counter `change_seq`, the watcher's watermark, the set of announced cards.
Operations: `changesSince` (two reads, pages), the seed, the poll and its drain.
Hard: writers commit between the two reads; ticks overlap; a poll fails; the UI
restarts. Correct when: the watermark never passes a change that was not shown,
and cards catch up with the queue.

**Approval gate** (`proxy/gate-approvals.ts`, `policy/approvals/waiter.ts`,
`proxy/gate-cancel.ts`, `id-tracking.ts`, `gate-guard.ts`, `approval-hold.ts`;
`session/core.ts` and `wire-policy.ts` for how a session ends). State per call:
where its decision stands, its wait and deadline, what its poll has read, why its
agent left; per session: the admitted count, the answered-id LRU and the burns,
the verdicts in flight and the cancels behind them. Hard: everything interleaves
at awaits; storage or journal fails at any of them; ids are reused. Correct when:
what the agent hears is what the queue has on record, a call has one outcome, an
answered id is never forwarded, the cap holds, every held call ends.

**Call delivery** (`proxy/gate-delivery.ts`, `gate-delivery-join.ts`,
`tool-use-answers.ts`). State, shared by the sessions of one agent: which call
holds the claim of a tool use, what is kept of its answer; per session: the calls
whose answer is awaited. Operations: admit a call (run, join, replay, refuse), a
verdict, an answer, a cancel, an abandonment, the end of a session and of its
grace, the expiry of claims. Hard: the same tool use arrives again, on another
session, while the first is held, running, cancelled or answered. Correct when: it
runs at most once, a kept result stands, and no resend waits for ever.

**Connect bridge** (`bridge/pump.ts`, `retry.ts`). State: the book of calls that
may be sent again, the attempt that is out, its POST. Operations: send, answer,
drop, pause and send again under another id, give up, cancel, end. Hard: a dropped
POST may have reached the service, may reach it later, or never. Correct when: the
call runs once and its client hears one outcome.

**Agent pool and residents** (`pool/*.ts`, `cli/serve-residents*.ts`,
`serve-pool*.ts`, `serve-held.ts`). State: a route per server, a correlator of
pending requests, fan-outs, opens in flight; the supervisor's held session. Hard:
ids repeat between pools and between one child and its successor; a session closed
with a grace ends late; handshakes and lists time out. Correct when: a shared
session is never handed on while it owes an answer, and every call ends.

**Tool inventory, policy decision, registry** (`policy/inventory*.ts`,
`policy/store.ts`, `policy/decide.ts`, `registry/store.ts`). State: per server the
approved hashes and the quarantined tools; per session a snapshot of them. Hard:
sessions, operators and commands update one document optimistically; a session
decides from a snapshot; a name is registered again. Correct when: updates are
atomic, what nobody approved is not allowed by a default, approvals do not outlive
their server.

**Policy file and reload** (`policy/edit/policy-file.ts`, `policy/reload*.ts`).
State: the file, its lock, the version last seen, the policy in force. Hard: a
lock is judged stale by a stat that is old when acted on; the file changes by hand
whatever lock is held; synchronous and asynchronous checks overlap; two contents share
an mtime and size. Correct when: a write replaces only what was edited, the next check
sees it, and no late read undoes it.

**Journal** (`journal/batch-writer.ts`, `sink.ts`, `db.ts`, `chain*.ts`,
`prune.ts`). State: the rows with their hashes, the prune markers, each process's
queue and batch. Hard: several processes append to one chain; a batch is retried
once as a whole; a process dies inside a transaction; prune removes a prefix.
Correct when: the chain verifies in every state, and what a caller was told is
what the chain has.

**File lock and vault update** (`lockfile.ts`, `vault/files.ts`). State: the
lockfile and its age, the vault. Hard: every step of acquiring, stealing and
releasing is a system call of its own. Correct when: no update is lost while all
the writers concerned are told they succeeded, and nobody waits for ever.

### 1.2 Parts that are not modelled

| part | main state and operations | what makes it correct | why not here |
|---|---|---|---|
| client confirmation (`proxy/gate-confirm.ts`) | an elicitation before the queue | one of the two answers counts | would extend the gate; section 7 |
| HTTP transport (`transport/http/*`) | exchanges, slots, SSE streams | a response answers its request | section 7; gate, delivery and bridge see *abandon*, *dropped POST* and *session end* |
| agents, grants, groups (`agents/*`, `groups/*`, `session/agent-watch.ts`) | grants, effective rights | a revoked agent's session ends | section 7; the decision has the grant as an input |
| journal reports (`journal/report.ts`, ...) | none | rendering, signing | pure data |
| stdio and protocol (`protocol/*`) | framing buffer | frames are cut and classified right | data, not control |
| vault contents (`vault/store.ts`, `crypto.ts`) | encrypted entries | decrypts what was stored | cryptography; its lock is modelled |
| admin, UI sessions (`admin/*`, `ui/auth.ts`, `ui/events.ts`) | roles, sessions | authorisation | checks of data |
| UI pages, console API, TUI | forms | rendering | I/O; an answer is `resolve` |
| files server (`files/*`) | rights, trash | restore undoes delete | section 7 |
| probe, services, setup, adopt | processes, config files | - | operating-system I/O |
| redaction, tenant settings, CLI | none | - | text and wiring |
| hosted hub (`src/hub/`) | accounts, idle sweep | - | a separate service |

`PROJECT.json` has the same list with sources, and, under *hazards*, what is hard
to test in this code at the line where it bites, with the properties that cover it.

## 2. Modules

    CallOutcome     <-- refines --  ApprovalGate  --EXTENDS-->  ApprovalQueue
                                                  ApprovalFeed  --EXTENDS-->  ApprovalQueue
    CallDelivery    <-- refines --  BridgeRetry   --EXTENDS-->  CallDelivery
    JournalChain    <--EXTENDS--    JournalWriter
    PolicyFile      <--EXTENDS--    PolicyReload
    ServerInventory, PolicyDecision <--EXTENDS-- ToolInventory -- refines --> StateDocument
    PoolMembers          FileLock

`MC*` modules give the constants values for TLC. `*Proofs` modules hold the
theorems. No module declares a recursive operator.

An action is what the code runs between two awaits; each SQLite write is one
`BEGIN IMMEDIATE` transaction and so one action, whichever process issues it (the
journal, where a process may die inside one, has more). Operators marked *mutant*
are plausible bugs of the definition that follows them: `PROJECT.json` says which
property each of them breaks. They are not part of any specification. Variables
marked *history* are read by no guard of the code's own actions.

### 2.1 ApprovalQueue

| variable | code |
|---|---|
| `status`, `requestedAt`, `resolvedAt`, `reason` | columns of `approvals` |
| `heartbeatAt` | the row of `approval_holds`; `NoTime` when there is none |
| `pruned` | rows that retention deleted |
| `up` | whether the process that holds the calls runs |
| `pass`, `batch`, `readAt` | a sweep of one reader: which pass is next, the ids it found, its `now` |

`moveToResolvedBatch` is the one write that settles rows: those of its argument
that are still pending take the outcome and lose their hold. `resolve` judges the
holder and the limits in the transaction that writes. `sweepExpiredPending`,
`markExpiredBatch`, `findLost`, `withdrawLostBatch` are the four steps of a
listing, with `sweepFails` for the failure that the code swallows.
`probeHolderLiveness` is a choice: of another host nothing is known; a living local
process is seen alive; a dead one is seen gone, or alive when its pid was given to
another process. A row is identified by its request (the code draws random ids).
`QueueNext` puts the queue under the most general holder: it may call any operation
on any of its rows while it runs, and die at any point.

### 2.2 ApprovalFeed

Every write of `QueueNext` also runs `bumpChangeSeq`: the rows it inserts or settles
take fresh sequences in some order. `pollApprovals` starts a tick,
`selectLatestChangeSeq` reads the counter, `selectChangesSince` reads a page, updates
the cards and goes on to the next page or ends the tick. The two reads share an
event-loop turn, so at most one tick is between them (`head`), while other processes
write in between. `drain` may stop after any page (the real bound is 20 pages). A
failure ends a tick wherever it is; a restart forgets everything.

### 2.3 ApprovalGate and CallOutcome

Each call walks `pc`:

    idle -> enqueue -> (flush-pending) -> held -> (flush-*) -> forwarded | denied | gone | dropped
                                            \-> expire -> expired -> (flush-timeout) -> timed-out
    idle -> refused (the cap);  any error -> (flush-error) -> refused | dropped

The `flush-*` states exist only under `journal.failClosed`, where `settleJournal()`
is awaited before a decision is acted on. `IdOf` gives the JSON-RPC id, which calls
may share.

| definition | code |
|---|---|
| `requestApproval`, `atCap` | the synchronous start: the cap counts admitted calls |
| `EnqueueCall`, `EnqueueFails`, `hold` | the enqueue's commit and the start of the wait, which looks whether the agent left meanwhile |
| `PollRead`, `PollApply` | the waiter's interval: read, then the outcome or the deadline |
| `LeaveWithdraw(Fails)` | the withdrawal of a call whose agent left, and the end of its wait |
| `finishApproval`, the `finish*` | what a finished wait becomes; a timeout expires the row before it tells the agent |
| `markAnswered`, `isAnswered`, `endWait` | the answered-id LRU, and the burns of ids that are being waited on |
| `recordVerdict`, `settleVerdict`, `gateCancel` | the cancel tracker |
| `denyOnGateError`, `settleJournalFails` | the fail-closed wrapper: deny on any error, drop when that cannot be journaled |
| `AgentLeft`, `endSession`, `cancelPending`, `cancelAll`, `applyVerdict` | the end of a session: `wrap` (`IsWrap`) and `connect`/`serve` end in different ways |
| `applyDeny` | any other call of the session that the rules deny: it is answered under its id |

`CallOutcome` is the promise: a call is asked about once, ruled on at most once, the
ruling stands, and it is sent only under a ruling for it; it has exactly one outcome
(sent, answered, silent). `ApprovalGate` maps `pc` to `phase` and the queue row to
`ruling`.

### 2.4 CallDelivery and BridgeRetry

A call of `CallDelivery` is a request as it arrives, each under an id of its own;
`UseOf` says which tool use it names. How a call is decided is `ApprovalGate`'s
subject: here a verdict comes sooner or later. `claim[u]` is the call that holds a
tool use, `kept[u]` what a resend would be told (the result, that it was too large,
or that the call may have run), `tracked` the forwarded calls whose answer is
awaited. A resend joins the claim's holder and is woken when the claim goes. The
bytes that push a kept answer out, the day that ends it and the 25 hours that end a
claim are one loss each, recorded in `lost`.

`BridgeRetry` adds the client's side. `Attempts[u]` are the calls a tool use is sent
as; `stage`, `attempt`, `post` are where its sending stands, `book*` the retry book,
`cancels` what is on its way, `heard` what the client got. An attempt that is
received is an arrival of `CallDelivery`, an answer on an open POST is what it told.
The bridge's service is not a stand-in: `BridgeSpec` is proved to imply
`CallDelivery`'s `Spec`.

### 2.5 PoolMembers

Pools of one agent at one server. `route`, `pending`, `asks`, `opening`, `list` are a
pool's route table, correlator, fan-out counter, open in flight and awaited list;
`owed`, `life`, `owner` an instance of the server; `resident` the session the
supervisor holds. The correlator's keys are the client's ids, the same in every pool,
and the ids the plane minted, so that an answer can reach the wrong table if an end
or an attach is handled wrongly. Each handler is an action, and what a pool awaits
is a state with every other handler in between.

### 2.6 ServerInventory, PolicyDecision, ToolInventory, StateDocument

`ServerInventory` says what each operation makes of one server's entry: observing a
listing under the quarantine cap, approving, rejecting, approving a catalog,
forgetting. `PolicyDecision` is `decide()`: a chain of rules, the first that has
something to say. Both are functions without state. A version stands for a
descriptor and its hash, `Surface[a][b]` for the direction of the change between
two.

`ToolInventory` adds the store. `job[c]` is a caller's update: `asked`, then either
`computed` from a document with no lock held (`isCurrent` says whether the revision
it read is still the one stored), or applied at once under the write lock after
`CasLosses` losses; or given up, with nothing written. `session[s]` is what a gate
session's lookups answer from. `command[r]` is an add or a removal of the server,
which forgets the approvals before it writes the registry. A commit and the
session's assignment of its snapshot are one step:
only promise continuations run in between.

`StateDocument` is the promise of `update()`: applied once, at one instant, to the
document as it then is, or refused with nothing written, and the caller is told
which. `ToolInventory` maps `calls[c]` to `job[c].op`.

### 2.7 PolicyFile and PolicyReload

`PolicyFile` is the locked compare-and-swap of `writePolicyFile`: read, create
the lock exclusively, break a stale one by a rename, compare, write, release; plus a
lock a dead writer left. An operator may change the file by hand between any two steps,
to any policy, to a broken file or to none: `HandMade` is the set of policies, and the
proofs are for every such set. A file's version key is its mtime
and size: a new content may share the key of the one before (`isTwin`).
`PolicyReload` adds a proxy that enforces the file: the synchronous check before a
decision, the asynchronous one of an explicit refresh with the serial that makes an
older result stand back, and the wait of a process that found no policy at first.

### 2.8 JournalChain and JournalWriter

A hash is the sequence of records it was computed over, so `linkHashOf` appends and
the head of the chain reads as the history since genesis; equal hashes mean equal
histories, which is what being free of collisions buys. `JournalChain` has the
table, its counter, the prune markers, the database lock, the head a process read
inside its transaction, `prune` and the verifier. `JournalWriter` has the sinks,
queues, batches with their one retry, the flush, and what each caller was told.
Verification is atomic (`withConsistentReadView`).

### 2.9 FileLock

`file`, `content`, `age` are the lockfile at the path; each call of `withVaultLock`
walks `pc` through `create`, `write-record`, `read`, `stat`, `confirm`, `remove`,
`recreate`, `sleep`, the work (read and write of the vault), the nonce re-check and
the release. Time is counted in staleness windows. `Foreign` is a lockfile that was
there before: a record, garbage, or one from the future.

## 3. Runs

Every property is about a hazard of the code; a type invariant of each module is
proved rather than run. `policy_lost` is expected to fail.

| run | instance | properties |
|---|---|---|
| `queue` | 2 requests; a reader that sweeps and answers on the holder's host, an operator elsewhere; clock 0..2, `MaxAge` 2, `WaitCap` 1, `Stale` 0, `Retention` 1 | `ApprovedInTime`, `LostOnlyIfDead`, `DecisionStands`, `OrphansLeave` |
| `feed` | 2 requests, 2 overlapping ticks, pages of 1, one fault | `NoChangeSkipped`, `CardsCatchUp` |
| `gate_session` | 1 call, fail-closed `connect`/`serve`; storage and journal may fail at each await; operator, sweep, cancel, abandon, end, kill; clock 0..1 | `AnswerMatchesRecord`, `SilenceHasCause`, `NothingSentAfterLeaving`, `OneOutcomePerCall`, `HeldCallEnds`, `EndedSessionLeavesNothing` |
| `gate_wrap` | 3 calls under one reused id, `wrap`, cap of 2 | `AnsweredNeverForwarded`, `CancelFollowsCall`, `HeldWithinCap` |
| `delivery` | one tool use that arrives 3 times on 2 sessions, 1 join and 1 tracked call per session | `RunsOnce`, `ResultStands`, `ResendsEnd` |
| `bridge` | one tool use, 2 attempts, 1 session | `ClientHearsOnce`, `CancelNamesLiveAttempt`, `NoRetryAfterCancel`, `ClientIsAnswered` |
| `pool` | 2 pools that use the same id, 2 instances, 1 request of its own per pool | `FreeOwesNothing`, `CallsEnd` |
| `inventory` | 2 tools, 2 versions (the second accepts more), 3 listings, quarantine cap of 1; a session, an operator, a registrar; 2 updates at once, 4 in all | `HeldAgainstApproval`, `HeldUntilReleased`, `NothingInherited`, `UpdatesAreAtomic`, `RulingsEnd` |
| `policy` | 2 edits, a leftover lock possible, 1 change by hand | `EditsStand`, `SeesTheEdit`, `NeverBackwards`, `EditTakesHold` |
| `policy_lost` | 2 edits and the lock, without the proxy | `NoLostEdit` is violated |
| `journal` | 3 sinks in 2 processes, 3 records and one row from before the chain, batches of 2 | `ChainVerifies`, `SettledIsTrue`, `LinkedInCallOrder`, `HistoryOnlyGrows`, `EverythingSettles` |
| `lock` | 2 updates and a leftover lockfile of 3 kinds | `NoSilentLoss`, `WaitersGetThrough` |

What they say:

* `queue`: an approval on record landed while somebody still waited; a request is
  written off as process-lost only when its process is dead; a settled row never
  changes; with somebody listing, an orphan leaves the queue.
* `feed`: no change is skipped by the watermark, and cards catch up.
* `gate_session`: what the agent hears is what the queue has; a call that gets no
  answer has a cause the code names; nothing goes out after the session's end; a held
  call ends; a session's end comes to an end and leaves no pending row; the path
  implements `CallOutcome`.
* `gate_wrap`: an id that was answered is never forwarded afterwards; a cancel follows
  the call it names and is not sent for one that was not; the cap holds.
* `delivery`, `bridge`: a tool use reaches its server once; a kept result is not
  replaced by a weaker note; resends end; a bridged client hears one outcome, and one
  at all if the server answers; a cancel names the attempt the service knows; what was
  cancelled is not sent again.
* `pool`: a free session owes nothing to the pool before; every call ends.
* `inventory`: what quarantine says of a tool it says against the approval that stands;
  a tool listed at a version nobody approved is not allowed by a default until somebody
  ruled on it; a name registered again inherits no approval; updates are atomic; an
  operator is not starved by writers that win.
* `policy`: a write replaces the policy that was edited and no other, unless a lock was
  taken from under its writer (that is what `policy_lost` shows) or the file changed by
  hand after the compare (section 5); the next check sees a change; no late read undoes
  it; the last valid policy comes into force.
* `journal`: the verifier never cries wolf, what a sink was told is true, records are
  linked in the order of their calls, history only grows, everything is settled.
* `lock`: no update is lost in silence; a waiter gets through or gives up.

### Bounds

The real values are scaled down and named as constants.

| constant | real value | in the runs | why it is enough |
|---|---|---|---|
| `MaxAge` | 24 h | 2 | longer than the wait where both limits matter |
| `WaitCap` | from the policy | 1 | before, at and after it are all reached |
| `Stale` | 2 min of 30 s beats | 0 | fresh and stale beats are both reached |
| `Retention` | 24 h | 1 or 0 | an enqueue deletes a row settled before it |
| `MAX_HELD` (`MaxHeld` of the gate) | 16 | 1 or 2 | three calls against a cap of two |
| `MAX_TRACKED_REQUEST_IDS` (`GuardCap`) | 10 000 | 2 | holds every id of the run; section 5 says what an eviction does |
| `APPROVALS_LIST_MAX_ROWS` (`PageLimit`) | 500 | 1 | two rows already need two pages |
| `MaxJoins`, `MaxTracked` | 16, 10 000 | 1 | a second join and a second forwarded call meet the limit |
| `Attempts` | the pauses of `retry.ts` | 2 | one retry; all that a further one adds is another call of the same use, which `delivery` has |
| `MaxOpened`, `MaxAsks` | - | 2, 1 | a child and its successor, a shared session and one of its own; also explored with 2 asks (752 914 states) and with 3 instances (686 808), safety only |
| `MAX_QUARANTINED_TOOLS_PER_SERVER` (`MaxHeld` of the inventory) | 2 000 | 1 | a second newcomer is refused |
| `CAS_LOSSES_BEFORE_PESSIMISTIC` (`CasLosses`) | 4 | 1 | the optimistic and the locked attempt are both taken |
| `MaxBusy`, `MaxUpdates` | - | 2, 4 | two writers race; approve, remove, add and list fit; also explored with 5 updates (1 184 645 states), safety only |
| `BatchMax` | 256 | 2 | a batch is full, and a queue is left behind it |
| `Cutoffs` | any instant | {2} | prunes part of the chain, or all of it |
| `ForceFactor` | 3 | 3 | the real value; three concurrent updates were explored for 8.6 million states without an error, unfinished |
| `MaxByHand` | - | 1 | a change by hand races the two edits |
| `HandMade` | any policy | `{{e1}}` | a file by hand that holds one edit and lacks the other, beside a broken one and none; also explored with every set of the two edits (3 964 775 states, all four properties) |
| `MaxNow`, `MaxDenied`, `MaxFaults` | - | see the .cfg files | bounds in the guards of `Tick`, `applyDeny`, `pollFails` and `restartUi` |

`MaxNow` is 0 in `feed` and `gate_wrap`, about interleavings no timer takes part in;
`queue` and `gate_session` reach the deadlines. Symmetry is used in `gate_wrap` only,
which checks no liveness. `CHECK_DEADLOCK FALSE` is set where the system may really
stop (calls over, sessions ended, journal drained, clock at its bound); `feed`,
`policy` and `inventory` do not set it.

### Fairness

What the event loop and timers do is fair; what people, servers and the network do is
not.

* `FairSpec` (gate): weak fairness of each call's steps, of its withdrawal, of the
  last step of a session's end, and of the clock. Storage may still fail each step. No operator owes an answer, no reader a
  sweep, and the session need not end.
* `ListedSpec` (queue): weak fairness of the clock and a reader's steps, strong
  fairness of `markExpiredBatch`: a page that lists approvals is open, and a write
  contended now is not refused for ever. Without a listing nothing expires an orphan,
  and that is how the code is meant to work.
* `FairFeedSpec`: weak fairness of the watcher's interval.
* `FairSpec` (delivery): decisions end (a held request expires), a woken resend runs,
  a claim's timer fires. The server owes nothing and no session has to end.
* `BridgeFairness`: the same, an ended session's grace is bounded, an open POST arrives, retry timers fire, what was
  read is handed on, and the GET stream of a session that is gone ends with a 404,
  which ends the bridge. `ClientIsAnswered` is conditional on the server answering.
* `FairSpec` (pool): timers fire, starts and closed sessions end, a living server
  answers what it was asked, the supervisor's steps run.
* `FairInventorySpec`: weak fairness of an operator's attempt only.
* `FairSpec` (policy): calls keep coming, and each checks the file.
* `FairSpec` (journal, lock): the writer's and the callers' own steps and, for the
  lock, time.

## 4. Proofs

The theorems hold for every value of the constants that the modules' named ASSUMEs
allow: any number of requests, calls, processes and ids, any limits (the feed needs
finitely many requests and the inventory finitely many tools, because they count
them). Eight modules hold them.

| module | theorems |
|---|---|
| `ApprovalQueueProofs` | `QueueInvariant`; `QueueTypeCorrect`, `HoldsMatchRows`, `ApprovalsInTime`, `LivingHoldersKeep`; `DecisionsStand`; of the feed, `FeedInvariant`; `FeedTypeCorrect`, `WatcherLosesNothing` |
| `ApprovalGateProofs` | `GateInvariant`; `TypeCorrect`, `AnswersMatchRecord`, `LivingGateKeeps`; `GateImplementsCallOutcome`; `SideInvariant`; `CapHolds`, `CancelsFollowCalls`, `SilencesHaveCauses`, `LeavingEndsForwarding`, `AnsweredIsFinal` |
| `DeliveryProofs` | `DeliveryInvariant`, `DeliveryTypeCorrect`, `ToolUsesRunOnce`, `ClaimsHaveOwners`, `ResendsWaitForSomebody`, `TraceIsLeft`, `KeptAnswersAreTrue`, `ResultsStand`; `BridgeImplementsDelivery`, `RetriesRunOnce`; `BridgeInvariant`, `ClientsHearOnce`, `CancelsNameTheAttempt`, `CancelledIsNotRetried` |
| `PoolMembersProofs` | `PoolInvariant`, `PoolTypeCorrect`, `NothingIsStranded`, `FreeSessionsOweNothing`, `OutcomesStand` |
| `InventoryProofs` | `InventoryInvariant`, `InventoryTypeCorrect`, `HeldIsAgainstApproval`, `UnapprovedIsNotAllowed`, `ApprovalsAreNotInherited`, `InventoryImplementsDocument` |
| `JournalProofs` | `JournalInvariant`, `JournalTypeCorrect`, `ChainAlwaysVerifies`, `HistoryGrows`; `OrderInvariant`; `ToldTheTruth`, `OrderIsKept` |
| `PolicyProofs` | `FileInvariant`, `ReloadInvariant`; `PolicyTypeCorrect`, `EditsAreKept`, `NextCheckSees`, `ReloadNeverBackwards` |
| `FileLockProofs` | `LockInvariant`, `LockTypeCorrect`, `NoUpdateLostInSilence` |

*The queue.* `QueueInv` is the type invariant, `HoldIffPending`, `ApprovedInTime` and
`LostInv`. The last strengthens `LostOnlyIfDead`: a sweep about to withdraw a
non-empty batch already knows the holder is dead; without it a batch found in one
state could be written in another. Every settlement goes through
`moveToResolvedBatch`, whose effect is one lemma.

*The feed.* `NoChangeSkipped` speaks of the watermark only. `FeedInv` adds that
sequences of different rows differ and never pass the counter, and that every position
a tick in flight asked from is covered as well: an overlapping tick may put an older
watermark back, which is harmless only because it was covered.

*The gate.* `GateInv` is the queue's invariant, the shape of the gate's variables and
`AllRuled`: what a call has seen, and where its decision stands, agree with its row.
The queue's lemmas are used as they are: each action of the gate is a queue step or
leaves the queue alone. The refinement takes `AllRuled` and the settlement lemma.

*The gate's books.* `SideInv` says what the gate's counters and tables stand for. The
admitted count is the number of calls between the cap check and the end of their
verdict, of which those that wait are a part, hence `HeldWithinCap`. A verdict that is
tracked under an id, and the one a queued cancel waits behind, is that of a call on its
way; hence `CancelFollowsCall`. An id in the LRU, or burnt, is that of a call that
has ended or was denied; hence `SilenceHasCause`. Two of the gate's promises
hold under a hypothesis that section 5 shows to be needed, and the theorem names it:
`LeavingEndsForwarding` is about `connect` and `serve` (`~IsWrap`), and
`AnsweredIsFinal` about `RemembersAll`: the journal is not fail-closed, and the ids in
use are no more than the LRU holds. Its invariant is that the LRU repeats nothing, so
that it never has to evict, and holds the id of every call answered on its way.

*Delivery.* `RunsOnce` is not inductive: it needs that the marks of a call (claimed,
tracked, sent, answered) agree with its `pc`; that a claim belongs to a call on its way
or awaited; and that while a use has been sent and not lost, a claim or a kept answer
is there to stop the next call. Joiners wait for the claim's holder by the same
invariant. *The bridge* adds which POST may be open, who still hears of a use, and that
every cancel in the air belongs to the book's entry; every step of it is a step of
`CallDelivery` or leaves it alone, so the bridge inherits `RunsOnce`.

*The pool.* Routes lead to sessions that are the pool's, requests that wait were asked
of a routed session, and what a session owes is pending with the pool that holds it;
`FreeOwesNothing` follows, because giving a session back empties the table first.

*The inventory.* The kernel is that a caller whose revision is current has computed
from the document as it is, so that its write is an update of the document at that
instant; all else follows from what each update does to one entry (`ServerInventory`'s
lemmas). `NothingInherited` also needs that a quiet add's own forget was the last thing
that touched the approvals, and `HeldUntilReleased` that a version awaiting a ruling is in
quarantine, in the document and in every view that reflects it. The decision enters as one lemma: such a tool is
not allowed.

*The journal.* Each row's hash is its predecessor's with its record appended, markers
hold the head at the row they cut through, and the head a process has read stays the
chain's head for as long as it holds the database lock. The smallest row after a cut
comes from well-foundedness of `<`.
`SettledIsTrue` and `LinkedInCallOrder` need `OrderInv`: what a process has in its queue
of batches and its buffer stands in line, in the order of its calls and without repetitions, every
record in line is one nobody was told about yet, and what is linked was called for
before whatever still stands in line. A batch that fails leaves the line from its head;
one that is tried again keeps its place.

*The lock.* A call that is not the one on disk is *doomed*: its next re-check will
tell it that it lost the lock, or its update is under the later one. `NoSilentLoss`
follows; mutual exclusion does not hold and is not claimed.

*The policy.* A writer that was not robbed holds the lock (`LockInv`), so what it
compared is still what it replaces, or a robbed writer wrote what is there, or the file
changed by hand since the compare (`EditInv`; `raced` remembers which writers that
happened to). `EditsStand` speaks of every write that replaces another policy than the
one edited, whether that drops an edit or brings one back. The exception for the writer
that is written over is needed: a robbed writer may write between the compare and the
rename of one that was not robbed. The exception for changes by hand is for those after
the compare only: one that lands before it must end in a conflict. For the proxy, a
version that was seen and not found broken is one whose content was applied
(`SeenInv`); nothing read is newer than the file, and a refresh that may still apply
has read at least what is in force (`OrderInv`); and since the last check it has read
the file as it is (`FreshInv`). The serial number of the reads is what makes the last
two inductive.

Every safety invariant and action property of the passing runs is stated by a theorem.
Only model-checked: liveness (`OrphansLeave`, `CardsCatchUp`, `HeldCallEnds`,
`EndedSessionLeavesNothing`, `ResendsEnd`, `ClientIsAnswered`, `CallsEnd`, `RulingsEnd`,
`EditTakesHold`, `EverythingSettles`, `WaitersGetThrough`), which needs fairness and
ENABLED, out of this prover's reach. What functions defined by recursion over data
compute (pattern matching, redaction, the surface diff) would need induction and stays
outside the models.

## 5. Where the code and its comments differ

Each was met while modelling; the first is a run, the others are described here and
exempted by name in the properties they touch.

* **A written edit may be lost** (`policy_lost`). `acquireLock` judges a lock stale by
  a stat (`policy/edit/policy-file.ts:228-229`) and then renames away whatever is at
  the path by then. Two writers that both judged a dead writer's lock stale end up in
  the critical section together, both are told *written*, and the first edit is gone.
  `policy-file.ts:221-224` says only one of them can go on, `:25-28` promises a conflict
  instead of a lost update. `EditsStand` exempts a write by, or over that of, a writer
  whose lock was taken (`robbed`).
* **A change by hand may be lost.** `writeUnderLock` compares the file with what was
  edited (`policy-file.ts:269-272`), serializes, writes a temporary file and renames it
  over the path (`:305`) without looking again. No lock keeps an editor out: a change by
  hand that lands in between is replaced, and the writer is told *written*, although
  `:25-28` promises that a file that has moved on by hand yields a conflict instead of a
  lost update, and the list of where that stops holding (`:30-42`) does not name it. One
  writer and one change suffice, and nobody's lock is taken. `EditsStand` exempts the
  writers it happened to (`raced`) and no other.
* **The guard of answered ids and a flood.** `hold()` ends the burn of an id in its
  `finally` (`proxy/gate-approvals.ts:265`) before `finishApproval` asks `isAnswered`
  (`:380`); from then on only the LRU remembers, and later local answers evict the id:
  an approved call is forwarded although its id was answered. `gate-approvals.ts:256-258`
  and `id-tracking.ts:59-61` say the burn survives a flood. Under
  `journal.failClosed` the guard is read before the flush is awaited and not after
  (`:380`, `:387`). `gate_wrap` keeps `GuardCap` above the ids it uses.
* **A late send under `wrap`.** `agentLeft` only starts the withdrawals; an approval
  that commits first wins and the call goes to the server for nobody
  (`gate-approvals.ts:193`; `gate-core.ts:371` says nothing held may go out any more).
  In `connect`/`serve`, `applyVerdict` drops it: `NothingSentAfterLeaving`.
* **An approval delivered to nobody.** When the flush of the *pending* record fails the
  agent is refused but the row stays pending (`gate-approvals.ts:234`); an approval of
  it is persisted and reaches nobody (`queue.ts:223-225` says none ever is).
* **The vault lock's double hold.** `lockfile.ts:99` says a double hold is caught by the
  nonce re-check before either side commits a write. `withVaultLock` re-checks after the
  work only: one call's update can be overwritten by another's that is then told
  `VaultLockLost`, or that crashes after its write. `NoSilentLoss` is what holds.
  `releaseFileLock` may also remove a thief's file, between its check and its `rm`.
* **What was approved for another.** An approval that commits between an add's forget
  and its registry write, or a removal that read *not registered* before the add it then
  undoes, lets a later server of the name inherit (`registry/store.ts:189-198` says it
  must never). `NothingInherited` is about adds nothing came between (`wasQuiet`).
* **Trust comes back by the next page.** A failed or over-cap listing makes the session's
  catalog untrusted, but a later clean listing trusts it again although the changed
  tools of the earlier one were never recorded (`proxy/tool-catalog.ts` says every
  subsequent call fails closed). `awaiting` counts only what was recorded. The comment
  at `tool-catalog.ts:172`, "before the next call can be gated", is not literal either:
  calls are gated during the awaited update.
* **Approving by name** approves whatever version is in quarantine at that moment; after
  an upgrade and a downgrade that is one no longer served. A reject of a changed tool
  leaves its old approval, so a session that does not list again sees it as known.
* **Detaching by name.** The end of a routed child detaches its server by name
  (`pool/children.ts:280`): a predecessor closed with up to 30 ms of grace ends late and
  detaches its successor (`tainted`); a fan-out's timeout (`cli/serve-pool.ts:252-260`)
  does the same. A handshake that times out leaves its entry in the correlator until
  the server is next dropped (`timedOut`).
* **Two policies in one clock tick** of equal size cannot be told apart by their version
  key (`policy/reload.ts:155`, `isTwin`). The comment at `gate-call.ts:72-75` describes
  an older order of checks.

## 6. What the models leave out

* *Queue, feed*: the import of the legacy file queue, malformed records, the wording of
  refusals and who may answer, the row bounds of one sweep and of one retention pass
  (200 rows), the watcher's quarantine poll. A row that retention deletes before a
  watcher stopped for 24 hours reads it is exempted by name (`pruned`).
* *Gate*: progress notifications; pipes that fail (a local answer counts as delivered);
  the separate flush of a call denied at once; more than one cancel or abandonment of an
  id; the teardown grace of calls already sent; confirmation in the client. One gate
  process: several share a queue only through rows of their own, and `queue` puts it
  under a holder that may do anything to any row.
* *Delivery, bridge*: correlated HTTP sessions are modelled, positional ones end on an
  abandonment (a retry gets a 404, which is final). Left out: the bounds of the book
  (1 024 and 256) and the eviction of the abandoned set, reuse of ids, a tool-use id that
  comes back with other arguments, a restart of the service, messages without a tool-use
  id (sent once).
* *Pool*: one server; no progress tokens, table capacity, slots per pool and process,
  second handshake, pages of a list, cancels, staleness of the configuration, backoff,
  retiring, failed starts, failed writes, calls to a server without a route.
* *Inventory*: other servers' content (`Elsewhere`); a listing that names a tool twice;
  pages; the first import of an old file; the parse memo and validation; overrides by
  class, argument checks and patterns of the decision; load errors after which the gate
  denies everything.
* *Policy*: a second candidate path and its shadow report, deduplication of failure
  reports, the 250 ms cooldown, read errors other than a missing file, the in-process
  chain of writes. With the cooldown a call may be decided without a check, so
  `SeesTheEdit` speaks of a check that has begun, not of every decision. Nothing in
  production calls the asynchronous refresh; it is modelled because the class offers
  it. An asynchronous *absent* is applied without the serial check, which costs a
  spurious report and nothing else.
* *Journal*: signatures, the import of legacy files, a COMMIT whose outcome is unknown.
  A crash loses only what was not settled.
* *Lock*: the modes of the files.

## 7. Not modelled, and what would come next

The parts of section 1.2, for the reasons given there. Those with control worth
modelling, in this order:

1. HTTP exchanges (`transport/http/session*.ts`): one response per request over POST and
   GET streams, slots, abandonment; it would refine the *dropped POST* of `BridgeRetry`.
2. Confirmation in the client as a second asker of the gate.
3. Revocation (`session/agent-watch.ts`, `agents/effective*.ts`): a revoked agent's
   session ends, and no decision is taken under rights withdrawn before it.
4. Trash and restore of the files server; the hub's idle sweep.

Theorems that would follow: that the queue with its feed, and `PolicyFile` without
robbed or raced writers, implement an atomic document as the inventory does; and a form of
`AnsweredIsFinal` for a fail-closed gate, which would have to name the calls whose flush
was under way.
