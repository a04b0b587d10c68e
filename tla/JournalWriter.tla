---------------------------- MODULE JournalWriter ----------------------------
(***************************************************************************)
(* The batch writer of each process (journal/batch-writer.ts) and the      *)
(* session sinks that share it (journal/sink.ts), over the database of     *)
(* JournalChain.  A batch that finds the lock taken waits and replays its  *)
(* whole transaction, which leaves nothing behind and is no step here;     *)
(* once its wait is over, or on any other storage error, the attempt       *)
(* fails.                                                                  *)
(***************************************************************************)
EXTENDS JournalChain

CONSTANTS
  Sinks,     \* one per proxied session
  HostOf,    \* the process a sink lives in
  SinkOf     \* the sink a record is written to; NoSink for rows older than this run

NoSink == "no-sink"

ASSUME WriterAssumption ==
  /\ HostOf \in [Sinks -> Processes]
  /\ SinkOf \in [Records -> Sinks \cup {NoSink}]
  /\ NoSink \notin Sinks
  /\ \A i \in DOMAIN PreChain : SinkOf[PreChain[i]] = NoSink

VARIABLES
  status,   \* what the sink knows of a record
  calls,    \* history: the records written through a process, in call order
  buffered, \* records no batch holds yet
  armed,    \* whether the batch timer runs
  queue,    \* the chained batches; the first one is committing
  attempt,  \* how far commitWithRetry is with it
  closed,   \* sinks that were closed
  awaiting, \* the records a sink's running flush waits for
  flushing, \* sinks whose flush has not returned
  alive     \* processes that have not died

writerVars == <<status, calls, buffered, armed, queue, attempt, closed, awaiting, flushing, alive>>
vars == <<dbVars, writerVars>>

hostOfRecord(r) == HostOf[SinkOf[r]]
recordsOf(s) == {r \in Records : SinkOf[r] = s}
outstanding(s) == {r \in recordsOf(s) : status[r] = "waiting"}
inBatches(p) == {r \in Records : \E b \in DOMAIN queue[p] : \E i \in DOMAIN queue[p][b] : queue[p][b][i] = r}
inBuffer(p) == {r \in Records : \E i \in DOMAIN buffered[p] : buffered[p][i] = r}

-----------------------------------------------------------------------------
(* commitBuffered, with rows in the buffer; disarmTimer comes with it. *)
commitBuffered(p, rows) ==
  /\ queue' = [queue EXCEPT ![p] = IF rows = <<>> THEN @ ELSE Append(@, rows)]
  /\ buffered' = [buffered EXCEPT ![p] = <<>>]
  /\ armed' = [armed EXCEPT ![p] = FALSE]

enqueue_NeverFull(p, r) ==  \* mutant: a full buffer neither commits nor arms the timer
  /\ buffered' = [buffered EXCEPT ![p] = Append(@, r)]
  /\ armed' = [armed EXCEPT ![p] = Len(buffered[p]) + 1 < BatchMax]
  /\ UNCHANGED queue

enqueue(p, r) ==
  LET rows == Append(buffered[p], r)
  IN IF Len(rows) >= BatchMax
     THEN commitBuffered(p, rows)
     ELSE /\ buffered' = [buffered EXCEPT ![p] = rows]
          /\ armed' = [armed EXCEPT ![p] = TRUE]
          /\ UNCHANGED queue

write(r) ==
  LET s == SinkOf[r]
      p == hostOfRecord(r)
  IN /\ s \in Sinks
     /\ alive[p]
     /\ status[r] = "new"
     /\ IF s \in closed
        THEN /\ status' = [status EXCEPT ![r] = "refused"]
             /\ UNCHANGED <<calls, buffered, armed, queue>>
        ELSE /\ status' = [status EXCEPT ![r] = "waiting"]
             /\ calls' = [calls EXCEPT ![p] = Append(@, r)]
             /\ enqueue(p, r)
     /\ UNCHANGED <<attempt, closed, awaiting, flushing, alive>>
     /\ UNCHANGED dbVars

timerFires(p) ==
  /\ alive[p] /\ armed[p]
  /\ commitBuffered(p, buffered[p])
  /\ UNCHANGED <<status, calls, attempt, closed, awaiting, flushing, alive>>
  /\ UNCHANGED dbVars

-----------------------------------------------------------------------------
(* commitWithRetry on the first chained batch. *)

isTrying(p) == alive[p] /\ queue[p] # <<>> /\ attempt[p] \in {"first", "second"}

settleAll(p, outcome) ==
  /\ status' = [r \in Records |-> IF \E i \in DOMAIN Head(queue[p]) : Head(queue[p])[i] = r
                                  THEN outcome ELSE status[r]]
  /\ queue' = [queue EXCEPT ![p] = Tail(@)]
  /\ attempt' = [attempt EXCEPT ![p] = "first"]

beginBatch(p) ==
  /\ isTrying(p) /\ lock # p
  /\ begin(p)
  /\ UNCHANGED writerVars

commitRows(p) ==
  /\ isTrying(p) /\ lock = p
  /\ commit(p, Head(queue[p]))
  /\ settleAll(p, "stored")
  /\ UNCHANGED <<calls, buffered, armed, closed, awaiting, flushing, alive>>

attemptFails_RowByRow(p) ==  \* mutant: what was inserted before the error stays
  /\ isTrying(p)
  /\ IF attempt[p] = "first"
     THEN /\ attempt' = [attempt EXCEPT ![p] = "pause"]
          /\ UNCHANGED <<status, queue>>
     ELSE settleAll(p, "dropped")
  /\ IF lock = p THEN commit(p, SubSeq(Head(queue[p]), 1, 1)) ELSE rollback(p)
  /\ UNCHANGED <<calls, buffered, armed, closed, awaiting, flushing, alive>>

attemptFails_Requeues(p) ==  \* mutant: a failed batch goes to the end of the line
  /\ isTrying(p)
  /\ rollback(p)
  /\ IF attempt[p] = "first"
     THEN /\ attempt' = [attempt EXCEPT ![p] = "pause"]
          /\ queue' = [queue EXCEPT ![p] = Append(Tail(@), Head(@))]
          /\ UNCHANGED status
     ELSE settleAll(p, "dropped")
  /\ UNCHANGED <<calls, buffered, armed, closed, awaiting, flushing, alive>>

attemptFails(p) ==
  /\ isTrying(p)
  /\ rollback(p)
  /\ IF attempt[p] = "first"
     THEN /\ attempt' = [attempt EXCEPT ![p] = "pause"]
          /\ UNCHANGED <<status, queue>>
     ELSE settleAll(p, "dropped")
  /\ UNCHANGED <<calls, buffered, armed, closed, awaiting, flushing, alive>>

retryBatch(p) ==
  /\ alive[p] /\ attempt[p] = "pause"
  /\ attempt' = [attempt EXCEPT ![p] = "second"]
  /\ UNCHANGED <<status, calls, buffered, armed, queue, closed, awaiting, flushing, alive>>
  /\ UNCHANGED dbVars

-----------------------------------------------------------------------------
(* flush, and close, which flushes: what was written before the call, by    *)
(* any sink of the writer, is what it waits for.  A flush that is owed      *)
(* nothing returns at once.                                                 *)

owed(s) == outstanding(s) \cup inBatches(HostOf[s]) \cup inBuffer(HostOf[s])

flushNow(s) ==
  LET p == HostOf[s]
  IN /\ commitBuffered(p, buffered[p])
     /\ flushing' = IF owed(s) = {} THEN flushing ELSE flushing \cup {s}
     /\ awaiting' = [awaiting EXCEPT ![s] = @ \cup owed(s)]

flush(s) ==
  /\ alive[HostOf[s]]
  /\ s \notin closed
  /\ owed(s) # {}
  /\ flushNow(s)
  /\ UNCHANGED <<status, calls, attempt, closed, alive>>
  /\ UNCHANGED dbVars

close(s) ==
  /\ alive[HostOf[s]]
  /\ s \notin closed
  /\ closed' = closed \cup {s}
  /\ flushNow(s)
  /\ UNCHANGED <<status, calls, attempt, alive>>
  /\ UNCHANGED dbVars

flushReturns(s) ==
  /\ alive[HostOf[s]]
  /\ s \in flushing
  /\ \A r \in awaiting[s] : status[r] # "waiting"
  /\ flushing' = flushing \ {s}
  /\ awaiting' = [awaiting EXCEPT ![s] = {}]
  /\ UNCHANGED <<status, calls, buffered, armed, queue, attempt, closed, alive>>
  /\ UNCHANGED dbVars

(* The process dies: SQLite rolls its transaction back, the rest is gone. *)
Crash(p) ==
  /\ alive[p]
  /\ alive' = [alive EXCEPT ![p] = FALSE]
  /\ rollback(p)
  /\ buffered' = [buffered EXCEPT ![p] = <<>>]
  /\ armed' = [armed EXCEPT ![p] = FALSE]
  /\ queue' = [queue EXCEPT ![p] = <<>>]
  /\ attempt' = [attempt EXCEPT ![p] = "first"]
  /\ flushing' = {s \in flushing : HostOf[s] # p}
  /\ awaiting' = [s \in Sinks |-> IF HostOf[s] = p THEN {} ELSE awaiting[s]]
  /\ status' = [r \in Records |->
                  IF status[r] = "waiting" /\ hostOfRecord(r) = p THEN "lost" ELSE status[r]]
  /\ UNCHANGED <<calls, closed>>

-----------------------------------------------------------------------------
Init ==
  /\ DbInit
  /\ status = [r \in Records |-> "new"]
  /\ calls = [p \in Processes |-> <<>>]
  /\ buffered = [p \in Processes |-> <<>>]
  /\ armed = [p \in Processes |-> FALSE]
  /\ queue = [p \in Processes |-> <<>>]
  /\ attempt = [p \in Processes |-> "first"]
  /\ closed = {}
  /\ awaiting = [s \in Sinks |-> {}]
  /\ flushing = {}
  /\ alive = [p \in Processes |-> TRUE]

Session(s) == flush(s) \/ close(s) \/ flushReturns(s)
Writer(p) == timerFires(p) \/ beginBatch(p) \/ commitRows(p) \/ attemptFails(p) \/ retryBatch(p)

Next ==
  \/ \E r \in Records : write(r)
  \/ \E s \in Sinks : Session(s)
  \/ \E p \in Processes : Writer(p) \/ Crash(p)
  \/ Prune /\ UNCHANGED writerVars

Spec == Init /\ [][Next]_vars

(* Timers fire and awaited work resumes: each batch is tried until it ends. *)
(* Losing every race for the lock is an attempt that fails in the end.      *)
Fairness ==
  /\ \A p \in Processes : WF_vars(Writer(p))
  /\ \A s \in Sinks : WF_vars(flushReturns(s))

FairSpec == Spec /\ Fairness

-----------------------------------------------------------------------------
(* Every variable of the writers and of the database keeps its shape. *)
TypeOK ==
  /\ DbTypeOK
  /\ status \in [Records -> {"new", "waiting", "stored", "dropped", "refused", "lost"}]
  /\ calls \in [Processes -> Seq(Records)]
  /\ buffered \in [Processes -> Seq(Records)]
  /\ armed \in [Processes -> BOOLEAN]
  /\ queue \in [Processes -> Seq(Seq(Records))]
  /\ attempt \in [Processes -> {"first", "pause", "second"}]
  /\ closed \subseteq Sinks
  /\ awaiting \in [Sinks -> SUBSET Records]
  /\ flushing \subseteq Sinks
  /\ alive \in [Processes -> BOOLEAN]

(* What a sink was told of a record is what the chain has: a stored record *)
(* is linked exactly once, and any other not at all, whatever was retried, *)
(* rolled back, pruned since, or lost with its process.                    *)
places(history, r) == {i \in DOMAIN history : history[i] = r}

SettledIsTrue ==
  LET history == chainHeadOf(table, markers)
  IN \A r \in Records :
       SinkOf[r] \in Sinks =>
         IF status[r] = "stored"
         THEN \E i \in DOMAIN history : places(history, r) = {i}
         ELSE places(history, r) = {}

(* The records of one process are linked in the order it wrote them,       *)
(* although batches wait, fail and are tried again.                        *)
LinkedInCallOrder ==
  LET history == chainHeadOf(table, markers)
  IN \A p \in Processes : \A k, l \in DOMAIN calls[p] :
       \A i \in places(history, calls[p][k]), j \in places(history, calls[p][l]) : k < l => i < j

(* Every record of a sink is settled and every flush returns, unless the   *)
(* process dies: no batch is left behind the timer, no retry goes on for   *)
(* ever, and traffic of another sink does not hold a flush back.           *)
EverythingSettles ==
  \A s \in Sinks : []<>(s \notin flushing /\ outstanding(s) = {})
=============================================================================
