----------------------------- MODULE JournalChain -----------------------------
(***************************************************************************)
(* The journal database of one host (journal/db.ts, chain.ts) and the      *)
(* commands that use it beside the writers: `prune` (journal/prune.ts,     *)
(* cli/prune-cmd.ts) and `verify` (journal/chain-verify.ts,                *)
(* cli/verify-cmd.ts).                                                     *)
(*                                                                         *)
(* sha256 is taken as free of collisions: the hash of a row is the whole   *)
(* sequence of records it is computed over, so linkHashOf appends, and the *)
(* head of the chain reads as the history of the journal since genesis.    *)
(* Left out: signatures over markers and anchors, and the import of legacy *)
(* files.                                                                  *)
(***************************************************************************)
EXTENDS Integers, Sequences

CONSTANTS
  Records,     \* journal records, each with a doc of its own
  Stamp,       \* a record's own ts, which need not rise with seq
  Cutoffs,     \* the instants an operator may prune up to
  Processes,   \* processes that append through a batch writer
  PreChain,    \* rows that were written before the chain existed, in order
  BatchMax     \* JOURNAL_BATCH_MAX_RECORDS

NoHash == <<"null">>
GENESIS_PREV_HASH == <<>>
Free == "free"

ASSUME JournalAssumption ==
  /\ Stamp \in [Records -> Nat]
  /\ Cutoffs \subseteq Nat
  /\ PreChain \in Seq(Records)
  /\ BatchMax \in Nat \ {0}
  /\ "null" \notin Records
  /\ Free \notin Processes

VARIABLES
  table,     \* journal_records in seq order
  lastSeq,   \* its AUTOINCREMENT counter
  markers,   \* journal_prune_marker
  lock,      \* the process inside BEGIN IMMEDIATE ... COMMIT
  head       \* the chain head a process has read in its transaction

dbVars == <<table, lastSeq, markers, lock, head>>

Hashes == Seq(Records) \cup {NoHash}
Rows == [seq : Nat, rec : Records, prev : Hashes, hash : Hashes]
Marks == [through : Nat, head : Hashes]

-----------------------------------------------------------------------------
(* The chain. *)

linkHashOf(prev, doc) == Append(prev, doc)

latest(ms) == CHOOSE m \in ms : \A n \in ms : n.through <= m.through

chainHeadOf_NoMarker(t, ms) ==  \* mutant: an emptied journal starts afresh
  LET attested == {i \in DOMAIN t : t[i].hash # NoHash}
  IN IF attested # {}
     THEN t[CHOOSE i \in attested : \A j \in attested : j <= i].hash
     ELSE GENESIS_PREV_HASH

chainHeadOf(t, ms) ==
  LET attested == {i \in DOMAIN t : t[i].hash # NoHash}
      headed == {m \in ms : m.head # NoHash}
  IN IF attested # {} THEN t[CHOOSE i \in attested : \A j \in attested : j <= i].hash
     ELSE IF headed # {} THEN latest(headed).head
     ELSE GENESIS_PREV_HASH

(* insertRecordRows: h folded over the rows of one batch. *)
recordRows(h, rows) ==
  LET prev(i) == h \o SubSeq(rows, 1, i - 1)
  IN [i \in 1..Len(rows) |-> [seq |-> lastSeq + i, rec |-> rows[i],
                              prev |-> prev(i), hash |-> linkHashOf(prev(i), rows[i])]]

insertRecordRows(h, rows) ==
  /\ table' = table \o recordRows(h, rows)
  /\ lastSeq' = lastSeq + Len(rows)

-----------------------------------------------------------------------------
(* A writer's transaction: the head is read with the lock already taken. *)

begin(p) ==
  /\ lock = Free
  /\ lock' = p
  /\ head' = [head EXCEPT ![p] = chainHeadOf(table, markers)]
  /\ UNCHANGED <<table, lastSeq, markers>>

endTransaction(p) ==
  /\ lock' = IF lock = p THEN Free ELSE lock
  /\ head' = [head EXCEPT ![p] = GENESIS_PREV_HASH]

commit(p, rows) ==
  /\ insertRecordRows(head[p], rows)
  /\ endTransaction(p)
  /\ UNCHANGED markers

rollback(p) ==
  /\ endTransaction(p)
  /\ UNCHANGED <<table, lastSeq, markers>>

-----------------------------------------------------------------------------
(* `prune`: one transaction, which computes its boundary itself. *)

isOlder(i, cutoff) == Stamp[table[i].rec] < cutoff

(* How many rows lead the table that are all older than the cutoff. *)
prefixBoundaryOf(cutoff) ==
  CHOOSE n \in 0..Len(table) : /\ \A i \in 1..n : isOlder(i, cutoff)
                               /\ n < Len(table) => ~isOlder(n + 1, cutoff)

pruneRecordsOlderThan_ByStamp(cutoff) ==  \* mutant: a predicate on ts for a prefix of seq
  LET gone == {i \in DOMAIN table : isOlder(i, cutoff)}
      last == CHOOSE i \in gone : \A j \in gone : j <= i
      isKept(row) == Stamp[row.rec] >= cutoff
  IN /\ lock = Free
     /\ gone # {}
     /\ table' = SelectSeq(table, isKept)
     /\ markers' = markers \cup {[through |-> table[last].seq, head |-> table[last].hash]}
     /\ UNCHANGED <<lastSeq, lock, head>>

pruneRecordsOlderThan(cutoff) ==
  LET n == prefixBoundaryOf(cutoff)
  IN /\ lock = Free
     /\ n > 0
     /\ table' = SubSeq(table, n + 1, Len(table))
     /\ markers' = markers \cup {[through |-> table[n].seq, head |-> table[n].hash]}
     /\ UNCHANGED <<lastSeq, lock, head>>

-----------------------------------------------------------------------------
(* `verify`: the marker and the rows come from one consistent read view     *)
(* (withConsistentReadView), so the walk judges one committed state.       *)

resolveChainStartPrevHash(ms) ==
  IF ms = {} \/ latest(ms).head = NoHash THEN GENESIS_PREV_HASH ELSE latest(ms).head

isUnattested(row) == row.prev = NoHash /\ row.hash = NoHash

(* The rows at which the walk disagrees; it stops at the first of them. *)
disagreements(rows, ms) ==
  LET isLeading(i) == \A j \in 1..i : isUnattested(rows[j])
      prev(i) == IF \A j \in 1..(i - 1) : isUnattested(rows[j])
                 THEN resolveChainStartPrevHash(ms) ELSE rows[i - 1].hash
  IN {i \in DOMAIN rows : /\ ~isLeading(i)
                          /\ \/ rows[i].prev # prev(i)
                             \/ rows[i].hash # linkHashOf(prev(i), rows[i].rec)}

verifyChain(rows, ms) == disagreements(rows, ms) = {}

-----------------------------------------------------------------------------
preChainRows == [i \in 1..Len(PreChain) |-> [seq |-> i, rec |-> PreChain[i],
                                             prev |-> NoHash, hash |-> NoHash]]

DbInit ==
  /\ table = preChainRows
  /\ lastSeq = Len(PreChain)
  /\ markers = {}
  /\ lock = Free
  /\ head = [p \in Processes |-> GENESIS_PREV_HASH]

Prune == \E cutoff \in Cutoffs : pruneRecordsOlderThan(cutoff)

-----------------------------------------------------------------------------
(* Every variable of the database has its shape, and seq rises through the *)
(* table and never falls back to one that was used.                        *)
DbTypeOK ==
  /\ table \in Seq(Rows)
  /\ lastSeq \in Nat
  /\ markers \subseteq Marks
  /\ lock \in Processes \cup {Free}
  /\ head \in [Processes -> Seq(Records)]

(* `verify` never calls an untampered journal broken: whatever processes   *)
(* append, roll back, replay, prune to nothing or import, the walk finds   *)
(* every row hanging from the one before it, and the first attested row    *)
(* from the last prune's marker, or from genesis.                          *)
ChainVerifies == verifyChain(table, markers)

(* The head the next row hangs from only grows: no row forks the chain and *)
(* no prune, not even of everything, lets the journal start over.          *)
isPrefixOf(s, t) == Len(s) <= Len(t) /\ \A i \in 1..Len(s) : s[i] = t[i]

HistoryOnlyGrows ==
  [][isPrefixOf(chainHeadOf(table, markers), chainHeadOf(table, markers)')]_<<table, markers>>
=============================================================================
