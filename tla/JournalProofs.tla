----------------------------- MODULE JournalProofs -----------------------------
(***************************************************************************)
(* The hash chain of the journal: `verify` never calls an untampered       *)
(* journal broken (ChainVerifies) and the head that the next row hangs     *)
(* from only grows (HistoryOnlyGrows), for any number of processes, sinks, *)
(* records, rows from before the chain and prunes.  From what stands in    *)
(* line for the chain follow the order of the linked records               *)
(* (LinkedInCallOrder) and the truth of what sinks are told                *)
(* (SettledIsTrue).                                                        *)
(*                                                                         *)
(* The lemmas speak of any table and any set of markers.  A chain is       *)
(* Linked when its rows hang from one another, after rows from before the  *)
(* chain and from where the walk starts; Marked relates the markers to the *)
(* table.  The last marker is then where the walk starts, and the head is  *)
(* the last row's hash or that start.                                      *)
(***************************************************************************)
EXTENDS JournalWriter, SequenceTheorems, WellFoundedInduction, TLAPS

USE JournalAssumption

LEMMA HashValues == NoHash \notin Seq(Records) /\ GENESIS_PREV_HASH \in Seq(Records)
  BY DEF NoHash, GENESIS_PREV_HASH

attested(t) == {i \in 1..Len(t) : t[i].hash # NoHash}

Linked(t, ms) ==
  /\ \A i \in 1..Len(t) : t[i].hash = NoHash => t[i].prev = NoHash
  /\ \A i \in attested(t) : t[i].prev \in Seq(Records) /\ t[i].hash = linkHashOf(t[i].prev, t[i].rec)
  /\ \A i \in attested(t), j \in 1..Len(t) : i < j => j \in attested(t)
  /\ \A i, j \in attested(t) : i = j - 1 => t[j].prev = t[i].hash
  /\ \A i \in attested(t) :
       (\A j \in 1..(i - 1) : j \notin attested(t)) => t[i].prev = resolveChainStartPrevHash(ms)

Marked(t, ms, last) ==
  /\ ms # {} => \E m \in ms : \A n \in ms : n.through <= m.through
  /\ \A m, n \in ms : m.through = n.through => m = n
  /\ \A m, n \in ms : m.head # NoHash /\ n.head = NoHash => n.through < m.through
  /\ (\E i \in 1..Len(t) : i \notin attested(t)) => \A m \in ms : m.head = NoHash
  /\ \A i, j \in 1..Len(t) : i < j => t[i].seq < t[j].seq
  /\ \A i \in 1..Len(t) : t[i].seq <= last /\ \A m \in ms : m.through < t[i].seq
  /\ \A m \in ms : m.through <= last

-----------------------------------------------------------------------------
(* Least and greatest elements that the definitions choose. *)

LEMMA LeastOf ==
  ASSUME NEW T, T \subseteq Nat, T # {}
  PROVE  \E x \in T : \A y \in T : x <= y
  <1> DEFINE Less == {ss \in Nat \X Nat : ss[1] < ss[2]}
  <1>1. IsWellFoundedOn(Less, Nat)
    BY NatLessThanWellFounded DEF OpToRel
  <1> HIDE DEF Less
  <1>2. PICK x \in T : \A y \in T : ~ (<<y, x>> \in Less)
    BY <1>1, WFMin
  <1>3. \A y \in T : <<y, x>> \in Less <=> y < x
    BY DEF Less
  <1>4. \A y \in T : x <= y
    <2>1. x \in Nat /\ \A y \in T : y \in Nat
      OBVIOUS
    <2>2. \A y \in T : ~ (y < x)
      BY <1>2, <1>3, Zenon
    <2> QED  BY <2>1, <2>2
  <1> WITNESS x \in T
  <1> QED  BY <1>4

LEMMA BoundaryExists ==
  ASSUME table \in Seq(Rows), NEW cutoff \in Nat
  PROVE  prefixBoundaryOf(cutoff) \in 0..Len(table)
  <1> DEFINE T == {i \in 1..Len(table) : ~isOlder(i, cutoff)}
  <1>0. Len(table) \in Nat
    OBVIOUS
  <1>1. CASE T = {}
    <2>1. \A i \in 1..Len(table) : isOlder(i, cutoff)
      BY <1>1
    <2> HIDE DEF T
    <2> QED  BY <1>0, <2>1 DEF prefixBoundaryOf
  <1>2. CASE T # {}
    <2>1. PICK x \in T : \A y \in T : x <= y
      <3>1. T \subseteq Nat
        OBVIOUS
      <3> QED  BY <1>2, <3>1, LeastOf
    <2>2. /\ x - 1 \in 0..Len(table)
          /\ \A i \in 1..(x - 1) : isOlder(i, cutoff)
          /\ ~isOlder((x - 1) + 1, cutoff)
      <3>1. (x - 1) + 1 = x
        BY <1>0, <2>1
      <3>2. \A i \in 1..(x - 1) : i \notin T /\ i \in 1..Len(table)
        BY <1>0, <2>1
      <3> QED  BY <1>0, <2>1, <3>1, <3>2
    <2> HIDE DEF T
    <2> QED  BY <1>0, <2>2 DEF prefixBoundaryOf
  <1> QED  BY <1>1, <1>2

LEMMA LatestIs ==
  ASSUME NEW ms, ms \subseteq Marks, NEW m \in ms, \A n \in ms : n.through <= m.through,
         \A n, k \in ms : n.through = k.through => n = k
  PROVE  latest(ms) = m
  <1>1. \A n \in ms : n.through \in Nat
    BY DEF Marks
  <1>2. /\ latest(ms) \in ms
        /\ \A n \in ms : n.through <= latest(ms).through
    BY DEF latest
  <1>3. latest(ms).through = m.through
    BY <1>1, <1>2
  <1> QED  BY <1>2, <1>3

-----------------------------------------------------------------------------
(* Where the walk starts and where the next row hangs. *)

(* The walk starts at the last marker that has a head, if there is one. *)
LEMMA StartIs ==
  ASSUME NEW ms, ms \subseteq Marks, NEW t, NEW last, Marked(t, ms, last)
  PROVE  LET headed == {m \in ms : m.head # NoHash}
         IN /\ headed = {} => resolveChainStartPrevHash(ms) = GENESIS_PREV_HASH
            /\ headed # {} => /\ resolveChainStartPrevHash(ms) = latest(headed).head
                              /\ latest(headed) \in headed
            /\ resolveChainStartPrevHash(ms) \in Seq(Records)
  <1> DEFINE headed == {m \in ms : m.head # NoHash}
  <1>0. GENESIS_PREV_HASH \in Seq(Records)
    BY HashValues
  <1>1. CASE ms = {}
    BY <1>0, <1>1 DEF resolveChainStartPrevHash
  <1>2. CASE ms # {}
    <2>1. PICK m \in ms : \A n \in ms : n.through <= m.through
      BY <1>2 DEF Marked
    <2>2. latest(ms) = m
      BY <2>1, LatestIs DEF Marked
    <2>3. CASE headed = {}
      BY <1>0, <2>2, <2>3 DEF resolveChainStartPrevHash
    <2>4. CASE headed # {}
      <3>1. PICK h \in headed : TRUE
        BY <2>4
      <3>2. m \in headed
        <4>1. h \in ms /\ h.through \in Nat /\ m.through \in Nat /\ h.through <= m.through
          BY <2>1 DEF Marks
        <4> QED  BY <3>1, <4>1 DEF Marked
      <3>3. latest(headed) = m
        <4>1. /\ headed \subseteq Marks /\ \A n \in headed : n.through <= m.through
              /\ \A n, k \in headed : n.through = k.through => n = k
          BY <2>1 DEF Marked
        <4> HIDE DEF headed
        <4> QED  BY <3>2, <4>1, LatestIs
      <3>4. m.head \in Seq(Records)
        BY <3>2 DEF Marks, Hashes
      <3> QED  BY <1>2, <2>2, <2>4, <3>2, <3>3, <3>4 DEF resolveChainStartPrevHash
    <2> QED  BY <2>3, <2>4
  <1> QED  BY <1>1, <1>2

(* The next row hangs from the last attested row, or from that start. *)
LEMMA HeadIs ==
  ASSUME NEW ms, ms \subseteq Marks, NEW t \in Seq(Rows), NEW last,
         Linked(t, ms), Marked(t, ms, last)
  PROVE  /\ attested(t) # {} => Len(t) \in attested(t) /\ chainHeadOf(t, ms) = t[Len(t)].hash
         /\ attested(t) = {} => chainHeadOf(t, ms) = resolveChainStartPrevHash(ms)
         /\ chainHeadOf(t, ms) \in Seq(Records)
  <1>0. Len(t) \in Nat /\ DOMAIN t = 1..Len(t) /\ attested(t) \subseteq 1..Len(t)
    BY DEF attested
  <1>1. {i \in DOMAIN t : t[i].hash # NoHash} = attested(t)
    BY <1>0 DEF attested
  <1>2. CASE attested(t) = {}
    <2>1. chainHeadOf(t, ms) = resolveChainStartPrevHash(ms)
      BY <1>1, <1>2, StartIs DEF chainHeadOf
    <2>2. resolveChainStartPrevHash(ms) \in Seq(Records)
      BY StartIs
    <2> QED  BY <1>2, <2>1, <2>2
  <1>3. CASE attested(t) # {}
    <2>1. Len(t) \in attested(t)
      <3>1. PICK i \in attested(t) : TRUE
        BY <1>3
      <3>2. i \in 1..Len(t) /\ Len(t) \in 1..Len(t) /\ (i = Len(t) \/ i < Len(t))
        BY <1>0
      <3> QED  BY <3>2 DEF Linked
    <2>2. (CHOOSE i \in attested(t) : \A j \in attested(t) : j <= i) = Len(t)
      <3>1. \A j \in attested(t) : j \in Nat /\ j <= Len(t)
        BY <1>0
      <3> DEFINE c == CHOOSE i \in attested(t) : \A j \in attested(t) : j <= i
      <3>2. c \in attested(t) /\ \A j \in attested(t) : j <= c
        BY <2>1, <3>1
      <3> HIDE DEF c
      <3>3. c = Len(t)
        BY <1>0, <2>1, <3>1, <3>2
      <3> QED  BY <3>3 DEF c
    <2>3. chainHeadOf(t, ms) = t[Len(t)].hash
      BY <1>1, <1>3, <2>2 DEF chainHeadOf
    <2>4. t[Len(t)].hash \in Seq(Records)
      <3>1. t[Len(t)] \in Rows /\ t[Len(t)].hash # NoHash
        BY <1>0, <2>1, ElementOfSeq DEF attested
      <3> QED  BY <3>1 DEF Rows, Hashes
    <2> QED  BY <1>3, <2>1, <2>3, <2>4
  <1> QED  BY <1>2, <1>3

(* What is linked verifies. *)
LEMMA LinkedVerifies ==
  ASSUME NEW ms, NEW t \in Seq(Rows), Linked(t, ms)
  PROVE  verifyChain(t, ms)
  <1>0. Len(t) \in Nat /\ DOMAIN t = 1..Len(t)
    OBVIOUS
  <1>1. \A i \in 1..Len(t) : isUnattested(t[i]) <=> i \notin attested(t)
    BY DEF isUnattested, attested, Linked
  <1>2. ASSUME NEW i \in 1..Len(t), ~\A j \in 1..i : isUnattested(t[j])
        PROVE  /\ t[i].prev = IF \A j \in 1..(i - 1) : isUnattested(t[j])
                              THEN resolveChainStartPrevHash(ms) ELSE t[i - 1].hash
               /\ t[i].hash = linkHashOf(t[i].prev, t[i].rec)
    <2>1. i \in attested(t)
      <3>1. PICK j \in 1..i : ~isUnattested(t[j])
        BY <1>2
      <3>2. j \in attested(t) /\ (j = i \/ j < i)
        BY <1>0, <1>1, <3>1
      <3> QED  BY <3>2 DEF Linked
    <2>2. CASE \A j \in 1..(i - 1) : isUnattested(t[j])
      <3>1. \A j \in 1..(i - 1) : j \notin attested(t)
        BY <1>0, <1>1, <2>2
      <3> QED  BY <2>1, <2>2, <3>1 DEF Linked
    <2>3. CASE ~\A j \in 1..(i - 1) : isUnattested(t[j])
      <3>1. PICK j \in 1..(i - 1) : ~isUnattested(t[j])
        BY <2>3
      <3>2. j \in attested(t) /\ i - 1 \in 1..Len(t) /\ (j = i - 1 \/ j < i - 1)
        BY <1>0, <1>1, <3>1
      <3>3. i - 1 \in attested(t)
        BY <3>2 DEF Linked
      <3> QED  BY <2>1, <2>3, <3>3 DEF Linked
    <2> QED  BY <2>2, <2>3
  <1> QED  BY <1>0, <1>2 DEF verifyChain, disagreements

-----------------------------------------------------------------------------
(* Appending the rows of a batch. *)

LEMMA AppendToConcat ==
  ASSUME NEW a \in Seq(Records), NEW b \in Seq(Records), NEW c \in Records
  PROVE  a \o Append(b, c) = Append(a \o b, c)
  OBVIOUS

LEMMA FunctionIsSeq ==
  ASSUME NEW S, NEW k \in Nat, NEW f \in [1..k -> S]
  PROVE  f \in Seq(S) /\ Len(f) = k
  OBVIOUS

(* The head after the first i of the rows. *)
historyTo(h, rows, i) == h \o SubSeq(rows, 1, i)

LEMMA NewRows ==
  ASSUME lastSeq \in Nat, NEW h \in Seq(Records), NEW rows \in Seq(Records)
  PROVE  /\ recordRows(h, rows) \in Seq(Rows)
         /\ Len(recordRows(h, rows)) = Len(rows)
         /\ \A i \in 1..Len(rows) :
              /\ recordRows(h, rows)[i].seq = lastSeq + i
              /\ recordRows(h, rows)[i].prev = historyTo(h, rows, i - 1)
              /\ recordRows(h, rows)[i].prev \in Seq(Records)
              /\ recordRows(h, rows)[i].hash =
                   linkHashOf(recordRows(h, rows)[i].prev, recordRows(h, rows)[i].rec)
              /\ recordRows(h, rows)[i].hash = historyTo(h, rows, i)
              /\ recordRows(h, rows)[i].hash \in Seq(Records)
  <1> DEFINE prev(i) == historyTo(h, rows, i - 1)
             row(i) == [seq |-> lastSeq + i, rec |-> rows[i],
                        prev |-> prev(i), hash |-> linkHashOf(prev(i), rows[i])]
  <1>1. Len(rows) \in Nat
    OBVIOUS
  <1>2. ASSUME NEW i \in 1..Len(rows)
        PROVE  /\ rows[i] \in Records /\ prev(i) \in Seq(Records)
               /\ Append(prev(i), rows[i]) = historyTo(h, rows, i)
               /\ historyTo(h, rows, i) \in Seq(Records)
    <2>1. rows[i] \in Records
      BY <1>1, ElementOfSeq
    <2>2. SubSeq(rows, 1, i - 1) \in Seq(Records) /\ SubSeq(rows, 1, i) \in Seq(Records)
      <3>1. \A j \in 1..i : rows[j] \in Records
        BY <1>1, ElementOfSeq
      <3> QED  BY <1>1, <3>1, SubSeqProperties
    <2>3. SubSeq(rows, 1, i) = Append(SubSeq(rows, 1, i - 1), rows[i])
      <3>1. SubSeq(rows, 1, i) = SubSeq(rows, 1, i - 1) \o <<rows[i]>>
        BY <1>1, SubSeqRecursiveSecond
      <3> QED  BY <2>1, <2>2, <3>1, AppendIsConcat
    <2>4. historyTo(h, rows, i) = Append(prev(i), rows[i])
      <3>1. h \o Append(SubSeq(rows, 1, i - 1), rows[i]) = Append(h \o SubSeq(rows, 1, i - 1), rows[i])
        BY <2>1, <2>2, AppendToConcat, Zenon
      <3> QED  BY <2>3, <3>1 DEF historyTo
    <2>5. prev(i) \in Seq(Records) /\ historyTo(h, rows, i) \in Seq(Records)
      BY <2>2, ConcatProperties DEF historyTo
    <2> QED  BY <2>1, <2>4, <2>5
  <1>3. \A i \in 1..Len(rows) : row(i) \in Rows
    BY <1>2 DEF Rows, Hashes, linkHashOf
  <1>4. recordRows(h, rows) = [i \in 1..Len(rows) |-> row(i)]
    BY DEF recordRows, historyTo
  <1>5. recordRows(h, rows) \in Seq(Rows) /\ Len(recordRows(h, rows)) = Len(rows)
    <2> DEFINE f == recordRows(h, rows)
    <2>1. f \in [1..Len(rows) -> Rows]
      BY <1>3, <1>4
    <2> HIDE DEF f
    <2> QED  BY <1>1, <2>1, FunctionIsSeq DEF f
  <1>6. ASSUME NEW i \in 1..Len(rows)
        PROVE  /\ recordRows(h, rows)[i].seq = lastSeq + i
               /\ recordRows(h, rows)[i].prev = historyTo(h, rows, i - 1)
               /\ recordRows(h, rows)[i].prev \in Seq(Records)
               /\ recordRows(h, rows)[i].hash =
                    linkHashOf(recordRows(h, rows)[i].prev, recordRows(h, rows)[i].rec)
               /\ recordRows(h, rows)[i].hash = historyTo(h, rows, i)
               /\ recordRows(h, rows)[i].hash \in Seq(Records)
    <2>1. recordRows(h, rows)[i] = row(i)
      BY <1>4
    <2>2. /\ row(i).seq = lastSeq + i /\ row(i).rec = rows[i]
          /\ row(i).prev = prev(i) /\ row(i).hash = Append(prev(i), rows[i])
      BY DEF linkHashOf
    <2> HIDE DEF row
    <2> QED  BY <1>2, <2>1, <2>2 DEF linkHashOf
  <1> QED  BY <1>5, <1>6

LEMMA Appended ==
  ASSUME table \in Seq(Rows), lastSeq \in Nat, markers \subseteq Marks,
         Linked(table, markers), Marked(table, markers, lastSeq),
         NEW rows \in Seq(Records), insertRecordRows(chainHeadOf(table, markers), rows)
  PROVE  /\ table' \in Seq(Rows) /\ lastSeq' \in Nat
         /\ Linked(table', markers) /\ Marked(table', markers, lastSeq')
         /\ chainHeadOf(table', markers) = chainHeadOf(table, markers) \o rows
  <1> DEFINE n == Len(table)
             m == Len(rows)
             h == chainHeadOf(table, markers)
  <1>1. n \in Nat /\ m \in Nat
    OBVIOUS
  <1>2. /\ h \in Seq(Records)
        /\ attested(table) # {} => h = table[n].hash
        /\ attested(table) = {} => h = resolveChainStartPrevHash(markers)
    BY HeadIs
  <1> HIDE DEF h
  <1> DEFINE new == recordRows(h, rows)
  <1>3. /\ new \in Seq(Rows) /\ Len(new) = m
        /\ \A i \in 1..m : /\ new[i].seq = lastSeq + i
                           /\ new[i].prev = historyTo(h, rows, i - 1) /\ new[i].prev \in Seq(Records)
                           /\ new[i].hash = linkHashOf(new[i].prev, new[i].rec)
                           /\ new[i].hash = historyTo(h, rows, i) /\ new[i].hash \in Seq(Records)
    <2>1. h \in Seq(Records) /\ rows \in Seq(Records) /\ lastSeq \in Nat
      BY <1>2
    <2>2. /\ recordRows(h, rows) \in Seq(Rows)
          /\ Len(recordRows(h, rows)) = Len(rows)
      BY <2>1, NewRows
    <2>3. ASSUME NEW i \in 1..Len(rows)
          PROVE  /\ new[i].seq = lastSeq + i
                 /\ new[i].prev = historyTo(h, rows, i - 1) /\ new[i].prev \in Seq(Records)
                 /\ new[i].hash = linkHashOf(new[i].prev, new[i].rec)
                 /\ new[i].hash = historyTo(h, rows, i) /\ new[i].hash \in Seq(Records)
      BY <2>1, NewRows
    <2> QED  BY <2>2, <2>3
  <1>0. lastSeq' = lastSeq + m
    BY DEF insertRecordRows
  <1>4. table' = table \o new
    BY DEF insertRecordRows, h
  <1> HIDE DEF new
  <1>5. /\ table' \in Seq(Rows) /\ Len(table') = n + m
        /\ \A i \in 1..(n + m) : table'[i] = IF i <= n THEN table[i] ELSE new[i - n]
    <2> HIDE DEF m
    <2>1. /\ table \o new \in Seq(Rows) /\ Len(table \o new) = Len(table) + Len(new)
          /\ \A i \in 1..(Len(table) + Len(new)) :
               (table \o new)[i] = IF i <= Len(table) THEN table[i] ELSE new[i - Len(table)]
      BY <1>3
    <2> QED  BY <1>3, <1>4, <2>1
  <1> HIDE DEF n, m
  <1>6. \A i \in 1..n : table'[i] = table[i]
    BY <1>1, <1>5
  <1>7. ASSUME NEW i \in (n + 1)..(n + m)
        PROVE  /\ table'[i].seq = lastSeq + (i - n)
               /\ table'[i].prev = historyTo(h, rows, (i - n) - 1) /\ table'[i].prev \in Seq(Records)
               /\ table'[i].hash = linkHashOf(table'[i].prev, table'[i].rec)
               /\ table'[i].hash = historyTo(h, rows, i - n)
               /\ table'[i].hash # NoHash
    <2>1. i \in 1..(n + m) /\ ~(i <= n) /\ i - n \in 1..m
      BY <1>1
    <2>2. table'[i] = new[i - n]
      BY <1>5, <2>1
    <2> QED  BY <1>3, <2>1, <2>2, HashValues
  <1>8. /\ \A i \in 1..(n + m) : i \in attested(table') <=> i \in attested(table) \/ i \in (n + 1)..(n + m)
        /\ \A i \in attested(table') : i \in 1..(n + m)
        /\ \A i \in attested(table) : i \in 1..n
        /\ \A i \in 1..n : i \in attested(table') <=> i \in attested(table)
        /\ \A i \in attested(table') : i \in attested(table) \/ i \in (n + 1)..(n + m)
    <2>1. /\ \A i \in 1..(n + m) : i \in attested(table') <=> table'[i].hash # NoHash
          /\ \A i \in attested(table') : i \in 1..(n + m)
          /\ \A i \in 1..n : i \in attested(table) <=> table[i].hash # NoHash
          /\ \A i \in attested(table) : i \in 1..n
      BY <1>5 DEF attested, n
    <2>2. \A i \in 1..(n + m) : \/ i \in 1..n /\ i \notin (n + 1)..(n + m)
                                \/ i \in (n + 1)..(n + m) /\ i \notin 1..n
      BY <1>1
    <2>3. 1..n \subseteq 1..(n + m)
      BY <1>1
    <2> QED  BY <1>6, <1>7, <2>1, <2>2, <2>3
  <1>9. Linked(table', markers)
    <2>1. ASSUME NEW i \in 1..(n + m), table'[i].hash = NoHash PROVE table'[i].prev = NoHash
      <3>1. i \in 1..n
        BY <1>1, <1>7, <2>1
      <3> QED  BY <1>6, <2>1, <3>1 DEF Linked, n
    <2>2. ASSUME NEW i \in attested(table')
          PROVE  table'[i].prev \in Seq(Records) /\ table'[i].hash = linkHashOf(table'[i].prev, table'[i].rec)
      <3>1. CASE i \in attested(table)
        BY <1>6, <1>8, <3>1 DEF Linked
      <3>2. CASE i \in (n + 1)..(n + m)
        BY <1>7, <3>2
      <3> QED  BY <1>8, <3>1, <3>2
    <2>3. ASSUME NEW i \in attested(table'), NEW j \in 1..(n + m), i < j PROVE j \in attested(table')
      <3>1. CASE j \in 1..n
        <4>1. i \in 1..n
          BY <1>1, <1>8, <2>3, <3>1
        <4> QED  BY <1>8, <2>3, <3>1, <4>1 DEF Linked, n
      <3>2. CASE j \in (n + 1)..(n + m)
        BY <1>8, <3>2
      <3> QED  BY <1>1, <3>1, <3>2
    <2>4. ASSUME NEW i \in attested(table'), NEW j \in attested(table'), i = j - 1
          PROVE  table'[j].prev = table'[i].hash
      <3>1. CASE j \in 1..n
        <4>1. i \in 1..n
          BY <1>1, <1>8, <2>4, <3>1
        <4>2. i \in attested(table) /\ j \in attested(table)
          BY <1>8, <3>1, <4>1
        <4>3. table[j].prev = table[i].hash
          BY <2>4, <4>2 DEF Linked
        <4> QED  BY <1>6, <3>1, <4>1, <4>3
      <3>2. CASE j = n + 1
        <4>1. i = n /\ i \in 1..n /\ i \in attested(table)
          BY <1>1, <1>8, <2>4, <3>2
        <4>2. j \in (n + 1)..(n + m) /\ (j - n) - 1 \in Int /\ (j - n) - 1 < 1
          BY <1>1, <1>8, <3>2
        <4>3. SubSeq(rows, 1, (j - n) - 1) = <<>>
          BY <4>2, SubSeqEmpty
        <4>4. table'[j].prev = h
          <5>1. table'[j].prev = h \o <<>>
            BY <1>7, <4>2, <4>3 DEF historyTo
          <5> QED  BY <1>2, <5>1, ConcatEmptySeq
        <4> QED  BY <1>2, <1>6, <4>1, <4>4
      <3>3. CASE j \in (n + 2)..(n + m)
        <4>1. i \in (n + 1)..(n + m) /\ j \in (n + 1)..(n + m) /\ (j - n) - 1 = i - n
          BY <1>1, <2>4, <3>3
        <4> QED  BY <1>7, <4>1
      <3>4. j \in 1..n \/ j = n + 1 \/ j \in (n + 2)..(n + m)
        BY <1>1, <1>8
      <3> QED  BY <3>1, <3>2, <3>3, <3>4
    <2>5. ASSUME NEW i \in attested(table'), \A j \in 1..(i - 1) : j \notin attested(table')
          PROVE  table'[i].prev = resolveChainStartPrevHash(markers)
      <3>1. CASE i \in 1..n
        <4>1. i \in attested(table) /\ \A j \in 1..(i - 1) : j \in 1..n
          BY <1>1, <1>8, <3>1
        <4>2. \A j \in 1..(i - 1) : j \notin attested(table)
          BY <1>8, <2>5, <4>1
        <4> QED  BY <1>6, <3>1, <4>1, <4>2 DEF Linked
      <3>2. CASE i = n + 1
        <4>1. attested(table) = {}
          <5>1. 1..(i - 1) = 1..n
            BY <1>1, <3>2
          <5> QED  BY <1>8, <2>5, <5>1
        <4>2. i \in (n + 1)..(n + m) /\ (i - n) - 1 \in Int /\ (i - n) - 1 < 1
          BY <1>1, <1>8, <3>2
        <4>3. SubSeq(rows, 1, (i - n) - 1) = <<>>
          BY <4>2, SubSeqEmpty
        <4>4. table'[i].prev = h \o <<>>
          BY <1>7, <4>2, <4>3 DEF historyTo
        <4> QED  BY <1>2, <4>1, <4>4, ConcatEmptySeq
      <3>3. i \in 1..n \/ i = n + 1
        <4>1. i \in 1..(n + m)
          BY <1>8
        <4>2. CASE i > n + 1
          <5>1. n + 1 \in 1..(i - 1) /\ n + 1 \in (n + 1)..(n + m) /\ n + 1 \in 1..(n + m)
            BY <1>1, <4>1, <4>2
          <5> QED  BY <1>8, <2>5, <5>1
        <4> QED  BY <1>1, <4>1, <4>2
      <3> QED  BY <3>1, <3>2, <3>3
    <2> QED  BY <1>5, <2>1, <2>2, <2>3, <2>4, <2>5 DEF Linked
  <1>10. Marked(table', markers, lastSeq')
    <2>1. /\ \A i \in 1..n : table[i].seq \in Nat /\ table[i].seq <= lastSeq
          /\ \A k \in markers : k.through \in Nat /\ k.through <= lastSeq
      <3>1. \A i \in 1..n : table[i] \in Rows
        BY ElementOfSeq DEF n
      <3> QED  BY <3>1 DEF Marked, Marks, Rows, n
    <2>2. \A i \in (n + 1)..(n + m) : table'[i].seq = lastSeq + (i - n)
      BY <1>7
    <2>3. ASSUME NEW i \in 1..(n + m), i \notin attested(table') PROVE \A k \in markers : k.head = NoHash
      <3>1. i \in 1..n /\ i \notin attested(table)
        BY <1>1, <1>8, <2>3
      <3> QED  BY <3>1 DEF Marked, n
    <2>4. ASSUME NEW i \in 1..(n + m), NEW j \in 1..(n + m), i < j PROVE table'[i].seq < table'[j].seq
      <3>1. CASE i \in 1..n /\ j \in (n + 1)..(n + m)
        <4>1. table'[i].seq <= lastSeq /\ table'[i].seq \in Nat
          BY <1>6, <2>1, <3>1
        <4>2. table'[j].seq = lastSeq + (j - n)
          BY <2>2, <3>1
        <4>3. j - n \in Nat /\ j - n > 0
          BY <1>1, <3>1
        <4> QED  BY <4>1, <4>2, <4>3
      <3>2. CASE i \in (n + 1)..(n + m) /\ j \in (n + 1)..(n + m)
        <4>1. table'[i].seq = lastSeq + (i - n) /\ table'[j].seq = lastSeq + (j - n)
          BY <2>2, <3>2
        <4> QED  BY <1>1, <2>4, <4>1
      <3>3. CASE i \in 1..n /\ j \in 1..n
        BY <1>6, <2>4, <3>3 DEF Marked, n
      <3>4. \/ i \in 1..n /\ j \in (n + 1)..(n + m)
            \/ i \in (n + 1)..(n + m) /\ j \in (n + 1)..(n + m)
            \/ i \in 1..n /\ j \in 1..n
        BY <1>1, <2>4
      <3> QED  BY <3>1, <3>2, <3>3, <3>4
    <2>5. ASSUME NEW i \in 1..(n + m)
          PROVE  table'[i].seq <= lastSeq' /\ \A k \in markers : k.through < table'[i].seq
      <3>1. CASE i \in 1..n
        <4>1. table'[i].seq \in Nat /\ table'[i].seq <= lastSeq
          BY <1>6, <2>1, <3>1
        <4>2. \A k \in markers : k.through < table'[i].seq
          BY <1>6, <3>1 DEF Marked, n
        <4> QED  BY <1>0, <1>1, <4>1, <4>2
      <3>2. CASE i \in (n + 1)..(n + m)
        <4>1. table'[i].seq = lastSeq + (i - n)
          BY <2>2, <3>2
        <4>2. i - n \in Nat /\ i - n > 0 /\ i - n <= m
          BY <1>1, <3>2
        <4> QED  BY <1>0, <1>1, <2>1, <4>1, <4>2
      <3> QED  BY <1>1, <3>1, <3>2
    <2>6. \A k \in markers : k.through <= lastSeq'
      BY <1>0, <1>1, <2>1
    <2> QED  BY <1>5, <2>3, <2>4, <2>5, <2>6 DEF Marked
  <1>11. chainHeadOf(table', markers) = h \o rows
    <2>1. CASE m = 0
      <3>1. rows = <<>> /\ new = <<>>
        BY <1>3, <2>1 DEF m
      <3> QED  BY <1>2, <1>4, <3>1, ConcatEmptySeq DEF h
    <2>2. CASE m # 0
      <3>1. n + m \in (n + 1)..(n + m) /\ (n + m) - n = m /\ n + m \in 1..(n + m)
        BY <1>1, <2>2
      <3>2. attested(table') # {}
        BY <1>8, <3>1
      <3>3. chainHeadOf(table', markers) = table'[n + m].hash
        BY <1>5, <1>9, <1>10, <3>2, HeadIs
      <3>4. table'[n + m].hash = historyTo(h, rows, m)
        BY <1>7, <3>1
      <3>5. SubSeq(rows, 1, m) = rows
        BY SubSeqFull DEF m
      <3> QED  BY <3>3, <3>4, <3>5 DEF historyTo
    <2> QED  BY <2>1, <2>2
  <1> QED  BY <1>0, <1>1, <1>5, <1>9, <1>10, <1>11 DEF h

-----------------------------------------------------------------------------
(* Pruning a prefix. *)

LEMMA PrunedMarks ==
  ASSUME table \in Seq(Rows), lastSeq \in Nat, markers \subseteq Marks,
         Linked(table, markers), Marked(table, markers, lastSeq),
         NEW n \in 1..Len(table),
         table' = SubSeq(table, n + 1, Len(table)),
         markers' = markers \cup {[through |-> table[n].seq, head |-> table[n].hash]}
  PROVE  /\ table' \in Seq(Rows) /\ markers' \subseteq Marks
         /\ Len(table') = Len(table) - n
         /\ \A i \in 1..Len(table') : /\ n + i \in 1..Len(table) /\ table'[i] = table[n + i]
                                      /\ i \in attested(table') <=> n + i \in attested(table)
         /\ Marked(table', markers', lastSeq)
         /\ n \in attested(table) => resolveChainStartPrevHash(markers') = table[n].hash
         /\ n \notin attested(table) =>
              resolveChainStartPrevHash(markers') = resolveChainStartPrevHash(markers)
  <1> DEFINE new == [through |-> table[n].seq, head |-> table[n].hash]
  <1>1. Len(table) \in Nat /\ n \in Nat /\ n <= Len(table) /\ n >= 1
    OBVIOUS
  <1>2. \A i \in 1..Len(table) : table[i] \in Rows
    BY ElementOfSeq
  <1>3. /\ table' \in Seq(Rows) /\ Len(table') = Len(table) - n
        /\ \A i \in 1..Len(table') : table'[i] = table[n + i]
    <2>1. \A i \in (n + 1)..Len(table) : table[i] \in Rows
      BY <1>1, <1>2
    <2>2. /\ SubSeq(table, n + 1, Len(table)) \in Seq(Rows)
          /\ Len(SubSeq(table, n + 1, Len(table))) =
               IF n + 1 <= Len(table) THEN Len(table) - (n + 1) + 1 ELSE 0
          /\ \A i \in 1..(Len(table) - (n + 1) + 1) :
               SubSeq(table, n + 1, Len(table))[i] = table[(n + 1) + i - 1]
      BY <1>1, <2>1, SubSeqProperties
    <2>3. Len(table') = Len(table) - n
      BY <1>1, <2>2
    <2>4. ASSUME NEW i \in 1..Len(table') PROVE table'[i] = table[n + i]
      <3>1. i \in 1..(Len(table) - (n + 1) + 1) /\ (n + 1) + i - 1 = n + i
        BY <1>1, <2>3
      <3> QED  BY <2>2, <3>1
    <2> QED  BY <2>2, <2>3, <2>4
  <1>4. \A i \in 1..Len(table') : n + i \in 1..Len(table) /\ n < n + i
    BY <1>1, <1>3
  <1>5. \A i \in 1..Len(table') : i \in attested(table') <=> n + i \in attested(table)
    BY <1>3, <1>4 DEF attested
  <1>6. new \in Marks /\ table[n] \in Rows
    BY <1>2 DEF Marks, Rows
  <1>7. \A m \in markers : m \in Marks /\ m.through \in Nat /\ m.through < new.through
    <2>1. \A m \in markers : m.through < table[n].seq
      BY DEF Marked
    <2> QED  BY <2>1 DEF Marks
  <1>8. /\ new.through = table[n].seq /\ new.head = table[n].hash /\ new.through \in Nat
        /\ markers' = markers \cup {new}
    BY <1>6 DEF Rows
  <1> HIDE DEF new
  <1>9. n \notin attested(table) => new.head = NoHash /\ \A m \in markers : m.head = NoHash
    BY <1>8 DEF Marked, attested
  <1>10. n \in attested(table) => new.head # NoHash
    BY <1>8 DEF attested
  <1>11. Marked(table', markers', lastSeq)
    <2>1. \A m \in markers' : m.through <= new.through
      BY <1>7, <1>8
    <2>2. \A m, k \in markers' : m.through = k.through => m = k
      <3>1. ASSUME NEW m \in markers', NEW k \in markers', m.through = k.through PROVE m = k
        <4>1. CASE m \in markers /\ k \in markers
          BY <3>1, <4>1 DEF Marked
        <4>2. CASE m = new \/ k = new
          <5>1. m \notin markers \/ k \notin markers
            BY <1>7, <1>8, <4>2
          <5>2. \A x \in markers : x.through # new.through
            BY <1>7, <1>8
          <5> QED  BY <1>8, <3>1, <4>2, <5>2
        <4> QED  BY <1>8, <4>1, <4>2
      <3> QED  BY <3>1
    <2>3. ASSUME NEW m \in markers', NEW k \in markers', m.head # NoHash, k.head = NoHash
          PROVE  k.through < m.through
      <3>1. CASE m = new
        <4>1. k \in markers
          BY <1>8, <2>3, <3>1
        <4> QED  BY <1>7, <3>1, <4>1
      <3>2. CASE m \in markers /\ k \in markers
        BY <2>3, <3>2 DEF Marked
      <3>3. CASE m \in markers /\ k = new
        BY <1>9, <1>10, <2>3, <3>3
      <3> QED  BY <1>8, <3>1, <3>2, <3>3
    <2>4. ASSUME NEW i \in 1..Len(table'), i \notin attested(table')
          PROVE  \A m \in markers' : m.head = NoHash
      <3>1. n \notin attested(table)
        BY <1>4, <1>5, <2>4 DEF Linked
      <3> QED  BY <1>8, <1>9, <3>1
    <2>5. ASSUME NEW i \in 1..Len(table'), NEW j \in 1..Len(table'), i < j
          PROVE  table'[i].seq < table'[j].seq
      <3>1. n + i < n + j
        BY <1>1, <2>5
      <3> QED  BY <1>3, <1>4, <3>1 DEF Marked
    <2>6. ASSUME NEW i \in 1..Len(table')
          PROVE  table'[i].seq <= lastSeq /\ \A m \in markers' : m.through < table'[i].seq
      <3>1. table'[i] = table[n + i] /\ n + i \in 1..Len(table) /\ n < n + i
        BY <1>3, <1>4
      <3>2. new.through < table'[i].seq
        BY <1>8, <3>1 DEF Marked
      <3>3. table'[i].seq <= lastSeq /\ \A m \in markers : m.through < table'[i].seq
        BY <3>1 DEF Marked
      <3> QED  BY <1>8, <3>2, <3>3
    <2>7. \A m \in markers' : m.through <= lastSeq
      BY <1>8 DEF Marked
    <2>8. new \in markers'
      BY <1>8
    <2> QED  BY <2>1, <2>2, <2>3, <2>4, <2>5, <2>6, <2>7, <2>8 DEF Marked
  <1>12. markers' \subseteq Marks
    BY <1>6, <1>8
  <1>13. ASSUME n \in attested(table) PROVE resolveChainStartPrevHash(markers') = table[n].hash
    <2>1. latest(markers') = new
      <3>1. new \in markers' /\ \A m \in markers' : m.through <= new.through
        BY <1>7, <1>8
      <3>2. \A m, k \in markers' : m.through = k.through => m = k
        BY <1>11 DEF Marked
      <3> QED  BY <1>12, <3>1, <3>2, LatestIs
    <2>2. markers' # {} /\ new.head # NoHash
      BY <1>8, <1>10, <1>13
    <2> QED  BY <1>8, <2>1, <2>2 DEF resolveChainStartPrevHash
  <1>14. ASSUME n \notin attested(table)
         PROVE  resolveChainStartPrevHash(markers') = resolveChainStartPrevHash(markers)
    <2>1. {m \in markers : m.head # NoHash} = {} /\ {m \in markers' : m.head # NoHash} = {}
      BY <1>8, <1>9, <1>14
    <2>2. resolveChainStartPrevHash(markers) = GENESIS_PREV_HASH
      BY <2>1, StartIs
    <2>3. resolveChainStartPrevHash(markers') = GENESIS_PREV_HASH
      BY <1>11, <1>12, <2>1, StartIs
    <2> QED  BY <2>2, <2>3
  <1> QED  BY <1>3, <1>4, <1>5, <1>11, <1>12, <1>13, <1>14

LEMMA Pruned ==
  ASSUME table \in Seq(Rows), lastSeq \in Nat, markers \subseteq Marks,
         Linked(table, markers), Marked(table, markers, lastSeq),
         NEW cutoff \in Cutoffs, pruneRecordsOlderThan(cutoff)
  PROVE  /\ table' \in Seq(Rows) /\ markers' \subseteq Marks
         /\ Linked(table', markers') /\ Marked(table', markers', lastSeq)
         /\ chainHeadOf(table', markers') = chainHeadOf(table, markers)
  <1> DEFINE n == prefixBoundaryOf(cutoff)
  <1>1. /\ n \in 1..Len(table) /\ Len(table) \in Nat
        /\ table' = SubSeq(table, n + 1, Len(table))
        /\ markers' = markers \cup {[through |-> table[n].seq, head |-> table[n].hash]}
    <2>1. n \in 0..Len(table) /\ Len(table) \in Nat
      BY BoundaryExists
    <2>2. /\ n > 0 /\ table' = SubSeq(table, n + 1, Len(table))
          /\ markers' = markers \cup {[through |-> table[n].seq, head |-> table[n].hash]}
      BY DEF pruneRecordsOlderThan
    <2> HIDE DEF n
    <2>3. n \in 1..Len(table)
      BY <2>1, <2>2
    <2> QED  BY <2>1, <2>2, <2>3
  <1> HIDE DEF n
  <1>2. /\ table' \in Seq(Rows) /\ markers' \subseteq Marks
        /\ Len(table') = Len(table) - n
        /\ Marked(table', markers', lastSeq)
        /\ n \in attested(table) => resolveChainStartPrevHash(markers') = table[n].hash
        /\ n \notin attested(table) =>
             resolveChainStartPrevHash(markers') = resolveChainStartPrevHash(markers)
    BY <1>1, PrunedMarks
  <1>3. \A i \in 1..Len(table') : /\ n + i \in 1..Len(table) /\ table'[i] = table[n + i]
                                  /\ i \in attested(table') <=> n + i \in attested(table)
    BY <1>1, PrunedMarks
  <1>4. \A i \in attested(table') : i \in 1..Len(table')
    BY DEF attested
  <1>5. Linked(table', markers')
    <2>1. \A i \in 1..Len(table') : table'[i].hash = NoHash => table'[i].prev = NoHash
      BY <1>3 DEF Linked
    <2>2. \A i \in attested(table') :
            table'[i].prev \in Seq(Records) /\ table'[i].hash = linkHashOf(table'[i].prev, table'[i].rec)
      BY <1>3, <1>4 DEF Linked
    <2>3. ASSUME NEW i \in attested(table'), NEW j \in 1..Len(table'), i < j
          PROVE  j \in attested(table')
      <3>1. i \in 1..Len(table') /\ n + i < n + j
        BY <1>1, <1>2, <1>4, <2>3
      <3> QED  BY <1>3, <3>1 DEF Linked
    <2>4. ASSUME NEW i \in attested(table'), NEW j \in attested(table'), i = j - 1
          PROVE  table'[j].prev = table'[i].hash
      <3>1. /\ i \in 1..Len(table') /\ j \in 1..Len(table') /\ n + i = (n + j) - 1
        BY <1>1, <1>2, <1>4, <2>4
      <3>2. n + i \in attested(table) /\ n + j \in attested(table)
        BY <1>3, <3>1
      <3>3. table[n + j].prev = table[n + i].hash
        BY <3>1, <3>2 DEF Linked
      <3> QED  BY <1>3, <3>1, <3>3
    <2>5. ASSUME NEW i \in attested(table'), \A j \in 1..(i - 1) : j \notin attested(table')
          PROVE  table'[i].prev = resolveChainStartPrevHash(markers')
      <3>1. /\ i \in 1..Len(table') /\ n + i \in attested(table) /\ table'[i] = table[n + i]
        BY <1>3, <1>4
      <3>2. CASE i = 1 /\ n \in attested(table)
        <4>1. n = (n + i) - 1
          BY <1>1, <3>2
        <4>2. table[n + i].prev = table[n].hash
          BY <3>1, <3>2, <4>1 DEF Linked
        <4> QED  BY <1>2, <3>1, <3>2, <4>2
      <3>3. CASE n \notin attested(table)
        <4>1. ASSUME NEW j \in 1..((n + i) - 1) PROVE j \notin attested(table)
          <5>1. CASE j \in 1..n
            BY <1>1, <3>3, <5>1 DEF Linked
          <5>2. CASE j > n
            <6>1. /\ j - n \in 1..(i - 1) /\ j - n \in 1..Len(table') /\ n + (j - n) = j
              BY <1>1, <1>2, <3>1, <5>2
            <6> QED  BY <1>3, <2>5, <6>1
          <5> QED  BY <1>1, <1>2, <3>1, <5>1, <5>2
        <4>2. table[n + i].prev = resolveChainStartPrevHash(markers)
          BY <3>1, <4>1 DEF Linked
        <4> QED  BY <1>2, <3>1, <3>3, <4>2
      <3>4. CASE i # 1 /\ n \in attested(table)
        <4>1. 1 \in 1..(i - 1) /\ 1 \in 1..Len(table') /\ n < n + 1
          BY <1>1, <1>2, <3>1, <3>4
        <4>2. n + 1 \in attested(table)
          BY <1>3, <3>4, <4>1 DEF Linked
        <4> QED  BY <1>3, <2>5, <4>1, <4>2
      <3> QED  BY <3>2, <3>3, <3>4
    <2> QED  BY <2>1, <2>2, <2>3, <2>4, <2>5 DEF Linked
  <1>6. /\ attested(table) # {} => Len(table) \in attested(table) /\ chainHeadOf(table, markers) = table[Len(table)].hash
        /\ attested(table) = {} => chainHeadOf(table, markers) = resolveChainStartPrevHash(markers)
    BY HeadIs
  <1>7. /\ attested(table') # {} => /\ Len(table') \in attested(table')
                                    /\ chainHeadOf(table', markers') = table'[Len(table')].hash
        /\ attested(table') = {} => chainHeadOf(table', markers') = resolveChainStartPrevHash(markers')
    BY <1>2, <1>5, HeadIs
  <1>8. chainHeadOf(table', markers') = chainHeadOf(table, markers)
    <2>1. CASE attested(table') # {}
      <3>1. n + Len(table') = Len(table) /\ Len(table') \in 1..Len(table')
        BY <1>1, <1>2, <1>4, <1>7, <2>1
      <3>2. Len(table) \in attested(table) /\ table'[Len(table')] = table[Len(table)]
        BY <1>3, <1>7, <2>1, <3>1
      <3> QED  BY <1>6, <1>7, <2>1, <3>2
    <2>2. CASE attested(table') = {} /\ n \in attested(table)
      <3>1. n = Len(table)
        <4>1. CASE n < Len(table)
          <5>1. 1 \in 1..Len(table') /\ n < n + 1
            BY <1>1, <1>2, <4>1
          <5>2. n + 1 \in attested(table)
            BY <1>3, <2>2, <5>1 DEF Linked
          <5> QED  BY <1>3, <2>2, <5>1, <5>2
        <4> QED  BY <1>1, <4>1
      <3> QED  BY <1>2, <1>6, <1>7, <2>2, <3>1
    <2>3. CASE attested(table') = {} /\ n \notin attested(table)
      <3>1. attested(table) = {}
        <4>1. CASE n = Len(table)
          BY <1>6, <2>3, <4>1
        <4>2. CASE n < Len(table)
          <5>1. Len(table') \in 1..Len(table') /\ n + Len(table') = Len(table)
            BY <1>1, <1>2, <4>2
          <5> QED  BY <1>3, <1>6, <2>3, <5>1
        <4> QED  BY <1>1, <4>1, <4>2
      <3> QED  BY <1>2, <1>6, <1>7, <2>3, <3>1
    <2> QED  BY <2>1, <2>2, <2>3
  <1> QED  BY <1>2, <1>5, <1>8

-----------------------------------------------------------------------------
(* The steps of the database. *)

DbInv ==
  /\ DbTypeOK
  /\ Linked(table, markers)
  /\ Marked(table, markers, lastSeq)
  /\ \A p \in Processes : lock = p => head[p] = chainHeadOf(table, markers)

chainHead == chainHeadOf(table, markers)
chainHeadGrew == chainHead' = chainHead \/ \E rows \in Seq(Records) : chainHead' = chainHead \o rows

LEMMA DbInitial == DbInit => DbInv
  <1> SUFFICES ASSUME DbInit PROVE DbInv
    OBVIOUS
  <1>1. /\ table = preChainRows /\ lastSeq = Len(PreChain) /\ markers = {} /\ lock = Free
        /\ head = [p \in Processes |-> GENESIS_PREV_HASH] /\ Len(PreChain) \in Nat
    BY DEF DbInit
  <1>2. \A i \in 1..Len(PreChain) :
          [seq |-> i, rec |-> PreChain[i], prev |-> NoHash, hash |-> NoHash] \in Rows
    <2>1. \A i \in 1..Len(PreChain) : PreChain[i] \in Records /\ i \in Nat
      BY ElementOfSeq
    <2> QED  BY <2>1 DEF Rows, Hashes
  <1>3. /\ table \in [1..Len(PreChain) -> Rows]
        /\ \A i \in 1..Len(PreChain) : table[i].seq = i /\ table[i].prev = NoHash /\ table[i].hash = NoHash
    BY <1>1, <1>2 DEF preChainRows
  <1>4. table \in Seq(Rows) /\ Len(table) = Len(PreChain)
    BY <1>1, <1>3, FunctionIsSeq
  <1>5. attested(table) = {}
    BY <1>3, <1>4 DEF attested
  <1>6. DbTypeOK
    BY <1>1, <1>4, HashValues DEF DbTypeOK
  <1>7. Linked(table, markers)
    BY <1>3, <1>4, <1>5 DEF Linked
  <1>8. Marked(table, markers, lastSeq)
    BY <1>1, <1>3, <1>4 DEF Marked
  <1>9. \A p \in Processes : lock # p
    BY <1>1
  <1> QED  BY <1>6, <1>7, <1>8, <1>9 DEF DbInv

LEMMA DbUnchanged ==
  ASSUME DbInv, UNCHANGED dbVars
  PROVE  DbInv' /\ chainHeadGrew
  BY DEF DbInv, DbTypeOK, dbVars, chainHeadGrew, chainHead

LEMMA DbBegins ==
  ASSUME DbInv, NEW p \in Processes, begin(p)
  PROVE  DbInv' /\ chainHeadGrew
  <1>1. chainHeadOf(table, markers) \in Seq(Records)
    BY HeadIs DEF DbInv, DbTypeOK
  <1>2. /\ UNCHANGED <<table, lastSeq, markers>> /\ lock' = p
        /\ head' = [head EXCEPT ![p] = chainHeadOf(table, markers)]
    BY DEF begin
  <1>3. head' \in [Processes -> Seq(Records)] /\ head'[p] = chainHeadOf(table, markers)
    BY <1>1, <1>2 DEF DbInv, DbTypeOK
  <1>4. DbTypeOK'
    BY <1>2, <1>3 DEF DbInv, DbTypeOK
  <1>5. \A q \in Processes : lock' = q => head'[q] = chainHeadOf(table', markers')
    BY <1>2, <1>3
  <1> QED  BY <1>2, <1>4, <1>5 DEF DbInv, chainHeadGrew, chainHead

LEMMA DbRollsBack ==
  ASSUME DbInv, NEW p \in Processes, rollback(p)
  PROVE  DbInv' /\ chainHeadGrew
  <1>1. /\ UNCHANGED <<table, lastSeq, markers>>
        /\ lock' = IF lock = p THEN Free ELSE lock
        /\ head' = [head EXCEPT ![p] = GENESIS_PREV_HASH]
    BY DEF rollback, endTransaction
  <1>2. head' \in [Processes -> Seq(Records)] /\ \A q \in Processes \ {p} : head'[q] = head[q]
    BY <1>1, HashValues DEF DbInv, DbTypeOK
  <1>3. \A q \in Processes : lock' = q => q # p /\ lock = q
    BY <1>1
  <1>4. DbTypeOK'
    BY <1>1, <1>2 DEF DbInv, DbTypeOK
  <1>5. \A q \in Processes : lock' = q => head'[q] = chainHeadOf(table', markers')
    BY <1>1, <1>2, <1>3 DEF DbInv
  <1> QED  BY <1>1, <1>4, <1>5 DEF DbInv, chainHeadGrew, chainHead

LEMMA DbCommits ==
  ASSUME DbInv, NEW p \in Processes, lock = p, NEW rows \in Seq(Records), commit(p, rows)
  PROVE  DbInv' /\ chainHeadGrew
  <1>1. /\ head[p] = chainHeadOf(table, markers) /\ UNCHANGED markers /\ lock' = Free
        /\ head' = [head EXCEPT ![p] = GENESIS_PREV_HASH]
    BY DEF commit, endTransaction, DbInv
  <1>2. insertRecordRows(chainHeadOf(table, markers), rows)
    BY <1>1 DEF commit
  <1>3. /\ table' \in Seq(Rows) /\ lastSeq' \in Nat
        /\ Linked(table', markers') /\ Marked(table', markers', lastSeq')
        /\ chainHeadOf(table', markers') = chainHeadOf(table, markers) \o rows
    BY <1>1, <1>2, Appended DEF DbInv, DbTypeOK
  <1>4. head' \in [Processes -> Seq(Records)]
    BY <1>1, HashValues DEF DbInv, DbTypeOK
  <1>5. DbTypeOK'
    BY <1>1, <1>3, <1>4 DEF DbInv, DbTypeOK
  <1>6. \A q \in Processes : lock' # q
    BY <1>1
  <1> QED  BY <1>3, <1>5, <1>6 DEF DbInv, chainHeadGrew, chainHead

LEMMA DbPrunes ==
  ASSUME DbInv, NEW cutoff \in Cutoffs, pruneRecordsOlderThan(cutoff)
  PROVE  DbInv' /\ chainHeadGrew
  <1>1. /\ table' \in Seq(Rows) /\ markers' \subseteq Marks
        /\ Linked(table', markers') /\ Marked(table', markers', lastSeq)
        /\ chainHeadOf(table', markers') = chainHeadOf(table, markers)
    BY Pruned DEF DbInv, DbTypeOK
  <1>2. UNCHANGED <<lastSeq, lock, head>>
    BY DEF pruneRecordsOlderThan
  <1> QED  BY <1>1, <1>2 DEF DbInv, DbTypeOK, chainHeadGrew, chainHead

-----------------------------------------------------------------------------
(* The steps of the writers. *)

WriterTypeOK ==
  /\ status \in [Records -> {"new", "waiting", "stored", "dropped", "refused", "lost"}]
  /\ calls \in [Processes -> Seq(Records)]
  /\ buffered \in [Processes -> Seq(Records)]
  /\ armed \in [Processes -> BOOLEAN]
  /\ queue \in [Processes -> Seq(Seq(Records))]
  /\ attempt \in [Processes -> {"first", "pause", "second"}]
  /\ closed \subseteq Sinks
  /\ awaiting \in [Sinks -> SUBSET Records]
  /\ flushing \subseteq Sinks
  /\ alive \in [Processes -> BOOLEAN]

WritersInv == DbInv /\ WriterTypeOK

LEMMA CommitBufferedType ==
  ASSUME WriterTypeOK, NEW p \in Processes, NEW rows \in Seq(Records), commitBuffered(p, rows)
  PROVE  /\ queue' \in [Processes -> Seq(Seq(Records))]
         /\ buffered' \in [Processes -> Seq(Records)]
         /\ armed' \in [Processes -> BOOLEAN]
  <1>1. queue[p] \in Seq(Seq(Records)) /\ Append(queue[p], rows) \in Seq(Seq(Records))
    BY DEF WriterTypeOK
  <1>2. queue' \in [Processes -> Seq(Seq(Records))]
    BY <1>1 DEF commitBuffered, WriterTypeOK
  <1>3. buffered' \in [Processes -> Seq(Records)]
    BY DEF commitBuffered, WriterTypeOK
  <1>4. armed' \in [Processes -> BOOLEAN]
    BY DEF commitBuffered, WriterTypeOK
  <1> QED  BY <1>2, <1>3, <1>4

LEMMA SettleAllType ==
  ASSUME WriterTypeOK, NEW p \in Processes, queue[p] # <<>>,
         NEW outcome \in {"stored", "dropped"}, settleAll(p, outcome)
  PROVE  /\ status' \in [Records -> {"new", "waiting", "stored", "dropped", "refused", "lost"}]
         /\ queue' \in [Processes -> Seq(Seq(Records))]
         /\ attempt' \in [Processes -> {"first", "pause", "second"}]
         /\ Head(queue[p]) \in Seq(Records)
  <1>1. queue[p] \in Seq(Seq(Records)) /\ Tail(queue[p]) \in Seq(Seq(Records)) /\ Head(queue[p]) \in Seq(Records)
    BY HeadTailProperties DEF WriterTypeOK
  <1>2. queue' = [queue EXCEPT ![p] = Tail(queue[p])]
    BY DEF settleAll
  <1>3. queue' \in [Processes -> Seq(Seq(Records))]
    BY <1>1, <1>2 DEF WriterTypeOK
  <1>4. attempt' \in [Processes -> {"first", "pause", "second"}]
    BY DEF settleAll, WriterTypeOK
  <1>5. \A r \in Records :
          (IF \E i \in DOMAIN Head(queue[p]) : Head(queue[p])[i] = r THEN outcome ELSE status[r])
            \in {"new", "waiting", "stored", "dropped", "refused", "lost"}
    BY DEF WriterTypeOK
  <1>6. status' \in [Records -> {"new", "waiting", "stored", "dropped", "refused", "lost"}]
    BY <1>5 DEF settleAll
  <1> QED  BY <1>1, <1>3, <1>4, <1>6

LEMMA FlushNowType ==
  ASSUME WriterTypeOK, NEW s \in Sinks, flushNow(s)
  PROVE  /\ queue' \in [Processes -> Seq(Seq(Records))]
         /\ buffered' \in [Processes -> Seq(Records)]
         /\ armed' \in [Processes -> BOOLEAN]
         /\ flushing' \subseteq Sinks
         /\ awaiting' \in [Sinks -> SUBSET Records]
  <1>1. HostOf[s] \in Processes
    BY WriterAssumption
  <1>2. buffered[HostOf[s]] \in Seq(Records) /\ commitBuffered(HostOf[s], buffered[HostOf[s]])
    BY <1>1 DEF flushNow, WriterTypeOK
  <1>3. owed(s) \subseteq Records
    BY DEF owed, outstanding, recordsOf, inBatches, inBuffer
  <1>4. flushing' \subseteq Sinks
    BY DEF flushNow, WriterTypeOK
  <1>5. awaiting' \in [Sinks -> SUBSET Records]
    BY <1>3 DEF flushNow, WriterTypeOK
  <1> QED  BY <1>1, <1>2, <1>4, <1>5, CommitBufferedType

LEMMA InvStep ==
  ASSUME WritersInv, [Next]_vars
  PROVE  WritersInv' /\ chainHeadGrew
  <1> USE DEF WritersInv
  <1>1. ASSUME NEW r \in Records, write(r) PROVE WritersInv' /\ chainHeadGrew
    <2> DEFINE p == hostOfRecord(r)
    <2>1. p \in Processes
      BY <1>1, WriterAssumption DEF write, hostOfRecord
    <2>2. UNCHANGED <<attempt, closed, awaiting, flushing, alive>> /\ UNCHANGED dbVars
      BY <1>1 DEF write
    <2>3. \/ /\ status' = [status EXCEPT ![r] = "refused"]
             /\ UNCHANGED <<calls, buffered, armed, queue>>
          \/ /\ status' = [status EXCEPT ![r] = "waiting"]
             /\ calls' = [calls EXCEPT ![p] = Append(calls[p], r)]
             /\ enqueue(p, r)
      BY <1>1 DEF write
    <2> HIDE DEF p
    <2>4. CASE UNCHANGED <<calls, buffered, armed, queue>> /\ status' = [status EXCEPT ![r] = "refused"]
      <3>1. WriterTypeOK'
        BY <2>2, <2>4 DEF WriterTypeOK
      <3> QED  BY <2>2, <3>1, DbUnchanged
    <2>5. CASE /\ status' = [status EXCEPT ![r] = "waiting"]
               /\ calls' = [calls EXCEPT ![p] = Append(calls[p], r)]
               /\ enqueue(p, r)
      <3>1. status' \in [Records -> {"new", "waiting", "stored", "dropped", "refused", "lost"}]
        BY <2>5 DEF WriterTypeOK
      <3>2. calls' \in [Processes -> Seq(Records)]
        BY <2>1, <2>5 DEF WriterTypeOK
      <3>3. Append(buffered[p], r) \in Seq(Records)
        BY <2>1 DEF WriterTypeOK
      <3>4. /\ queue' \in [Processes -> Seq(Seq(Records))]
            /\ buffered' \in [Processes -> Seq(Records)]
            /\ armed' \in [Processes -> BOOLEAN]
        <4>1. CASE commitBuffered(p, Append(buffered[p], r))
          BY <2>1, <3>3, <4>1, CommitBufferedType
        <4>2. CASE /\ buffered' = [buffered EXCEPT ![p] = Append(buffered[p], r)]
                   /\ armed' = [armed EXCEPT ![p] = TRUE]
                   /\ UNCHANGED queue
          BY <2>1, <3>3, <4>2 DEF WriterTypeOK
        <4> QED  BY <2>5, <4>1, <4>2 DEF enqueue
      <3>5. WriterTypeOK'
        BY <2>2, <3>1, <3>2, <3>4 DEF WriterTypeOK
      <3> QED  BY <2>2, <3>5, DbUnchanged
    <2> QED  BY <2>3, <2>4, <2>5
  <1>2. ASSUME NEW s \in Sinks, flush(s) PROVE WritersInv' /\ chainHeadGrew
    <2>1. flushNow(s) /\ UNCHANGED <<status, calls, attempt, closed, alive>> /\ UNCHANGED dbVars
      BY <1>2 DEF flush
    <2>2. WriterTypeOK'
      BY <2>1, FlushNowType DEF WriterTypeOK
    <2> QED  BY <2>1, <2>2, DbUnchanged
  <1>3. ASSUME NEW s \in Sinks, close(s) PROVE WritersInv' /\ chainHeadGrew
    <2>1. /\ flushNow(s) /\ closed' = closed \cup {s} /\ UNCHANGED <<status, calls, attempt, alive>>
          /\ UNCHANGED dbVars
      BY <1>3 DEF close
    <2>2. WriterTypeOK'
      BY <2>1, FlushNowType DEF WriterTypeOK
    <2> QED  BY <2>1, <2>2, DbUnchanged
  <1>4. ASSUME NEW s \in Sinks, flushReturns(s) PROVE WritersInv' /\ chainHeadGrew
    <2>1. /\ flushing' = flushing \ {s} /\ awaiting' = [awaiting EXCEPT ![s] = {}]
          /\ UNCHANGED <<status, calls, buffered, armed, queue, attempt, closed, alive>>
          /\ UNCHANGED dbVars
      BY <1>4 DEF flushReturns
    <2>2. WriterTypeOK'
      BY <2>1 DEF WriterTypeOK
    <2> QED  BY <2>1, <2>2, DbUnchanged
  <1>5. ASSUME NEW p \in Processes, timerFires(p) PROVE WritersInv' /\ chainHeadGrew
    <2>1. /\ commitBuffered(p, buffered[p]) /\ UNCHANGED dbVars
          /\ UNCHANGED <<status, calls, attempt, closed, awaiting, flushing, alive>>
      BY <1>5 DEF timerFires
    <2>2. buffered[p] \in Seq(Records)
      BY DEF WriterTypeOK
    <2>3. WriterTypeOK'
      BY <2>1, <2>2, CommitBufferedType DEF WriterTypeOK
    <2> QED  BY <2>1, <2>3, DbUnchanged
  <1>6. ASSUME NEW p \in Processes, beginBatch(p) PROVE WritersInv' /\ chainHeadGrew
    <2>1. begin(p) /\ UNCHANGED writerVars
      BY <1>6 DEF beginBatch
    <2>2. WriterTypeOK'
      BY <2>1 DEF WriterTypeOK, writerVars
    <2> QED  BY <2>1, <2>2, DbBegins
  <1>7. ASSUME NEW p \in Processes, commitRows(p) PROVE WritersInv' /\ chainHeadGrew
    <2>1. /\ queue[p] # <<>> /\ lock = p /\ commit(p, Head(queue[p])) /\ settleAll(p, "stored")
          /\ UNCHANGED <<calls, buffered, armed, closed, awaiting, flushing, alive>>
      BY <1>7 DEF commitRows, isTrying
    <2>2. Head(queue[p]) \in Seq(Records)
      BY <2>1, SettleAllType
    <2>3. WriterTypeOK'
      BY <2>1, SettleAllType DEF WriterTypeOK
    <2> QED  BY <2>1, <2>2, <2>3, DbCommits
  <1>8. ASSUME NEW p \in Processes, attemptFails(p) PROVE WritersInv' /\ chainHeadGrew
    <2>1. /\ queue[p] # <<>> /\ rollback(p)
          /\ UNCHANGED <<calls, buffered, armed, closed, awaiting, flushing, alive>>
      BY <1>8 DEF attemptFails, isTrying
    <2>2. ASSUME settleAll(p, "dropped") PROVE WriterTypeOK'
      BY <2>1, <2>2, SettleAllType DEF WriterTypeOK
    <2>3. ASSUME attempt' = [attempt EXCEPT ![p] = "pause"], UNCHANGED <<status, queue>>
          PROVE  WriterTypeOK'
      BY <2>1, <2>3 DEF WriterTypeOK
    <2>4. WriterTypeOK'
      BY <1>8, <2>2, <2>3 DEF attemptFails
    <2> QED  BY <2>1, <2>4, DbRollsBack
  <1>9. ASSUME NEW p \in Processes, retryBatch(p) PROVE WritersInv' /\ chainHeadGrew
    <2>1. /\ attempt' = [attempt EXCEPT ![p] = "second"] /\ UNCHANGED dbVars
          /\ UNCHANGED <<status, calls, buffered, armed, queue, closed, awaiting, flushing, alive>>
      BY <1>9 DEF retryBatch
    <2>2. WriterTypeOK'
      BY <2>1 DEF WriterTypeOK
    <2> QED  BY <2>1, <2>2, DbUnchanged
  <1>10. ASSUME NEW p \in Processes, Crash(p) PROVE WritersInv' /\ chainHeadGrew
    <2>1. rollback(p)
      BY <1>10 DEF Crash
    <2>2. status' \in [Records -> {"new", "waiting", "stored", "dropped", "refused", "lost"}]
      BY <1>10 DEF Crash, WriterTypeOK
    <2>3. awaiting' \in [Sinks -> SUBSET Records] /\ flushing' \subseteq Sinks
      BY <1>10 DEF Crash, WriterTypeOK
    <2>4. buffered' \in [Processes -> Seq(Records)] /\ queue' \in [Processes -> Seq(Seq(Records))]
      BY <1>10 DEF Crash, WriterTypeOK
    <2>5. /\ alive' \in [Processes -> BOOLEAN] /\ armed' \in [Processes -> BOOLEAN]
          /\ attempt' \in [Processes -> {"first", "pause", "second"}]
      BY <1>10 DEF Crash, WriterTypeOK
    <2>6. UNCHANGED <<calls, closed>>
      BY <1>10 DEF Crash
    <2>7. WriterTypeOK'
      BY <2>2, <2>3, <2>4, <2>5, <2>6 DEF WriterTypeOK
    <2> QED  BY <2>1, <2>7, DbRollsBack
  <1>11. ASSUME Prune, UNCHANGED writerVars PROVE WritersInv' /\ chainHeadGrew
    <2>1. WriterTypeOK'
      BY <1>11 DEF WriterTypeOK, writerVars
    <2> QED  BY <1>11, <2>1, DbPrunes DEF Prune
  <1>12. CASE UNCHANGED vars
    <2>1. WriterTypeOK'
      BY <1>12 DEF WriterTypeOK, vars, writerVars
    <2> QED  BY <1>12, <2>1, DbUnchanged DEF vars
  <1> QED
    BY <1>1, <1>2, <1>3, <1>4, <1>5, <1>6, <1>7, <1>8, <1>9, <1>10, <1>11, <1>12
    DEF Next, Session, Writer

-----------------------------------------------------------------------------
(* The theorems. *)

(* The journal's inductive invariant: the shape of the state, a table whose  *)
(* rows hang from one another and from the last prune, and a transaction     *)
(* that holds the head it read under the lock.                               *)
THEOREM JournalInvariant == Spec => []WritersInv
  <1>1. Init => WritersInv
    <2>1. Init => WriterTypeOK
      BY DEF Init, WriterTypeOK
    <2> QED  BY <2>1, DbInitial DEF Init, WritersInv
  <1>2. WritersInv /\ [Next]_vars => WritersInv'
    BY InvStep
  <1> QED  BY <1>1, <1>2, PTL DEF Spec

(* Every variable of the writers and of the database keeps its shape. *)
THEOREM JournalTypeCorrect == Spec => []TypeOK
  <1>1. WritersInv => TypeOK
    BY DEF WritersInv, DbInv, WriterTypeOK, TypeOK
  <1> QED  BY JournalInvariant, <1>1, PTL

(* verifyChain: an untampered journal is never called broken, whatever was   *)
(* appended, rolled back, replayed or pruned.                                *)
THEOREM ChainAlwaysVerifies == Spec => []ChainVerifies
  <1>1. WritersInv => ChainVerifies
    BY LinkedVerifies DEF WritersInv, DbInv, DbTypeOK, ChainVerifies
  <1> QED  BY JournalInvariant, <1>1, PTL

(* chainHeadOf: the head the next row hangs from only grows; nothing forks   *)
(* the chain, and no prune lets it start over.                               *)
THEOREM HistoryGrows == Spec => HistoryOnlyGrows
  <1>1. ASSUME WritersInv, [Next]_vars PROVE isPrefixOf(chainHead, chainHead')
    <2>1. chainHead \in Seq(Records)
      BY <1>1, HeadIs DEF WritersInv, DbInv, DbTypeOK, chainHead
    <2>2. isPrefixOf(chainHead, chainHead)
      BY <2>1 DEF isPrefixOf
    <2>3. ASSUME NEW rows \in Seq(Records) PROVE isPrefixOf(chainHead, chainHead \o rows)
      <3>1. /\ Len(chainHead) \in Nat /\ Len(rows) \in Nat
            /\ Len(chainHead \o rows) = Len(chainHead) + Len(rows)
            /\ \A i \in 1..Len(chainHead) : (chainHead \o rows)[i] = chainHead[i]
        BY <2>1
      <3> QED  BY <3>1 DEF isPrefixOf
    <2>4. chainHeadGrew
      BY <1>1, InvStep
    <2> QED  BY <2>2, <2>3, <2>4 DEF chainHeadGrew
  <1>2. WritersInv /\ [Next]_vars =>
          [isPrefixOf(chainHeadOf(table, markers), chainHeadOf(table, markers)')]_<<table, markers>>
    BY <1>1 DEF chainHead
  <1> QED  BY JournalInvariant, <1>2, PTL DEF Spec, HistoryOnlyGrows

-----------------------------------------------------------------------------
(***************************************************************************)
(* What a sink is told, and the order of what is linked.  The line of a    *)
(* process is what it has called for and not settled: the chained batches, *)
(* then the buffer.  Its order is the order of the calls, and what is      *)
(* linked already comes before it.                                         *)
(***************************************************************************)

line(p) == Append(queue[p], buffered[p])

InLine(lists, r) == \E b \in 1..Len(lists) : \E i \in 1..Len(lists[b]) : lists[b][i] = r

IsIn(list, r) == \E k \in 1..Len(list) : list[k] = r

Before(list, r, q) == \E k, l \in 1..Len(list) : k < l /\ list[k] = r /\ list[l] = q

Ordered(lists, list) ==
  \A b, c \in 1..Len(lists) : \A i \in 1..Len(lists[b]), j \in 1..Len(lists[c]) :
    b < c \/ (b = c /\ i < j) => Before(list, lists[b][i], lists[c][j])

NoTwice(list) == \A k, l \in 1..Len(list) : list[k] = list[l] => k = l

(* Each call is a call of its own process, made once. *)
CallInv ==
  \A p \in Processes :
    /\ NoTwice(calls[p])
    /\ \A k \in 1..Len(calls[p]) : /\ SinkOf[calls[p][k]] \in Sinks /\ hostOfRecord(calls[p][k]) = p
                                   /\ status[calls[p][k]] # "new"

(* What stands in line waits, in the order of the calls. *)
LineInv ==
  \A p \in Processes :
    /\ \A r : InLine(line(p), r) => status[r] = "waiting" /\ IsIn(calls[p], r)
    /\ Ordered(line(p), calls[p])

(* What is linked was called for before what still stands in line. *)
LinkInv ==
  \A p \in Processes : \A k, l \in 1..Len(calls[p]) :
    places(chainHead, calls[p][k]) # {} /\ InLine(line(p), calls[p][l]) => k < l

OrderInv == CallInv /\ LineInv /\ LinkInv /\ SettledIsTrue /\ LinkedInCallOrder

-----------------------------------------------------------------------------
(* Lists of records, and lists of such lists. *)

LEMMA InLast ==
  ASSUME NEW Q \in Seq(Seq(Records)), NEW B \in Seq(Records)
  PROVE  /\ Append(Q, B) \in Seq(Seq(Records)) /\ Len(Q) \in Nat /\ Len(Append(Q, B)) = Len(Q) + 1
         /\ Append(Q, B)[Len(Q) + 1] = B
         /\ \A b \in 1..Len(Q) : Append(Q, B)[b] = Q[b]
         /\ \A b \in 1..(Len(Q) + 1) : Append(Q, B)[b] \in Seq(Records)
  OBVIOUS

(* An empty list at the end changes nothing. *)
LEMMA EmptyLast ==
  ASSUME NEW L \in Seq(Seq(Records)), NEW list
  PROVE  /\ \A r : InLine(Append(L, <<>>), r) <=> InLine(L, r)
         /\ Ordered(L, list) => Ordered(Append(L, <<>>), list)
  <1> DEFINE M == Append(L, <<>>)
  <1>0. <<>> \in Seq(Records) /\ Len(<<>>) = 0
    OBVIOUS
  <1>1. /\ Len(L) \in Nat /\ Len(M) = Len(L) + 1 /\ M[Len(L) + 1] = <<>>
        /\ \A b \in 1..Len(L) : M[b] = L[b]
    BY <1>0, InLast
  <1> HIDE DEF M
  <1>2. \A b \in 1..Len(M) : \A i \in 1..Len(M[b]) : b \in 1..Len(L) /\ M[b] = L[b]
    <2> TAKE b \in 1..Len(M)
    <2> TAKE i \in 1..Len(M[b])
    <2>1. b = Len(L) + 1 => M[b] = <<>>
      BY <1>1
    <2>2. b # Len(L) + 1
      BY <1>0, <2>1
    <2> QED  BY <1>1, <2>2
  <1>3. \A r : InLine(M, r) <=> InLine(L, r)
    <2>1. ASSUME NEW r, InLine(M, r) PROVE InLine(L, r)
      <3>1. PICK b \in 1..Len(M) : \E i \in 1..Len(M[b]) : M[b][i] = r
        BY <2>1 DEF InLine
      <3>2. b \in 1..Len(L) /\ M[b] = L[b]
        BY <1>2, <3>1
      <3> QED  BY <3>1, <3>2 DEF InLine
    <2>2. ASSUME NEW r, InLine(L, r) PROVE InLine(M, r)
      <3>1. PICK b \in 1..Len(L) : \E i \in 1..Len(L[b]) : L[b][i] = r
        BY <2>2 DEF InLine
      <3>2. b \in 1..Len(M) /\ M[b] = L[b]
        BY <1>1
      <3> QED  BY <3>1, <3>2 DEF InLine
    <2> QED  BY <2>1, <2>2
  <1>4. Ordered(L, list) => Ordered(M, list)
    BY <1>1, <1>2 DEF Ordered
  <1> QED  BY <1>3, <1>4 DEF M

(* One more call, at the end of the last list. *)
LEMMA OneMore ==
  ASSUME NEW Q \in Seq(Seq(Records)), NEW B \in Seq(Records), NEW C \in Seq(Records), NEW r \in Records,
         Ordered(Append(Q, B), C), \A x : InLine(Append(Q, B), x) => IsIn(C, x)
  PROVE  /\ \A x : InLine(Append(Q, Append(B, r)), x) <=> InLine(Append(Q, B), x) \/ x = r
         /\ Ordered(Append(Q, Append(B, r)), Append(C, r))
  <1> DEFINE L == Append(Q, B)
             N == Append(B, r)
             M == Append(Q, N)
             D == Append(C, r)
  <1>1. /\ N \in Seq(Records) /\ Len(B) \in Nat /\ Len(N) = Len(B) + 1
        /\ N[Len(B) + 1] = r /\ \A i \in 1..Len(B) : N[i] = B[i]
    OBVIOUS
  <1>2. /\ Len(C) \in Nat /\ Len(D) = Len(C) + 1
        /\ D[Len(C) + 1] = r /\ \A i \in 1..Len(C) : D[i] = C[i]
    OBVIOUS
  <1> HIDE DEF N, D
  <1>3. /\ Len(Q) \in Nat /\ Len(L) = Len(Q) + 1 /\ L[Len(Q) + 1] = B
        /\ \A b \in 1..Len(Q) : L[b] = Q[b]
    BY InLast
  <1>4. /\ Len(M) = Len(Q) + 1 /\ M[Len(Q) + 1] = N
        /\ \A b \in 1..Len(Q) : M[b] = Q[b]
    BY <1>1, InLast
  <1> HIDE DEF L, M
  <1>5. \A b \in 1..Len(M) : \A i \in 1..Len(M[b]) :
          \/ b \in 1..Len(L) /\ i \in 1..Len(L[b]) /\ M[b][i] = L[b][i]
          \/ b = Len(M) /\ i = Len(M[b]) /\ M[b][i] = r
    <2> TAKE b \in 1..Len(M)
    <2> TAKE i \in 1..Len(M[b])
    <2>1. CASE b = Len(Q) + 1
      <3>1. M[b] = N /\ L[b] = B /\ i \in 1..(Len(B) + 1)
        BY <1>1, <1>3, <1>4, <2>1
      <3>2. CASE i = Len(B) + 1
        BY <1>1, <1>4, <2>1, <3>1, <3>2
      <3>3. CASE i \in 1..Len(B)
        <4>1. b \in 1..Len(L) /\ Len(L[b]) = Len(B)
          BY <1>3, <2>1, <3>1
        <4>2. N[i] = B[i]
          BY <1>1, <3>3
        <4>3. M[b][i] = N[i] /\ L[b][i] = B[i]
          BY <3>1
        <4> QED  BY <3>3, <4>1, <4>2, <4>3
      <3> QED  BY <1>1, <3>1, <3>2, <3>3
    <2>2. CASE b \in 1..Len(Q)
      <3>1. M[b] = L[b] /\ b \in 1..Len(L)
        BY <1>3, <1>4, <2>2
      <3> QED  BY <3>1
    <2>3. b \in 1..(Len(Q) + 1)
      BY <1>4
    <2> QED  BY <1>3, <2>1, <2>2, <2>3
  <1>6. \A b \in 1..Len(L) : \A i \in 1..Len(L[b]) :
          b \in 1..Len(M) /\ i \in 1..Len(M[b]) /\ M[b][i] = L[b][i]
    <2> TAKE b \in 1..Len(L)
    <2> TAKE i \in 1..Len(L[b])
    <2>1. CASE b = Len(Q) + 1
      <3>1. M[b] = N /\ L[b] = B /\ b \in 1..Len(M)
        BY <1>3, <1>4, <2>1
      <3>2. i \in 1..Len(N) /\ N[i] = B[i]
        BY <1>1, <3>1
      <3> QED  BY <3>1, <3>2
    <2>2. CASE b \in 1..Len(Q)
      <3>1. M[b] = L[b] /\ b \in 1..Len(M)
        BY <1>3, <1>4, <2>2
      <3> QED  BY <3>1
    <2> QED  BY <1>3, <1>4, <2>1, <2>2
  <1>7. InLine(M, r)
    <2>1. Len(M) \in 1..Len(M) /\ Len(N) \in 1..Len(M[Len(M)]) /\ M[Len(M)][Len(N)] = r
      BY <1>1, <1>3, <1>4
    <2> QED  BY <2>1 DEF InLine
  <1>8. \A x : InLine(M, x) <=> InLine(L, x) \/ x = r
    <2>1. ASSUME NEW x, InLine(M, x) PROVE InLine(L, x) \/ x = r
      BY <1>5, <2>1 DEF InLine
    <2>2. ASSUME NEW x, InLine(L, x) PROVE InLine(M, x)
      <3>1. PICK b \in 1..Len(L) : \E i \in 1..Len(L[b]) : L[b][i] = x
        BY <2>2 DEF InLine
      <3>2. PICK i \in 1..Len(L[b]) : L[b][i] = x
        BY <3>1
      <3>3. b \in 1..Len(M) /\ i \in 1..Len(M[b]) /\ M[b][i] = x
        BY <1>6, <3>2
      <3> QED  BY <3>3 DEF InLine
    <2> QED  BY <1>7, <2>1, <2>2
  <1>9. \A x, y : Before(C, x, y) => Before(D, x, y)
    BY <1>2 DEF Before
  <1>10. ASSUME NEW x, IsIn(C, x) PROVE Before(D, x, r)
    <2>1. PICK k \in 1..Len(C) : C[k] = x
      BY <1>10 DEF IsIn
    <2>2. /\ k \in 1..Len(D) /\ Len(C) + 1 \in 1..Len(D) /\ k < Len(C) + 1
          /\ D[k] = x /\ D[Len(C) + 1] = r
      BY <1>2, <2>1
    <2> QED  BY <2>2 DEF Before
  <1>11. ASSUME NEW b \in 1..Len(M), NEW c \in 1..Len(M), NEW i \in 1..Len(M[b]), NEW j \in 1..Len(M[c]),
                b < c \/ (b = c /\ i < j)
         PROVE  Before(D, M[b][i], M[c][j])
    <2>1. b \in 1..Len(L) /\ i \in 1..Len(L[b]) /\ M[b][i] = L[b][i]
      <3>1. ~ (b = Len(M) /\ i = Len(M[b]))
        <4>1. Len(M) \in Nat /\ b \in Nat /\ c \in Nat /\ i \in Int /\ j \in Int /\ c <= Len(M) /\ j <= Len(M[c])
          BY <1>3, <1>4
        <4>2. M[b] = M[c] => Len(M[b]) = Len(M[c])
          OBVIOUS
        <4> QED  BY <1>1, <1>4, <1>11, <4>1, <4>2
      <3> QED  BY <1>5, <3>1
    <2>2. InLine(L, M[b][i])
      BY <2>1 DEF InLine
    <2>3. IsIn(C, M[b][i])
      BY <2>2 DEF L
    <2>4. CASE M[c][j] = r
      BY <1>10, <2>3, <2>4
    <2>5. CASE c \in 1..Len(L) /\ j \in 1..Len(L[c]) /\ M[c][j] = L[c][j]
      <3>1. Before(C, L[b][i], L[c][j])
        BY <1>11, <2>1, <2>5 DEF Ordered, L
      <3> QED  BY <1>9, <2>1, <2>5, <3>1
    <2> QED  BY <1>5, <2>4, <2>5
  <1>12. Ordered(M, D)
    BY <1>11 DEF Ordered
  <1> QED  BY <1>8, <1>12 DEF L, M, N, D

(* The first batch leaves the line: it held no call twice, and what is     *)
(* left was called for after it.                                           *)
LEMMA RestOfLine ==
  ASSUME NEW Q \in Seq(Seq(Records)), Q # <<>>, NEW B \in Seq(Records), NEW C \in Seq(Records),
         Ordered(Append(Q, B), C), NoTwice(C)
  PROVE  /\ Ordered(Append(Tail(Q), B), C)
         /\ NoTwice(Head(Q))
         /\ \A i, j \in 1..Len(Head(Q)) : i < j => Before(C, Head(Q)[i], Head(Q)[j])
         /\ \A x : IsIn(Head(Q), x) => InLine(Append(Q, B), x)
         /\ \A x : InLine(Append(Tail(Q), B), x) =>
              InLine(Append(Q, B), x) /\ \A y : IsIn(Head(Q), y) => y # x /\ Before(C, y, x)
  <1> DEFINE L == Append(Q, B)
             M == Append(Tail(Q), B)
             H == Head(Q)
  <1>1. /\ Tail(Q) \in Seq(Seq(Records)) /\ Len(Tail(Q)) = Len(Q) - 1 /\ Len(Q) \in Nat \ {0}
        /\ \A b \in 1..Len(Tail(Q)) : Tail(Q)[b] = Q[b + 1]
        /\ H \in Seq(Records) /\ H = Q[1]
    BY HeadTailProperties, ElementOfSeq
  <1>2. /\ Len(L) = Len(Q) + 1 /\ L[Len(Q) + 1] = B
        /\ \A b \in 1..Len(Q) : L[b] = Q[b]
    BY InLast
  <1>3. /\ Len(M) = Len(Tail(Q)) + 1 /\ M[Len(Tail(Q)) + 1] = B
        /\ \A b \in 1..Len(Tail(Q)) : M[b] = Tail(Q)[b]
    BY <1>1, InLast
  <1> HIDE DEF L, M, H
  <1>4. Len(M) = Len(Q) /\ \A b \in 1..Len(Q) : M[b] = L[b + 1] /\ b + 1 \in 1..Len(L)
    <2>1. Len(M) = Len(Q)
      BY <1>1, <1>3
    <2>2. ASSUME NEW b \in 1..Len(Q) PROVE M[b] = L[b + 1] /\ b + 1 \in 1..Len(L)
      <3>1. CASE b = Len(Q)
        <4>1. b = Len(Tail(Q)) + 1 /\ b + 1 \in 1..(Len(Q) + 1)
          BY <1>1, <3>1
        <4>2. M[b] = B /\ L[b + 1] = B
          BY <1>2, <1>3, <3>1, <4>1
        <4> QED  BY <1>2, <4>1, <4>2
      <3>2. CASE b < Len(Q)
        <4>1. b \in 1..Len(Tail(Q)) /\ b + 1 \in 1..Len(Q) /\ b + 1 \in 1..(Len(Q) + 1)
          BY <1>1, <3>2
        <4>2. M[b] = Q[b + 1] /\ L[b + 1] = Q[b + 1]
          BY <1>1, <1>2, <1>3, <4>1
        <4> QED  BY <1>2, <4>1, <4>2
      <3>3. b = Len(Q) \/ b < Len(Q)
        OBVIOUS
      <3> QED  BY <3>1, <3>2, <3>3
    <2> QED  BY <2>1, <2>2
  <1>5. L[1] = H /\ 1 \in 1..Len(L)
    BY <1>1, <1>2
  <1>6. \A b, c \in 1..Len(L) : \A i \in 1..Len(L[b]), j \in 1..Len(L[c]) :
          b < c \/ (b = c /\ i < j) => Before(C, L[b][i], L[c][j])
    BY DEF Ordered, L
  <1>7. \A x : ~ Before(C, x, x)
    BY DEF Before, NoTwice
  <1>8. \A i, j \in 1..Len(H) : i < j => Before(C, H[i], H[j])
    BY <1>5, <1>6
  <1>9. NoTwice(H)
    <2> SUFFICES ASSUME NEW i \in 1..Len(H), NEW j \in 1..Len(H), H[i] = H[j]
                 PROVE  i = j
      BY DEF NoTwice
    <2>1. ~ i < j /\ ~ j < i
      BY <1>7, <1>8
    <2> QED  BY <2>1
  <1>10. ASSUME NEW b \in 1..Len(M), NEW c \in 1..Len(M), NEW i \in 1..Len(M[b]), NEW j \in 1..Len(M[c]),
                b < c \/ (b = c /\ i < j)
         PROVE  Before(C, M[b][i], M[c][j])
    <2>1. M[b] = L[b + 1] /\ b + 1 \in 1..Len(L) /\ M[c] = L[c + 1] /\ c + 1 \in 1..Len(L)
      BY <1>4
    <2>2. b + 1 < c + 1 \/ (b + 1 = c + 1 /\ i < j)
      BY <1>10
    <2>3. i \in 1..Len(L[b + 1]) /\ j \in 1..Len(L[c + 1])
      BY <2>1
    <2>4. Before(C, L[b + 1][i], L[c + 1][j])
      BY <1>6, <2>1, <2>2, <2>3
    <2> QED  BY <2>1, <2>4
  <1>11. Ordered(M, C)
    BY <1>10 DEF Ordered
  <1>12. ASSUME NEW x, IsIn(H, x) PROVE InLine(L, x)
    BY <1>5, <1>12 DEF IsIn, InLine
  <1>13. ASSUME NEW x, InLine(M, x)
         PROVE  InLine(L, x) /\ \A y : IsIn(H, y) => y # x /\ Before(C, y, x)
    <2>1. PICK b \in 1..Len(M) : \E i \in 1..Len(M[b]) : M[b][i] = x
      BY <1>13 DEF InLine
    <2>2. PICK i \in 1..Len(M[b]) : M[b][i] = x
      BY <2>1
    <2>3. b + 1 \in 1..Len(L) /\ i \in 1..Len(L[b + 1]) /\ L[b + 1][i] = x /\ 1 < b + 1
      BY <1>4, <2>2
    <2>4. ASSUME NEW y, IsIn(H, y) PROVE Before(C, y, x)
      <3>1. PICK j \in 1..Len(H) : H[j] = y
        BY <2>4 DEF IsIn
      <3>2. j \in 1..Len(L[1]) /\ L[1][j] = y
        BY <1>5, <3>1
      <3> QED  BY <1>5, <1>6, <2>3, <3>2
    <2> QED  BY <1>7, <2>3, <2>4 DEF InLine
  <1> QED  BY <1>8, <1>9, <1>11, <1>12, <1>13 DEF L, M, H

(* A history to which a batch is linked. *)
LEMMA PlacesLinked ==
  ASSUME NEW h \in Seq(Records), NEW H \in Seq(Records)
  PROVE  /\ h \o H \in Seq(Records) /\ Len(h) \in Nat /\ Len(H) \in Nat
         /\ \A r, i : i \in places(h \o H, r) <=>
              \/ i \in 1..Len(h) /\ h[i] = r
              \/ i \in Int /\ i - Len(h) \in 1..Len(H) /\ H[i - Len(h)] = r
         /\ \A r, i : i \in places(h, r) <=> i \in 1..Len(h) /\ h[i] = r
  <1>1. /\ h \o H \in Seq(Records) /\ Len(h) \in Nat /\ Len(H) \in Nat /\ Len(h \o H) = Len(h) + Len(H)
        /\ \A j \in 1..(Len(h) + Len(H)) : (h \o H)[j] = IF j <= Len(h) THEN h[j] ELSE H[j - Len(h)]
    BY ConcatProperties
  <1>2. DOMAIN h = 1..Len(h) /\ DOMAIN (h \o H) = 1..(Len(h) + Len(H))
    BY <1>1
  <1> DEFINE w == h \o H
  <1>3. \A r, i : i \in places(w, r) <=> i \in 1..(Len(h) + Len(H)) /\ w[i] = r
    BY <1>2 DEF places
  <1>4. \A r, i : i \in places(h, r) <=> i \in 1..Len(h) /\ h[i] = r
    BY <1>2 DEF places
  <1> HIDE DEF w
  <1>5. \A j \in 1..(Len(h) + Len(H)) : w[j] = IF j <= Len(h) THEN h[j] ELSE H[j - Len(h)]
    BY <1>1 DEF w
  <1>6. ASSUME NEW r, NEW i, i \in places(w, r)
        PROVE  \/ i \in 1..Len(h) /\ h[i] = r
               \/ i \in Int /\ i - Len(h) \in 1..Len(H) /\ H[i - Len(h)] = r
    <2>1. i \in 1..(Len(h) + Len(H)) /\ w[i] = r
      BY <1>3, <1>6
    <2>2. w[i] = IF i <= Len(h) THEN h[i] ELSE H[i - Len(h)]
      BY <1>5, <2>1
    <2> QED  BY <1>1, <2>1, <2>2
  <1>7. ASSUME NEW r, NEW i, i \in 1..Len(h), h[i] = r PROVE i \in places(w, r)
    <2>1. i \in 1..(Len(h) + Len(H)) /\ i <= Len(h)
      BY <1>1, <1>7
    <2> QED  BY <1>3, <1>5, <1>7, <2>1
  <1>8. ASSUME NEW r, NEW i \in Int, i - Len(h) \in 1..Len(H), H[i - Len(h)] = r PROVE i \in places(w, r)
    <2>1. i \in 1..(Len(h) + Len(H)) /\ ~ i <= Len(h)
      BY <1>1, <1>8
    <2> QED  BY <1>3, <1>5, <1>8, <2>1
  <1> QED  BY <1>1, <1>4, <1>6, <1>7, <1>8 DEF w

-----------------------------------------------------------------------------
(* The steps keep the order. *)

LEMMA LinesAre ==
  ASSUME WritersInv, NEW p \in Processes
  PROVE  /\ queue[p] \in Seq(Seq(Records)) /\ buffered[p] \in Seq(Records) /\ calls[p] \in Seq(Records)
         /\ line(p) \in Seq(Seq(Records)) /\ chainHead \in Seq(Records)
  <1>1. queue[p] \in Seq(Seq(Records)) /\ buffered[p] \in Seq(Records) /\ calls[p] \in Seq(Records)
    BY DEF WritersInv, WriterTypeOK
  <1>2. chainHead \in Seq(Records)
    BY HeadIs DEF WritersInv, DbInv, DbTypeOK, chainHead
  <1> QED  BY <1>1, <1>2, InLast DEF line

LEMMA PlacesAre ==
  ASSUME WritersInv
  PROVE  \A r, i : i \in places(chainHead, r) => i \in 1..Len(chainHead)
  BY HeadIs DEF WritersInv, DbInv, DbTypeOK, chainHead, places

(* A step that moves no record, but for one that is refused. *)
LEMMA StayInOrder ==
  ASSUME WritersInv, OrderInv, UNCHANGED calls, chainHead' = chainHead,
         \A r \in Records : status'[r] = status[r] \/ (status[r] = "new" /\ status'[r] = "refused"),
         \A p \in Processes : line(p)' = line(p) \/ line(p)' = Append(line(p), <<>>)
  PROVE  OrderInv'
  <1>1. ASSUME NEW p \in Processes
        PROVE  /\ \A r : InLine(line(p)', r) <=> InLine(line(p), r)
               /\ Ordered(line(p), calls[p]) => Ordered(line(p)', calls[p])
    <2>1. line(p) \in Seq(Seq(Records))
      BY LinesAre
    <2>2. CASE line(p)' = line(p)
      BY <2>2
    <2>3. CASE line(p)' = Append(line(p), <<>>)
      <3> DEFINE L == line(p)
                 M == line(p)'
      <3>1. M = Append(L, <<>>) /\ L \in Seq(Seq(Records))
        BY <2>1, <2>3
      <3> HIDE DEF L, M
      <3>2. /\ \A r : InLine(M, r) <=> InLine(L, r)
            /\ Ordered(L, calls[p]) => Ordered(M, calls[p])
        BY <3>1, EmptyLast
      <3> QED  BY <3>2 DEF L, M
    <2> QED  BY <2>2, <2>3
  <1>2. ASSUME NEW p \in Processes, NEW k \in 1..Len(calls[p])
        PROVE  calls[p][k] \in Records
    BY LinesAre, ElementOfSeq
  <1>3. CallInv'
    BY <1>2 DEF OrderInv, CallInv, hostOfRecord
  <1>4. LineInv'
    <2>1. ASSUME NEW p \in Processes, NEW r, InLine(line(p)', r)
          PROVE  status'[r] = "waiting" /\ IsIn(calls[p], r)
      <3>1. status[r] = "waiting" /\ IsIn(calls[p], r)
        BY <1>1, <2>1 DEF OrderInv, LineInv
      <3>2. r \in Records
        BY <1>2, <3>1 DEF IsIn
      <3> QED  BY <3>1, <3>2
    <2> QED  BY <1>1, <2>1 DEF OrderInv, LineInv
  <1>5. LinkInv'
    BY <1>1 DEF OrderInv, LinkInv
  <1>6. SettledIsTrue'
    BY DEF OrderInv, SettledIsTrue, chainHead
  <1>7. LinkedInCallOrder'
    BY DEF OrderInv, LinkedInCallOrder, chainHead
  <1> QED  BY <1>3, <1>4, <1>5, <1>6, <1>7 DEF OrderInv

(* A record that is written stands last in the line of its process. *)
LEMMA WriteInOrder ==
  ASSUME WritersInv, OrderInv, NEW r \in Records, NEW p \in Processes,
         SinkOf[r] \in Sinks, hostOfRecord(r) = p, status[r] = "new",
         status' = [status EXCEPT ![r] = "waiting"], calls' = [calls EXCEPT ![p] = Append(calls[p], r)],
         enqueue(p, r), chainHead' = chainHead
  PROVE  OrderInv'
  <1>1. /\ status'[r] = "waiting" /\ \A x \in Records \ {r} : status'[x] = status[x]
        /\ calls'[p] = Append(calls[p], r) /\ \A q \in Processes \ {p} : calls'[q] = calls[q]
    BY DEF WritersInv, WriterTypeOK
  <1>2. /\ \A q \in Processes \ {p} : line(q)' = line(q)
        /\ LET last == Append(queue[p], Append(buffered[p], r))
           IN line(p)' = last \/ line(p)' = Append(last, <<>>)
    <2>1. queue \in [Processes -> Seq(Seq(Records))] /\ buffered \in [Processes -> Seq(Records)]
      BY DEF WritersInv, WriterTypeOK
    <2>2. Append(buffered[p], r) # <<>>
      <3>1. buffered[p] \in Seq(Records)
        BY <2>1
      <3>2. Len(Append(buffered[p], r)) = Len(buffered[p]) + 1 /\ Len(buffered[p]) \in Nat
        BY <3>1
      <3>3. Len(<<>>) = 0
        OBVIOUS
      <3> QED  BY <3>2, <3>3
    <2>3. \/ /\ queue' = [queue EXCEPT ![p] = Append(queue[p], Append(buffered[p], r))]
             /\ buffered' = [buffered EXCEPT ![p] = <<>>]
          \/ /\ queue' = queue
             /\ buffered' = [buffered EXCEPT ![p] = Append(buffered[p], r)]
      BY <2>2 DEF enqueue, commitBuffered
    <2>4. \A q \in Processes \ {p} : queue'[q] = queue[q] /\ buffered'[q] = buffered[q]
      BY <2>1, <2>3
    <2>5. \/ queue'[p] = Append(queue[p], Append(buffered[p], r)) /\ buffered'[p] = <<>>
          \/ queue'[p] = queue[p] /\ buffered'[p] = Append(buffered[p], r)
      BY <2>1, <2>3
    <2> QED  BY <2>4, <2>5 DEF line
  <1>3. ASSUME NEW q \in Processes, NEW k \in 1..Len(calls[q])
        PROVE  calls[q][k] \in Records /\ calls[q][k] # r
    BY LinesAre, ElementOfSeq DEF OrderInv, CallInv
  <1>4. ASSUME NEW q \in Processes, NEW x, InLine(line(q), x)
        PROVE  x \in Records /\ x # r /\ status[x] = "waiting" /\ IsIn(calls[q], x)
    BY <1>3, <1>4 DEF OrderInv, LineInv, IsIn
  <1>5. /\ Len(calls[p]) \in Nat /\ Len(calls'[p]) = Len(calls[p]) + 1 /\ calls'[p][Len(calls[p]) + 1] = r
        /\ \A k \in 1..Len(calls[p]) : calls'[p][k] = calls[p][k]
    BY <1>1, LinesAre
  <1>6. /\ \A x : InLine(line(p)', x) <=> InLine(line(p), x) \/ x = r
        /\ Ordered(line(p)', calls'[p])
    <2> DEFINE last == Append(queue[p], Append(buffered[p], r))
    <2>1. Ordered(line(p), calls[p]) /\ \A x : InLine(line(p), x) => IsIn(calls[p], x)
      BY DEF OrderInv, LineInv
    <2>2. /\ \A x : InLine(last, x) <=> InLine(line(p), x) \/ x = r
          /\ Ordered(last, calls'[p])
      BY <1>1, <2>1, LinesAre, OneMore DEF line
    <2>3. last \in Seq(Seq(Records))
      BY LinesAre
    <2> HIDE DEF last
    <2>4. /\ \A x : InLine(Append(last, <<>>), x) <=> InLine(last, x)
          /\ Ordered(Append(last, <<>>), calls'[p])
      BY <2>2, <2>3, EmptyLast
    <2>5. line(p)' = last \/ line(p)' = Append(last, <<>>)
      BY <1>2 DEF last
    <2> QED  BY <2>2, <2>4, <2>5
  <1>7. CallInv'
    <2> SUFFICES ASSUME NEW q \in Processes
                 PROVE  /\ NoTwice(calls'[q])
                        /\ \A k \in 1..Len(calls'[q]) :
                             /\ SinkOf[calls'[q][k]] \in Sinks /\ hostOfRecord(calls'[q][k]) = q
                             /\ status'[calls'[q][k]] # "new"
      BY DEF CallInv, hostOfRecord
    <2>1. CASE q # p
      BY <1>1, <1>3, <2>1 DEF OrderInv, CallInv
    <2>2. CASE q = p
      <3>1. \A k \in 1..Len(calls'[p]) : k = Len(calls[p]) + 1 \/ k \in 1..Len(calls[p])
        BY <1>5
      <3>2. NoTwice(calls'[p])
        BY <1>3, <1>5, <3>1 DEF OrderInv, CallInv, NoTwice
      <3>3. ASSUME NEW k \in 1..Len(calls'[p])
            PROVE  /\ SinkOf[calls'[p][k]] \in Sinks /\ hostOfRecord(calls'[p][k]) = p
                   /\ status'[calls'[p][k]] # "new"
        BY <1>1, <1>3, <1>5, <3>1 DEF OrderInv, CallInv
      <3> QED  BY <2>2, <3>2, <3>3
    <2> QED  BY <2>1, <2>2
  <1>8. LineInv'
    <2>1. ASSUME NEW q \in Processes \ {p}
          PROVE  /\ \A x : InLine(line(q)', x) => status'[x] = "waiting" /\ IsIn(calls'[q], x)
                 /\ Ordered(line(q)', calls'[q])
      BY <1>1, <1>2, <1>4 DEF OrderInv, LineInv
    <2>2. ASSUME NEW x, InLine(line(p)', x)
          PROVE  status'[x] = "waiting" /\ IsIn(calls'[p], x)
      <3>1. CASE x = r
        <4>1. Len(calls[p]) + 1 \in 1..Len(calls'[p])
          BY <1>5
        <4> QED  BY <1>1, <1>5, <3>1, <4>1 DEF IsIn
      <3>2. CASE InLine(line(p), x)
        <4>1. status'[x] = "waiting" /\ IsIn(calls[p], x)
          BY <1>1, <1>4, <3>2
        <4>2. 1..Len(calls[p]) \subseteq 1..Len(calls'[p])
          BY <1>5
        <4> QED  BY <1>5, <4>1, <4>2 DEF IsIn
      <3> QED  BY <1>6, <2>2, <3>1, <3>2
    <2> QED  BY <1>6, <2>1, <2>2 DEF LineInv
  <1>9. places(chainHead, r) = {}
    BY DEF OrderInv, SettledIsTrue, chainHead
  <1>10. LinkInv'
    <2> SUFFICES ASSUME NEW q \in Processes, NEW k \in 1..Len(calls'[q]), NEW l \in 1..Len(calls'[q]),
                        places(chainHead, calls'[q][k]) # {}, InLine(line(q)', calls'[q][l])
                 PROVE  k < l
      BY DEF LinkInv
    <2>1. CASE q # p
      <3>1. calls'[q] = calls[q] /\ line(q)' = line(q)
        BY <1>1, <1>2, <2>1
      <3>2. places(chainHead, calls[q][k]) # {} /\ InLine(line(q), calls[q][l])
        BY <3>1
      <3> QED  BY <3>1, <3>2 DEF OrderInv, LinkInv
    <2>2. CASE q = p
      <3>1. \A m \in 1..Len(calls'[p]) : m = Len(calls[p]) + 1 \/ m \in 1..Len(calls[p])
        BY <1>5
      <3>2. k \in 1..Len(calls[p]) /\ calls'[p][k] = calls[p][k]
        BY <1>5, <1>9, <2>2, <3>1
      <3>3. CASE l = Len(calls[p]) + 1
        BY <1>5, <3>2, <3>3
      <3>4. CASE l \in 1..Len(calls[p])
        <4>1. calls'[p][l] = calls[p][l] /\ calls[p][l] # r
          BY <1>3, <1>5, <3>4
        <4>2. InLine(line(p), calls[p][l])
          BY <1>6, <2>2, <4>1
        <4> QED  BY <2>2, <3>2, <3>4, <4>2 DEF OrderInv, LinkInv
      <3> QED  BY <2>2, <3>1, <3>3, <3>4
    <2> QED  BY <2>1, <2>2
  <1>11. SettledIsTrue'
    BY <1>1, <1>9 DEF OrderInv, SettledIsTrue, chainHead
  <1>12. LinkedInCallOrder'
    <2>0. ASSUME NEW q \in Processes, NEW k \in 1..Len(calls'[q]), NEW l \in 1..Len(calls'[q]),
                 NEW i \in places(chainHead, calls'[q][k]), NEW j \in places(chainHead, calls'[q][l]),
                 k < l
          PROVE  i < j
      <3>1. DOMAIN calls[q] = 1..Len(calls[q])
        BY LinesAre
      <3>2. k \in 1..Len(calls[q]) /\ l \in 1..Len(calls[q]) /\ calls'[q][k] = calls[q][k] /\ calls'[q][l] = calls[q][l]
        <4>1. CASE q # p
          BY <1>1, <4>1
        <4>2. CASE q = p
          <5>1. \A m \in 1..Len(calls'[p]) : m = Len(calls[p]) + 1 \/ m \in 1..Len(calls[p])
            BY <1>5
          <5> QED  BY <1>5, <1>9, <2>0, <4>2, <5>1
        <4> QED  BY <4>1, <4>2
      <3> QED  BY <2>0, <3>1, <3>2 DEF OrderInv, LinkedInCallOrder, chainHead
    <2>1. \A q \in Processes : DOMAIN calls'[q] = 1..Len(calls'[q])
      BY <1>1, <1>5, LinesAre
    <2>2. ASSUME NEW q \in Processes, NEW k \in DOMAIN calls'[q], NEW l \in DOMAIN calls'[q],
                 NEW i \in places(chainHead', calls'[q][k]), NEW j \in places(chainHead', calls'[q][l]),
                 k < l
          PROVE  i < j
      <3>1. k \in 1..Len(calls'[q]) /\ l \in 1..Len(calls'[q])
        BY <2>1, <2>2
      <3>2. i \in places(chainHead, calls'[q][k]) /\ j \in places(chainHead, calls'[q][l])
        BY <2>2
      <3> QED  BY <2>0, <2>2, <3>1, <3>2
    <2> QED  BY <2>2 DEF LinkedInCallOrder, chainHead
  <1> QED  BY <1>7, <1>8, <1>10, <1>11, <1>12 DEF OrderInv

LEMMA BeforeIs ==
  ASSUME NEW C, NoTwice(C), NEW k \in 1..Len(C), NEW l \in 1..Len(C), Before(C, C[k], C[l])
  PROVE  k < l
  BY DEF NoTwice, Before

(* A call is made to one process, and none in line is linked. *)
LEMMA InLineIs ==
  ASSUME WritersInv, OrderInv, NEW p \in Processes, NEW x, InLine(line(p), x)
  PROVE  /\ x \in Records /\ status[x] = "waiting" /\ IsIn(calls[p], x)
         /\ SinkOf[x] \in Sinks /\ hostOfRecord(x) = p /\ places(chainHead, x) = {}
  <1>1. status[x] = "waiting" /\ IsIn(calls[p], x)
    BY DEF OrderInv, LineInv
  <1>2. PICK k \in 1..Len(calls[p]) : calls[p][k] = x
    BY <1>1 DEF IsIn
  <1>3. x \in Records /\ SinkOf[x] \in Sinks /\ hostOfRecord(x) = p
    BY <1>2, LinesAre, ElementOfSeq DEF OrderInv, CallInv
  <1>4. places(chainHead, x) = {}
    BY <1>1, <1>3 DEF OrderInv, SettledIsTrue, chainHead
  <1> QED  BY <1>1, <1>3, <1>4

(* The end of a batch, which links what was called for first. *)
LEMMA SettleInOrder ==
  ASSUME WritersInv, OrderInv, NEW p \in Processes, queue[p] # <<>>,
         NEW outcome \in {"stored", "dropped"}, settleAll(p, outcome), UNCHANGED <<calls, buffered>>,
         chainHead' = IF outcome = "stored" THEN chainHead \o Head(queue[p]) ELSE chainHead
  PROVE  OrderInv'
  <1> DEFINE H == Head(queue[p])
             h == chainHead
             after == IF outcome = "stored" THEN h \o H ELSE h
  <1>1. /\ H \in Seq(Records) /\ h \in Seq(Records) /\ DOMAIN H = 1..Len(H)
        /\ Len(h) \in Nat /\ Len(H) \in Nat
    BY LinesAre, HeadTailProperties
  <1>2. /\ \A q \in Processes \ {p} : line(q)' = line(q)
        /\ line(p)' = Append(Tail(queue[p]), buffered[p])
    BY DEF settleAll, line, WritersInv, WriterTypeOK
  <1>3. /\ Ordered(line(p)', calls[p]) /\ NoTwice(H) /\ NoTwice(calls[p])
        /\ \A i, j \in 1..Len(H) : i < j => Before(calls[p], H[i], H[j])
        /\ \A x : IsIn(H, x) => InLine(line(p), x)
        /\ \A x : InLine(line(p)', x) =>
             InLine(line(p), x) /\ \A y : IsIn(H, y) => y # x /\ Before(calls[p], y, x)
    <2>1. NoTwice(calls[p]) /\ Ordered(Append(queue[p], buffered[p]), calls[p])
      BY DEF OrderInv, CallInv, LineInv, line
    <2>2. queue[p] \in Seq(Seq(Records)) /\ buffered[p] \in Seq(Records) /\ calls[p] \in Seq(Records)
      BY LinesAre
    <2> QED  BY <1>2, <2>1, <2>2, RestOfLine DEF line
  <1>4. \A x \in Records : status'[x] = IF IsIn(H, x) THEN outcome ELSE status[x]
    BY <1>1 DEF settleAll, IsIn
  <1>5. ASSUME NEW x, IsIn(H, x)
        PROVE  /\ x \in Records /\ SinkOf[x] \in Sinks /\ hostOfRecord(x) = p /\ places(h, x) = {}
               /\ InLine(line(p), x)
    BY <1>3, <1>5, InLineIs
  <1> HIDE DEF H
  <1>6. ASSUME NEW q \in Processes, NEW x, InLine(line(q)', x)
        PROVE  InLine(line(q), x) /\ ~ IsIn(H, x)
    <2>1. CASE q = p
      BY <1>3, <1>6, <2>1
    <2>2. CASE q # p
      <3>1. InLine(line(q), x)
        BY <1>2, <1>6, <2>2
      <3> QED  BY <1>5, <2>2, <3>1, InLineIs
    <2> QED  BY <2>1, <2>2
  <1>7. CallInv'
    <2>1. \A q \in Processes : \A k \in 1..Len(calls[q]) : calls[q][k] \in Records
      BY LinesAre, ElementOfSeq
    <2>2. \A x \in Records : status[x] # "new" => status'[x] # "new"
      BY <1>4
    <2> QED  BY <2>1, <2>2 DEF OrderInv, CallInv, hostOfRecord
  <1>8. LineInv'
    <2>1. ASSUME NEW q \in Processes, NEW x, InLine(line(q)', x)
          PROVE  status'[x] = "waiting" /\ IsIn(calls[q], x)
      BY <1>4, <1>6, <2>1, InLineIs
    <2>2. ASSUME NEW q \in Processes
          PROVE  Ordered(line(q)', calls[q])
      BY <1>2, <1>3 DEF OrderInv, LineInv
    <2> QED  BY <2>1, <2>2 DEF LineInv
  <1>9. ASSUME NEW x, NEW n, n \in places(after, x)
        PROVE  \/ n \in places(h, x) /\ n \in 1..Len(h)
               \/ \E j \in 1..Len(H) : H[j] = x /\ n = Len(h) + j
    <2>1. CASE outcome = "stored"
      <3>1. \/ n \in 1..Len(h) /\ h[n] = x
            \/ n \in Int /\ n - Len(h) \in 1..Len(H) /\ H[n - Len(h)] = x
        BY <1>1, <1>9, <2>1, PlacesLinked
      <3>2. CASE n \in 1..Len(h) /\ h[n] = x
        BY <1>1, <3>2, PlacesLinked
      <3>3. CASE n \in Int /\ n - Len(h) \in 1..Len(H) /\ H[n - Len(h)] = x
        <4>1. n = Len(h) + (n - Len(h))
          BY <1>1, <3>3
        <4> QED  BY <3>3, <4>1
      <3> QED  BY <3>1, <3>2, <3>3
    <2>2. CASE outcome = "dropped"
      BY <1>9, <2>2, PlacesAre
    <2> QED  BY <2>1, <2>2
  <1>10. ASSUME NEW x, ~ IsIn(H, x) PROVE places(after, x) = places(h, x)
    <2>1. CASE outcome = "stored"
      <3>1. \A i : i \in places(h \o H, x) <=> i \in places(h, x)
        BY <1>1, <1>10, PlacesLinked DEF IsIn
      <3>2. places(h \o H, x) = places(h, x)
        BY <3>1
      <3> QED  BY <2>1, <3>2
    <2>2. CASE outcome = "dropped"
      BY <2>2
    <2> QED  BY <2>1, <2>2
  <1>11. ASSUME NEW x, IsIn(H, x), outcome = "stored"
         PROVE  \E i \in DOMAIN after : places(after, x) = {i}
    <2>1. PICK j \in 1..Len(H) : H[j] = x
      BY <1>11 DEF IsIn
    <2> DEFINE i == Len(h) + j
    <2>2. i \in Int /\ i - Len(h) = j
      BY <1>1
    <2> HIDE DEF i
    <2>3. i \in places(after, x)
      <3>1. i - Len(h) \in 1..Len(H) /\ H[i - Len(h)] = x
        BY <2>1, <2>2
      <3>2. i \in places(h \o H, x)
        BY <1>1, <2>2, <3>1, PlacesLinked
      <3> QED  BY <1>11, <3>2
    <2>4. \A m \in places(after, x) : m = i
      <3> TAKE m \in places(after, x)
      <3>1. PICK n \in 1..Len(H) : H[n] = x /\ m = Len(h) + n
        BY <1>5, <1>9, <1>11
      <3>2. n = j
        BY <1>3, <2>1, <3>1 DEF NoTwice
      <3> QED  BY <3>1, <3>2 DEF i
    <2>5. i \in DOMAIN after
      BY <2>3 DEF places
    <2> HIDE DEF after
    <2>6. places(after, x) = {i}
      BY <2>3, <2>4
    <2> QED  BY <2>5, <2>6
  <1>12. chainHead' = after
    BY DEF H
  <1> HIDE DEF after
  <1>13. LinkInv'
    <2> SUFFICES ASSUME NEW q \in Processes, NEW k \in 1..Len(calls[q]), NEW l \in 1..Len(calls[q]),
                        places(after, calls[q][k]) # {}, InLine(line(q)', calls[q][l])
                 PROVE  k < l
      BY <1>12 DEF LinkInv
    <2>1. InLine(line(q), calls[q][l])
      BY <1>6
    <2>2. CASE places(h, calls[q][k]) # {}
      BY <2>1, <2>2 DEF OrderInv, LinkInv
    <2>3. CASE places(h, calls[q][k]) = {}
      <3>1. IsIn(H, calls[q][k])
        BY <1>10, <2>3
      <3>2. q = p
        BY <1>5, <3>1 DEF OrderInv, CallInv
      <3>3. Before(calls[p], calls[p][k], calls[p][l])
        BY <1>3, <3>1, <3>2
      <3> QED  BY <1>3, <3>2, <3>3, BeforeIs
    <2> QED  BY <2>2, <2>3
  <1>14. SettledIsTrue'
    <2>1. ASSUME NEW x \in Records, SinkOf[x] \in Sinks
          PROVE  IF status'[x] = "stored" THEN \E i \in DOMAIN after : places(after, x) = {i}
                                          ELSE places(after, x) = {}
      <3>1. IF status[x] = "stored" THEN \E i \in DOMAIN h : places(h, x) = {i} ELSE places(h, x) = {}
        BY <2>1 DEF OrderInv, SettledIsTrue, chainHead
      <3>2. CASE ~ IsIn(H, x)
        <4>1. \A i : places(after, x) = {i} => i \in DOMAIN after
          BY DEF places
        <4> QED  BY <1>4, <1>10, <3>1, <3>2, <4>1
      <3>3. CASE IsIn(H, x) /\ outcome = "stored"
        BY <1>4, <1>11, <3>3
      <3>4. CASE IsIn(H, x) /\ outcome = "dropped"
        BY <1>4, <1>5, <3>4 DEF after
      <3> QED  BY <3>2, <3>3, <3>4
    <2> QED  BY <1>12, <2>1 DEF SettledIsTrue, chainHead
  <1>15. LinkedInCallOrder'
    <2>1. ASSUME NEW q \in Processes, NEW k \in 1..Len(calls[q]), NEW l \in 1..Len(calls[q]), k < l,
                 NEW i \in places(after, calls[q][k]), NEW j \in places(after, calls[q][l])
          PROVE  i < j
      <3>1. CASE i \in places(h, calls[q][k]) /\ j \in places(h, calls[q][l])
        <4>1. DOMAIN calls[q] = 1..Len(calls[q])
          BY LinesAre
        <4> QED  BY <2>1, <3>1, <4>1 DEF OrderInv, LinkedInCallOrder, chainHead
      <3>2. CASE /\ i \in places(h, calls[q][k]) /\ i \in 1..Len(h)
                 /\ \E b \in 1..Len(H) : H[b] = calls[q][l] /\ j = Len(h) + b
        BY <1>1, <3>2
      <3>3. CASE \E a \in 1..Len(H) : H[a] = calls[q][k] /\ i = Len(h) + a
        <4>1. PICK a \in 1..Len(H) : H[a] = calls[q][k] /\ i = Len(h) + a
          BY <3>3
        <4>2. IsIn(H, calls[q][k])
          BY <4>1 DEF IsIn
        <4>3. q = p /\ InLine(line(q), calls[q][k])
          BY <1>5, <4>2 DEF OrderInv, CallInv
        <4>4. places(h, calls[q][l]) = {}
          <5>1. ASSUME places(h, calls[q][l]) # {} PROVE FALSE
            <6>1. l < k
              BY <4>3, <5>1 DEF OrderInv, LinkInv
            <6> QED  BY <2>1, <6>1
          <5> QED  BY <5>1
        <4>5. PICK b \in 1..Len(H) : H[b] = calls[q][l] /\ j = Len(h) + b
          BY <1>9, <4>4
        <4>6. a # b
          BY <1>3, <2>1, <4>1, <4>3, <4>5 DEF NoTwice
        <4>7. ~ b < a
          <5>1. ASSUME b < a PROVE FALSE
            <6>1. Before(calls[q], calls[q][l], calls[q][k])
              BY <1>3, <4>1, <4>3, <4>5, <5>1
            <6>2. l < k
              BY <1>3, <4>3, <6>1, BeforeIs
            <6> QED  BY <2>1, <6>2
          <5> QED  BY <5>1
        <4> QED  BY <1>1, <4>1, <4>5, <4>6, <4>7
      <3>4. \/ i \in places(h, calls[q][k]) /\ i \in 1..Len(h)
            \/ \E a \in 1..Len(H) : H[a] = calls[q][k] /\ i = Len(h) + a
        <4> DEFINE x == calls[q][k]
        <4>1. i \in places(after, x)
          BY <2>1
        <4> HIDE DEF x
        <4>2. \/ i \in places(h, x) /\ i \in 1..Len(h)
              \/ \E a \in 1..Len(H) : H[a] = x /\ i = Len(h) + a
          BY <1>9, <4>1
        <4> QED  BY <4>2 DEF x
      <3>5. \/ j \in places(h, calls[q][l]) /\ j \in 1..Len(h)
            \/ \E b \in 1..Len(H) : H[b] = calls[q][l] /\ j = Len(h) + b
        <4> DEFINE x == calls[q][l]
        <4>1. j \in places(after, x)
          BY <2>1
        <4> HIDE DEF x
        <4>2. \/ j \in places(h, x) /\ j \in 1..Len(h)
              \/ \E b \in 1..Len(H) : H[b] = x /\ j = Len(h) + b
          BY <1>9, <4>1
        <4> QED  BY <4>2 DEF x
      <3> QED  BY <3>1, <3>2, <3>3, <3>4, <3>5
    <2>2. \A q \in Processes : DOMAIN calls[q] = 1..Len(calls[q])
      BY LinesAre
    <2>3. ASSUME NEW q \in Processes, NEW k \in DOMAIN calls[q], NEW l \in DOMAIN calls[q], k < l,
                 NEW i \in places(after, calls[q][k]), NEW j \in places(after, calls[q][l])
          PROVE  i < j
      BY <2>1, <2>2, <2>3
    <2> QED  BY <1>12, <2>3 DEF LinkedInCallOrder, chainHead
  <1> QED  BY <1>7, <1>8, <1>13, <1>14, <1>15 DEF OrderInv

(* The lines that die with a process were never linked. *)
LEMMA CrashInOrder ==
  ASSUME WritersInv, OrderInv, NEW p \in Processes, Crash(p), chainHead' = chainHead
  PROVE  OrderInv'
  <1>1. /\ UNCHANGED calls
        /\ \A x \in Records : status'[x] = IF status[x] = "waiting" /\ hostOfRecord(x) = p
                                          THEN "lost" ELSE status[x]
    BY DEF Crash
  <1>2. /\ \A q \in Processes \ {p} : line(q)' = line(q)
        /\ line(p)' = Append(<<>>, <<>>)
    BY DEF Crash, line, WritersInv, WriterTypeOK
  <1>3. /\ \A x : ~ InLine(line(p)', x)
        /\ Ordered(line(p)', calls[p])
    <2>1. <<>> \in Seq(Seq(Records)) /\ Len(<<>>) = 0
      OBVIOUS
    <2>2. \A x : ~ InLine(<<>>, x)
      BY <2>1 DEF InLine
    <2>3. Ordered(<<>>, calls[p])
      BY <2>1 DEF Ordered
    <2>4. /\ \A x : InLine(Append(<<>>, <<>>), x) <=> InLine(<<>>, x)
          /\ Ordered(Append(<<>>, <<>>), calls[p])
      BY <2>1, <2>3, EmptyLast
    <2> QED  BY <1>2, <2>2, <2>4
  <1>4. ASSUME NEW q \in Processes, NEW x, InLine(line(q)', x)
        PROVE  q # p /\ InLine(line(q), x) /\ status'[x] = status[x]
    <2>1. q # p /\ InLine(line(q), x)
      BY <1>2, <1>3, <1>4
    <2> QED  BY <1>1, <2>1, InLineIs
  <1>5. CallInv'
    <2>1. \A q \in Processes : \A k \in 1..Len(calls[q]) : calls[q][k] \in Records
      BY LinesAre, ElementOfSeq
    <2>2. \A x \in Records : status[x] # "new" => status'[x] # "new"
      BY <1>1
    <2> QED  BY <1>1, <2>1, <2>2 DEF OrderInv, CallInv, hostOfRecord
  <1>6. LineInv'
    <2>1. ASSUME NEW q \in Processes, NEW x, InLine(line(q)', x)
          PROVE  status'[x] = "waiting" /\ IsIn(calls[q], x)
      BY <1>4, <2>1 DEF OrderInv, LineInv
    <2>2. ASSUME NEW q \in Processes
          PROVE  Ordered(line(q)', calls[q])
      BY <1>2, <1>3 DEF OrderInv, LineInv
    <2> QED  BY <1>1, <2>1, <2>2 DEF LineInv
  <1>7. LinkInv'
    <2>1. ASSUME NEW q \in Processes, NEW k \in 1..Len(calls[q]), NEW l \in 1..Len(calls[q]),
                 places(chainHead, calls[q][k]) # {}, InLine(line(q)', calls[q][l])
          PROVE  k < l
      BY <1>4, <2>1 DEF OrderInv, LinkInv
    <2> QED  BY <1>1, <2>1 DEF LinkInv
  <1>8. SettledIsTrue'
    <2>1. \A x \in Records : status'[x] = "stored" <=> status[x] = "stored"
      BY <1>1
    <2> QED  BY <2>1 DEF OrderInv, SettledIsTrue, chainHead
  <1>9. LinkedInCallOrder'
    BY <1>1 DEF OrderInv, LinkedInCallOrder, chainHead
  <1> QED  BY <1>5, <1>6, <1>7, <1>8, <1>9 DEF OrderInv

(* Sending the buffer off moves no record. *)
LEMMA BufferGoes ==
  ASSUME WritersInv, NEW p \in Processes, commitBuffered(p, buffered[p])
  PROVE  \A q \in Processes : line(q)' = line(q) \/ line(q)' = Append(line(q), <<>>)
  <1>1. queue \in [Processes -> Seq(Seq(Records))] /\ buffered \in [Processes -> Seq(Records)]
    BY DEF WritersInv, WriterTypeOK
  <1>2. /\ queue' = [queue EXCEPT ![p] = IF buffered[p] = <<>> THEN queue[p] ELSE Append(queue[p], buffered[p])]
        /\ buffered' = [buffered EXCEPT ![p] = <<>>]
    BY DEF commitBuffered
  <1>3. \A q \in Processes \ {p} : queue'[q] = queue[q] /\ buffered'[q] = buffered[q]
    BY <1>1, <1>2
  <1>4. /\ queue'[p] = IF buffered[p] = <<>> THEN queue[p] ELSE Append(queue[p], buffered[p])
        /\ buffered'[p] = <<>>
    BY <1>1, <1>2
  <1> QED  BY <1>3, <1>4 DEF line

LEMMA OrderStep ==
  ASSUME WritersInv, OrderInv, [Next]_vars
  PROVE  OrderInv'
  <1>0. ASSUME UNCHANGED <<status, calls>>, chainHead' = chainHead,
               \A q \in Processes : line(q)' = line(q) \/ line(q)' = Append(line(q), <<>>)
        PROVE  OrderInv'
    BY <1>0, StayInOrder
  <1>1. ASSUME NEW r \in Records, write(r) PROVE OrderInv'
    <2> DEFINE p == hostOfRecord(r)
    <2>1. /\ SinkOf[r] \in Sinks /\ p \in Processes /\ status[r] = "new" /\ chainHead' = chainHead
      BY <1>1, WriterAssumption DEF write, hostOfRecord, dbVars, chainHead
    <2> HIDE DEF p
    <2>2. CASE /\ status' = [status EXCEPT ![r] = "refused"]
               /\ UNCHANGED <<calls, buffered, armed, queue>>
      <3>1. \A q \in Processes : line(q)' = line(q)
        BY <2>2 DEF line
      <3>2. \A x \in Records : status'[x] = status[x] \/ (status[x] = "new" /\ status'[x] = "refused")
        BY <2>1, <2>2 DEF WritersInv, WriterTypeOK
      <3> QED  BY <2>1, <2>2, <3>1, <3>2, StayInOrder
    <2>3. CASE /\ status' = [status EXCEPT ![r] = "waiting"]
               /\ calls' = [calls EXCEPT ![p] = Append(calls[p], r)]
               /\ enqueue(p, r)
      BY <2>1, <2>3, WriteInOrder DEF p
    <2> QED  BY <1>1, <2>2, <2>3 DEF write, p
  <1>2. ASSUME NEW s \in Sinks, flush(s) \/ close(s) PROVE OrderInv'
    <2>1. /\ HostOf[s] \in Processes /\ commitBuffered(HostOf[s], buffered[HostOf[s]])
          /\ UNCHANGED <<status, calls>> /\ chainHead' = chainHead
      BY <1>2, WriterAssumption DEF flush, close, flushNow, dbVars, chainHead
    <2> QED  BY <1>0, <2>1, BufferGoes
  <1>3. ASSUME NEW s \in Sinks, flushReturns(s) PROVE OrderInv'
    BY <1>0, <1>3 DEF flushReturns, dbVars, chainHead, line
  <1>4. ASSUME NEW p \in Processes, timerFires(p) PROVE OrderInv'
    <2>1. commitBuffered(p, buffered[p]) /\ UNCHANGED <<status, calls>> /\ chainHead' = chainHead
      BY <1>4 DEF timerFires, dbVars, chainHead
    <2> QED  BY <1>0, <2>1, BufferGoes
  <1>5. ASSUME NEW p \in Processes, beginBatch(p) PROVE OrderInv'
    BY <1>0, <1>5 DEF beginBatch, begin, writerVars, chainHead, line
  <1>6. ASSUME NEW p \in Processes, commitRows(p) PROVE OrderInv'
    <2>1. /\ queue[p] # <<>> /\ lock = p /\ commit(p, Head(queue[p])) /\ settleAll(p, "stored")
          /\ UNCHANGED <<calls, buffered>>
      BY <1>6 DEF commitRows, isTrying
    <2>2. /\ Head(queue[p]) \in Seq(Records) /\ UNCHANGED markers
          /\ insertRecordRows(chainHeadOf(table, markers), Head(queue[p]))
      BY <2>1, SettleAllType DEF WritersInv, DbInv, commit
    <2>3. chainHead' = chainHead \o Head(queue[p])
      BY <2>2, Appended DEF WritersInv, DbInv, DbTypeOK, chainHead
    <2> QED  BY <2>1, <2>3, SettleInOrder
  <1>7. ASSUME NEW p \in Processes, attemptFails(p) PROVE OrderInv'
    <2>1. queue[p] # <<>> /\ UNCHANGED <<calls, buffered>> /\ chainHead' = chainHead
      BY <1>7 DEF attemptFails, isTrying, rollback, chainHead
    <2>2. CASE settleAll(p, "dropped")
      BY <2>1, <2>2, SettleInOrder
    <2>3. CASE UNCHANGED <<status, queue>>
      BY <1>0, <2>1, <2>3 DEF line
    <2> QED  BY <1>7, <2>2, <2>3 DEF attemptFails
  <1>8. ASSUME NEW p \in Processes, retryBatch(p) PROVE OrderInv'
    BY <1>0, <1>8 DEF retryBatch, dbVars, chainHead, line
  <1>9. ASSUME NEW p \in Processes, Crash(p) PROVE OrderInv'
    <2>1. chainHead' = chainHead
      BY <1>9 DEF Crash, rollback, chainHead
    <2> QED  BY <1>9, <2>1, CrashInOrder
  <1>10. ASSUME Prune, UNCHANGED writerVars PROVE OrderInv'
    <2>1. chainHead' = chainHead
      BY <1>10, Pruned DEF Prune, WritersInv, DbInv, DbTypeOK, chainHead
    <2> QED  BY <1>0, <1>10, <2>1 DEF writerVars, line
  <1>11. CASE UNCHANGED vars
    BY <1>0, <1>11 DEF vars, dbVars, writerVars, chainHead, line
  <1> QED
    BY <1>1, <1>2, <1>3, <1>4, <1>5, <1>6, <1>7, <1>8, <1>9, <1>10, <1>11
    DEF Next, Session, Writer

LEMMA OrderInitial == Init => OrderInv
  <1> SUFFICES ASSUME Init PROVE OrderInv
    OBVIOUS
  <1>1. WritersInv /\ \A p \in Processes : calls[p] = <<>> /\ queue[p] = <<>> /\ buffered[p] = <<>>
    <2>1. WriterTypeOK
      BY DEF Init, WriterTypeOK
    <2> QED  BY <2>1, DbInitial DEF Init, WritersInv
  <1>2. Len(<<>>) = 0
    OBVIOUS
  <1>3. CallInv
    BY <1>1, <1>2 DEF CallInv, NoTwice
  <1>4. LineInv
    <2>1. \A x : ~ InLine(<<>>, x)
      BY <1>2 DEF InLine
    <2>2. Ordered(<<>>, <<>>)
      BY <1>2 DEF Ordered
    <2>3. /\ \A x : InLine(Append(<<>>, <<>>), x) <=> InLine(<<>>, x)
          /\ Ordered(Append(<<>>, <<>>), <<>>)
      <3>1. <<>> \in Seq(Seq(Records))
        OBVIOUS
      <3> QED  BY <2>2, <3>1, EmptyLast
    <2> QED  BY <1>1, <2>1, <2>3 DEF LineInv, line
  <1>5. LinkInv /\ LinkedInCallOrder
    BY <1>1, <1>2 DEF LinkInv, LinkedInCallOrder
  <1>6. chainHead = <<>>
    <2>1. \A i \in 1..Len(table) : table[i].hash = NoHash
      BY FunctionIsSeq DEF Init, DbInit, preChainRows
    <2>2. attested(table) = {}
      BY <2>1 DEF attested
    <2>3. chainHead = resolveChainStartPrevHash(markers)
      BY <1>1, <2>2, HeadIs DEF WritersInv, DbInv, DbTypeOK, chainHead
    <2> QED  BY <2>3 DEF Init, DbInit, resolveChainStartPrevHash, GENESIS_PREV_HASH
  <1>7. SettledIsTrue
    BY <1>6 DEF Init, SettledIsTrue, places, chainHead
  <1> QED  BY <1>3, <1>4, <1>5, <1>7 DEF OrderInv

(* The order of the lines holds beside the invariant of the chain. *)
THEOREM OrderInvariant == Spec => []OrderInv
  <1>1. WritersInv /\ OrderInv /\ [Next]_vars => OrderInv'
    BY OrderStep
  <1> QED  BY <1>1, OrderInitial, JournalInvariant, PTL DEF Spec

(* What a sink was told of a record is what the chain has: stored is linked  *)
(* exactly once, and anything else not at all (batch-writer.ts               *)
(* commitWithRetry, sink.ts).                                                *)
THEOREM ToldTheTruth == Spec => []SettledIsTrue
  <1>1. OrderInv => SettledIsTrue  BY DEF OrderInv
  <1> QED  BY <1>1, OrderInvariant, PTL

(* The records of a process are linked in the order it wrote them, although  *)
(* batches wait, fail and are tried again (batch-writer.ts enqueue).         *)
THEOREM OrderIsKept == Spec => []LinkedInCallOrder
  <1>1. OrderInv => LinkedInCallOrder  BY DEF OrderInv
  <1> QED  BY <1>1, OrderInvariant, PTL
=============================================================================
