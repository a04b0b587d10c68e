------------------------------ MODULE PolicyFile ------------------------------
(***************************************************************************)
(* policy.json and its one write path (policy/edit/policy-file.ts): a      *)
(* caller reads the file, applies one edit to what it read, and writes the *)
(* result back if the file still has the policy it edited.  A sidecar lock *)
(* keeps the processes that write apart; a lock older than ten seconds is  *)
(* broken.  An operator may also change the file by hand at any moment, to *)
(* any policy: no lock keeps an editor out.                                *)
(*                                                                         *)
(* A policy is the set of edits it holds, so equal policies have equal     *)
(* hashes.  The writes of one process to one path are chained: each edit   *)
(* here is a process of its own.                                           *)
(***************************************************************************)
EXTENDS Naturals

CONSTANTS
  Edits,
  HandMade,    \* the policies a change by hand may leave: any set of them
  MaxByHand,   \* changes made by hand: a bound of the exploration
  WritesLast   \* BOOLEAN: a write may last longer than POLICY_LOCK_STALE_MS

NoLock == "no-lock"
Leftover == "leftover"  \* the lock of a writer that died before this behaviour
Operator == "operator"  \* who changes the file by hand

ASSUME EditsAssumption ==
  /\ {NoLock, Leftover, Operator} \cap Edits = {}
  /\ HandMade \subseteq SUBSET Edits
  /\ MaxByHand \in Nat
  /\ WritesLast \in BOOLEAN

VARIABLES
  file,     \* what is at the path: its kind, policy, version key; gen counts its replacements,
            \* and by is who made the last (history)
  lock,     \* who created <path>.lock
  isStale,  \* its age is past POLICY_LOCK_STALE_MS
  pc,       \* where an edit stands
  base,     \* what its caller read
  byHand,   \* changes made by hand so far
  raced,    \* history: writers between compare and rename when the file changed by hand
  robbed,   \* history: writers whose lock went while they held it
  overwritten \* history: <<e, f>> when f replaced what e wrote, and had edited another policy

lockVars == <<lock, isStale, robbed>>
handVars == <<byHand, raced>>
fileVars == <<file, lock, isStale, pc, base, handVars, robbed, overwritten>>

NoPolicy == [is |-> "missing", doc |-> {}]

policyOf(f) == [is |-> f.is, doc |-> f.doc]  \* what policyHashOf and the read status tell apart

Section == {"read", "write", "unlock"}

(* A new file in the place of the old: its mtime and size are a key of     *)
(* their own, or those of the file before, written in the same clock tick. *)
(* A key is ambiguous if another policy had it.                            *)
replaced(is, doc, by) ==
  \E same \in BOOLEAN :
    file' = [is |-> is, doc |-> doc, by |-> by, gen |-> file.gen + 1,
             key |-> IF same THEN file.key ELSE file.gen + 1,
             isTwin |-> same /\ file.wasValid,
             wasValid |-> is = "valid" \/ (same /\ file.wasValid)]

become(e, at) == pc' = [pc EXCEPT ![e] = at]

(* The caller has its answer, or its process is gone; what it read is forgotten. *)
leave(e) == become(e, "over") /\ base' = [base EXCEPT ![e] = NoPolicy]

-----------------------------------------------------------------------------
(* The caller's read: a broken file is no target. *)
readPolicyFileForEdit(e) ==
  /\ pc[e] = "idle"
  /\ IF file.is = "broken" THEN leave(e)
     ELSE become(e, "lock") /\ base' = [base EXCEPT ![e] = policyOf(file)]
  /\ UNCHANGED <<file, handVars, overwritten, lockVars>>

(* The exclusive create, tried at most twice; who loses does not wait *)
(* (lockedByOther: a conflict).                                       *)
tryCreateLock(e) ==
  /\ pc[e] \in {"lock", "relock"}
  /\ \/ /\ lock = NoLock
        /\ lock' = e /\ isStale' = FALSE
        /\ become(e, "read") /\ UNCHANGED base
     \/ /\ lock # NoLock
        /\ IF pc[e] = "lock" THEN become(e, "stat") /\ UNCHANGED base ELSE leave(e)
        /\ UNCHANGED <<lock, isStale>>
  /\ UNCHANGED <<file, handVars, robbed, overwritten>>

(* acquireLock looks at the age of the lock that was in its way. *)
statLock(e) ==
  /\ pc[e] = "stat"
  /\ \/ lock = NoLock /\ become(e, "relock") /\ UNCHANGED base
     \/ lock # NoLock /\ isStale /\ become(e, "break") /\ UNCHANGED base
     \/ lock # NoLock /\ ~isStale /\ leave(e)
  /\ UNCHANGED <<file, handVars, overwritten, lockVars>>

(* The lock file goes, whoever's it is by now. *)
lockGoes(by) ==
  /\ lock' = NoLock /\ isStale' = FALSE
  /\ robbed' = robbed \cup {e \in Edits \ {by} : lock = e /\ pc[e] \in Section}

(* The stale lock is renamed away; it may be gone already. *)
breakStaleLock(e) ==
  /\ pc[e] = "break"
  /\ lockGoes(e)
  /\ become(e, "relock")
  /\ UNCHANGED <<file, base, handVars, overwritten>>

writeUnderLock_NoCompare(e) ==  \* mutant: the file is not compared with what was edited
  /\ pc[e] = "read"
  /\ become(e, IF file.is = "broken" THEN "unlock" ELSE "write")
  /\ UNCHANGED <<file, base, handVars, overwritten, lockVars>>

(* The compare: only the policy that was edited is replaced. *)
writeUnderLock(e) ==
  /\ pc[e] = "read"
  /\ become(e, IF policyOf(file) = base[e] THEN "write" ELSE "unlock")
  /\ UNCHANGED <<file, base, handVars, overwritten, lockVars>>

(* The swap: a temporary file is renamed over the policy. *)
replaceAtomically(e) ==
  /\ pc[e] = "write"
  /\ replaced("valid", base[e].doc \cup {e}, e)
  /\ overwritten' = IF policyOf(file) = base[e] THEN overwritten
                    ELSE overwritten \cup {<<file.by, e>>}
  /\ become(e, "unlock")
  /\ UNCHANGED <<base, handVars, lockVars>>

(* writeLocked's finally removes the lock file, and swallows a failure to. *)
removeLock(e) ==
  /\ pc[e] = "unlock"
  /\ lockGoes(e) \/ UNCHANGED lockVars
  /\ leave(e)
  /\ UNCHANGED <<file, handVars, overwritten>>

(* Any file operation may fail: an error, and a lock that is held is removed. *)
ioFails(e) ==
  /\ \/ pc[e] \in {"lock", "relock", "stat", "break"} /\ leave(e)
     \/ pc[e] \in {"read", "write"} /\ become(e, "unlock") /\ UNCHANGED base
  /\ UNCHANGED <<file, handVars, overwritten, lockVars>>

(* The writer's process dies; its lock stays. *)
Crash(e) ==
  /\ pc[e] \in Section
  /\ leave(e)
  /\ UNCHANGED <<file, handVars, overwritten, lockVars>>

-----------------------------------------------------------------------------
(* Ten seconds pass over a lock: over one that nobody holds any more, or,  *)
(* where writes may last that long, over any.                              *)
Age ==
  /\ lock # NoLock /\ ~isStale
  /\ WritesLast \/ \A e \in Edits : lock = e => pc[e] = "over"
  /\ isStale' = TRUE
  /\ UNCHANGED <<file, lock, pc, base, handVars, robbed, overwritten>>

(* The operator's editor, at any moment: the file breaks, goes, or holds another policy. *)
ByHand ==
  /\ byHand < MaxByHand
  /\ byHand' = byHand + 1
  /\ \/ \E doc \in HandMade : replaced("valid", doc, Operator)
     \/ \E is \in {"broken", "missing"} : replaced(is, {}, Operator)
  /\ raced' = raced \cup {e \in Edits : pc[e] = "write"}
  /\ UNCHANGED <<pc, base, overwritten, lockVars>>

FileInit ==
  /\ file \in [is : {"valid", "missing"}, doc : {{}}, by : {Operator}, key : {0}, gen : {0},
               isTwin : {FALSE}, wasValid : BOOLEAN]
  /\ file.wasValid = (file.is = "valid")
  /\ lock \in {NoLock, Leftover}
  /\ isStale = FALSE
  /\ pc = [e \in Edits |-> "idle"]
  /\ base = [e \in Edits |-> NoPolicy]
  /\ byHand = 0
  /\ raced = {}
  /\ robbed = {}
  /\ overwritten = {}

Writer(e) ==
  \/ readPolicyFileForEdit(e) \/ tryCreateLock(e) \/ statLock(e) \/ breakStaleLock(e)
  \/ writeUnderLock(e) \/ replaceAtomically(e) \/ removeLock(e) \/ ioFails(e) \/ Crash(e)

FileNext == (\E e \in Edits : Writer(e)) \/ Age \/ ByHand

FileSpec == FileInit /\ [][FileNext]_fileVars

-----------------------------------------------------------------------------
(* Properties. *)

(* The shape of the file, its lock and its writers. *)
FileTypeOK ==
  /\ file \in [is : {"valid", "missing", "broken"}, doc : SUBSET Edits, by : Edits \cup {Operator},
               key : Nat, gen : Nat, isTwin : BOOLEAN, wasValid : BOOLEAN]
  /\ lock \in Edits \cup {NoLock, Leftover}
  /\ isStale \in BOOLEAN
  /\ pc \in [Edits -> {"idle", "lock", "relock", "stat", "break", "over"} \cup Section]
  /\ base \in [Edits -> [is : {"valid", "missing"}, doc : SUBSET Edits]]
  /\ byHand \in Nat
  /\ raced \subseteq Edits
  /\ robbed \subseteq Edits
  /\ overwritten \subseteq (Edits \cup {Operator}) \X Edits

(* The compare-and-swap of policy-file.ts: a write replaces the policy that was   *)
(* edited and no other, whoever wrote that, the operator included.  Three windows *)
(* are exempt: the writer, or the one whose write it replaces, lost its lock to   *)
(* another hand while it wrote; or the file changed by hand after the compare,    *)
(* which no lock excludes.                                                        *)
EditsStand ==
  \A w \in overwritten : w[1] \in robbed \/ w[2] \in robbed \/ w[2] \in raced

(* The same between writers without the exception (policy-file.ts:27-35 and the  *)
(* comment of acquireLock: of two writers that judge a lock stale "only one of   *)
(* them can go on to hold a fresh lock").  Not so: the second may rename away    *)
(* the first's.                                                                  *)
NoLostEdit == \A w \in overwritten : w[1] = Operator
=============================================================================
