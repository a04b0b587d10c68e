----------------------------- MODULE PolicyProofs -----------------------------
(***************************************************************************)
(* The policy file and the proxy that follows it, for any number of edits, *)
(* any changes by hand, and however long a write lasts.  A writer that was *)
(* not robbed holds the lock (LockInv), so what it compared is what it     *)
(* replaces unless a robbed writer, or a change by hand, came between      *)
(* (EditInv); and a version that was seen and not found broken is one      *)
(* whose valid content was applied (SeenInv), by whichever of the two      *)
(* overlapping checks.                                                     *)
(***************************************************************************)
EXTENDS PolicyReload, TLAPS

USE EditsAssumption DEF NoLock, Leftover, Operator

-----------------------------------------------------------------------------
(* The file and its writers. *)

FileShapeOK ==
  file \in [is : {"valid", "missing", "broken"}, doc : SUBSET Edits, by : Edits \cup {Operator},
            key : Nat, gen : Nat, isTwin : BOOLEAN, wasValid : BOOLEAN]

LockTypeOK ==
  /\ lock \in Edits \cup {NoLock, Leftover}
  /\ isStale \in BOOLEAN
  /\ robbed \subseteq Edits

WriterTypeOK ==
  /\ pc \in [Edits -> {"idle", "lock", "relock", "stat", "break", "over"} \cup Section]
  /\ base \in [Edits -> [is : {"valid", "missing"}, doc : SUBSET Edits]]

(* Writers that were not robbed exclude each other. *)
LockInv == \A e \in Edits : pc[e] \in Section /\ e \notin robbed => lock = e

(* What a writer found equal to its base is still there when it replaces   *)
(* it, or a robbed writer wrote what is there, or the file changed by hand *)
(* since the compare.                                                      *)
EditInv ==
  \A e \in Edits : pc[e] = "write" /\ e \notin robbed
    => policyOf(file) = base[e] \/ file.by \in robbed \/ e \in raced

(* A version key is never older than any before it, and the key of a valid *)
(* content is known to have been one.                                      *)
KeyInv ==
  /\ file.key <= file.gen
  /\ file.is = "valid" => file.wasValid

HistoryTypeOK ==
  /\ byHand \in Nat /\ raced \subseteq Edits
  /\ overwritten \subseteq (Edits \cup {Operator}) \X Edits

FileInv ==
  /\ FileShapeOK /\ LockTypeOK /\ WriterTypeOK /\ HistoryTypeOK
  /\ LockInv /\ EditInv /\ EditsStand /\ KeyInv

-----------------------------------------------------------------------------
(* The proxy. *)

Versions == {"unseen", "absent", "file"} \X Nat

ReloadTypeOK ==
  /\ bound \in BOOLEAN
  /\ current \in [doc : SUBSET Edits, gen : Nat]
  /\ lastSeen \in Versions
  /\ failing \in BOOLEAN
  /\ sync \in {"idle", "read"}
  /\ async \in {"none", "stat", "see", "load", "apply"}
  /\ saw \in Versions
  /\ got \in [is : {"valid", "missing", "broken"}, doc : SUBSET Edits, gen : Nat]
  /\ stale \in BOOLEAN
  /\ checked \in BOOLEAN

(* A version seen belongs to this content of the file or to an older one. *)
NotAhead(version) == version[1] = "file" => version[2] <= file.key

(* The two checks: only a bound process refreshes, and of a refresh that   *)
(* is not stale the synchronous check has seen nothing.                    *)
TurnInv ==
  /\ async # "none" => bound
  /\ async = "none" => ~ stale
  /\ async # "none" /\ ~ stale => sync = "idle"
  /\ ~ bound => lastSeen = Unseen /\ ~ failing

(* What was seen, and not found broken, was applied. *)
SeenInv ==
  /\ NotAhead(lastSeen) /\ NotAhead(saw)
  /\ bound /\ sync = "idle" /\ lastSeen = <<"file", file.key>> /\ ~ failing =>
       /\ file.wasValid
       /\ file.is = "valid" /\ ~ file.isTwin => current.doc = file.doc
  /\ async = "apply" /\ saw = <<"file", file.key>> /\ got.is = "valid" =>
       /\ file.wasValid
       /\ file.is = "valid" /\ ~ file.isTwin => got.doc = file.doc

(* Nothing read is newer than the file, and a refresh that may still apply *)
(* what it read has read at least what is in force.                        *)
OrderInv ==
  /\ current.gen <= file.gen /\ got.gen <= file.gen
  /\ async = "apply" /\ ~ stale => current.gen <= got.gen

(* Since the check that came after the last change. *)
FreshInv ==
  /\ checked /\ async = "apply" /\ ~ stale =>
       got = [is |-> file.is, doc |-> file.doc, gen |-> file.gen]
  /\ checked /\ ~ bound /\ sync = "idle" => file.is # "valid"

ReloadInv ==
  /\ FileInv /\ ReloadTypeOK
  /\ TurnInv /\ SeenInv /\ OrderInv /\ FreshInv /\ SeesTheEdit

-----------------------------------------------------------------------------
(* The steps of the file. *)

(* A replacement: a key that is new or that of the content before. *)
LEMMA ReplacedShape ==
  ASSUME FileShapeOK, KeyInv, NEW is \in {"valid", "missing", "broken"}, NEW doc \in SUBSET Edits,
         NEW by \in Edits \cup {Operator}, replaced(is, doc, by)
  PROVE  /\ FileShapeOK' /\ KeyInv'
         /\ file'.is = is /\ file'.doc = doc /\ file'.by = by
         /\ file'.gen = file.gen + 1
         /\ \/ file'.key = file.gen + 1
            \/ /\ file'.key = file.key
               /\ file.wasValid => file'.wasValid /\ file'.isTwin
  <1>1. PICK same \in BOOLEAN :
          file' = [is |-> is, doc |-> doc, by |-> by, gen |-> file.gen + 1,
                   key |-> IF same THEN file.key ELSE file.gen + 1,
                   isTwin |-> same /\ file.wasValid,
                   wasValid |-> is = "valid" \/ (same /\ file.wasValid)]
    BY DEF replaced
  <1>2. file.gen \in Nat /\ file.key \in Nat /\ file.wasValid \in BOOLEAN /\ file.key <= file.gen
    BY DEF FileShapeOK, KeyInv
  <1>3. FileShapeOK'
    BY <1>1, <1>2 DEF FileShapeOK
  <1>4. /\ file'.is = is /\ file'.doc = doc /\ file'.by = by /\ file'.gen = file.gen + 1
        /\ file'.key = (IF same THEN file.key ELSE file.gen + 1)
        /\ file'.isTwin = (same /\ file.wasValid)
        /\ file'.wasValid = (is = "valid" \/ (same /\ file.wasValid))
    BY <1>1, Zenon
  <1>5. KeyInv'
    <2>1. file'.key <= file'.gen
      BY <1>2, <1>4
    <2>2. file'.is = "valid" => file'.wasValid
      BY <1>4, Zenon
    <2> QED  BY <2>1, <2>2 DEF KeyInv
  <1> QED  BY <1>2, <1>3, <1>4, <1>5

(* A step of one writer that moves no other, writes nothing, and leaves    *)
(* the lock: what it enters the section with is its own to show.           *)
LEMMA WriterMoves ==
  ASSUME FileInv, NEW e \in Edits, NEW at \in {"lock", "relock", "stat", "break", "over"} \cup Section,
         become(e, at), \A d \in Edits \ {e} : base'[d] = base[d],
         WriterTypeOK', UNCHANGED <<file, handVars, overwritten, lockVars>>,
         at \in Section => pc[e] \in Section,
         at = "write" => policyOf(file) = base'[e]
  PROVE  FileInv'
  <1>1. \A d \in Edits : pc'[d] = IF d = e THEN at ELSE pc[d]
    BY DEF become, FileInv, WriterTypeOK
  <1>2. FileShapeOK' /\ LockTypeOK' /\ HistoryTypeOK' /\ KeyInv' /\ EditsStand'
    BY DEF handVars, FileInv, lockVars, FileShapeOK, LockTypeOK, HistoryTypeOK, KeyInv, EditsStand
  <1>3. LockInv'
    BY <1>1 DEF FileInv, LockInv, lockVars
  <1>4. EditInv'
    BY <1>1 DEF handVars, FileInv, EditInv, lockVars, policyOf
  <1> QED  BY <1>2, <1>3, <1>4 DEF FileInv

LEMMA LeaveKeepsTypes ==
  ASSUME WriterTypeOK, NEW e \in Edits, leave(e)
  PROVE  /\ WriterTypeOK' /\ become(e, "over")
         /\ \A d \in Edits \ {e} : base'[d] = base[d]
  BY DEF WriterTypeOK, leave, become, NoPolicy

LEMMA BecomeKeepsTypes ==
  ASSUME WriterTypeOK, NEW e \in Edits, UNCHANGED base,
         NEW at \in {"lock", "relock", "stat", "break", "over"} \cup Section, become(e, at)
  PROVE  WriterTypeOK' /\ \A d \in Edits \ {e} : base'[d] = base[d]
  BY DEF WriterTypeOK, become

LEMMA ReadKeeps ==
  ASSUME FileInv, NEW e \in Edits, readPolicyFileForEdit(e)
  PROVE  FileInv'
  <1>0. WriterTypeOK /\ FileShapeOK /\ UNCHANGED <<file, handVars, overwritten, lockVars>>
    BY DEF FileInv, readPolicyFileForEdit
  <1>1. CASE leave(e)
    BY <1>0, <1>1, LeaveKeepsTypes, WriterMoves DEF Section
  <1>2. CASE /\ file.is # "broken" /\ become(e, "lock")
             /\ base' = [base EXCEPT ![e] = policyOf(file)]
    <2>1. policyOf(file) \in [is : {"valid", "missing"}, doc : SUBSET Edits]
      BY <1>0, <1>2 DEF FileShapeOK, policyOf
    <2>2. WriterTypeOK' /\ \A d \in Edits \ {e} : base'[d] = base[d]
      BY <1>0, <1>2, <2>1 DEF WriterTypeOK, become
    <2> QED  BY <1>0, <1>2, <2>2, WriterMoves DEF Section
  <1> QED  BY <1>1, <1>2 DEF readPolicyFileForEdit

LEMMA CreateKeeps ==
  ASSUME FileInv, NEW e \in Edits, tryCreateLock(e)
  PROVE  FileInv'
  <1>0. /\ FileShapeOK /\ LockTypeOK /\ WriterTypeOK /\ pc[e] \in {"lock", "relock"}
        /\ UNCHANGED <<file, handVars, robbed, overwritten>>
    BY DEF FileInv, tryCreateLock
  <1>1. CASE lock = NoLock /\ lock' = e /\ isStale' = FALSE /\ become(e, "read") /\ UNCHANGED base
    <2>1. \A d \in Edits : pc'[d] = IF d = e THEN "read" ELSE pc[d]
      BY <1>0, <1>1 DEF become, WriterTypeOK
    <2>2. FileShapeOK' /\ LockTypeOK' /\ WriterTypeOK' /\ HistoryTypeOK'
      BY <1>0, <1>1, BecomeKeepsTypes DEF handVars, FileInv, FileShapeOK, LockTypeOK, HistoryTypeOK, Section
    <2>3. \A d \in Edits : pc[d] \in Section => d \in robbed
      BY <1>1 DEF FileInv, LockInv
    <2>4. LockInv'
      BY <1>0, <1>1, <2>1, <2>3 DEF LockInv
    <2>5. EditInv'
      BY <1>0, <1>1, <2>1 DEF handVars, FileInv, EditInv, policyOf
    <2>6. KeyInv' /\ EditsStand'
      BY <1>0 DEF handVars, FileInv, KeyInv, EditsStand
    <2> QED  BY <2>2, <2>4, <2>5, <2>6 DEF FileInv
  <1>2. CASE UNCHANGED <<lock, isStale>> /\ become(e, "stat") /\ UNCHANGED base
    BY <1>0, <1>2, BecomeKeepsTypes, WriterMoves DEF Section, lockVars
  <1>3. CASE UNCHANGED <<lock, isStale>> /\ leave(e)
    BY <1>0, <1>3, LeaveKeepsTypes, WriterMoves DEF Section, lockVars
  <1> QED  BY <1>1, <1>2, <1>3 DEF tryCreateLock

LEMMA StatKeeps ==
  ASSUME FileInv, NEW e \in Edits, statLock(e)
  PROVE  FileInv'
  <1>0. WriterTypeOK /\ UNCHANGED <<file, handVars, overwritten, lockVars>>
    BY DEF FileInv, statLock
  <1>1. CASE \E at \in {"relock", "break"} : become(e, at) /\ UNCHANGED base
    BY <1>0, <1>1, BecomeKeepsTypes, WriterMoves DEF Section
  <1>2. CASE leave(e)
    BY <1>0, <1>2, LeaveKeepsTypes, WriterMoves DEF Section
  <1> QED  BY <1>1, <1>2 DEF statLock

(* The lock goes: whoever it belonged to in the section is robbed. *)
LEMMA LockGoesKeeps ==
  ASSUME FileInv, NEW e \in Edits, NEW at \in {"relock", "over"}, lockGoes(e), become(e, at),
         WriterTypeOK', \A d \in Edits \ {e} : base'[d] = base[d],
         UNCHANGED <<file, handVars, overwritten>>
  PROVE  FileInv'
  <1>1. \A d \in Edits : pc'[d] = IF d = e THEN at ELSE pc[d]
    BY DEF become, FileInv, WriterTypeOK
  <1>2. robbed \subseteq robbed' /\ lock' = NoLock
    BY DEF lockGoes
  <1>3. FileShapeOK' /\ LockTypeOK' /\ HistoryTypeOK'
    BY DEF handVars, FileInv, lockGoes, FileShapeOK, LockTypeOK, HistoryTypeOK
  <1>4. LockInv'
    BY <1>1 DEF FileInv, LockInv, lockGoes, Section
  <1>5. EditInv'
    BY <1>1, <1>2 DEF handVars, FileInv, EditInv, policyOf
  <1>6. KeyInv' /\ EditsStand'
    BY <1>2 DEF handVars, FileInv, KeyInv, EditsStand
  <1> QED  BY <1>3, <1>4, <1>5, <1>6 DEF FileInv

LEMMA BreakKeeps ==
  ASSUME FileInv, NEW e \in Edits, breakStaleLock(e)
  PROVE  FileInv'
  BY BecomeKeepsTypes, LockGoesKeeps DEF FileInv, breakStaleLock

LEMMA RemoveKeeps ==
  ASSUME FileInv, NEW e \in Edits, removeLock(e)
  PROVE  FileInv'
  <1>0. /\ WriterTypeOK /\ leave(e) /\ UNCHANGED <<file, handVars, overwritten>>
    BY DEF FileInv, removeLock
  <1>1. CASE lockGoes(e)
    BY <1>0, <1>1, LeaveKeepsTypes, LockGoesKeeps
  <1>2. CASE UNCHANGED lockVars
    BY <1>0, <1>2, LeaveKeepsTypes, WriterMoves DEF Section
  <1> QED  BY <1>1, <1>2 DEF removeLock

(* The compare: what the writer goes on with is what is there. *)
LEMMA CompareKeeps ==
  ASSUME FileInv, NEW e \in Edits, writeUnderLock(e)
  PROVE  FileInv'
  <1>0. /\ WriterTypeOK /\ pc[e] \in Section
        /\ UNCHANGED <<file, base, handVars, overwritten, lockVars>>
    BY DEF FileInv, writeUnderLock, Section
  <1>1. CASE policyOf(file) = base[e] /\ become(e, "write")
    BY <1>0, <1>1, BecomeKeepsTypes, WriterMoves DEF Section
  <1>2. CASE become(e, "unlock")
    BY <1>0, <1>2, BecomeKeepsTypes, WriterMoves DEF Section
  <1> QED  BY <1>1, <1>2 DEF writeUnderLock

(* The swap.  A writer that was not robbed replaces what it compared, and  *)
(* it holds the lock: every other in the section was robbed.               *)
LEMMA ReplaceKeeps ==
  ASSUME FileInv, NEW e \in Edits, replaceAtomically(e)
  PROVE  FileInv'
  <1> DEFINE doc == base[e].doc \cup {e}
  <1>0. /\ FileShapeOK /\ LockTypeOK /\ WriterTypeOK /\ KeyInv
        /\ pc[e] = "write" /\ pc[e] \in Section /\ doc \in SUBSET Edits
        /\ become(e, "unlock") /\ UNCHANGED <<base, handVars, lockVars>>
    BY DEF FileInv, replaceAtomically, Section, WriterTypeOK
  <1>1. /\ replaced("valid", doc, e)
        /\ overwritten' = IF policyOf(file) = base[e] THEN overwritten
                          ELSE overwritten \cup {<<file.by, e>>}
    BY DEF replaceAtomically
  <1>2. FileShapeOK' /\ KeyInv' /\ file'.doc = doc /\ file'.by = e
    BY <1>0, <1>1, ReplacedShape
  <1>3. \A d \in Edits : pc'[d] = IF d = e THEN "unlock" ELSE pc[d]
    BY <1>0 DEF become, WriterTypeOK
  <1>4. /\ policyOf(file) # base[e] => file.by \in robbed \/ e \in robbed \/ e \in raced
        /\ file.by \in Edits \cup {Operator}
    BY <1>0 DEF FileInv, EditInv, FileShapeOK
  <1> HIDE DEF doc
  <1>5. EditsStand' /\ HistoryTypeOK'
    BY <1>0, <1>1, <1>4 DEF FileInv, HistoryTypeOK, EditsStand, lockVars, handVars
  <1>6. LockTypeOK' /\ WriterTypeOK'
    BY <1>0, BecomeKeepsTypes DEF LockTypeOK, lockVars, Section
  <1>7. LockInv'
    BY <1>0, <1>3 DEF FileInv, LockInv, lockVars
  <1>8. \A d \in Edits \ {e} : pc[d] \in Section /\ d \notin robbed => e \in robbed
    BY <1>0 DEF FileInv, LockInv
  <1>9. EditInv'
    BY <1>0, <1>2, <1>3, <1>8 DEF EditInv, Section, lockVars
  <1> QED  BY <1>2, <1>5, <1>6, <1>7, <1>9 DEF FileInv

LEMMA FailKeeps ==
  ASSUME FileInv, NEW e \in Edits, ioFails(e) \/ Crash(e)
  PROVE  FileInv'
  <1>0. WriterTypeOK /\ UNCHANGED <<file, handVars, overwritten, lockVars>>
    BY DEF FileInv, ioFails, Crash
  <1>1. CASE leave(e)
    BY <1>0, <1>1, LeaveKeepsTypes, WriterMoves DEF Section
  <1>2. CASE pc[e] \in {"read", "write"} /\ become(e, "unlock") /\ UNCHANGED base
    BY <1>0, <1>2, BecomeKeepsTypes, WriterMoves DEF Section
  <1> QED  BY <1>1, <1>2 DEF ioFails, Crash

LEMMA ByHandKeeps ==
  ASSUME FileInv, ByHand
  PROVE  FileInv'
  <1>0. /\ FileShapeOK /\ LockTypeOK /\ WriterTypeOK /\ KeyInv
        /\ HistoryTypeOK' /\ UNCHANGED <<pc, base, overwritten, lockVars>>
    BY DEF FileInv, HistoryTypeOK, ByHand
  <1>1. PICK is \in {"valid", "missing", "broken"}, doc \in SUBSET Edits : replaced(is, doc, Operator)
    BY DEF ByHand
  <1>2. FileShapeOK' /\ KeyInv' /\ raced' = raced \cup {e \in Edits : pc[e] = "write"}
    BY <1>0, <1>1, ReplacedShape DEF ByHand
  <1>3. LockTypeOK' /\ WriterTypeOK'
    BY <1>0 DEF LockTypeOK, WriterTypeOK, lockVars
  <1>4. LockInv' /\ EditInv' /\ EditsStand'
    BY <1>0, <1>2 DEF FileInv, LockInv, EditInv, EditsStand, lockVars
  <1> QED  BY <1>0, <1>2, <1>3, <1>4 DEF FileInv

LEMMA IdleFileKeeps ==
  ASSUME FileInv, UNCHANGED <<file, lock, pc, base, handVars, robbed, overwritten>>,
         isStale' \in BOOLEAN
  PROVE  FileInv'
  BY DEF handVars, FileInv, FileShapeOK, LockTypeOK, WriterTypeOK, HistoryTypeOK, LockInv, EditInv,
         EditsStand, KeyInv, policyOf

LEMMA FileStepKeeps ==
  ASSUME FileInv, [FileNext]_fileVars
  PROVE  FileInv'
  <1>1. ASSUME NEW e \in Edits, Writer(e) PROVE FileInv'
    BY <1>1, ReadKeeps, CreateKeeps, StatKeeps, BreakKeeps, CompareKeeps, ReplaceKeeps, RemoveKeeps,
       FailKeeps DEF Writer
  <1>2. CASE Age
    BY <1>2, IdleFileKeeps DEF Age
  <1>3. CASE UNCHANGED fileVars
    BY <1>3, IdleFileKeeps DEF fileVars, FileInv, LockTypeOK
  <1> QED  BY <1>1, <1>2, <1>3, ByHandKeeps DEF FileNext

LEMMA FileInitInv == FileInit => FileInv
  <1> SUFFICES ASSUME FileInit PROVE FileInv
    OBVIOUS
  <1>1. FileShapeOK
    <2>1. file \in [is : {"valid", "missing"}, doc : {{}}, by : {Operator}, key : {0}, gen : {0},
                    isTwin : {FALSE}, wasValid : BOOLEAN]
      BY DEF FileInit
    <2>2. /\ file = [is |-> file.is, doc |-> file.doc, by |-> file.by, key |-> file.key,
                     gen |-> file.gen, isTwin |-> file.isTwin, wasValid |-> file.wasValid]
          /\ file.is \in {"valid", "missing"} /\ file.doc = {} /\ file.by = Operator
          /\ file.key = 0 /\ file.gen = 0 /\ file.isTwin \in BOOLEAN /\ file.wasValid \in BOOLEAN
      BY <2>1
    <2> QED  BY <2>2 DEF FileShapeOK
  <1>2. WriterTypeOK
    BY DEF FileInit, WriterTypeOK, NoPolicy
  <1>3. LockTypeOK /\ HistoryTypeOK
    BY Zenon DEF FileInit, LockTypeOK, HistoryTypeOK
  <1>4. LockInv /\ EditsStand
    BY DEF FileInit, LockInv, EditsStand, Section
  <1>5. EditInv /\ KeyInv
    BY DEF FileInit, EditInv, KeyInv
  <1> QED  BY <1>1, <1>2, <1>3, <1>4, <1>5 DEF FileInv

-----------------------------------------------------------------------------
(* The steps of the proxy.  Each leaves the file as it is. *)

LEMMA VersionType ==
  ASSUME FileShapeOK
  PROVE  versionOf(file) \in Versions /\ NotAhead(versionOf(file))
  BY DEF FileShapeOK, versionOf, Versions, NotAhead

(* What a result makes of the policy in force. *)
LEMMA ApplyShape ==
  ASSUME ReloadTypeOK, NEW f, applyResult(f),
         f.is \in {"valid", "missing", "broken"}, f.doc \in SUBSET Edits, f.gen \in Nat
  PROVE  /\ failing' \in BOOLEAN /\ (~ failing' <=> f.is = "valid")
         /\ current' \in [doc : SUBSET Edits, gen : Nat]
         /\ f.is = "valid" => current'.doc = f.doc
         /\ current'.gen \in {current.gen, f.gen}
  <1>1. failing' = (f.is # "valid")
    BY DEF applyResult
  <1>2. current' = IF f.is = "valid" /\ f.doc # current.doc THEN [doc |-> f.doc, gen |-> f.gen] ELSE current
    BY DEF applyResult
  <1>3. current \in [doc : SUBSET Edits, gen : Nat]
    BY DEF ReloadTypeOK
  <1> QED  BY <1>1, <1>2, <1>3

(* A step of the proxy is one step forward. *)
Forward == current'.gen >= current.gen /\ (bound => bound')

LEMMA CheckKeeps ==
  ASSUME ReloadInv, UNCHANGED fileVars, checkBoundFileSync
  PROVE  ReloadInv' /\ Forward
  <1>0. /\ FileInv' /\ FileShapeOK /\ UNCHANGED file /\ ReloadTypeOK
        /\ versionOf(file) \in Versions /\ NotAhead(versionOf(file))
    BY FileStepKeeps, VersionType DEF ReloadInv, FileInv, fileVars
  <1>1. /\ bound /\ sync = "idle" /\ checked' = TRUE /\ stale' = (async # "none")
        /\ UNCHANGED <<bound, current, async, saw, got>>
    BY DEF checkBoundFileSync
  <1>2. ReloadTypeOK'
    BY <1>0, <1>1 DEF checkBoundFileSync, ReloadTypeOK
  <1>3. TurnInv'
    BY <1>0, <1>1 DEF ReloadInv, TurnInv
  <1>4. SeenInv'
    BY <1>0, <1>1 DEF ReloadInv, SeenInv, checkBoundFileSync, NotAhead, versionOf
  <1>5. OrderInv' /\ Forward
    BY <1>0, <1>1 DEF ReloadInv, OrderInv, TurnInv, Forward, ReloadTypeOK
  <1>6. FreshInv'
    BY <1>0, <1>1 DEF ReloadInv, FreshInv
  <1>7. SeesTheEdit'
    BY <1>0, <1>1 DEF ReloadInv, SeesTheEdit, inForce, SeenInv, checkBoundFileSync, shouldRead, versionOf
  <1> QED  BY <1>0, <1>2, <1>3, <1>4, <1>5, <1>6, <1>7 DEF ReloadInv
(* The read that follows: what is there is in force, or known to be broken. *)
LEMMA ReadSyncKeeps ==
  ASSUME ReloadInv, UNCHANGED fileVars, readFileSync
  PROVE  ReloadInv' /\ Forward
  <1>0. /\ FileInv' /\ FileShapeOK /\ UNCHANGED file /\ ReloadTypeOK
        /\ versionOf(file) \in Versions /\ NotAhead(versionOf(file))
    BY FileStepKeeps, VersionType DEF ReloadInv, FileInv, fileVars
  <1>1. /\ bound /\ sync = "read" /\ sync' = "idle" /\ applyResult(file)
        /\ UNCHANGED <<bound, lastSeen, async, saw, got, stale, checked>>
    BY DEF readFileSync, asyncVars
  <1>a. /\ failing' \in BOOLEAN /\ (~ failing' <=> file.is = "valid")
        /\ current' \in [doc : SUBSET Edits, gen : Nat]
        /\ file.is = "valid" => current'.doc = file.doc
        /\ current'.gen \in {current.gen, file.gen}
    BY <1>0, <1>1, ApplyShape DEF FileShapeOK
  <1>2. ReloadTypeOK'
    BY <1>0, <1>1, <1>a DEF ReloadTypeOK
  <1>3. TurnInv'
    BY <1>0, <1>1 DEF ReloadInv, TurnInv
  <1>4. SeenInv'
    BY <1>0, <1>1, <1>a DEF ReloadInv, SeenInv, NotAhead, FileInv, KeyInv
  <1>5. OrderInv' /\ Forward
    BY <1>0, <1>1, <1>a DEF ReloadInv, OrderInv, TurnInv, Forward, ReloadTypeOK, FileShapeOK
  <1>6. FreshInv'
    BY <1>0, <1>1, <1>a DEF ReloadInv, FreshInv
  <1>7. SeesTheEdit'
    BY <1>0, <1>1, <1>a DEF SeesTheEdit, inForce
  <1> QED  BY <1>0, <1>2, <1>3, <1>4, <1>5, <1>6, <1>7 DEF ReloadInv

(* The wait for a first policy: nothing was seen before it is bound. *)
LEMMA FirstKeeps ==
  ASSUME ReloadInv, UNCHANGED fileVars, firstExistingSync
  PROVE  ReloadInv' /\ Forward
  <1>0. /\ FileInv' /\ FileShapeOK /\ UNCHANGED file /\ ReloadTypeOK
        /\ versionOf(file) \in Versions /\ NotAhead(versionOf(file))
    BY FileStepKeeps, VersionType DEF ReloadInv, FileInv, fileVars
  <1>1. /\ ~ bound /\ sync = "idle" /\ checked' = TRUE
        /\ sync' = IF file.is = "missing" THEN "idle" ELSE "read"
        /\ UNCHANGED <<bound, current, lastSeen, failing, async, saw, got, stale>>
    BY DEF firstExistingSync, asyncVars
  <1>2. ReloadTypeOK'
    BY <1>0, <1>1 DEF ReloadTypeOK
  <1>3. TurnInv'
    BY <1>0, <1>1 DEF ReloadInv, TurnInv
  <1>4. SeenInv'
    BY <1>0, <1>1 DEF ReloadInv, SeenInv, NotAhead
  <1>5. OrderInv' /\ Forward
    BY <1>0, <1>1 DEF ReloadInv, OrderInv, Forward, ReloadTypeOK
  <1>6. FreshInv'
    BY <1>0, <1>1 DEF ReloadInv, FreshInv, TurnInv
  <1>7. SeesTheEdit'
    BY <1>0, <1>1 DEF SeesTheEdit, inForce
  <1> QED  BY <1>0, <1>2, <1>3, <1>4, <1>5, <1>6, <1>7 DEF ReloadInv

LEMMA AdoptKeeps ==
  ASSUME ReloadInv, UNCHANGED fileVars, adopt
  PROVE  ReloadInv' /\ Forward
  <1>0. /\ FileInv' /\ FileShapeOK /\ UNCHANGED file /\ ReloadTypeOK
        /\ versionOf(file) \in Versions /\ NotAhead(versionOf(file))
    BY FileStepKeeps, VersionType DEF ReloadInv, FileInv, fileVars
  <1>1. /\ ~ bound /\ sync = "read" /\ sync' = "idle" /\ bound' = (file.is = "valid")
        /\ current' = (IF file.is = "valid" THEN [doc |-> file.doc, gen |-> file.gen] ELSE current)
        /\ UNCHANGED <<lastSeen, failing, async, saw, got, stale, checked>>
    BY DEF adopt, asyncVars
  <1>2. ReloadTypeOK'
    BY <1>0, <1>1 DEF ReloadTypeOK, FileShapeOK
  <1>3. TurnInv'
    BY <1>0, <1>1 DEF ReloadInv, TurnInv
  <1>4. SeenInv'
    BY <1>0, <1>1 DEF ReloadInv, SeenInv, NotAhead, TurnInv, Unseen
  <1>5. OrderInv' /\ Forward
    BY <1>0, <1>1 DEF ReloadInv, OrderInv, TurnInv, Forward, ReloadTypeOK, FileShapeOK
  <1>6. FreshInv'
    BY <1>0, <1>1 DEF ReloadInv, FreshInv, TurnInv
  <1>7. SeesTheEdit'
    BY <1>0, <1>1 DEF SeesTheEdit, inForce
  <1> QED  BY <1>0, <1>2, <1>3, <1>4, <1>5, <1>6, <1>7 DEF ReloadInv

(* The asynchronous check. *)
LEMMA RefreshKeeps ==
  ASSUME ReloadInv, UNCHANGED fileVars, refresh
  PROVE  ReloadInv' /\ Forward
  <1>0. /\ FileInv' /\ FileShapeOK /\ UNCHANGED file /\ ReloadTypeOK
        /\ versionOf(file) \in Versions /\ NotAhead(versionOf(file))
    BY FileStepKeeps, VersionType DEF ReloadInv, FileInv, fileVars
  <1>1. /\ bound /\ sync = "idle" /\ async = "none" /\ async' = "stat"
        /\ UNCHANGED <<bound, current, lastSeen, failing, sync, saw, got, stale, checked>>
    BY DEF refresh
  <1>2. ReloadTypeOK'
    BY <1>0, <1>1 DEF ReloadTypeOK
  <1>3. TurnInv'
    BY <1>0, <1>1 DEF ReloadInv, TurnInv
  <1>4. SeenInv'
    BY <1>0, <1>1 DEF ReloadInv, SeenInv, NotAhead
  <1>5. OrderInv' /\ Forward
    BY <1>0, <1>1 DEF ReloadInv, OrderInv, Forward, ReloadTypeOK
  <1>6. FreshInv'
    BY <1>0, <1>1 DEF ReloadInv, FreshInv
  <1>7. SeesTheEdit'
    BY <1>0, <1>1 DEF ReloadInv, SeesTheEdit, inForce
  <1> QED  BY <1>0, <1>2, <1>3, <1>4, <1>5, <1>6, <1>7 DEF ReloadInv

LEMMA StatAsyncKeeps ==
  ASSUME ReloadInv, UNCHANGED fileVars, asyncStat
  PROVE  ReloadInv' /\ Forward
  <1>0. /\ FileInv' /\ FileShapeOK /\ UNCHANGED file /\ ReloadTypeOK
        /\ versionOf(file) \in Versions /\ NotAhead(versionOf(file))
    BY FileStepKeeps, VersionType DEF ReloadInv, FileInv, fileVars
  <1>1. /\ async = "stat" /\ async' = "see" /\ saw' = versionOf(file)
        /\ UNCHANGED <<bound, current, lastSeen, failing, sync, got, stale, checked>>
    BY DEF asyncStat
  <1>2. ReloadTypeOK'
    BY <1>0, <1>1 DEF ReloadTypeOK
  <1>3. TurnInv'
    BY <1>0, <1>1 DEF ReloadInv, TurnInv
  <1>4. SeenInv'
    BY <1>0, <1>1 DEF ReloadInv, SeenInv, NotAhead
  <1>5. OrderInv' /\ Forward
    BY <1>0, <1>1 DEF ReloadInv, OrderInv, Forward, ReloadTypeOK
  <1>6. FreshInv'
    BY <1>0, <1>1 DEF ReloadInv, FreshInv
  <1>7. SeesTheEdit'
    BY <1>0, <1>1 DEF ReloadInv, SeesTheEdit, inForce
  <1> QED  BY <1>0, <1>2, <1>3, <1>4, <1>5, <1>6, <1>7 DEF ReloadInv

LEMMA LoadKeeps ==
  ASSUME ReloadInv, UNCHANGED fileVars, loadPolicy
  PROVE  ReloadInv' /\ Forward
  <1>0. /\ FileInv' /\ FileShapeOK /\ UNCHANGED file /\ ReloadTypeOK
        /\ versionOf(file) \in Versions /\ NotAhead(versionOf(file))
    BY FileStepKeeps, VersionType DEF ReloadInv, FileInv, fileVars
  <1>1. /\ async = "load" /\ async' = "apply"
        /\ got' = [is |-> file.is, doc |-> file.doc, gen |-> file.gen]
        /\ UNCHANGED <<bound, current, lastSeen, failing, sync, saw, stale, checked>>
    BY DEF loadPolicy
  <1>2. ReloadTypeOK'
    BY <1>0, <1>1 DEF ReloadTypeOK, FileShapeOK
  <1>3. TurnInv'
    BY <1>0, <1>1 DEF ReloadInv, TurnInv
  <1>4. SeenInv'
    BY <1>0, <1>1 DEF ReloadInv, SeenInv, NotAhead, FileInv, KeyInv
  <1>5. OrderInv' /\ Forward
    BY <1>0, <1>1 DEF ReloadInv, OrderInv, Forward, ReloadTypeOK, FileShapeOK
  <1>6. FreshInv'
    BY <1>0, <1>1 DEF ReloadInv, FreshInv
  <1>7. SeesTheEdit'
    BY <1>0, <1>1 DEF ReloadInv, SeesTheEdit, inForce
  <1> QED  BY <1>0, <1>2, <1>3, <1>4, <1>5, <1>6, <1>7 DEF ReloadInv

(* What the end of a refresh leaves behind. *)
LEMMA SettledRefresh ==
  ASSUME settleRefresh
  PROVE  /\ async' = "none" /\ stale' = FALSE /\ saw' \in Versions /\ NotAhead(saw)'
         /\ got' = NoFile /\ got' \in [is : {"valid", "missing", "broken"}, doc : SUBSET Edits, gen : Nat]
         /\ got'.gen = 0
  BY DEF settleRefresh, Unseen, Versions, NotAhead, NoFile

LEMMA ObserveKeeps ==
  ASSUME ReloadInv, UNCHANGED fileVars, observeVersion
  PROVE  ReloadInv' /\ Forward
  <1>0. /\ FileInv' /\ FileShapeOK /\ UNCHANGED file /\ ReloadTypeOK
    BY FileStepKeeps DEF ReloadInv, FileInv, fileVars
  <1>1. /\ async = "see" /\ sync = "idle" /\ UNCHANGED <<bound, current, sync, checked>>
    BY DEF observeVersion
  <1>2. \/ settleRefresh /\ UNCHANGED <<lastSeen, failing>>
        \/ settleRefresh /\ lastSeen' = <<"absent", 0>> /\ failing' = TRUE
        \/ async' = "load" /\ UNCHANGED <<lastSeen, failing, saw, got, stale>>
    BY DEF observeVersion
  <1>3. TurnInv'
    BY <1>0, <1>1, <1>2, SettledRefresh DEF ReloadInv, TurnInv
  <1>4. FreshInv'
    BY <1>0, <1>1, <1>2, SettledRefresh DEF ReloadInv, FreshInv
  <1>5. SeesTheEdit'
    BY <1>0, <1>1 DEF ReloadInv, SeesTheEdit, inForce
  <1>6. CASE settleRefresh
    <2>1. \/ UNCHANGED <<lastSeen, failing>>
          \/ lastSeen' = <<"absent", 0>> /\ failing' = TRUE
      BY <1>2
    <2>2. ReloadTypeOK'
      <3>1. lastSeen' \in Versions
        BY <1>0, <2>1 DEF ReloadTypeOK, Versions
      <3>2. failing' \in BOOLEAN
        BY <1>0, <2>1 DEF ReloadTypeOK
      <3> QED  BY <1>0, <1>1, <1>6, <3>1, <3>2, SettledRefresh DEF ReloadTypeOK
    <2>3. SeenInv'
      BY <1>0, <1>1, <1>6, <2>1, SettledRefresh DEF ReloadInv, SeenInv, NotAhead
    <2>4. OrderInv' /\ Forward
      BY <1>0, <1>1, <1>6, SettledRefresh DEF ReloadInv, OrderInv, Forward, ReloadTypeOK, FileShapeOK
    <2> QED  BY <1>0, <1>3, <1>4, <1>5, <2>2, <2>3, <2>4 DEF ReloadInv
  <1>7. CASE async' = "load" /\ UNCHANGED <<lastSeen, failing, saw, got, stale>>
    <2>1. ReloadTypeOK'
      BY <1>0, <1>1, <1>7 DEF ReloadTypeOK
    <2>2. SeenInv'
      BY <1>0, <1>1, <1>7 DEF ReloadInv, SeenInv, NotAhead
    <2>3. OrderInv' /\ Forward
      BY <1>0, <1>1, <1>7 DEF ReloadInv, OrderInv, Forward, ReloadTypeOK
    <2> QED  BY <1>0, <1>3, <1>4, <1>5, <2>1, <2>2, <2>3 DEF ReloadInv
  <1> QED  BY <1>2, <1>6, <1>7

(* A late read is applied only if the synchronous check saw nothing since  *)
(* it was asked for: it is then as new as what is in force, and if there   *)
(* was a check at all since the last change, the read is of that change.   *)
LEMMA LateReadKeeps ==
  ASSUME ReloadInv, UNCHANGED fileVars, checkBoundFile
  PROVE  ReloadInv' /\ Forward
  <1>0. /\ FileInv' /\ FileShapeOK /\ UNCHANGED file /\ ReloadTypeOK /\ bound
    BY FileStepKeeps DEF ReloadInv, FileInv, fileVars, TurnInv, checkBoundFile
  <1>1. /\ async = "apply" /\ sync = "idle" /\ settleRefresh /\ UNCHANGED <<bound, sync, checked>>
    BY DEF checkBoundFile
  <1>2. CASE UNCHANGED <<lastSeen, failing, current>>
    <2>1. ReloadTypeOK'
      BY <1>0, <1>1, <1>2, SettledRefresh DEF ReloadTypeOK
    <2>2. TurnInv'
      BY <1>0, <1>1, <1>2, SettledRefresh DEF ReloadInv, TurnInv
    <2>3. SeenInv'
      BY <1>0, <1>1, <1>2, SettledRefresh DEF ReloadInv, SeenInv, NotAhead
    <2>4. OrderInv' /\ Forward
      BY <1>0, <1>1, <1>2, SettledRefresh DEF ReloadInv, OrderInv, Forward, ReloadTypeOK, FileShapeOK
    <2>5. FreshInv' /\ SeesTheEdit'
      BY <1>0, <1>1, <1>2, SettledRefresh DEF ReloadInv, FreshInv, SeesTheEdit, inForce
    <2> QED  BY <1>0, <2>1, <2>2, <2>3, <2>4, <2>5 DEF ReloadInv
  <1>3. CASE ~ stale /\ lastSeen' = saw /\ applyResult(got)
    <2>1. /\ failing' \in BOOLEAN /\ (~ failing' <=> got.is = "valid")
          /\ current' \in [doc : SUBSET Edits, gen : Nat]
          /\ got.is = "valid" => current'.doc = got.doc
          /\ current'.gen \in {current.gen, got.gen}
      BY <1>0, <1>3, ApplyShape DEF ReloadTypeOK
    <2>2. ReloadTypeOK'
      BY <1>0, <1>1, <1>3, <2>1, SettledRefresh DEF ReloadTypeOK
    <2>3. TurnInv'
      BY <1>0, <1>1, <1>3, SettledRefresh DEF ReloadInv, TurnInv
    <2>4. SeenInv'
      BY <1>0, <1>1, <1>3, <2>1, SettledRefresh DEF ReloadInv, SeenInv, NotAhead
    <2>5. OrderInv' /\ Forward
      BY <1>0, <1>1, <1>3, <2>1, SettledRefresh
         DEF ReloadInv, OrderInv, Forward, ReloadTypeOK, FileShapeOK
    <2>6. FreshInv'
      BY <1>0, <1>1, <1>3, SettledRefresh DEF ReloadInv, FreshInv
    <2>7. SeesTheEdit'
      BY <1>0, <1>1, <1>3, <2>1 DEF ReloadInv, FreshInv, SeesTheEdit, inForce
    <2> QED  BY <1>0, <2>2, <2>3, <2>4, <2>5, <2>6, <2>7 DEF ReloadInv
  <1> QED  BY <1>2, <1>3 DEF checkBoundFile

-----------------------------------------------------------------------------
(* The file changes under the proxy: by a key nothing was seen under, or   *)
(* by one whose content, if valid, is a twin of what was seen.             *)
LEMMA FileMoves ==
  ASSUME FileInv, FileNext
  PROVE  \/ UNCHANGED file
         \/ /\ file'.gen = file.gen + 1
            /\ \/ file'.key = file.gen + 1
               \/ file'.key = file.key /\ (file.wasValid => file'.wasValid /\ file'.isTwin)
  <1>0. FileShapeOK /\ KeyInv /\ WriterTypeOK
    BY DEF FileInv
  <1>1. ASSUME NEW e \in Edits, replaceAtomically(e)
        PROVE  \E is \in {"valid", "missing", "broken"}, doc \in SUBSET Edits,
                  by \in Edits \cup {Operator} : replaced(is, doc, by)
    <2>1. base[e].doc \cup {e} \in SUBSET Edits
      BY <1>0 DEF WriterTypeOK
    <2> QED  BY <1>1, <2>1 DEF replaceAtomically
  <1>2. ASSUME ByHand
        PROVE  \E is \in {"valid", "missing", "broken"}, doc \in SUBSET Edits,
                  by \in Edits \cup {Operator} : replaced(is, doc, by)
    BY <1>2 DEF ByHand
  <1>3. CASE \E is \in {"valid", "missing", "broken"}, doc \in SUBSET Edits,
                by \in Edits \cup {Operator} : replaced(is, doc, by)
    BY <1>0, <1>3, ReplacedShape
  <1>4. CASE UNCHANGED file
    BY <1>4
  <1>5. CASE Age
    BY <1>5 DEF Age
  <1>6. ASSUME NEW e \in Edits, Writer(e), ~ replaceAtomically(e)
        PROVE  UNCHANGED file
    BY <1>6 DEF Writer, readPolicyFileForEdit, tryCreateLock, statLock, breakStaleLock, writeUnderLock,
                removeLock, ioFails, Crash
  <1> QED  BY <1>1, <1>2, <1>3, <1>4, <1>5, <1>6 DEF FileNext

LEMMA FileUnderProxyKeeps ==
  ASSUME ReloadInv, FileStep
  PROVE  ReloadInv' /\ Forward
  <1>0. /\ FileInv /\ FileInv' /\ FileShapeOK /\ FileShapeOK' /\ KeyInv /\ ReloadTypeOK
    BY FileStepKeeps DEF ReloadInv, FileInv, FileStep
  <1>1. /\ checked' = (checked /\ UNCHANGED file)
        /\ UNCHANGED <<bound, current, lastSeen, failing, sync, async, saw, got, stale>>
    BY DEF FileStep, asyncVars
  <1>2. CASE UNCHANGED file
    <2>1. checked' = checked
      BY <1>0, <1>1, <1>2 DEF ReloadTypeOK
    <2> QED  BY <1>0, <1>1, <1>2, <2>1 DEF ReloadInv, ReloadTypeOK, TurnInv, SeenInv, NotAhead, OrderInv, FreshInv,
         SeesTheEdit, inForce, Forward
  <1>3. CASE /\ file'.gen = file.gen + 1
             /\ \/ file'.key = file.gen + 1
                \/ file'.key = file.key /\ (file.wasValid => file'.wasValid /\ file'.isTwin)
    <2>1. checked' = FALSE
      <3>1. file.gen \in Nat
        BY <1>0 DEF FileShapeOK
      <3>2. file' # file
        BY <1>3, <3>1
      <3> QED  BY <1>1, <3>2
    <2>2. ReloadTypeOK' /\ TurnInv'
      BY <1>0, <1>1, <2>1 DEF ReloadInv, ReloadTypeOK, TurnInv
    <2>3. SeenInv'
      BY <1>0, <1>1, <1>3 DEF ReloadInv, SeenInv, NotAhead, ReloadTypeOK, Versions, FileShapeOK, KeyInv
    <2>4. OrderInv' /\ Forward
      BY <1>0, <1>1, <1>3 DEF ReloadInv, OrderInv, Forward, ReloadTypeOK, FileShapeOK
    <2>5. FreshInv' /\ SeesTheEdit'
      BY <2>1 DEF FreshInv, SeesTheEdit
    <2> QED  BY <1>0, <2>2, <2>3, <2>4, <2>5 DEF ReloadInv
  <1> QED  BY <1>0, <1>2, <1>3, FileMoves DEF FileStep

LEMMA ReloadStepKeeps ==
  ASSUME ReloadInv, [Next]_vars
  PROVE  ReloadInv' /\ (Forward \/ UNCHANGED vars)
  <1>1. CASE FileStep
    BY <1>1, FileUnderProxyKeeps
  <1>2. CASE Check /\ UNCHANGED fileVars
    BY <1>2, CheckKeeps, ReadSyncKeeps, FirstKeeps, AdoptKeeps DEF Check
  <1>3. CASE (refresh \/ Refreshing) /\ UNCHANGED fileVars
    BY <1>3, RefreshKeeps, StatAsyncKeeps, LoadKeeps, ObserveKeeps, LateReadKeeps DEF Refreshing
  <1>4. CASE UNCHANGED vars
    <2>1. FileInv' /\ UNCHANGED <<file, reloadVars>>
      BY <1>4, FileStepKeeps DEF ReloadInv, vars, fileVars
    <2> QED  BY <1>4, <2>1 DEF ReloadInv, reloadVars, asyncVars, ReloadTypeOK, TurnInv, SeenInv, NotAhead, OrderInv,
         FreshInv, SeesTheEdit, inForce
  <1> QED  BY <1>1, <1>2, <1>3, <1>4 DEF Next

LEMMA ReloadInitInv == Init => ReloadInv
  <1> SUFFICES ASSUME Init PROVE ReloadInv
    OBVIOUS
  <1>1. FileInv
    BY FileInitInv DEF Init
  <1>2. file.gen \in Nat
    BY <1>1 DEF FileInv, FileShapeOK
  <1>3. bound \in BOOLEAN
    BY DEF Init
  <1>4. ReloadTypeOK
    BY <1>3 DEF Init, ReloadTypeOK, Unseen, Versions, NoFile
  <1>5. TurnInv /\ FreshInv /\ SeesTheEdit
    BY DEF Init, TurnInv, FreshInv, SeesTheEdit
  <1>6. SeenInv /\ OrderInv
    BY <1>2 DEF Init, SeenInv, OrderInv, NotAhead, Unseen, NoFile
  <1> QED  BY <1>1, <1>4, <1>5, <1>6 DEF ReloadInv

-----------------------------------------------------------------------------
(* The inductive invariant of the policy file, whoever else runs beside    *)
(* its writers.                                                            *)
THEOREM FileInvariant == FileSpec => []FileInv
  BY FileInitInv, FileStepKeeps, PTL DEF FileSpec

(* And of the file together with the proxy that follows it. *)
THEOREM ReloadInvariant == Spec => []ReloadInv
  <1>1. ReloadInv /\ [Next]_vars => ReloadInv'
    BY ReloadStepKeeps
  <1> QED  BY <1>1, ReloadInitInv, PTL DEF Spec

(* The file, its lock and its writers keep their shapes. *)
THEOREM PolicyTypeCorrect == Spec => []FileTypeOK
  <1>1. ReloadInv => FileTypeOK
    BY DEF ReloadInv, FileInv, FileTypeOK, FileShapeOK, LockTypeOK, WriterTypeOK, HistoryTypeOK
  <1> QED  BY <1>1, ReloadInvariant, PTL

(* policy-file.ts writeUnderLock: a write replaces the policy that was     *)
(* edited and no other, however many edits there are, whatever is written  *)
(* by hand and however long a write lasts, except where a writer's lock    *)
(* was taken from it or the file changed by hand after the compare.        *)
THEOREM EditsAreKept == Spec => []EditsStand
  <1>1. ReloadInv => EditsStand  BY DEF ReloadInv, FileInv
  <1> QED  BY <1>1, ReloadInvariant, PTL

(* reload.ts:48: once a check has begun after an edit and is over, the     *)
(* edit is in force, whatever overlapping asynchronous check ends late.    *)
THEOREM NextCheckSees == Spec => []SeesTheEdit
  <1>1. ReloadInv => SeesTheEdit  BY DEF ReloadInv
  <1> QED  BY <1>1, ReloadInvariant, PTL

(* reload.ts checkBoundFile: the policy in force is never replaced by an   *)
(* older content of the file, and a bound proxy stays bound.               *)
THEOREM ReloadNeverBackwards == Spec => NeverBackwards
  <1>1. ReloadInv /\ [Next]_vars => [current'.gen >= current.gen /\ (bound => bound')]_vars
    BY ReloadStepKeeps DEF Forward
  <1> QED  BY <1>1, ReloadInvariant, PTL DEF Spec, NeverBackwards

=============================================================================
