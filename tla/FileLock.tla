------------------------------- MODULE FileLock -------------------------------
(***************************************************************************)
(* The cross-process advisory lock (lockfile.ts) and the vault update that *)
(* runs under it (withVaultLock of vault/files.ts).  A call is one         *)
(* withVaultLock; its nonce is its own, so a lockfile is known by the call *)
(* that created it.  Every await of the code is a step of its own, so that *)
(* the file may be removed, replaced or aged between any two of them.      *)
(*                                                                         *)
(* Time is counted in staleness windows: age says how many have passed     *)
(* since a lockfile was last written, up to the ForceFactor of them that   *)
(* matters.  The work under the lock is one read and one write of the      *)
(* vault; the set of updates it holds stands for its content.              *)
(***************************************************************************)
EXTENDS Integers, FiniteSets

CONSTANTS
  Calls,        \* calls of withVaultLock, of any processes
  ForceFactor,  \* FORCE_RECOVERY_STALE_FACTOR
  Foreign,      \* a lockfile that was there before them
  FirstContents \* what that lockfile may hold

NoFile == "no-file"
Nothing == "nothing"
Files == Calls \cup {Foreign}

ASSUME LockAssumption ==
  /\ ForceFactor \in Nat \ {0, 1}
  /\ Foreign \notin Calls
  /\ NoFile \notin Calls \cup {Foreign}
  /\ FirstContents \subseteq {"record", "garbage", "future"}
  /\ Calls \cap {"empty", "garbage", "future", Nothing} = {}
  /\ Foreign \notin {"empty", "garbage", "future", Nothing}

VARIABLES
  file,    \* the lockfile at the path, NoFile when there is none
  content, \* what each lockfile holds: a record, or a text that is none
  age,     \* staleness windows since it was written
  pc,      \* where a call stands
  raw,     \* the content stealIfStale read
  seen,    \* lastMtimeMs: the file and write the last attempt saw
  base,    \* the updates a call found in the vault
  store,   \* the updates the vault holds
  wrote    \* history: calls that have written the vault

vars == <<file, content, age, pc, raw, seen, base, store, wrote>>
fileVars == <<file, content, age>>
workVars == <<base, store, wrote>>

(* The text of a lockfile: a record names its nonce, and an empty file is   *)
(* like any other empty file.                                               *)
text(f) == IF content[f] = "record" THEN f ELSE content[f]

mtime(f) == <<f, content[f]>>

-----------------------------------------------------------------------------
(* acquireFileLock *)

goto(c, at) == pc' = [pc EXCEPT ![c] = at]

(* tryCreateLockFile: open with wx, the record written one await later. *)
openExclusive(c, otherwise) ==
  /\ IF file = NoFile
     THEN /\ file' = c
          /\ content' = [content EXCEPT ![c] = "empty"]
          /\ age' = [age EXCEPT ![c] = 0]
          /\ goto(c, "write-record")
     ELSE /\ goto(c, otherwise)
          /\ UNCHANGED fileVars

tryCreateLockFile(c) ==
  /\ pc[c] = "create"
  /\ openExclusive(c, "read")
  /\ UNCHANGED <<raw, seen>>
  /\ UNCHANGED workVars

writeRecord(c) ==
  /\ pc[c] = "write-record"
  /\ content' = [content EXCEPT ![c] = "record"]
  /\ age' = [age EXCEPT ![c] = 0]
  /\ goto(c, "held")
  /\ UNCHANGED <<file, raw, seen>>
  /\ UNCHANGED workVars

writeRecordFails(c) ==
  /\ pc[c] = "write-record"
  /\ goto(c, "failed")
  /\ UNCHANGED <<raw, seen>>
  /\ UNCHANGED fileVars
  /\ UNCHANGED workVars

(* stealIfStale *)
readLockFileRaw(c) ==
  /\ pc[c] = "read"
  /\ IF file = NoFile
     THEN goto(c, "recreate") /\ UNCHANGED raw
     ELSE goto(c, "stat") /\ raw' = [raw EXCEPT ![c] = text(file)]
  /\ UNCHANGED seen
  /\ UNCHANGED fileVars
  /\ UNCHANGED workVars

isRecord(t) == t \in Files \cup {"future"}
isStaleRecord(t) == t \in Files /\ age[t] >= 1

(* recoverAbandonedLock: the content is not believed, the mtime is. *)
isAbandoned(c) ==
  /\ age[file] >= (IF isRecord(raw[c]) THEN ForceFactor ELSE 1)
  /\ seen[c] = mtime(file)

lockMtime(c) ==
  /\ pc[c] = "stat"
  /\ IF file = NoFile
     THEN goto(c, "recreate") /\ UNCHANGED seen
     ELSE IF isStaleRecord(raw[c]) \/ isAbandoned(c)
     THEN goto(c, "confirm") /\ UNCHANGED seen
     ELSE goto(c, "sleep") /\ seen' = [seen EXCEPT ![c] = mtime(file)]
  /\ UNCHANGED raw
  /\ UNCHANGED fileVars
  /\ UNCHANGED workVars

(* removeAndReclaim *)
confirm(c) ==
  /\ pc[c] = "confirm"
  /\ IF file # NoFile /\ text(file) = raw[c]
     THEN goto(c, "remove") /\ UNCHANGED seen
     ELSE goto(c, "sleep") /\ seen' = [seen EXCEPT ![c] = <<>>]
  /\ UNCHANGED raw
  /\ UNCHANGED fileVars
  /\ UNCHANGED workVars

remove(c) ==
  /\ pc[c] = "remove"
  /\ file' = NoFile
  /\ goto(c, "recreate")
  /\ UNCHANGED <<content, age, raw, seen>>
  /\ UNCHANGED workVars

recreate(c) ==
  /\ pc[c] = "recreate"
  /\ openExclusive(c, "sleep")
  /\ raw' = [raw EXCEPT ![c] = Nothing]
  /\ seen' = [seen EXCEPT ![c] = <<>>]
  /\ UNCHANGED workVars

sleep_Stops(c) ==  \* mutant: a lock that is not stale yet is not looked at again
  /\ pc[c] = "sleep"
  /\ seen[c] = <<>>
  /\ goto(c, "create")
  /\ raw' = [raw EXCEPT ![c] = Nothing]
  /\ UNCHANGED seen
  /\ UNCHANGED fileVars
  /\ UNCHANGED workVars

sleep(c) ==
  /\ pc[c] = "sleep"
  /\ goto(c, "create")
  /\ raw' = [raw EXCEPT ![c] = Nothing]
  /\ UNCHANGED seen
  /\ UNCHANGED fileVars
  /\ UNCHANGED workVars

(* The deadline: withVaultLock throws VaultLockError. *)
giveUp(c) ==
  /\ pc[c] = "sleep"
  /\ goto(c, "gave-up")
  /\ UNCHANGED <<raw, seen>>
  /\ UNCHANGED fileVars
  /\ UNCHANGED workVars

-----------------------------------------------------------------------------
(* withVaultLock: the work, the check after it, the release. *)

readVault(c) ==
  /\ pc[c] = "held"
  /\ base' = [base EXCEPT ![c] = store]
  /\ goto(c, "working")
  /\ UNCHANGED <<raw, seen, store, wrote>>
  /\ UNCHANGED fileVars

writeVault(c) ==
  /\ pc[c] = "working"
  /\ store' = base[c] \cup {c}
  /\ wrote' = wrote \cup {c}
  /\ goto(c, "check")
  /\ UNCHANGED <<raw, seen, base>>
  /\ UNCHANGED fileVars

(* fn throws before its write: the error is the outcome, nothing is checked. *)
workFails(c) ==
  /\ pc[c] = "working"
  /\ goto(c, "release-failed")
  /\ UNCHANGED <<raw, seen>>
  /\ UNCHANGED fileVars
  /\ UNCHANGED workVars

ownsFileLock_AnyFile(c) == file # NoFile  \* mutant: somebody's lockfile is there

ownsFileLock(c) == file = c /\ content[c] = "record"

checkOwnership(c) ==
  /\ pc[c] = "check"
  /\ goto(c, IF ownsFileLock(c) THEN "release-ok" ELSE "release-failed")
  /\ UNCHANGED <<raw, seen>>
  /\ UNCHANGED fileVars
  /\ UNCHANGED workVars

(* releaseFileLock reads once more, and removes one await later. *)
release(c) ==
  /\ \/ /\ pc[c] = "release-ok"
        /\ goto(c, IF ownsFileLock(c) THEN "unlink-ok" ELSE "ok")
     \/ /\ pc[c] = "release-failed"
        /\ goto(c, IF ownsFileLock(c) THEN "unlink-failed" ELSE "failed")
  /\ UNCHANGED <<raw, seen>>
  /\ UNCHANGED fileVars
  /\ UNCHANGED workVars

unlink(c) ==
  /\ \/ pc[c] = "unlink-ok" /\ goto(c, "ok")
     \/ pc[c] = "unlink-failed" /\ goto(c, "failed")
  /\ file' = NoFile
  /\ UNCHANGED <<content, age, raw, seen>>
  /\ UNCHANGED workVars

-----------------------------------------------------------------------------
Over == {"ok", "failed", "gave-up", "dead"}

(* The process of a call dies; its lockfile stays. *)
Crash(c) ==
  /\ pc[c] \notin Over
  /\ goto(c, "dead")
  /\ UNCHANGED <<raw, seen>>
  /\ UNCHANGED fileVars
  /\ UNCHANGED workVars

(* A staleness window passes. *)
Tick ==
  /\ \E f \in Files : content[f] # Nothing /\ age[f] < ForceFactor
  /\ age' = [f \in Files |-> IF content[f] # Nothing /\ age[f] < ForceFactor
                             THEN age[f] + 1 ELSE age[f]]
  /\ UNCHANGED <<file, content, pc, raw, seen>>
  /\ UNCHANGED workVars

Init ==
  /\ \E first \in FirstContents \cup {Nothing} :
       /\ file = IF first = Nothing THEN NoFile ELSE Foreign
       /\ content = [f \in Files |-> IF f = Foreign THEN first ELSE Nothing]
  /\ age = [f \in Files |-> 0]
  /\ pc = [c \in Calls |-> "create"]
  /\ raw = [c \in Calls |-> Nothing]
  /\ seen = [c \in Calls |-> <<>>]
  /\ base = [c \in Calls |-> {}]
  /\ store = {}
  /\ wrote = {}

Acquire(c) ==
  \/ tryCreateLockFile(c) \/ writeRecord(c) \/ readLockFileRaw(c) \/ lockMtime(c)
  \/ confirm(c) \/ remove(c) \/ recreate(c) \/ sleep(c)
Work(c) == readVault(c) \/ writeVault(c) \/ checkOwnership(c) \/ release(c) \/ unlink(c)

Next ==
  \/ \E c \in Calls : \/ Acquire(c) \/ Work(c) \/ Crash(c)
                       \/ writeRecordFails(c) \/ workFails(c) \/ giveUp(c)
  \/ Tick

Spec == Init /\ [][Next]_vars

(* Polling goes on, the work under the lock ends, and time passes. *)
Fairness == WF_vars(Tick) /\ \A c \in Calls : WF_vars(Acquire(c)) /\ WF_vars(Work(c))
FairSpec == Spec /\ Fairness

-----------------------------------------------------------------------------
Waiting == {"create", "read", "stat", "confirm", "remove", "recreate", "sleep"}

(* Every variable has its shape. *)
Contents == {"empty", "record", "garbage", "future", Nothing}
TypeOK ==
  /\ file \in Files \cup {NoFile}
  /\ content \in [Files -> Contents]
  /\ age \in [Files -> 0..ForceFactor]
  /\ pc \in [Calls -> Waiting \cup Over \cup
                      {"write-record", "held", "working", "check", "release-ok",
                       "release-failed", "unlink-ok", "unlink-failed"}]
  /\ raw \in [Calls -> Files \cup {"empty", "garbage", "future", Nothing}]
  /\ seen \in [Calls -> {<<>>} \cup (Files \X Contents)]
  /\ base \in [Calls -> SUBSET Calls]
  /\ store \subseteq Calls
  /\ wrote \subseteq Calls

(* Locks are stolen from slow holders, by two callers at once, while they   *)
(* are created or released: still nothing is lost in silence.  When every   *)
(* call that wrote the vault was told it succeeded, every update is there.  *)
ToldOk == {c \in Calls : pc[c] \in {"release-ok", "unlink-ok", "ok"}}

NoSilentLoss == wrote \subseteq ToldOk => wrote \subseteq store

(* No lockfile wedges the vault, whatever it holds and whoever left it: a   *)
(* call that goes on polling gets the lock.                                 *)
WaitersGetThrough == \A c \in Calls : []<>(pc[c] \notin Waiting)
=============================================================================
