----------------------------- MODULE FileLockProofs -----------------------------
(***************************************************************************)
(* No update of the vault is lost in silence, for any number of calls,     *)
(* whatever is stolen from whom: NoSilentLoss.                             *)
(*                                                                         *)
(* It is not inductive by itself.  Two calls may both be at work, and what *)
(* saves the one whose lockfile is gone is that it can no longer be told   *)
(* it succeeded: it is doomed, and stays so.  As long as nobody doomed has *)
(* written, the vault holds every write, and so does what the one call at  *)
(* work with its lockfile in place has read.                               *)
(***************************************************************************)
EXTENDS FileLock, TLAPS

USE LockAssumption DEF NoFile, Nothing, Files

(* A call has no lockfile of its own before its attempt succeeds. *)
NotYetCreated == \A c \in Calls : pc[c] \in Waiting => content[c] = Nothing

(* A call that got the lock has had one. *)
HadOne == \A c \in Calls : pc[c] \in {"held", "working"} => content[c] # Nothing

(* Calls whose lockfile is gone, and that nobody will tell they succeeded. *)
Doomed == {c \in Calls : content[c] # Nothing /\ file # c /\ c \notin ToldOk}

NothingLostYet ==
  wrote \cap Doomed = {} =>
    /\ wrote \subseteq store
    /\ \A c \in Calls : pc[c] = "working" /\ file = c => wrote \subseteq base[c]

LockInv == TypeOK /\ NotYetCreated /\ HadOne /\ NothingLostYet

-----------------------------------------------------------------------------
LEMMA InitLockInv == Init => LockInv
  <1> SUFFICES ASSUME Init PROVE LockInv
    OBVIOUS
  <1>1. TypeOK
    BY DEF Init, TypeOK, Contents, Waiting
  <1>2. NotYetCreated
    BY DEF Init, NotYetCreated
  <1>3. HadOne
    BY DEF Init, HadOne
  <1>4. NothingLostYet
    BY DEF Init, NothingLostYet
  <1> QED  BY <1>1, <1>2, <1>3, <1>4 DEF LockInv

-----------------------------------------------------------------------------
(* Types *)

LEMMA OpenType ==
  ASSUME TypeOK, NEW c \in Calls, NEW otherwise \in {"read", "sleep"}, openExclusive(c, otherwise)
  PROVE  /\ file' \in Files \cup {NoFile}
         /\ content' \in [Files -> Contents]
         /\ age' \in [Files -> 0..ForceFactor]
         /\ \/ pc' = [pc EXCEPT ![c] = "write-record"]
            \/ pc' = [pc EXCEPT ![c] = "read"]
            \/ pc' = [pc EXCEPT ![c] = "sleep"]
  <1> USE DEF openExclusive, goto, fileVars
  <1>1. file' \in Files \cup {NoFile}
    BY DEF TypeOK
  <1>2. content' \in [Files -> Contents]
    <2>1. "empty" \in Contents /\ content \in [Files -> Contents]
      BY DEF TypeOK, Contents
    <2> QED  BY <2>1
  <1>3. age' \in [Files -> 0..ForceFactor]
    <2>1. 0 \in 0..ForceFactor /\ age \in [Files -> 0..ForceFactor]
      BY DEF TypeOK
    <2> QED  BY <2>1
  <1>4. \/ pc' = [pc EXCEPT ![c] = "write-record"]
        \/ pc' = [pc EXCEPT ![c] = "read"]
        \/ pc' = [pc EXCEPT ![c] = "sleep"]
    OBVIOUS
  <1> QED  BY <1>1, <1>2, <1>3, <1>4

LEMMA TypeStep == TypeOK /\ [Next]_vars => TypeOK'
  <1> SUFFICES ASSUME TypeOK, [Next]_vars PROVE TypeOK'
    OBVIOUS
  <1> USE DEF goto, fileVars, workVars
  <1>1. CASE UNCHANGED vars
    BY <1>1 DEF vars, TypeOK
  <1>2. ASSUME NEW c \in Calls, tryCreateLockFile(c) PROVE TypeOK'
    BY <1>2, OpenType DEF tryCreateLockFile, TypeOK, Waiting
  <1>3. ASSUME NEW c \in Calls, writeRecord(c) PROVE TypeOK'
    BY <1>3 DEF writeRecord, TypeOK, Contents
  <1>4. ASSUME NEW c \in Calls, readLockFileRaw(c) PROVE TypeOK'
    <2>1. file # NoFile => text(file) \in Files \cup {"empty", "garbage", "future", Nothing}
      BY DEF text, TypeOK, Contents
    <2>2. raw' \in [Calls -> Files \cup {"empty", "garbage", "future", Nothing}]
      BY <1>4, <2>1 DEF readLockFileRaw, TypeOK
    <2> QED  BY <1>4, <2>2 DEF readLockFileRaw, TypeOK, Waiting
  <1>5. ASSUME NEW c \in Calls, lockMtime(c) PROVE TypeOK'
    BY <1>5 DEF lockMtime, TypeOK, Waiting, mtime
  <1>6. ASSUME NEW c \in Calls, confirm(c) PROVE TypeOK'
    BY <1>6 DEF confirm, TypeOK, Waiting
  <1>7. ASSUME NEW c \in Calls, remove(c) PROVE TypeOK'
    BY <1>7 DEF remove, TypeOK, Waiting
  <1>8. ASSUME NEW c \in Calls, recreate(c) PROVE TypeOK'
    <2>1. /\ file' \in Files \cup {NoFile}
          /\ content' \in [Files -> Contents]
          /\ age' \in [Files -> 0..ForceFactor]
          /\ \/ pc' = [pc EXCEPT ![c] = "write-record"]
             \/ pc' = [pc EXCEPT ![c] = "sleep"]
      BY <1>8, OpenType DEF recreate, openExclusive
    <2>2. pc' \in [Calls -> Waiting \cup Over \cup
                     {"write-record", "held", "working", "check", "release-ok",
                      "release-failed", "unlink-ok", "unlink-failed"}]
      BY <2>1 DEF TypeOK, Waiting
    <2>3. /\ raw' \in [Calls -> Files \cup {"empty", "garbage", "future", Nothing}]
          /\ seen' \in [Calls -> {<<>>} \cup (Files \X Contents)]
      BY <1>8 DEF recreate, TypeOK
    <2> QED  BY <1>8, <2>1, <2>2, <2>3 DEF recreate, TypeOK
  <1>9. ASSUME NEW c \in Calls, sleep(c) PROVE TypeOK'
    BY <1>9 DEF sleep, TypeOK, Waiting
  <1>10. ASSUME NEW c \in Calls, writeRecordFails(c) PROVE TypeOK'
    BY <1>10 DEF writeRecordFails, TypeOK, Over
  <1>11. ASSUME NEW c \in Calls, workFails(c) \/ giveUp(c) PROVE TypeOK'
    <2>1. CASE workFails(c)
      BY <2>1 DEF workFails, TypeOK
    <2>2. CASE giveUp(c)
      BY <2>2 DEF giveUp, TypeOK, Over
    <2> QED  BY <1>11, <2>1, <2>2
  <1>12. ASSUME NEW c \in Calls, Work(c) PROVE TypeOK'
    <2>1. CASE readVault(c)
      BY <2>1 DEF readVault, TypeOK
    <2>2. CASE writeVault(c)
      BY <2>2 DEF writeVault, TypeOK
    <2>3. CASE checkOwnership(c)
      BY <2>3 DEF checkOwnership, TypeOK
    <2>4. CASE release(c)
      BY <2>4 DEF release, TypeOK, Over
    <2>5. CASE unlink(c)
      <3>1. CASE pc[c] = "unlink-ok"
        BY <2>5, <3>1 DEF unlink, TypeOK, Over
      <3>2. CASE pc[c] = "unlink-failed"
        BY <2>5, <3>2 DEF unlink, TypeOK, Over
      <3> QED  BY <2>5, <3>1, <3>2 DEF unlink
    <2> QED  BY <1>12, <2>1, <2>2, <2>3, <2>4, <2>5 DEF Work
  <1>13. ASSUME NEW c \in Calls, Crash(c) PROVE TypeOK'
    BY <1>13 DEF Crash, TypeOK, Over
  <1>14. CASE Tick
    BY <1>14 DEF Tick, TypeOK
  <1> QED
    BY <1>1, <1>2, <1>3, <1>4, <1>5, <1>6, <1>7, <1>8, <1>9, <1>10, <1>11, <1>12, <1>13, <1>14
    DEF Next, Acquire

(* Every variable of the lock keeps its shape. *)
THEOREM LockTypeCorrect == Spec => []TypeOK
  BY InitLockInv, TypeStep, PTL DEF Spec, LockInv

-----------------------------------------------------------------------------
(* What a step may do to the lockfiles and to the calls. *)

(* The lockfile is created by the call it names, before it had one. *)
FileMoves ==
  /\ \A c \in Calls : content[c] # Nothing => content'[c] # Nothing
  /\ \A c \in Calls : file' = c /\ file # c => pc[c] \in Waiting /\ pc'[c] \notin Waiting
  /\ \A c \in Calls : content'[c] # content[c] => pc'[c] \notin Waiting

(* Success is told to the one whose lockfile is in place. *)
CallMoves ==
  \A c \in Calls : /\ c \in ToldOk' => c \in ToldOk \/ file = c
                   /\ pc'[c] \in Waiting => pc[c] \in Waiting
                   /\ pc'[c] = "held" => pc[c] = "held" \/ content'[c] # Nothing
                   /\ pc'[c] = "working" => pc[c] \in {"held", "working"}

LEMMA MovesStep ==
  ASSUME TypeOK, NotYetCreated, [Next]_vars
  PROVE  FileMoves /\ CallMoves
  <1> USE DEF FileMoves, CallMoves, ToldOk, goto, fileVars, workVars, TypeOK, NotYetCreated, Waiting
  <1>1. CASE UNCHANGED vars
    BY <1>1 DEF vars
  <1>2. ASSUME NEW c \in Calls, tryCreateLockFile(c) \/ recreate(c) PROVE FileMoves /\ CallMoves
    BY <1>2 DEF tryCreateLockFile, recreate, openExclusive
  <1>3. ASSUME NEW c \in Calls, writeRecord(c) PROVE FileMoves /\ CallMoves
    BY <1>3 DEF writeRecord
  <1>4. ASSUME NEW c \in Calls, readLockFileRaw(c) \/ lockMtime(c) \/ confirm(c)
        PROVE  FileMoves /\ CallMoves
    BY <1>4 DEF readLockFileRaw, lockMtime, confirm
  <1>5. ASSUME NEW c \in Calls, remove(c) \/ sleep(c) \/ giveUp(c)
        PROVE  FileMoves /\ CallMoves
    BY <1>5 DEF remove, sleep, giveUp
  <1>6. ASSUME NEW c \in Calls, writeRecordFails(c) \/ workFails(c) \/ Crash(c)
        PROVE  FileMoves /\ CallMoves
    BY <1>6 DEF writeRecordFails, workFails, Crash
  <1>7. ASSUME NEW c \in Calls, readVault(c) \/ writeVault(c) PROVE FileMoves /\ CallMoves
    BY <1>7 DEF readVault, writeVault
  <1>8. ASSUME NEW c \in Calls, checkOwnership(c) \/ release(c) \/ unlink(c)
        PROVE  FileMoves /\ CallMoves
    BY <1>8 DEF checkOwnership, release, unlink, ownsFileLock
  <1>9. CASE Tick
    BY <1>9 DEF Tick
  <1> QED
    BY <1>1, <1>2, <1>3, <1>4, <1>5, <1>6, <1>7, <1>8, <1>9 DEF Next, Acquire, Work

LEMMA CreatedStep ==
  ASSUME TypeOK, NotYetCreated, HadOne, FileMoves, CallMoves
  PROVE  NotYetCreated' /\ HadOne'
  BY DEF NotYetCreated, HadOne, FileMoves, CallMoves

(* Nobody doomed is ever saved. *)
LEMMA DoomedStay ==
  ASSUME TypeOK, NotYetCreated, FileMoves, CallMoves
  PROVE  Doomed \subseteq Doomed'
  BY DEF Doomed, NotYetCreated, FileMoves, CallMoves

-----------------------------------------------------------------------------
(* Reading and writing the vault *)

(* The one call at work with its lockfile in place keeps both. *)
OthersWait ==
  \A c \in Calls : pc'[c] = "working" /\ file' = c =>
    pc[c] = "working" /\ file = c /\ base'[c] = base[c]

LEMMA QuietStep ==
  ASSUME TypeOK, NotYetCreated, [Next]_vars
  PROVE  \/ OthersWait /\ store' = store /\ wrote' = wrote
         \/ \E c \in Calls : readVault(c) \/ writeVault(c)
  <1> USE DEF OthersWait, goto, fileVars, workVars, TypeOK, NotYetCreated
  <1>1. CASE UNCHANGED vars
    BY <1>1 DEF vars
  <1>2. ASSUME NEW c \in Calls, tryCreateLockFile(c) \/ recreate(c)
        PROVE  OthersWait /\ store' = store /\ wrote' = wrote
    BY <1>2 DEF tryCreateLockFile, recreate, openExclusive
  <1>3. ASSUME NEW c \in Calls,
               writeRecord(c) \/ readLockFileRaw(c) \/ lockMtime(c) \/ confirm(c)
        PROVE  OthersWait /\ store' = store /\ wrote' = wrote
    BY <1>3 DEF writeRecord, readLockFileRaw, lockMtime, confirm
  <1>4. ASSUME NEW c \in Calls, remove(c) \/ sleep(c) \/ giveUp(c) \/ writeRecordFails(c)
        PROVE  OthersWait /\ store' = store /\ wrote' = wrote
    BY <1>4 DEF remove, sleep, giveUp, writeRecordFails
  <1>5. ASSUME NEW c \in Calls, workFails(c) \/ Crash(c)
        PROVE  OthersWait /\ store' = store /\ wrote' = wrote
    BY <1>5 DEF workFails, Crash
  <1>6. ASSUME NEW c \in Calls, checkOwnership(c) \/ release(c) \/ unlink(c)
        PROVE  OthersWait /\ store' = store /\ wrote' = wrote
    BY <1>6 DEF checkOwnership, release, unlink
  <1>7. CASE Tick
    BY <1>7 DEF Tick, OthersWait
  <1> QED
    BY <1>1, <1>2, <1>3, <1>4, <1>5, <1>6, <1>7 DEF Next, Acquire, Work

LEMMA LossStep ==
  ASSUME LockInv, [Next]_vars
  PROVE  NothingLostYet'
  <1> SUFFICES ASSUME wrote' \cap Doomed' = {}
               PROVE  /\ wrote' \subseteq store'
                      /\ \A c \in Calls : pc'[c] = "working" /\ file' = c => wrote' \subseteq base'[c]
    BY DEF NothingLostYet
  <1>1. Doomed \subseteq Doomed'
    BY MovesStep, DoomedStay DEF LockInv
  <1>2. wrote \subseteq wrote'
    BY QuietStep DEF LockInv, readVault, writeVault
  <1>3. /\ wrote \subseteq store
        /\ \A c \in Calls : pc[c] = "working" /\ file = c => wrote \subseteq base[c]
    BY <1>1, <1>2 DEF LockInv, NothingLostYet
  <1>4. CASE OthersWait /\ store' = store /\ wrote' = wrote
    BY <1>3, <1>4 DEF OthersWait
  <1>5. ASSUME NEW c \in Calls, readVault(c)
        PROVE  /\ wrote' \subseteq store'
               /\ \A d \in Calls : pc'[d] = "working" /\ file' = d => wrote' \subseteq base'[d]
    BY <1>3, <1>5 DEF readVault, goto, fileVars, LockInv, TypeOK
  <1>6. ASSUME NEW c \in Calls, writeVault(c)
        PROVE  /\ wrote' \subseteq store'
               /\ \A d \in Calls : pc'[d] = "working" /\ file' = d => wrote' \subseteq base'[d]
    <2>1. pc'[c] = "check" /\ content'[c] # Nothing /\ c \in wrote' /\ file' = file
      BY <1>6 DEF writeVault, goto, fileVars, LockInv, TypeOK, HadOne
    <2>2. file = c
      BY <2>1 DEF Doomed, ToldOk
    <2>3. wrote' \subseteq store'
      BY <1>3, <1>6, <2>2 DEF writeVault
    <2>4. \A d \in Calls : pc'[d] = "working" => file' # d
      BY <2>1, <2>2
    <2> QED  BY <2>3, <2>4
  <1> QED
    BY <1>4, <1>5, <1>6, QuietStep DEF LockInv

(* The inductive invariant of the lock: shape, who can have a lockfile, and *)
(* what the vault holds as long as nobody doomed has written.               *)
THEOREM LockInvariant == Spec => []LockInv
  <1>1. LockInv /\ [Next]_vars => LockInv'
    BY TypeStep, MovesStep, CreatedStep, LossStep DEF LockInv
  <1> QED  BY <1>1, InitLockInv, PTL DEF Spec

(* When every call that wrote the vault was told it succeeded, the vault    *)
(* holds every update: withVaultLock loses none in silence.                 *)
THEOREM NoUpdateLostInSilence == Spec => []NoSilentLoss
  <1>1. LockInv => NoSilentLoss
    BY DEF LockInv, NothingLostYet, NoSilentLoss, Doomed
  <1> QED  BY <1>1, LockInvariant, PTL
=============================================================================
