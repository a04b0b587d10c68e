----------------------------- MODULE PolicyReload -----------------------------
(***************************************************************************)
(* The policy a running proxy enforces (policy/reload.ts, reload-await.ts) *)
(* while its file is edited (PolicyFile).  Before a decision the gate      *)
(* checks the file's version synchronously and reads it again when that    *)
(* moved; explicit callers may refresh asynchronously, and the two         *)
(* overlap.  A process that found no policy waits for one.                 *)
(*                                                                         *)
(* Synchronous code is not interrupted by this process, but the file may   *)
(* change between its stat and its read.  One candidate path is modelled:  *)
(* the reports of a file that shadows it, and of failures, change nothing. *)
(***************************************************************************)
EXTENDS PolicyFile

VARIABLES
  bound,    \* a file was loaded; before that the fallback is in force
  current,  \* the policy in force, and which content of the file it came from
  lastSeen, \* lastSeenVersion
  failing,  \* lastFailureSignature is set
  sync,     \* the synchronous check: idle, or about to read
  async,    \* the asynchronous check: none, about to stat, see, load or apply
  saw,      \* the version key it observed
  got,      \* the file it read
  stale,    \* observeSerial moved on since it started
  checked   \* history: a synchronous check has begun since the file was last replaced

asyncVars == <<async, saw, got, stale>>
reloadVars == <<bound, current, lastSeen, failing, sync, asyncVars, checked>>

Unseen == <<"unseen", 0>>
NoFile == [is |-> "missing", doc |-> {}, gen |-> 0]

(* observeVersion: mtime and size, or that there is no file. *)
versionOf(f) == IF f.is = "missing" THEN <<"absent", 0>> ELSE <<"file", f.key>>

shouldRead_IgnoresFailure(key) == key # lastSeen  \* mutant: a broken file is not read again

(* A version worth reading: new, or the same while it is known to be broken. *)
shouldRead(key) == key # lastSeen \/ failing

(* The last valid policy stays when the file does not load. *)
applyResult(f) ==
  /\ failing' = (f.is # "valid")
  /\ current' = IF f.is = "valid" /\ f.doc # current.doc THEN [doc |-> f.doc, gen |-> f.gen] ELSE current

-----------------------------------------------------------------------------
(* maybeRefresh, up to the read: a stat, and whether the version moved. *)
checkBoundFileSync ==
  /\ bound /\ sync = "idle"
  /\ stale' = (async # "none") /\ checked' = TRUE
  /\ IF shouldRead(versionOf(file))
     THEN /\ lastSeen' = versionOf(file)
          /\ failing' = (failing \/ file.is = "missing")
          /\ sync' = IF file.is = "missing" THEN "idle" ELSE "read"
     ELSE UNCHANGED <<lastSeen, failing, sync>>
  /\ UNCHANGED <<bound, current, async, saw, got>>

(* The read, parse and swap of the same turn. *)
readFileSync ==
  /\ bound /\ sync = "read"
  /\ sync' = "idle"
  /\ applyResult(file)
  /\ UNCHANGED <<bound, lastSeen, asyncVars, checked>>

adopt_Once ==  \* mutant: a file that was rejected is not looked at again
  /\ ~bound /\ sync = "read"
  /\ sync' = "idle"
  /\ failing' = (failing \/ file.is # "valid")
  /\ bound' = (file.is = "valid" /\ ~failing)
  /\ current' = IF bound' THEN [doc |-> file.doc, gen |-> file.gen] ELSE current
  /\ UNCHANGED <<lastSeen, asyncVars, checked>>

(* The wait for a first policy (checkSync): a candidate exists. *)
firstExistingSync ==
  /\ ~bound /\ sync = "idle"
  /\ checked' = TRUE
  /\ sync' = IF file.is = "missing" THEN "idle" ELSE "read"
  /\ UNCHANGED <<bound, current, lastSeen, failing, asyncVars>>

(* adopt and bind: a valid file is bound, once and for good. *)
adopt ==
  /\ ~bound /\ sync = "read"
  /\ sync' = "idle"
  /\ bound' = (file.is = "valid")
  /\ current' = IF bound' THEN [doc |-> file.doc, gen |-> file.gen] ELSE current
  /\ UNCHANGED <<lastSeen, failing, asyncVars, checked>>

-----------------------------------------------------------------------------
(* refresh: a check that starts after the call.  Who calls while one is in *)
(* flight waits for it and then calls: a later step of this action.        *)
refresh ==
  /\ bound /\ sync = "idle" /\ async = "none"
  /\ async' = "stat"
  /\ UNCHANGED <<bound, current, lastSeen, failing, sync, saw, got, stale, checked>>

(* Off the event loop: the stat, and the read. *)
asyncStat ==
  /\ async = "stat"
  /\ async' = "see" /\ saw' = versionOf(file)
  /\ UNCHANGED <<bound, current, lastSeen, failing, sync, got, stale, checked>>

loadPolicy ==
  /\ async = "load"
  /\ async' = "apply" /\ got' = [is |-> file.is, doc |-> file.doc, gen |-> file.gen]
  /\ UNCHANGED <<bound, current, lastSeen, failing, sync, saw, stale, checked>>

(* The check in flight is over. *)
settleRefresh ==
  /\ async' = "none" /\ stale' = FALSE
  /\ saw' = Unseen /\ got' = NoFile

(* checkBoundFile after its stat.  A failed stat is not discarded when the *)
(* file was observed since.                                                *)
observeVersion ==
  /\ async = "see" /\ sync = "idle"
  /\ IF ~shouldRead(saw) THEN settleRefresh /\ UNCHANGED <<lastSeen, failing>>
     ELSE IF saw = <<"absent", 0>> THEN settleRefresh /\ lastSeen' = saw /\ failing' = TRUE
     ELSE async' = "load" /\ UNCHANGED <<lastSeen, failing, saw, got, stale>>
  /\ UNCHANGED <<bound, current, sync, checked>>

checkBoundFile_NoSerial ==  \* mutant: a result is applied whatever was observed since
  /\ async = "apply" /\ sync = "idle"
  /\ lastSeen' = saw /\ applyResult(got)
  /\ settleRefresh
  /\ UNCHANGED <<bound, sync, checked>>

(* checkBoundFile after its read: a check that observed the file later wins. *)
checkBoundFile ==
  /\ async = "apply" /\ sync = "idle"
  /\ IF stale THEN UNCHANGED <<lastSeen, failing, current>>
     ELSE lastSeen' = saw /\ applyResult(got)
  /\ settleRefresh
  /\ UNCHANGED <<bound, sync, checked>>

-----------------------------------------------------------------------------
(* The process starts with the file's policy, or with none (a broken file *)
(* keeps it from starting).                                               *)
Init ==
  /\ FileInit
  /\ bound = (file.is = "valid")
  /\ current = [doc |-> {}, gen |-> 0]
  /\ lastSeen = Unseen
  /\ failing = FALSE
  /\ sync = "idle"
  /\ async = "none"
  /\ saw = Unseen
  /\ got = NoFile
  /\ stale = FALSE
  /\ checked = FALSE

Check == checkBoundFileSync \/ readFileSync \/ firstExistingSync \/ adopt
Refreshing == asyncStat \/ loadPolicy \/ observeVersion \/ checkBoundFile

FileStep ==
  /\ FileNext
  /\ checked' = (checked /\ UNCHANGED file)
  /\ UNCHANGED <<bound, current, lastSeen, failing, sync, asyncVars>>

Next == FileStep \/ ((Check \/ refresh \/ Refreshing) /\ UNCHANGED fileVars)

vars == <<fileVars, reloadVars>>

Spec == Init /\ [][Next]_vars

(* Calls keep coming, and each checks the file before it is decided. *)
Fairness == WF_vars(Check /\ UNCHANGED fileVars)

FairSpec == Spec /\ Fairness

-----------------------------------------------------------------------------
(* Properties. *)

(* What the gate enforces is what the file says. *)
inForce == bound /\ current.doc = file.doc

(* "The NEXT decision after an edit sees it" (reload.ts:48): once a check began  *)
(* after the last change of the file, its policy is in force, and stays so       *)
(* whatever older read comes late.  Two valid policies of one size written in    *)
(* one clock tick cannot be told apart.                                          *)
SeesTheEdit == checked /\ sync = "idle" /\ file.is = "valid" /\ ~file.isTwin => inForce

(* The policy in force never goes back to an older content of the file: neither  *)
(* a late asynchronous read nor a broken file undoes an edit.                    *)
NeverBackwards == [][current'.gen >= current.gen /\ (bound => bound')]_vars

(* Calls that keep coming bring the file's last valid policy into force, also    *)
(* after a time with a broken file or none.                                      *)
EditTakesHold == <>[](file.is = "valid" /\ ~file.isTwin => inForce)
=============================================================================
