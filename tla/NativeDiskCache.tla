-------------------------- MODULE NativeDiskCache --------------------------
(***************************************************************************)
(* The files of NativeArtifactCache (crates/php_jit/src/native_cache.rs)   *)
(* for one identity: the artifact, the lock file and the temporary files,  *)
(* shared by processes that may crash at any point.                        *)
(*                                                                         *)
(* Inside a process LoadedNativeUnitRegistry::get_or_load runs one load at *)
(* a time under its write lock, so a process is one actor.  Each action is *)
(* one call of the file system, with what the process does until the next  *)
(* one.  An opened artifact is read as a whole: a file never changes after *)
(* its rename.  reserve_directory_bytes may refuse a write at any time     *)
(* (the count is not modelled), and a process identifier is not reused.    *)
(***************************************************************************)
EXTENDS Naturals, FiniteSets

CONSTANTS Processes,
          Mode,       \* the NativeCacheMode of each process
          Faults,     \* which of FaultKinds happen
          MaxCalls    \* bound: calls of each process

FaultKinds == {"crash", "host", "stall", "clear", "write", "read"}

ASSUME DiskAssumption ==
  /\ "none" \notin Processes
  /\ Mode \in [Processes -> {"read", "write", "readwrite"}]
  /\ Faults \subseteq FaultKinds
  /\ MaxCalls \in Nat

VARIABLES
  at,        \* where each process is
  out,       \* the outcome of its last or current call: "hit", "miss", "compiled"
             \* (perhaps not stored), "failed", "timeout" or "error"
  calls,     \* its calls so far
  lock,      \* the lock file
  artifact,  \* the .pna file: "none", "partial", "whole", or "damaged" by a crash
             \* of the host
  temp,      \* the .tmp file of each live process: "none", "partial" or "whole"
  compiles,  \* history: compilations begun
  faulty     \* history: something went wrong that excuses a second one

onDisk == <<lock, artifact, temp>>
diskVars == <<at, out, calls, onDisk, compiles, faulty>>

CanRead(p) == Mode[p] \in {"read", "readwrite"}
CanWrite(p) == Mode[p] \in {"write", "readwrite"}

NoLock == [by |-> "none", pid |-> FALSE, old |-> FALSE]

Alive(p) == at[p] \notin {"new", "dead"}

\* Where a process is between the creation of its lock file and its removal.
UnderLock == {"record", "recheck", "compile", "create", "write", "rename", "unlock"}

\* A lock file whose maker is alive and has gone on without removing it.
Abandoned == lock # NoLock /\ at[lock.by] \notin UnderLock \cup {"dead"}

DiskInit ==
  /\ at = [p \in Processes |-> "new"]
  /\ out = [p \in Processes |-> "none"]
  /\ calls = [p \in Processes |-> 0]
  /\ lock = NoLock
  /\ artifact = "none"
  /\ temp = [p \in Processes |-> "none"]
  /\ compiles = 0
  /\ faulty = FALSE

Move(p, place) == at' = [at EXCEPT ![p] = place]
End(p, result) == out' = [out EXCEPT ![p] = result] /\ Move(p, "idle")
-----------------------------------------------------------------------------
\* A process, perhaps a new one, needs the unit: it only loads it, or calls
\* get_or_compile, as its mode allows.
Call(p) ==
  /\ at[p] \in {"new", "idle"}
  /\ calls[p] < MaxCalls
  /\ calls' = [calls EXCEPT ![p] = @ + 1]
  /\ out' = [out EXCEPT ![p] = "none"]
  /\ \/ CanRead(p) /\ Move(p, "peek") /\ UNCHANGED faulty
     \/ CanWrite(p) /\ Move(p, IF CanRead(p) THEN "load" ELSE "lock")
                    /\ faulty' = (faulty \/ ~CanRead(p))
  /\ UNCHANGED <<onDisk, compiles>>

\* load_path: whether it finds a valid artifact, none, or fails.  It also fails
\* when a valid one cannot be opened, read, mapped or relocated.
Find(found) ==
  \/ /\ found = IF artifact \in {"whole", "none"} THEN artifact ELSE "bad"
     /\ UNCHANGED faulty
  \/ "read" \in Faults /\ found = "bad" /\ faulty' = TRUE

\* load on its own.
Peek(p) ==
  /\ at[p] = "peek"
  /\ \/ Find("whole") /\ End(p, "hit")
     \/ Find("none") /\ End(p, "miss")
     \/ Find("bad") /\ Move(p, "discard") /\ UNCHANGED out
  /\ UNCHANGED <<calls, onDisk, compiles>>

\* load as the first step of get_or_compile, without the lock.
Load(p) ==
  /\ at[p] = "load"
  /\ \/ Find("whole") /\ End(p, "hit")
     \/ Find("none") /\ Move(p, "lock") /\ UNCHANGED out
     \/ Find("bad") /\ Move(p, "quarantine") /\ UNCHANGED out
  /\ UNCHANGED <<calls, onDisk, compiles>>

\* quarantine moves away whatever is there by now; get_or_compile rebuilds.
Quarantine(p) ==
  /\ artifact' = "none"
  /\ \/ at[p] = "quarantine" /\ Move(p, "lock") /\ UNCHANGED out
     \/ at[p] = "discard" /\ End(p, "error")
  /\ UNCHANGED <<calls, lock, temp, compiles, faulty>>
-----------------------------------------------------------------------------
\* acquire_lock: create_new.
TryLock(p) ==
  /\ at[p] = "lock"
  /\ IF lock = NoLock
       THEN lock' = [NoLock EXCEPT !.by = p] /\ Move(p, "record")
       ELSE Move(p, "probe") /\ UNCHANGED lock
  /\ UNCHANGED <<out, calls, artifact, temp, compiles, faulty>>

\* The owner record goes into the file that was created, if it is still there.
Record(p) ==
  /\ at[p] = "record"
  /\ lock' = IF lock.by = p THEN [lock EXCEPT !.pid = TRUE] ELSE lock
  /\ Move(p, "recheck")
  /\ UNCHANGED <<out, calls, artifact, temp, compiles, faulty>>

\* The record cannot be written, or its newline cannot.  There is no guard yet,
\* so the file stays when the call fails.
RecordFails(p) ==
  /\ "write" \in Faults
  /\ at[p] = "record"
  /\ \E written \in BOOLEAN :
       lock' = IF lock.by = p THEN [lock EXCEPT !.pid = written] ELSE lock
  /\ End(p, "error")
  /\ faulty' = TRUE
  /\ UNCHANGED <<calls, artifact, temp, compiles>>

\* lock_owner_is_dead: a missing lock counts as dead.
Probe(p) ==
  /\ at[p] = "probe"
  /\ \/ lock = NoLock /\ Move(p, "reap")
     \/ lock # NoLock /\ ~lock.pid /\ Move(p, "stat")
     \/ lock # NoLock /\ lock.pid /\ Move(p, IF Alive(lock.by) THEN "sleep" ELSE "reap")
  /\ UNCHANGED <<out, calls, onDisk, compiles, faulty>>

\* Variant: a lock without an owner record is never reaped.
StatForgiving(p) ==
  /\ at[p] = "stat"
  /\ IF lock = NoLock THEN End(p, "error") ELSE Move(p, "sleep") /\ UNCHANGED out
  /\ UNCHANGED <<calls, onDisk, compiles, faulty>>

\* A lock without an owner record is dead after a second; fs::metadata fails if
\* the lock has gone since it was opened.
Stat(p) ==
  /\ at[p] = "stat"
  /\ IF lock = NoLock THEN End(p, "error")
     ELSE Move(p, IF lock.old THEN "reap" ELSE "sleep") /\ UNCHANGED out
  /\ UNCHANGED <<calls, onDisk, compiles, faulty>>

\* remove_file removes the lock of that name, whoever made it meanwhile.
Reap(p) ==
  /\ at[p] = "reap"
  /\ lock' = NoLock
  /\ Move(p, "lock")
  /\ UNCHANGED <<out, calls, artifact, temp, compiles, faulty>>

Sleep(p) ==
  /\ at[p] = "sleep"
  /\ Move(p, "lock")
  /\ UNCHANGED <<out, calls, onDisk, compiles, faulty>>

\* The lock file cannot be created, opened, read or removed.
LockFails(p) ==
  /\ "read" \in Faults
  /\ at[p] \in {"lock", "probe", "stat", "reap"}
  /\ End(p, "error")
  /\ UNCHANGED <<calls, onDisk, compiles, faulty>>

\* LOCK_TIMEOUT.
Timeout(p) ==
  /\ at[p] = "sleep"
  /\ End(p, "timeout")
  /\ UNCHANGED <<calls, onDisk, compiles, faulty>>
-----------------------------------------------------------------------------
\* Variant: the artifact is not looked up again under the lock.
RecheckSkipped(p) ==
  /\ at[p] = "recheck"
  /\ Move(p, "compile")
  /\ UNCHANGED <<out, calls, onDisk, compiles, faulty>>

\* load_path under the lock: if it fails, the call does.
Recheck(p) ==
  /\ at[p] = "recheck"
  /\ \E found \in {"whole", "none", "bad"} :
       /\ IF CanRead(p) THEN Find(found) ELSE found = "none" /\ UNCHANGED faulty
       /\ IF found = "none"
            THEN Move(p, "compile") /\ UNCHANGED out
            ELSE /\ out' = [out EXCEPT ![p] = IF found = "whole" THEN "hit" ELSE "error"]
                 /\ Move(p, "unlock")
  /\ UNCHANGED <<calls, onDisk, compiles>>

\* compile() and the reservation; the records of a compilation outlive a
\* failure to store them.
Compile(p) ==
  /\ at[p] = "compile"
  /\ compiles' = IF compiles < 2 THEN compiles + 1 ELSE compiles
  /\ \/ /\ Move(p, "create")
        /\ out' = [out EXCEPT ![p] = "compiled"]
        /\ UNCHANGED faulty
     \/ /\ "write" \in Faults
        /\ \E result \in {"failed", "compiled"} : out' = [out EXCEPT ![p] = result]
        /\ Move(p, "unlock")
        /\ faulty' = TRUE
  /\ UNCHANGED <<calls, onDisk>>

\* Variant: the artifact is written under its final name.
CreateInPlace(p) ==
  /\ at[p] = "create"
  /\ artifact' = "partial"
  /\ temp' = [temp EXCEPT ![p] = "partial"]
  /\ Move(p, "write")
  /\ UNCHANGED <<out, calls, lock, compiles, faulty>>

\* write_atomic: create_new, write_all, rename.
CreateTemp(p) ==
  /\ at[p] = "create"
  /\ temp' = [temp EXCEPT ![p] = "partial"]
  /\ Move(p, "write")
  /\ UNCHANGED <<out, calls, lock, artifact, compiles, faulty>>

\* An error leaves the temporary file behind.
WriteTemp(p) ==
  /\ at[p] = "write"
  /\ \/ /\ temp' = [temp EXCEPT ![p] = IF @ = "none" THEN "none" ELSE "whole"]
        /\ Move(p, "rename")
        /\ UNCHANGED faulty
     \/ /\ "write" \in Faults
        /\ Move(p, "unlock")
        /\ faulty' = TRUE
        /\ UNCHANGED temp
  /\ UNCHANGED <<out, calls, lock, artifact, compiles>>

\* The rename fails if the temporary file was cleared away.
Rename(p) ==
  /\ at[p] = "rename"
  /\ temp' = [temp EXCEPT ![p] = "none"]
  /\ artifact' = IF temp[p] = "none" THEN artifact ELSE temp[p]
  /\ Move(p, "unlock")
  /\ UNCHANGED <<out, calls, lock, compiles, faulty>>

\* Drop for LockGuard removes the lock of that name.  After a write the
\* artifact is loaded; if that fails the caller has its records.
Unlock(p) ==
  /\ at[p] = "unlock"
  /\ lock' = NoLock
  /\ Move(p, IF out[p] = "compiled" THEN "reload" ELSE "idle")
  /\ UNCHANGED <<out, calls, artifact, temp, compiles, faulty>>

Reload(p) ==
  /\ at[p] = "reload"
  /\ \/ Find("whole") /\ End(p, "hit")
     \/ (Find("none") \/ Find("bad")) /\ End(p, "compiled")
  /\ UNCHANGED <<calls, onDisk, compiles>>
-----------------------------------------------------------------------------
\* A process ends wherever it is and leaves its files; its temporary file,
\* which nobody reads, is forgotten.
Crash(p) ==
  /\ "crash" \in Faults
  /\ Alive(p)
  /\ Move(p, "dead")
  /\ out' = [out EXCEPT ![p] = "none"]
  /\ temp' = [temp EXCEPT ![p] = "none"]
  /\ faulty' = TRUE
  /\ UNCHANGED <<calls, lock, artifact, compiles>>

\* The host ends every process; the artifact may be lost or damaged.
HostCrash ==
  /\ "host" \in Faults
  /\ \E p \in Processes : Alive(p)
  /\ at' = [p \in Processes |-> IF at[p] = "new" THEN "new" ELSE "dead"]
  /\ \E left \in {artifact, "none"} \cup (IF artifact = "none" THEN {} ELSE {"damaged"}) :
       artifact' = left
  /\ out' = [p \in Processes |-> "none"]
  /\ temp' = [p \in Processes |-> "none"]
  /\ faulty' = TRUE
  /\ UNCHANGED <<calls, lock, compiles>>

\* A second passes for a lock without an owner record; its owner is dead, has
\* failed to write it, or has been stalled as long.
Age ==
  /\ lock # NoLock
  /\ ~lock.pid
  /\ ~lock.old
  /\ at[lock.by] = "record" => "stall" \in Faults
  /\ lock' = [lock EXCEPT !.old = TRUE]
  /\ faulty' = (faulty \/ at[lock.by] = "record")
  /\ UNCHANGED <<at, out, calls, artifact, temp, compiles>>

\* clear() of another process removes one file after the other.
Clear ==
  /\ "clear" \in Faults
  /\ \/ lock # NoLock /\ lock' = NoLock /\ UNCHANGED <<artifact, temp>>
     \/ artifact # "none" /\ artifact' = "none" /\ UNCHANGED <<lock, temp>>
     \/ \E p \in Processes :
          /\ temp[p] # "none"
          /\ temp' = [temp EXCEPT ![p] = "none"]
          /\ UNCHANGED <<lock, artifact>>
  /\ faulty' = TRUE
  /\ UNCHANGED <<at, out, calls, compiles>>

Step(p) ==
  \/ Peek(p) \/ Load(p) \/ Quarantine(p)
  \/ TryLock(p) \/ Record(p) \/ Probe(p) \/ Stat(p) \/ Reap(p) \/ Sleep(p)
  \/ Recheck(p) \/ Compile(p) \/ CreateTemp(p) \/ WriteTemp(p) \/ Rename(p)
  \/ Unlock(p) \/ Reload(p)

DiskNext ==
  \/ \E p \in Processes :
       \/ Step(p) \/ Call(p) \/ Timeout(p)
       \/ RecordFails(p) \/ LockFails(p) \/ Crash(p)
  \/ HostCrash \/ Age \/ Clear

DiskSpec == DiskInit /\ [][DiskNext]_diskVars

\* Processes run, compilations end and time passes.  No timeout is needed.
DiskFairSpec == DiskSpec /\ WF_diskVars(Age) /\ \A p \in Processes : WF_diskVars(Step(p))
-----------------------------------------------------------------------------
\* "Atomic rename gives readers an all-or-nothing file": whichever process
\* crashes or fails to write, and however many hold the lock by mistake, the
\* artifact's name never leads to a half-written file.
ArtifactsAreWhole == artifact \in {"none", "whole", "damaged"}

\* concurrent_writers_compile_exactly_once: unless a process crashes, stalls or
\* may not read, a file cannot be written or read, or files are cleared,
\* processes that start at any time compile an artifact once between them.
CompiledOnce == faulty \/ compiles <= 1

\* A process that goes on leaves its lock file behind in one way only: it could
\* not write its owner record.  Every other lock in the way is that of a process
\* between acquire_lock and the drop of its guard, or of one that has died and
\* whose lock is reaped, whatever other processes do to the file.
LocksHaveOwner ==
  [][Abandoned' => Abandoned \/ \E p \in Processes : RecordFails(p)]_diskVars

\* Every call ends without waiting for the timeout: the lock of a process that
\* crashed is reaped, also if it crashed before it wrote its owner record.  The
\* exception is a lock that was abandoned with the record of a live process.
CallsEnd ==
  \A p \in Processes :
    at[p] = "lock" ~> at[p] \in {"idle", "dead"} \/ (Abandoned /\ lock.pid)
=============================================================================
