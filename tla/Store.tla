-------------------------------- MODULE Store --------------------------------
(* internal/store: the data in memory behind a mutex, and the file it is     *)
(* saved to by writing a temporary file and renaming it.  The process may die *)
(* between any two of these steps.  An update is known by what it adds, so a   *)
(* value of the store is the set of updates in it.                            *)
EXTENDS Integers

CONSTANTS Updates,  \* calls of Update
          None

ASSUME StoreAssumption == None \notin Updates

VARIABLES
  file,    \* the file at Store.path
  temp,    \* update -> the temporary file it has left in the directory
  data,    \* Store.data
  work,    \* the copy the update works on
  holder,  \* the update that holds Store.mu
  pc,      \* update -> where it is
  up,      \* the process runs
  acked, refused, seen   \* what callers were told, what readers saw (ghosts)

disk  == <<file, temp>>
told  == <<acked, refused, seen>>
vars  == <<file, temp, data, work, holder, pc, up, acked, refused, seen>>

Places == {"idle", "create", "write", "rename", "swap", "done"}

\* A file: none, one that is whole, one not written to its end, and one that
\* is not JSON or comes from a newer version.
File(kind, holds) == [kind |-> kind, holds |-> holds]
NoFile   == File("none", {})
Whole(D) == File("whole", D)
Part     == File("part", {})
Damaged  == File("damaged", {})

\* Slip: a file that cannot be read is an empty store as well.
Forgiving(f) == TRUE
Readable(f)  == f.kind # "damaged"

\* Load: no file is an empty store, a file that cannot be read is an error.
Load ==
  /\ ~up
  /\ Readable(file)
  /\ data' = file.holds
  /\ up' = TRUE
  /\ UNCHANGED <<disk, work, holder, pc, told>>

LoadError ==
  /\ ~up
  /\ ~Readable(file)
  /\ UNCHANGED vars

Snapshot ==
  /\ up /\ holder = None
  /\ seen' = seen \union data
  /\ UNCHANGED <<disk, data, work, holder, pc, up, acked, refused>>

\* Update takes the lock and applies fn to a deep copy.
Enter(u) ==
  /\ up /\ holder = None /\ pc[u] = "idle"
  /\ holder' = u
  /\ work' = data \union {u}
  /\ pc' = [pc EXCEPT ![u] = "create"]

\* Slip: fn works on the live data.
InPlace(u) == Enter(u) /\ data' = work' /\ UNCHANGED <<disk, up, told>>
Begin(u)   == Enter(u) /\ UNCHANGED <<disk, data, up, told>>

\* fn returns an error: nothing is written.
Reject(u) ==
  /\ up /\ holder = None /\ pc[u] = "idle"
  /\ refused' = refused \union {u}
  /\ pc' = [pc EXCEPT ![u] = "done"]
  /\ UNCHANGED <<disk, data, work, holder, up, acked, seen>>

CreateTemp(u) ==
  /\ pc[u] = "create"
  /\ temp' = [temp EXCEPT ![u] = Part]
  /\ pc' = [pc EXCEPT ![u] = "write"]
  /\ UNCHANGED <<file, data, work, holder, up, told>>

Write(u) ==
  /\ pc[u] = "write"
  /\ temp' = [temp EXCEPT ![u] = Whole(work)]
  /\ pc' = [pc EXCEPT ![u] = "rename"]
  /\ UNCHANGED <<file, data, work, holder, up, told>>

\* Slips: renamed before it is written; only the latest update is written.
Unwritten(u) == Part
OnlyLast(u)  == Whole({u})
\* What the rename puts in place.
Renamed(u) == temp[u]

Rename(u) ==
  /\ pc[u] = "rename"
  /\ file' = Renamed(u)
  /\ temp' = [temp EXCEPT ![u] = NoFile]
  /\ pc' = [pc EXCEPT ![u] = "swap"]
  /\ UNCHANGED <<data, work, holder, up, told>>

\* Slip: the temporary file stays.
KeepTemp(u) == temp
\* The deferred Remove.
Removed(u) == [temp EXCEPT ![u] = NoFile]

\* Creating, writing, closing or renaming the temporary file fails.
SaveError(u) ==
  /\ pc[u] \in {"create", "write", "rename"}
  /\ temp' = Removed(u)
  /\ holder' = None
  /\ refused' = refused \union {u}
  /\ pc' = [pc EXCEPT ![u] = "done"]
  /\ UNCHANGED <<file, data, work, up, acked, seen>>

\* Memory follows the file, and the caller is answered.
Swap(u) ==
  /\ pc[u] = "swap"
  /\ data' = work
  /\ holder' = None
  /\ acked' = acked \union {u}
  /\ pc' = [pc EXCEPT ![u] = "done"]
  /\ UNCHANGED <<disk, work, up, refused, seen>>

\* The process dies; callers still waiting are never answered.
Crash ==
  /\ up
  /\ up' = FALSE
  /\ holder' = None
  /\ pc' = [u \in Updates |-> IF pc[u] = "idle" THEN "idle" ELSE "done"]
  /\ UNCHANGED <<disk, data, work, told>>

\* Somebody edits the file by hand while the server is down.
Damage ==
  /\ ~up
  /\ file' = Damaged
  /\ UNCHANGED <<temp, data, work, holder, pc, up, told>>

Init ==
  /\ file = NoFile
  /\ temp = [u \in Updates |-> NoFile]
  /\ data = {} /\ work = {}
  /\ holder = None
  /\ pc = [u \in Updates |-> "idle"]
  /\ up = FALSE
  /\ acked = {} /\ refused = {} /\ seen = {}

Step(u) ==
  \/ Begin(u) \/ Reject(u) \/ CreateTemp(u) \/ Write(u)
  \/ Rename(u) \/ SaveError(u) \/ Swap(u)

Next == (\E u \in Updates : Step(u)) \/ Load \/ LoadError \/ Snapshot \/ Crash \/ Damage

Spec == Init /\ [][Next]_vars

-----------------------------------------------------------------------------
\* Every variable holds a value of its type.
TypeOK ==
  /\ file \in [kind : {"none", "whole", "damaged"}, holds : SUBSET Updates]
  /\ temp \in [Updates -> [kind : {"none", "part", "whole"}, holds : SUBSET Updates]]
  /\ data \in SUBSET Updates /\ work \in SUBSET Updates
  /\ holder \in Updates \union {None}
  /\ pc \in [Updates -> Places]
  /\ up \in BOOLEAN
  /\ acked \subseteq Updates /\ refused \subseteq Updates /\ seen \subseteq Updates

\* Nothing a caller was told is done, and nothing a reader was shown, is ever
\* lost, however the process dies ("persists atomically").
NothingLost == Readable(file) => acked \union seen \subseteq file.holds

\* A failed update leaves nothing behind: not in the file, in memory, or in the
\* directory ("no change is kept and nothing is written").
FailedLeavesNothing ==
  \A u \in refused :
    /\ u \notin file.holds
    /\ up => u \notin data
    /\ temp[u] = NoFile

\* "Corrupt JSON is an error - never silently reset."
NeverReset == [][file.kind = "damaged" => file' = file]_vars

Abstract == INSTANCE Register WITH value <- file.holds, spoilt <- file.kind = "damaged"

\* The store is a durable register: all the rest of the server assumes of it.
IsRegister == Abstract!Spec
=============================================================================
