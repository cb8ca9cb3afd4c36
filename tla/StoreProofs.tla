---------------------------- MODULE StoreProofs ----------------------------
(* The store implements the durable register, for any number of updates.    *)
EXTENDS Store, TLAPS

Saving == {"create", "write", "rename"}

\* Who holds the lock, and what memory, file and copy have to do with each
\* other at every step of a save.
LockOK ==
  /\ \A u \in Updates : pc[u] \in Saving \union {"swap"} => up /\ holder = u
  /\ holder # None => pc[holder] \in Saving \union {"swap"}
  /\ up => Readable(file)

MemoryOK ==
  /\ up => data \subseteq file.holds
  /\ up /\ (holder # None => pc[holder] \in Saving) => data = file.holds
  /\ \A u \in Updates :
       /\ pc[u] \in Saving => work = data \union {u}
       /\ pc[u] = "rename" => temp[u] = Whole(work)
       /\ pc[u] = "swap"   => work = file.holds

\* Where an update is tells whether it is in the file and what its caller knows.
FileOK ==
  /\ file.kind # "whole" => file.holds = {}
  /\ \A u \in Updates :
       /\ pc[u] \in Saving \union {"idle"} => u \notin file.holds \union refused
       /\ pc[u] = "swap" => u \in file.holds /\ u \notin refused
       /\ pc[u] \in {"idle", "create", "swap"} => temp[u] = NoFile

TellOK ==
  /\ Readable(file) => acked \union seen \subseteq file.holds
  /\ \A u \in refused : pc[u] = "done" /\ u \notin file.holds /\ temp[u] = NoFile

StoreInv == TypeOK /\ LockOK /\ MemoryOK /\ FileOK /\ TellOK

LEMMA InitStore == Init => StoreInv
<1> SUFFICES ASSUME Init PROVE StoreInv
  OBVIOUS
<1> USE StoreAssumption DEF Init, Places, Saving, NoFile, File, Readable
<1>1. TypeOK
  BY DEF TypeOK
<1>2. LockOK
  BY DEF LockOK
<1>3. MemoryOK
  BY DEF MemoryOK
<1>4. FileOK /\ TellOK
  BY DEF FileOK, TellOK
<1> QED
  BY <1>1, <1>2, <1>3, <1>4 DEF StoreInv

LEMMA StepStore ==
  ASSUME StoreInv, NEW u \in Updates, Step(u)
  PROVE  StoreInv'
<1> USE StoreAssumption DEF StoreInv, TypeOK, Places, Saving, disk, told,
        NoFile, Part, Whole, File, Readable
<1>1. CASE Begin(u)
  <2> USE <1>1 DEF Begin, Enter
  <2>1. TypeOK'
    OBVIOUS
  <2>2. LockOK'
    BY DEF LockOK
  <2>3. MemoryOK'
    BY DEF LockOK, MemoryOK
  <2>4. FileOK' /\ TellOK'
    BY DEF FileOK, TellOK
  <2> QED
    BY <2>1, <2>2, <2>3, <2>4
<1>2. CASE Reject(u)
  <2> USE <1>2 DEF Reject
  <2>1. TypeOK' /\ LockOK'
    BY DEF LockOK
  <2>2. MemoryOK'
    BY DEF LockOK, MemoryOK
  <2>3. FileOK'
    <3>1. ASSUME NEW v \in Updates, pc'[v] # "done"
          PROVE  v # u /\ pc'[v] = pc[v]
      BY <3>1
    <3> QED
      BY <3>1 DEF FileOK
  <2>4. TellOK'
    <3>1. u \notin file.holds /\ temp[u] = NoFile
      BY DEF FileOK
    <3>2. ASSUME NEW v \in refused \union {u}
          PROVE  pc'[v] = "done" /\ v \notin file.holds /\ temp[v] = NoFile
      BY <3>1, <3>2 DEF TellOK
    <3> QED
      BY <3>2 DEF TellOK
  <2> QED
    BY <2>1, <2>2, <2>3, <2>4
<1>3. CASE CreateTemp(u)
  BY <1>3 DEF CreateTemp, LockOK, MemoryOK, FileOK, TellOK
<1>4. CASE Write(u)
  BY <1>4 DEF Write, LockOK, MemoryOK, FileOK, TellOK
<1>5. CASE Rename(u)
  BY <1>5 DEF Rename, Renamed, LockOK, MemoryOK, FileOK, TellOK
<1>6. CASE SaveError(u)
  BY <1>6 DEF SaveError, Removed, LockOK, MemoryOK, FileOK, TellOK
<1>7. CASE Swap(u)
  BY <1>7 DEF Swap, LockOK, MemoryOK, FileOK, TellOK
<1> QED
  BY <1>1, <1>2, <1>3, <1>4, <1>5, <1>6, <1>7 DEF Step

LEMMA OtherStore ==
  ASSUME StoreInv,
         Load \/ LoadError \/ Snapshot \/ Crash \/ Damage \/ UNCHANGED vars
  PROVE  StoreInv'
<1> USE StoreAssumption DEF StoreInv, TypeOK, LockOK, MemoryOK, FileOK, TellOK,
        Places, Saving, disk, told, NoFile, Part, Whole, File, Readable
<1>1. CASE Load
  BY <1>1 DEF Load
<1>2. CASE Snapshot
  BY <1>2 DEF Snapshot
<1>3. CASE Crash
  <2> USE <1>3 DEF Crash
  <2>1. TypeOK' /\ LockOK'
    OBVIOUS
  <2>2. MemoryOK' /\ TellOK'
    OBVIOUS
  <2>3. FileOK'
    OBVIOUS
  <2> QED
    BY <2>1, <2>2, <2>3
<1>4. CASE Damage
  BY <1>4 DEF Damage, Damaged
<1>5. CASE LoadError \/ UNCHANGED vars
  <2>1. UNCHANGED vars
    BY <1>5 DEF LoadError
  <2> USE <2>1 DEF vars
  <2>2. TypeOK' /\ LockOK'
    OBVIOUS
  <2>3. MemoryOK' /\ FileOK' /\ TellOK'
    OBVIOUS
  <2> QED
    BY <2>2, <2>3
<1> QED
  BY <1>1, <1>2, <1>3, <1>4, <1>5

LEMMA NextStore == StoreInv /\ [Next]_vars => StoreInv'
  BY StepStore, OtherStore DEF Next

LEMMA StoreAlways == Spec => []StoreInv
  BY InitStore, NextStore, PTL DEF Spec

\* Whatever fails and whenever the process dies, every variable of the store keeps
\* its type; in particular the file is never one written only in part.
THEOREM StoreTypeOK == Spec => []TypeOK
  BY StoreAlways, PTL DEF StoreInv

\* Nothing a caller was told is done, and nothing a reader saw, is ever lost.
THEOREM StoreKeeps == Spec => []NothingLost
<1>1. StoreInv => NothingLost
  BY DEF StoreInv, TellOK, NothingLost
<1> QED
  BY <1>1, StoreAlways, PTL

\* An update whose caller was told it failed is nowhere.
THEOREM StoreForgets == Spec => []FailedLeavesNothing
<1>1. StoreInv => FailedLeavesNothing
  BY DEF StoreInv, TellOK, MemoryOK, LockOK, FileOK, TypeOK, FailedLeavesNothing, Saving
<1> QED
  BY <1>1, StoreAlways, PTL

\* A file the store cannot read is never replaced.
THEOREM StoreNeverResets == Spec => NeverReset
<1>1. StoreInv /\ [Next]_vars => [file.kind = "damaged" => file' = file]_vars
  <2> SUFFICES ASSUME StoreInv, Next, file.kind = "damaged" PROVE file' = file
    OBVIOUS
  <2>1. ~up /\ \A u \in Updates : pc[u] \notin Saving \union {"swap"}
    BY DEF StoreInv, LockOK, Readable
  <2>2. file = Damaged
    BY DEF StoreInv, FileOK, TypeOK, Damaged, File
  <2>3. ASSUME NEW u \in Updates, Step(u) PROVE FALSE
    <3>1. ~Reject(u) /\ ~Begin(u)
      BY <2>1 DEF Reject, Begin, Enter
    <3> QED
      BY <2>1, <2>3, <3>1 DEF Step, CreateTemp, Write, Rename, SaveError, Swap, Saving
  <2> QED
    BY <2>1, <2>2, <2>3 DEF Next, Load, LoadError, Snapshot, Crash, Damage, Readable, vars, disk
<1> QED
  BY <1>1, StoreAlways, PTL DEF Spec, NeverReset

\* Every step of Update, Snapshot and Load, and every crash, is a step of a
\* durable register or changes nothing of it.
THEOREM StoreRefines == Spec => IsRegister
<1>1. Init => Abstract!Init
  BY DEF Init, Abstract!Init, NoFile, File
<1>2. ASSUME StoreInv, [Next]_vars PROVE [Abstract!Next]_(Abstract!vars)
  <2> USE <1>2 DEF StoreInv
  <2>1. ASSUME NEW u \in Updates, Rename(u) PROVE Abstract!Next
    <3>1. Abstract!Take(u)
      <4>1. holder = u /\ up /\ data = file.holds
        BY <2>1 DEF Rename, LockOK, MemoryOK, Saving
      <4>2. file'.holds = file.holds \union {u}
        BY <2>1, <4>1 DEF Rename, Renamed, MemoryOK, Saving, Whole, File
      <4>3. u \notin file.holds \union refused
        BY <2>1 DEF Rename, FileOK, Saving
      <4> QED
        BY <2>1, <4>2, <4>3 DEF Rename, Abstract!Take, told
    <3>2. file.kind # "damaged" /\ file'.kind # "damaged"
      BY <2>1 DEF Rename, Renamed, MemoryOK, LockOK, Readable, Saving, Whole, File
    <3> QED
      BY <3>1, <3>2 DEF Abstract!Next
  <2>2. ASSUME NEW u \in Updates, Swap(u) PROVE Abstract!Next
    <3>1. Abstract!Acknowledge(u)
      BY <2>2 DEF Swap, FileOK, Abstract!Acknowledge, disk
    <3>2. file.kind # "damaged" /\ file' = file
      BY <2>2 DEF Swap, LockOK, Readable, disk
    <3> QED
      BY <3>1, <3>2 DEF Abstract!Next
  <2>3. ASSUME NEW u \in Updates, Reject(u) \/ SaveError(u) PROVE Abstract!Next
    <3>1. Abstract!Refuse(u)
      BY <2>3 DEF Reject, SaveError, FileOK, Saving, Abstract!Refuse, disk
    <3>2. file.kind # "damaged" /\ file' = file
      BY <2>3 DEF Reject, SaveError, LockOK, Readable, Saving, disk
    <3> QED
      BY <3>1, <3>2 DEF Abstract!Next
  <2>4. ASSUME Snapshot PROVE Abstract!Next
    <3>1. Abstract!Look
      BY <2>4 DEF Snapshot, MemoryOK, Abstract!Look, disk
    <3>2. file.kind # "damaged" /\ file' = file
      BY <2>4 DEF Snapshot, LockOK, Readable, disk
    <3> QED
      BY <3>1, <3>2 DEF Abstract!Next
  <2>5. ASSUME Damage PROVE Abstract!Next
    <3>1. Abstract!Spoil
      BY <2>5 DEF Damage, Damaged, File, Abstract!Spoil, told
    <3> QED
      BY <3>1 DEF Abstract!Next
  <2>6. ASSUME NEW u \in Updates, Begin(u) \/ CreateTemp(u) \/ Write(u)
        PROVE  UNCHANGED Abstract!vars
    BY <2>6 DEF Begin, Enter, CreateTemp, Write, disk, told, Abstract!vars
  <2>7. ASSUME Load \/ LoadError \/ Crash \/ UNCHANGED vars PROVE UNCHANGED Abstract!vars
    BY <2>7 DEF Load, LoadError, Crash, vars, disk, told, Abstract!vars
  <2> QED
    BY <2>1, <2>2, <2>3, <2>4, <2>5, <2>6, <2>7 DEF Next, Step
<1> QED
  BY <1>1, <1>2, StoreAlways, PTL DEF Spec, IsRegister, Abstract!Spec
============================================================================
