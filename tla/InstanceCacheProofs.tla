-------------------------- MODULE InstanceCacheProofs --------------------------
(***************************************************************************)
(* Proofs about InstanceCache, for any number of threads, configurations   *)
(* and databases.  The argument: the owners of a database are exactly the  *)
(* threads that have a connection to it and the pin; a thread that opens   *)
(* or destroys a database is alone with it, and nobody owns it meanwhile;  *)
(* so a storage is open while the database has owners, and the file        *)
(* belongs to the database whose storage is open.                          *)
(***************************************************************************)
EXTENDS InstanceCache, TLAPS

\* Where a thread has a reference to its database, where it is alone with it,
\* and where it deals with one at all.
Owning == {"check", "pin", "init", "using", "closing"}
Alone == {"open", "opened", "conflict", "destroy", "destroy2", "destroy3"}
Dealing == PC \ {"idle", "lookup", "erase", "unpin"}

OwnersInv == \A t \in Threads, i \in Ids : t \in dbRefs[i] <=> inst[t] = i /\ pc[t] \in Owning

AloneInv ==
  \A t \in Threads :
    pc[t] \in Alone =>
      /\ dbRefs[inst[t]] = {}
      /\ \A u \in Threads \ {t} : pc[u] \in Alone => inst[u] # inst[t]

FreshInv ==
  /\ cached <= created
  /\ \A i \in Ids : i > created => dbRefs[i] = {} /\ ~storage[i]
  /\ \A t \in Threads : inst[t] <= created /\ (pc[t] \in Dealing => inst[t] # 0)

StorageInv ==
  /\ \A i \in Ids : dbRefs[i] # {} => storage[i]
  /\ \A t \in Threads : pc[t] = "opened" => storage[inst[t]]
  /\ \A t \in Threads :
       pc[t] \in {"open", "conflict", "destroy2", "destroy3"} => ~storage[inst[t]]

PathInv == ~InMemory => \A i \in Ids : storage[i] => path = i

PinInv == \A i \in Ids : Pin \in dbRefs[i] <=> pinned = i /\ hook # "run"

\* A thread asks for something until its request is settled.
WantedInv ==
  \A t \in Threads :
    pc[t] \in {"lookup", "weak", "check", "spin", "erase"} => wanted[t] \in Configs

IInv ==
  /\ TypeOK
  /\ OwnersInv /\ AloneInv /\ FreshInv /\ StorageInv /\ PathInv /\ PinInv /\ WantedInv
-----------------------------------------------------------------------------
(* What holds at the start, and what follows from the invariant *)

LEMMA InitIInv == Init => IInv
<1> USE NoneAssumption, PinAssumption, InstancesAssumption, ConfigsAssumption, MemoryAssumption
<1> SUFFICES ASSUME Init PROVE IInv  OBVIOUS
<1>1. TypeOK
  <2>1. PICK c \in Configs : c = CHOOSE d \in Configs : TRUE  OBVIOUS
  <2>2. config \in [Ids -> Configs]  BY <2>1 DEF Init
  <2>3. 0 \in 0 .. MaxInstances  OBVIOUS
  <2>4. pc \in [Threads -> PC]  BY DEF Init, PC
  <2> QED BY <2>2, <2>3, <2>4 DEF Init, TypeOK
<1>2. OwnersInv /\ AloneInv  BY DEF Init, OwnersInv, AloneInv, Owning, Alone
<1>3. FreshInv  BY DEF Init, FreshInv, Dealing, PC, Ids
<1>4. StorageInv /\ PathInv /\ PinInv /\ WantedInv
  BY DEF Init, StorageInv, PathInv, PinInv, WantedInv, Ids
<1> QED BY <1>1, <1>2, <1>3, <1>4 DEF IInv

\* A thread that deals with a database deals with one that was created.
LEMMA DealingWithOne ==
  ASSUME IInv, NEW t \in Threads, pc[t] \in Dealing
  PROVE  inst[t] \in Ids
BY InstancesAssumption DEF IInv, TypeOK, FreshInv, Ids

\* A step that touches no database and leaves its thread in the same relation
\* to the one it deals with.
Kin(k, l) ==
  /\ k \in Owning <=> l \in Owning
  /\ l \in Alone => k \in Alone
  /\ l \in Dealing => k \in Dealing
  /\ l = "opened" => k = "opened"
  /\ l \in {"open", "conflict", "destroy2", "destroy3"}
     => k \in {"open", "conflict", "destroy2", "destroy3"}

LEMMA ControlStep ==
  ASSUME IInv, TypeOK', WantedInv', NEW t \in Threads, NEW l \in PC, Goto(t, l),
         Kin(pc[t], l), cached' \in {cached, 0},
         UNCHANGED <<created, storage, dbRefs, path, pinned, hook, inst>>
  PROVE  IInv'
<1> USE DEF Goto, Kin, IInv, TypeOK
<1>1. OwnersInv'  BY DEF OwnersInv
<1>2. AloneInv'  BY DEF AloneInv
<1>3. FreshInv'  BY DEF FreshInv
<1>4. StorageInv'  BY DEF StorageInv
<1>5. PathInv' /\ PinInv'  BY DEF PathInv, PinInv
<1> QED BY <1>1, <1>2, <1>3, <1>4, <1>5

LEMMA ControlSteps ==
  ASSUME IInv, NEW t \in Threads,
         \/ Connect(t) \/ SpinEnds(t) \/ Erase(t) \/ OpenConflicts(t)
         \/ OpenFails(t) \/ UnlockUpdate(t) \/ ReleaseEntry(t) \/ ClearEntry(t)
         \/ SkipPin(t) \/ RunSessionInit(t) \/ SessionInitFails(t) \/ Unpin(t)
  PROVE  IInv'
<1> USE NoneAssumption, InstancesAssumption DEF cacheVars, dbVars, driverVars
<1>1. CASE Connect(t)
  <2>1. "lookup" \in PC /\ Goto(t, "lookup") /\ Kin(pc[t], "lookup")
    BY <1>1 DEF Connect, Kin, Owning, Alone, Dealing, PC, IInv, TypeOK
  <2>2. TypeOK'
    <3>1. pc' \in [Threads -> PC]  BY <2>1 DEF Goto, IInv, TypeOK
    <3>2. wanted' \in [Threads -> Configs \union {None}]
      BY <1>1 DEF Connect, AskFor, IInv, TypeOK
    <3> QED BY <1>1, <3>1, <3>2 DEF Connect, IInv, TypeOK
  <2>3. WantedInv'  BY <1>1, <2>1 DEF Connect, AskFor, Goto, IInv, TypeOK, WantedInv
  <2> QED BY <1>1, <2>1, <2>2, <2>3, ControlStep DEF Connect
<1>2. CASE SpinEnds(t)
  <2>1. "erase" \in PC /\ Goto(t, "erase") /\ Kin(pc[t], "erase")
    BY <1>2 DEF SpinEnds, Kin, Owning, Alone, Dealing, PC, IInv, TypeOK
  <2>2. TypeOK'
    <3>1. pc' \in [Threads -> PC]  BY <2>1 DEF Goto, IInv, TypeOK
    <3> QED BY <1>2, <3>1, DealingWithOne DEF SpinEnds, IInv, TypeOK, Dealing, PC, Ids
  <2>3. WantedInv'  BY <1>2, <2>1 DEF SpinEnds, Goto, IInv, TypeOK, WantedInv
  <2> QED BY <1>2, <2>1, <2>2, <2>3, ControlStep DEF SpinEnds
<1>3. CASE Erase(t)
  <2>1. "lookup" \in PC /\ Goto(t, "lookup") /\ Kin(pc[t], "lookup")
    BY <1>3 DEF Erase, Kin, Owning, Alone, Dealing, PC, IInv, TypeOK
  <2>2. TypeOK'
    <3>1. pc' \in [Threads -> PC]  BY <2>1 DEF Goto, IInv, TypeOK
    <3> QED BY <1>3, <3>1, DealingWithOne DEF Erase, IInv, TypeOK, Dealing, PC, Ids
  <2>3. WantedInv'  BY <1>3, <2>1 DEF Erase, Goto, IInv, TypeOK, WantedInv
  <2> QED BY <1>3, <2>1, <2>2, <2>3, ControlStep DEF Erase
<1>4. CASE OpenConflicts(t)
  <2>1. "conflict" \in PC /\ Goto(t, "conflict") /\ Kin(pc[t], "conflict")
    BY <1>4 DEF OpenConflicts, Kin, Owning, Alone, Dealing, PC, IInv, TypeOK
  <2>2. TypeOK'
    <3>1. pc' \in [Threads -> PC]  BY <2>1 DEF Goto, IInv, TypeOK
    <3> QED BY <1>4, <3>1, DealingWithOne DEF OpenConflicts, IInv, TypeOK, Dealing, PC, Ids
  <2>3. WantedInv'  BY <1>4, <2>1 DEF OpenConflicts, Goto, IInv, TypeOK, WantedInv
  <2> QED BY <1>4, <2>1, <2>2, <2>3, ControlStep DEF OpenConflicts
<1>5. CASE OpenFails(t)
  <2>1. "destroy" \in PC /\ Goto(t, "destroy") /\ Kin(pc[t], "destroy")
    BY <1>5 DEF OpenFails, Kin, Owning, Alone, Dealing, PC, IInv, TypeOK
  <2>2. TypeOK'
    <3>1. pc' \in [Threads -> PC]  BY <2>1 DEF Goto, IInv, TypeOK
    <3>2. after' \in [Threads -> {"idle", "unlock", "release", "unpin"}]
      BY <1>5 DEF OpenFails, IInv, TypeOK
    <3> QED BY <1>5, <3>1, <3>2 DEF OpenFails, IInv, TypeOK
  <2>3. WantedInv'  BY <1>5, <2>1 DEF OpenFails, Goto, IInv, TypeOK, WantedInv
  <2> QED BY <1>5, <2>1, <2>2, <2>3, ControlStep DEF OpenFails
<1>6. CASE UnlockUpdate(t)
  <2>1. "release" \in PC /\ Goto(t, "release") /\ Kin(pc[t], "release")
    BY <1>6 DEF UnlockUpdate, Kin, Owning, Alone, Dealing, PC, IInv, TypeOK
  <2>2. TypeOK'
    <3>1. pc' \in [Threads -> PC]  BY <2>1 DEF Goto, IInv, TypeOK
    <3> QED BY <1>6, <3>1, DealingWithOne DEF UnlockUpdate, IInv, TypeOK, Dealing, PC, Ids
  <2>3. WantedInv'  BY <1>6, <2>1 DEF UnlockUpdate, Goto, IInv, TypeOK, WantedInv
  <2> QED BY <1>6, <2>1, <2>2, <2>3, ControlStep DEF UnlockUpdate
<1>7. CASE ReleaseEntry(t)
  <2>1. "idle" \in PC /\ Goto(t, "idle") /\ Kin(pc[t], "idle")
    BY <1>7 DEF ReleaseEntry, Kin, Owning, Alone, Dealing, PC, IInv, TypeOK
  <2>2. TypeOK'
    <3>1. pc' \in [Threads -> PC]  BY <2>1 DEF Goto, IInv, TypeOK
    <3> QED BY <1>7, <3>1, DealingWithOne DEF ReleaseEntry, LeaveEntry, IInv, TypeOK, Dealing, PC, Ids
  <2>3. WantedInv'  BY <1>7, <2>1 DEF ReleaseEntry, Goto, IInv, TypeOK, WantedInv
  <2> QED BY <1>7, <2>1, <2>2, <2>3, ControlStep DEF ReleaseEntry
<1>8. CASE ClearEntry(t)
  <2>1. after[t] \in PC /\ Goto(t, after[t]) /\ Kin(pc[t], after[t])
    BY <1>8 DEF ClearEntry, Kin, Owning, Alone, Dealing, PC, IInv, TypeOK
  <2>2. TypeOK'
    <3>1. pc' \in [Threads -> PC]  BY <2>1 DEF Goto, IInv, TypeOK
    <3> QED BY <1>8, <3>1, DealingWithOne DEF ClearEntry, IInv, TypeOK, Dealing, PC, Ids
  <2>3. WantedInv'  BY <1>8, <2>1 DEF ClearEntry, Goto, IInv, TypeOK, WantedInv
  <2> QED BY <1>8, <2>1, <2>2, <2>3, ControlStep DEF ClearEntry
<1>9. CASE SkipPin(t)
  <2>1. "init" \in PC /\ Goto(t, "init") /\ Kin(pc[t], "init")
    BY <1>9 DEF SkipPin, Kin, Owning, Alone, Dealing, PC, IInv, TypeOK
  <2>2. TypeOK'
    <3>1. pc' \in [Threads -> PC]  BY <2>1 DEF Goto, IInv, TypeOK
    <3> QED BY <1>9, <3>1, DealingWithOne DEF SkipPin, IInv, TypeOK, Dealing, PC, Ids
  <2>3. WantedInv'  BY <1>9, <2>1 DEF SkipPin, Goto, IInv, TypeOK, WantedInv
  <2> QED BY <1>9, <2>1, <2>2, <2>3, ControlStep DEF SkipPin
<1>10. CASE RunSessionInit(t)
  <2>1. "using" \in PC /\ Goto(t, "using") /\ Kin(pc[t], "using")
    BY <1>10 DEF RunSessionInit, Kin, Owning, Alone, Dealing, PC, IInv, TypeOK
  <2>2. TypeOK'
    <3>1. pc' \in [Threads -> PC]  BY <2>1 DEF Goto, IInv, TypeOK
    <3> QED BY <1>10, <3>1, DealingWithOne DEF RunSessionInit, IInv, TypeOK, Dealing, PC, Ids
  <2>3. WantedInv'  BY <1>10, <2>1 DEF RunSessionInit, Goto, IInv, TypeOK, WantedInv
  <2> QED BY <1>10, <2>1, <2>2, <2>3, ControlStep DEF RunSessionInit
<1>11. CASE SessionInitFails(t)
  <2>1. "closing" \in PC /\ Goto(t, "closing") /\ Kin(pc[t], "closing")
    BY <1>11 DEF SessionInitFails, Kin, Owning, Alone, Dealing, PC, IInv, TypeOK
  <2>2. TypeOK'
    <3>1. pc' \in [Threads -> PC]  BY <2>1 DEF Goto, IInv, TypeOK
    <3> QED BY <1>11, <3>1, DealingWithOne DEF SessionInitFails, IInv, TypeOK, Dealing, PC, Ids
  <2>3. WantedInv'  BY <1>11, <2>1 DEF SessionInitFails, Goto, IInv, TypeOK, WantedInv
  <2> QED BY <1>11, <2>1, <2>2, <2>3, ControlStep DEF SessionInitFails
<1>12. CASE Unpin(t)
  <2>1. "idle" \in PC /\ Goto(t, "idle") /\ Kin(pc[t], "idle")
    BY <1>12 DEF Unpin, Kin, Owning, Alone, Dealing, PC, IInv, TypeOK
  <2>2. TypeOK'
    <3>1. pc' \in [Threads -> PC]  BY <2>1 DEF Goto, IInv, TypeOK
    <3> QED BY <1>12, <3>1, DealingWithOne DEF Unpin, IInv, TypeOK, Dealing, PC, Ids
  <2>3. WantedInv'  BY <1>12, <2>1 DEF Unpin, Goto, IInv, TypeOK, WantedInv
  <2> QED BY <1>12, <2>1, <2>2, <2>3, ControlStep DEF Unpin
<1> QED BY <1>1, <1>2, <1>3, <1>4, <1>5, <1>6, <1>7, <1>8, <1>9, <1>10, <1>11, <1>12

-----------------------------------------------------------------------------
(* The steps that touch databases, one lemma each *)

LEMMA FindEntryKeeps == ASSUME IInv, NEW t \in Threads, FindEntry(t) PROVE IInv'
<1> USE InstancesAssumption DEF FindEntry, Goto, dbVars, driverVars
<1>1. pc[t] = "lookup" /\ cached \in Ids /\ cached <= created
  BY DEF IInv, TypeOK, FreshInv, Alive, Ids
<1>2. TypeOK'  BY <1>1 DEF IInv, TypeOK, PC, Ids
<1>3. OwnersInv' /\ AloneInv'  BY <1>1 DEF IInv, TypeOK, OwnersInv, AloneInv, Owning, Alone
<1>4. FreshInv'  BY <1>1 DEF IInv, TypeOK, FreshInv, Ids
<1>5. StorageInv' /\ PathInv' /\ PinInv' /\ WantedInv'
  BY <1>1 DEF IInv, TypeOK, StorageInv, PathInv, PinInv, WantedInv
<1> QED BY <1>2, <1>3, <1>4, <1>5 DEF IInv

LEMMA CreateEntryKeeps == ASSUME IInv, NEW t \in Threads, CreateEntry(t) PROVE IInv'
<1> DEFINE i == created + 1
<1> USE InstancesAssumption DEF CreateEntry, Goto, driverVars
<1>1. pc[t] = "lookup" /\ i \in Ids /\ dbRefs[i] = {} /\ ~storage[i]
  BY DEF IInv, TypeOK, FreshInv, Ids
<1>2. TypeOK'
  <2>1. wanted[t] \in Configs  BY DEF IInv, WantedInv
  <2> QED BY <1>1, <2>1 DEF IInv, TypeOK, PC, Ids
<1>3. OwnersInv'  BY <1>1 DEF IInv, TypeOK, OwnersInv, Owning
<1>4. AloneInv'
  <2>1. \A u \in Threads : inst[u] # i  BY <1>1 DEF IInv, TypeOK, FreshInv, Ids
  <2> QED BY <1>1, <2>1 DEF IInv, TypeOK, AloneInv, Alone
<1>5. FreshInv'  BY <1>1 DEF IInv, TypeOK, FreshInv, Ids
<1>6. StorageInv' /\ PathInv' /\ PinInv'
  BY <1>1 DEF IInv, TypeOK, StorageInv, PathInv, PinInv
<1>7. WantedInv'  BY <1>1 DEF IInv, TypeOK, WantedInv
<1> QED BY <1>2, <1>3, <1>4, <1>5, <1>6, <1>7 DEF IInv

LEMMA LockWeakKeeps == ASSUME IInv, NEW t \in Threads, LockWeak(t) PROVE IInv'
<1> USE InstancesAssumption DEF Goto
<1>1. pc[t] = "weak" /\ inst[t] \in Ids  BY DealingWithOne DEF LockWeak, Dealing, PC
<1>2. CASE dbRefs[inst[t]] # {}
  <2>1. /\ dbRefs' = [dbRefs EXCEPT ![inst[t]] = @ \union {t}]
        /\ pc' = [pc EXCEPT ![t] = "check"]
        /\ UNCHANGED <<cacheVars, created, config, storage, path, driverVars, inst, after, wanted>>
    BY <1>2 DEF LockWeak, cacheVars
  <2> USE DEF cacheVars, driverVars
  <2>2. TypeOK'  BY <1>1, <2>1 DEF IInv, TypeOK, PC
  <2>3. OwnersInv'  BY <1>1, <2>1 DEF IInv, TypeOK, OwnersInv, Owning
  <2>4. AloneInv'
    <3>1. \A u \in Threads : pc[u] \in Alone => inst[u] # inst[t]  BY <1>2 DEF IInv, AloneInv
    <3> QED BY <1>1, <2>1, <3>1 DEF IInv, TypeOK, AloneInv, Alone
  <2>5. FreshInv'  BY <1>1, <1>2, <2>1 DEF IInv, TypeOK, FreshInv, Dealing, PC, Ids
  <2>6. StorageInv' /\ PathInv'  BY <1>1, <1>2, <2>1 DEF IInv, TypeOK, StorageInv, PathInv
  <2>7. PinInv' /\ WantedInv'
    BY <1>1, <2>1, PinAssumption DEF IInv, TypeOK, PinInv, WantedInv
  <2> QED BY <2>2, <2>3, <2>4, <2>5, <2>6, <2>7 DEF IInv
<1>3. CASE dbRefs[inst[t]] = {}
  <2>1. LeaveEntry(t) /\ Goto(t, "spin") /\ "spin" \in PC
        /\ UNCHANGED <<cached, entryOwned, updateLock, dbVars, driverVars, inst, after, wanted>>
    BY <1>3 DEF LockWeak, dbVars, PC
  <2> USE DEF dbVars, driverVars
  <2>2. TypeOK'  BY <2>1 DEF LeaveEntry, IInv, TypeOK
  <2>3. WantedInv'  BY <1>1, <2>1 DEF IInv, TypeOK, WantedInv
  <2>4. Kin(pc[t], "spin")  BY <1>1 DEF Kin, Owning, Alone, Dealing, PC
  <2> QED BY <2>1, <2>2, <2>3, <2>4, ControlStep
<1> QED BY <1>2, <1>3

\* What a drop does to the types.
LEMMA DropType ==
  ASSUME TypeOK, NEW t \in Threads, NEW i \in Ids, NEW owner,
         NEW next \in {"idle", "release", "unpin"}, Drop(owner, t, i, next)
  PROVE  /\ dbRefs' \in [Ids -> SUBSET (Threads \union {Pin})]
         /\ pc' \in [Threads -> PC] /\ inst' \in [Threads -> 0 .. MaxInstances]
         /\ after' \in [Threads -> {"idle", "unlock", "release", "unpin"}]
<1>1. dbRefs' = [dbRefs EXCEPT ![i] = @ \ {owner}]  BY DEF Drop
<1>2. dbRefs' \in [Ids -> SUBSET (Threads \union {Pin})]  BY <1>1 DEF TypeOK
<1>3. CASE dbRefs[i] = {owner}
  <2>1. /\ pc' = [pc EXCEPT ![t] = "destroy"] /\ inst' = [inst EXCEPT ![t] = i]
        /\ after' = [after EXCEPT ![t] = next]
    BY <1>3 DEF Drop, Goto
  <2>2. pc' \in [Threads -> PC]  BY <2>1 DEF TypeOK, PC
  <2>3. inst' \in [Threads -> 0 .. MaxInstances]  BY <2>1, InstancesAssumption DEF TypeOK, Ids
  <2>4. after' \in [Threads -> {"idle", "unlock", "release", "unpin"}]  BY <2>1 DEF TypeOK
  <2> QED BY <1>2, <2>2, <2>3, <2>4
<1>4. CASE dbRefs[i] # {owner}
  <2>1. pc' = [pc EXCEPT ![t] = next] /\ UNCHANGED <<inst, after>>  BY <1>4 DEF Drop, Goto
  <2> QED BY <1>2, <2>1 DEF TypeOK, PC
<1> QED BY <1>3, <1>4

\* An owner goes: a thread that closes its connection, or the pin.
LEMMA DropKeeps ==
  ASSUME IInv, TypeOK', WantedInv', NEW t \in Threads, NEW i \in Ids, NEW owner,
         NEW next \in {"idle", "release", "unpin"},
         Drop(owner, t, i, next), owner \in dbRefs[i],
         \/ owner = t /\ inst[t] = i /\ UNCHANGED <<pinned, hook>>
         \/ owner = Pin /\ pc[t] = "idle" /\ next = "unpin" /\ ~(pinned' = pinned /\ hook' # "run")
            /\ hook # "run" /\ pinned' \in {0, pinned},
         UNCHANGED <<created, storage, path, cached>>
  PROVE  IInv'
<1> USE PinAssumption, InstancesAssumption DEF Drop, Goto
<1>1. dbRefs' = [dbRefs EXCEPT ![i] = @ \ {owner}] /\ i <= created /\ i # 0 /\ pc[t] \notin Alone
  BY DEF IInv, TypeOK, FreshInv, AloneInv, Ids, Alone, OwnersInv, Owning
<1>2. pc[t] \in Owning => owner = t /\ inst[t] = i
  BY DEF Owning
<1>3. pc' = [pc EXCEPT ![t] = pc'[t]] /\ pc'[t] \in {next, "destroy"}
      /\ (pc'[t] = next \/ (dbRefs'[i] = {} /\ inst' = [inst EXCEPT ![t] = i]))
      /\ (inst' = inst \/ (pc'[t] = "destroy" /\ inst' = [inst EXCEPT ![t] = i]))
  BY <1>1 DEF IInv, TypeOK
<1>4. OwnersInv'  BY <1>1, <1>2, <1>3 DEF IInv, TypeOK, OwnersInv, Owning
<1>5. AloneInv'
  <2>1. \A u \in Threads : pc[u] \in Alone => inst[u] # i  BY DEF IInv, AloneInv
  <2> QED BY <1>1, <1>3, <2>1 DEF IInv, TypeOK, AloneInv, Alone
<1>6. FreshInv'
  <2>1. pc'[t] \in Dealing => inst'[t] = i
    <3>1. CASE inst' = [inst EXCEPT ![t] = i]  BY <3>1 DEF IInv, TypeOK
    <3>2. CASE inst' # [inst EXCEPT ![t] = i]
      <4>1. inst' = inst /\ pc'[t] = next  BY <1>3, <3>2
      <4>2. owner = t \/ next \notin Dealing  BY DEF Dealing
      <4> QED BY <4>1, <4>2
    <3> QED BY <3>1, <3>2
  <2>2. \A u \in Threads : u # t => inst'[u] = inst[u] /\ pc'[u] = pc[u]
    BY <1>3 DEF IInv, TypeOK
  <2>3. inst'[t] <= created  BY <1>1, <1>3 DEF IInv, TypeOK, FreshInv
  <2>4. \A u \in Threads : inst'[u] <= created /\ (pc'[u] \in Dealing => inst'[u] # 0)
    BY <1>1, <2>1, <2>2, <2>3 DEF IInv, FreshInv
  <2>5. \A j \in Ids : j > created => dbRefs'[j] = {} /\ ~storage[j]
    BY <1>1 DEF IInv, TypeOK, FreshInv, Ids
  <2> QED BY <2>4, <2>5 DEF IInv, FreshInv
<1>7. StorageInv'  BY <1>1, <1>3 DEF IInv, TypeOK, StorageInv
<1>8. PathInv'  BY DEF IInv, PathInv
<1>9. PinInv'
  <2>1. CASE owner = t  BY <1>1, <2>1 DEF IInv, TypeOK, PinInv
  <2>2. CASE owner = Pin  BY <1>1, <2>2 DEF IInv, TypeOK, PinInv, Ids
  <2> QED BY <2>1, <2>2
<1> QED BY <1>4, <1>5, <1>6, <1>7, <1>8, <1>9 DEF IInv

LEMMA CheckConfigKeeps == ASSUME IInv, NEW t \in Threads, CheckConfig(t) PROVE IInv'
<1>1. pc[t] = "check" /\ inst[t] \in Ids  BY DealingWithOne DEF CheckConfig, Dealing, PC
<1>2. CASE config[inst[t]] = wanted[t]
  <2>1. LeaveEntry(t) /\ Goto(t, "pin") /\ "pin" \in PC
        /\ wanted' = [wanted EXCEPT ![t] = None]
        /\ UNCHANGED <<cached, entryOwned, updateLock, dbVars, driverVars, inst, after>>
    BY <1>2 DEF CheckConfig, dbVars, PC
  <2> USE DEF dbVars, driverVars
  <2>2. TypeOK'  BY <2>1 DEF LeaveEntry, Goto, IInv, TypeOK
  <2>3. WantedInv'  BY <1>1, <2>1 DEF Goto, IInv, TypeOK, WantedInv
  <2>4. Kin(pc[t], "pin")  BY <1>1 DEF Kin, Owning, Alone, Dealing, PC
  <2> QED BY <2>1, <2>2, <2>3, <2>4, ControlStep
<1>3. CASE config[inst[t]] # wanted[t]
  <2>1. Drop(t, t, inst[t], "release") /\ wanted' = [wanted EXCEPT ![t] = None]
        /\ UNCHANGED <<cacheVars, created, config, storage, path, driverVars>>
    BY <1>3 DEF CheckConfig, cacheVars
  <2>2. t \in dbRefs[inst[t]]  BY <1>1 DEF IInv, OwnersInv, Owning
  <2>3. TypeOK'
    BY <1>1, <2>1, DropType DEF cacheVars, driverVars, IInv, TypeOK
  <2>4. WantedInv'  BY <1>1, <2>1 DEF Drop, Goto, IInv, TypeOK, WantedInv
  <2> QED BY <1>1, <2>1, <2>2, <2>3, <2>4, DropKeeps DEF cacheVars, driverVars
<1> QED BY <1>2, <1>3

LEMMA CloseKeeps == ASSUME IInv, NEW t \in Threads, Close(t) PROVE IInv'
<1>1. pc[t] \in {"using", "closing"} /\ inst[t] \in Ids  BY DealingWithOne DEF Close, Dealing, PC
<1>2. t \in dbRefs[inst[t]]  BY <1>1 DEF IInv, OwnersInv, Owning
<1>3. TypeOK'
  BY <1>1, DropType DEF Close, cacheVars, driverVars, IInv, TypeOK
<1>4. WantedInv'  BY <1>1 DEF Close, Drop, Goto, IInv, TypeOK, WantedInv
<1> QED BY <1>1, <1>2, <1>3, <1>4, DropKeeps DEF Close, cacheVars, driverVars

LEMMA ReleaseDBKeeps == ASSUME IInv, NEW t \in Threads, ReleaseDB(t) PROVE IInv'
<1> USE InstancesAssumption
<1>1. pc[t] = "idle" /\ pinned \in Ids /\ Pin \in dbRefs[pinned] /\ hook # "run"
  BY DEF ReleaseDB, IInv, TypeOK, PinInv, Ids
<1>2. TypeOK'
  BY <1>1, DropType DEF ReleaseDB, cacheVars, IInv, TypeOK
<1>3. WantedInv'  BY <1>1 DEF ReleaseDB, Drop, Goto, IInv, TypeOK, WantedInv
<1>4. pinned' = 0 /\ 0 # pinned /\ Drop(Pin, t, pinned, "unpin")
      /\ UNCHANGED <<created, storage, path, cached>>
  BY <1>1 DEF ReleaseDB, cacheVars, Ids
<1> QED BY <1>1, <1>2, <1>3, <1>4, DropKeeps

LEMMA ShutdownHookKeeps == ASSUME IInv, NEW t \in Threads, ShutdownHook(t) PROVE IInv'
<1> USE InstancesAssumption
<1>1. pc[t] = "idle" /\ hook # "run" /\ hook' = "run" /\ UNCHANGED pinned  BY DEF ShutdownHook
<1>2. CASE pinned # 0
  <2>1. pinned \in Ids /\ Pin \in dbRefs[pinned]  BY <1>1, <1>2 DEF IInv, TypeOK, PinInv, Ids
  <2>2. TypeOK'
    BY <1>2, <2>1, DropType DEF ShutdownHook, cacheVars, IInv, TypeOK
  <2>3. WantedInv'  BY <1>1, <1>2 DEF ShutdownHook, Drop, Goto, IInv, TypeOK, WantedInv
  <2>4. Drop(Pin, t, pinned, "unpin") /\ UNCHANGED <<created, storage, path, cached>>
    BY <1>2 DEF ShutdownHook, cacheVars
  <2> QED BY <1>1, <2>1, <2>2, <2>3, <2>4, DropKeeps
<1>3. CASE pinned = 0
  <2>1. Goto(t, "unpin") /\ UNCHANGED <<cacheVars, dbVars, inst, after, wanted, pinned>>
    BY <1>3 DEF ShutdownHook, dbVars
  <2>2. TypeOK'
    BY <1>3, <2>1 DEF ShutdownHook, Goto, cacheVars, dbVars, IInv, TypeOK, PC
  <2>3. OwnersInv' /\ AloneInv'
    BY <1>1, <2>1 DEF Goto, dbVars, IInv, TypeOK, OwnersInv, AloneInv, Owning, Alone
  <2>4. FreshInv'  BY <2>1 DEF Goto, cacheVars, dbVars, IInv, TypeOK, FreshInv, Dealing
  <2>5. StorageInv' /\ PathInv' /\ WantedInv'
    BY <2>1 DEF Goto, dbVars, IInv, TypeOK, StorageInv, PathInv, WantedInv
  <2>6. PinInv'  BY <1>1, <1>3, <2>1 DEF dbVars, IInv, PinInv, Ids
  <2> QED BY <2>2, <2>3, <2>4, <2>5, <2>6 DEF IInv
<1> QED BY <1>2, <1>3

LEMMA OpenStorageKeeps == ASSUME IInv, NEW t \in Threads, OpenStorage(t) PROVE IInv'
<1> USE DEF OpenStorage, Goto, cacheVars, driverVars
<1>1. pc[t] = "open" /\ inst[t] \in Ids  BY DealingWithOne DEF Dealing, PC
<1>2. TypeOK'  BY <1>1 DEF IInv, TypeOK, PC, Ids
<1>3. OwnersInv' /\ AloneInv'  BY <1>1 DEF IInv, TypeOK, OwnersInv, AloneInv, Owning, Alone
<1>4. FreshInv'  BY <1>1 DEF IInv, TypeOK, FreshInv, Dealing, PC, Ids
<1>5. StorageInv'
  <2>1. \A u \in Threads \ {t} : pc[u] \in Alone => inst[u] # inst[t]
    BY <1>1 DEF IInv, AloneInv, Alone
  <2> QED BY <1>1, <2>1 DEF IInv, TypeOK, StorageInv, Alone
<1>6. PathInv'  BY <1>1 DEF PathFree, IInv, TypeOK, PathInv, Ids
<1>7. PinInv' /\ WantedInv'  BY <1>1 DEF IInv, TypeOK, PinInv, WantedInv
<1> QED BY <1>2, <1>3, <1>4, <1>5, <1>6, <1>7 DEF IInv

LEMMA OpenDoneKeeps == ASSUME IInv, NEW t \in Threads, OpenDone(t) PROVE IInv'
<1> USE DEF OpenDone, LeaveEntry, Goto, driverVars
<1>1. pc[t] = "opened" /\ inst[t] \in Ids /\ dbRefs[inst[t]] = {}
  BY DealingWithOne DEF Dealing, PC, IInv, AloneInv, Alone
<1>2. TypeOK'  BY <1>1 DEF IInv, TypeOK, PC
<1>3. OwnersInv'  BY <1>1 DEF IInv, TypeOK, OwnersInv, Owning
<1>4. AloneInv'  BY <1>1 DEF IInv, TypeOK, AloneInv, Alone
<1>5. FreshInv'  BY <1>1, InstancesAssumption DEF IInv, TypeOK, FreshInv, Dealing, PC, Ids
<1>6. StorageInv' /\ PathInv'  BY <1>1 DEF IInv, TypeOK, StorageInv, PathInv
<1>7. PinInv' /\ WantedInv'  BY <1>1, PinAssumption DEF IInv, TypeOK, PinInv, WantedInv
<1> QED BY <1>2, <1>3, <1>4, <1>5, <1>6, <1>7 DEF IInv

LEMMA CloseStorageKeeps == ASSUME IInv, NEW t \in Threads, CloseStorage(t) PROVE IInv'
<1> USE DEF CloseStorage, Goto, cacheVars, driverVars
<1>1. pc[t] \in {"destroy", "conflict"} /\ inst[t] \in Ids /\ dbRefs[inst[t]] = {}
  BY DealingWithOne DEF Dealing, PC, IInv, AloneInv, Alone
<1>2. TypeOK'  BY <1>1 DEF IInv, TypeOK, PC
<1>3. OwnersInv' /\ AloneInv'  BY <1>1 DEF IInv, TypeOK, OwnersInv, AloneInv, Owning, Alone
<1>4. FreshInv'  BY <1>1 DEF IInv, TypeOK, FreshInv, Dealing, PC
<1>5. StorageInv'
  <2>1. \A u \in Threads \ {t} : pc[u] \in Alone => inst[u] # inst[t]
    BY <1>1 DEF IInv, AloneInv, Alone
  <2> QED BY <1>1, <2>1 DEF IInv, TypeOK, StorageInv, Alone
<1>6. PathInv'  BY <1>1 DEF IInv, TypeOK, PathInv
<1>7. PinInv' /\ WantedInv'  BY <1>1 DEF IInv, TypeOK, PinInv, WantedInv
<1> QED BY <1>2, <1>3, <1>4, <1>5, <1>6, <1>7 DEF IInv

LEMMA ErasePathKeeps == ASSUME IInv, NEW t \in Threads, ErasePath(t) PROVE IInv'
<1> USE DEF ErasePath, Goto, cacheVars, driverVars
<1>1. pc[t] = "destroy2" /\ inst[t] \in Ids /\ ~storage[inst[t]]
  BY DealingWithOne DEF Dealing, PC, IInv, StorageInv
<1>2. TypeOK'  BY <1>1, InstancesAssumption DEF IInv, TypeOK, PC
<1>3. OwnersInv' /\ AloneInv'  BY <1>1 DEF IInv, TypeOK, OwnersInv, AloneInv, Owning, Alone
<1>4. FreshInv'  BY <1>1 DEF IInv, TypeOK, FreshInv, Dealing, PC
<1>5. StorageInv'  BY <1>1 DEF IInv, TypeOK, StorageInv
<1>6. PathInv'  BY <1>1 DEF IInv, TypeOK, PathInv
<1>7. PinInv' /\ WantedInv'  BY <1>1 DEF IInv, TypeOK, PinInv, WantedInv
<1> QED BY <1>2, <1>3, <1>4, <1>5, <1>6, <1>7 DEF IInv

LEMMA PinDBKeeps == ASSUME IInv, NEW t \in Threads, PinDB(t) PROVE IInv'
<1> USE DEF PinDB, PinnedOwners, Goto, cacheVars
<1>1. pc[t] = "pin" /\ inst[t] \in Ids /\ t \in dbRefs[inst[t]]
  BY DealingWithOne DEF Dealing, PC, IInv, OwnersInv, Owning
<1>2. TypeOK'
  <2>1. pc' \in [Threads -> PC]  BY <1>1 DEF IInv, TypeOK, PC
  <2>2. dbRefs' \in [Ids -> SUBSET (Threads \union {Pin})] /\ pinned' \in 0 .. MaxInstances
    BY <1>1 DEF IInv, TypeOK
  <2> QED BY <1>1, <2>1, <2>2 DEF IInv, TypeOK
<1>3. OwnersInv'  BY <1>1, PinAssumption DEF IInv, TypeOK, OwnersInv, Owning
<1>4. AloneInv'
  <2>1. \A u \in Threads : pc[u] \in Alone => inst[u] # inst[t]  BY <1>1 DEF IInv, AloneInv
  <2> QED BY <1>1, <2>1 DEF IInv, TypeOK, AloneInv, Alone
<1>5. FreshInv'  BY <1>1, InstancesAssumption DEF IInv, TypeOK, FreshInv, Dealing, PC, Ids
<1>6. StorageInv' /\ PathInv'  BY <1>1 DEF IInv, TypeOK, StorageInv, PathInv
<1>7. PinInv'
  <2>1. hook' # "run" /\ pinned = 0 /\ pinned' = inst[t]  BY DEF MayPin
  <2> QED BY <1>1, <2>1 DEF IInv, TypeOK, PinInv, Ids
<1>8. WantedInv'  BY <1>1 DEF IInv, TypeOK, WantedInv
<1> QED BY <1>2, <1>3, <1>4, <1>5, <1>6, <1>7, <1>8 DEF IInv

-----------------------------------------------------------------------------
(* The invariant holds, and with it what is promised *)

LEMMA NextKeeps == ASSUME IInv, [Next]_vars PROVE IInv'
<1>1. CASE UNCHANGED vars
  BY <1>1 DEF vars, cacheVars, dbVars, driverVars, threadVars, IInv, TypeOK, OwnersInv, AloneInv,
              FreshInv, StorageInv, PathInv, PinInv, WantedInv
<1>2. ASSUME NEW t \in Threads, Step(t) PROVE IInv'
  BY <1>2, ControlSteps, FindEntryKeeps, CreateEntryKeeps, LockWeakKeeps, CheckConfigKeeps,
     OpenStorageKeeps, OpenDoneKeeps, CloseStorageKeeps, ErasePathKeeps, PinDBKeeps DEF Step
<1>3. ASSUME NEW t \in Threads,
             Connect(t) \/ Close(t) \/ ReleaseDB(t) \/ ShutdownHook(t)
      PROVE  IInv'
  BY <1>3, ControlSteps, CloseKeeps, ReleaseDBKeeps, ShutdownHookKeeps
<1> QED BY <1>1, <1>2, <1>3 DEF Next

THEOREM SpecIInv == Spec => []IInv
BY InitIInv, NextKeeps, PTL DEF Spec

\* Every variable has its type: the entries, databases and locks that connect(),
\* close(), releaseDB() and the shutdown hook deal with exist.
THEOREM SpecTypeOK == Spec => []TypeOK
<1>1. IInv => TypeOK  BY DEF IInv
<1> QED BY <1>1, SpecIInv, PTL

\* A file has one open storage at a time, however connects, closes, failed
\* opens, pins and the erasing of cache entries by name overlap
\* (DatabaseFilePathManager, DBInstanceCache).
THEOREM SpecFileOpenOnce == Spec => []FileOpenOnce
<1>1. IInv => FileOpenOnce  BY DEF IInv, PathInv, FileOpenOnce
<1> QED BY <1>1, SpecIInv, PTL

\* Two connections to a file work on the same, open database.
THEOREM SpecSameDatabase == Spec => []SameDatabase
<1>1. ASSUME IInv PROVE SameDatabase
  <2>1. ASSUME ~InMemory, NEW t \in Threads, Connected(t)
        PROVE  storage[inst[t]] /\ path = inst[t]
    <3>1. inst[t] \in Ids  BY <1>1, <2>1, DealingWithOne DEF Connected, Dealing, PC
    <3>2. t \in dbRefs[inst[t]]  BY <1>1, <2>1, <3>1 DEF Connected, IInv, OwnersInv, Owning
    <3> QED BY <1>1, <2>1, <3>1, <3>2 DEF IInv, StorageInv, PathInv
  <2> QED BY <2>1 DEF SameDatabase
<1> QED BY <1>1, SpecIInv, PTL

\* A pinned database stays open, also after its last connection is closed
\* (DuckDBDriver.pinDB, DBHolder).
THEOREM SpecPinnedStaysOpen == Spec => []PinnedStaysOpen
<1>1. ASSUME IInv, pinned # 0, hook # "run" PROVE storage[pinned]
  <2>1. pinned \in Ids  BY <1>1, InstancesAssumption DEF IInv, TypeOK, Ids
  <2> QED BY <1>1, <2>1 DEF IInv, PinInv, StorageInv
<1> QED BY <1>1, SpecIInv, PTL DEF PinnedStaysOpen

\* No reference is pinned once the shutdown hook has released them: a late
\* connect() cannot keep a database from its last checkpoint.
THEOREM SpecNoPinAfterShutdown == Spec => []NoPinAfterShutdown
<1>1. IInv => NoPinAfterShutdown  BY DEF IInv, PinInv, NoPinAfterShutdown
<1> QED BY <1>1, SpecIInv, PTL
=============================================================================
