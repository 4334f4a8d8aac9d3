----------------------------- MODULE InstanceCache -----------------------------
(***************************************************************************)
(* How a JDBC connection gets its database: DuckDBDriver.connect() with    *)
(* pinned databases and session init files, the cache of open databases    *)
(* (DBInstanceCache), and the registry that keeps a file from being opened *)
(* twice (DatabaseFilePathManager).  One database name, other names only   *)
(* share the locks.  Databases and their cache entries are created in      *)
(* pairs and numbered; reference counts are sets of owners.                *)
(***************************************************************************)
EXTENDS Naturals, FiniteSets

CONSTANTS Threads, None,
          Pin,            \* the reference of DuckDBDriver.pinnedDbRefs
          Configs,        \* configurations of the connection URL
          InMemory,       \* a named in-memory database: no file to guard
          MayFail,        \* opening, or a session init file, may fail
          MaxInstances    \* bound: databases opened

Ids == 1 .. MaxInstances

ASSUME NoneAssumption == None \notin Threads \union Configs
ASSUME PinAssumption == Pin \notin Threads
ASSUME InstancesAssumption == MaxInstances \in Nat
ASSUME MemoryAssumption == InMemory \in BOOLEAN
ASSUME ConfigsAssumption == Configs # {}

VARIABLES
  \* DBInstanceCache
  cached,      \* the entry db_instances has for the name, 0 for none
  entryRefs,   \* threads that hold a cache entry
  entryOwned,  \* its database holds it: config.db_cache_entry
  updateLock,  \* update_database_mutex
  \* databases
  created,     \* number of databases created
  config,      \* their configurations
  storage,     \* the storage of the database is open
  dbRefs,      \* owners of its shared_ptr<DuckDB>: threads and Pin
  path,        \* DatabaseFilePathManager: the database that has the file
  \* DuckDBDriver
  pinned,      \* pinnedDbRefs: the database pinned under the name, or 0
  pinLock,     \* pinnedDbRefsLock
  hook,        \* the shutdown hook: "none", "registered", "run"
  initNames,   \* sessionInitSQLFileDbNames has the name
  initialised, \* databases in which the session init file was run
  \* threads
  pc, inst,    \* where a thread is, the database it deals with
  after,       \* where it goes on after destroying a database
  wanted       \* the configuration it asks for, None once that is settled

cacheVars == <<cached, entryRefs, entryOwned, updateLock>>
dbVars == <<created, config, storage, dbRefs, path>>
driverVars == <<pinned, pinLock, hook, initNames, initialised>>
threadVars == <<pc, inst, after, wanted>>
vars == <<cacheVars, dbVars, driverVars, threadVars>>

Goto(t, l) == pc' = [pc EXCEPT ![t] = l]
Alive(e) == e # 0 /\ (entryRefs[e] # {} \/ entryOwned[e])

\* A shared_ptr<DuckDB> goes; whoever drops the last one destroys the database.
Drop(owner, t, i, next) ==
  /\ dbRefs' = [dbRefs EXCEPT ![i] = @ \ {owner}]
  /\ IF dbRefs[i] = {owner}
     THEN /\ Goto(t, "destroy") /\ inst' = [inst EXCEPT ![t] = i]
          /\ after' = [after EXCEPT ![t] = next]
     ELSE Goto(t, next) /\ UNCHANGED <<inst, after>>

-----------------------------------------------------------------------------
(* DBInstanceCache::GetOrCreateInstance *)

Connecting == {t \in Threads : pc[t] \in {"lookup", "weak", "spin", "erase"}}

AskFor(t) == \E c \in Configs : wanted' = [wanted EXCEPT ![t] = c]

Connect(t) ==
  /\ pc[t] = "idle"
  /\ created + Cardinality(Connecting) < MaxInstances
  /\ AskFor(t)
  /\ Goto(t, "lookup")
  /\ UNCHANGED <<cacheVars, dbVars, driverVars, inst, after>>

\* GetInstanceInternal under cache_lock: an entry that is alive is held on to.
FindEntry(t) ==
  /\ pc[t] = "lookup"
  /\ Alive(cached)
  /\ entryRefs' = [entryRefs EXCEPT ![cached] = @ \union {t}]
  /\ inst' = [inst EXCEPT ![t] = cached]
  /\ Goto(t, "weak")
  /\ UNCHANGED <<cached, entryOwned, updateLock, dbVars, driverVars, after, wanted>>

\* No entry, or an expired one, with cache_lock still held: publish a new
\* entry, locked, and give up cache_lock; CreateInstanceInternal.
CreateEntry(t) ==
  /\ pc[t] = "lookup"
  /\ ~Alive(cached)
  /\ created < MaxInstances
  /\ LET i == created + 1
     IN  /\ created' = i /\ cached' = i
         /\ entryRefs' = [entryRefs EXCEPT ![i] = {t}]
         /\ entryOwned' = [entryOwned EXCEPT ![i] = TRUE]
         /\ updateLock' = [updateLock EXCEPT ![i] = t]
         /\ config' = [config EXCEPT ![i] = wanted[t]]
         /\ inst' = [inst EXCEPT ![t] = i]
  /\ wanted' = [wanted EXCEPT ![t] = None]
  /\ Goto(t, "open")
  /\ UNCHANGED <<storage, dbRefs, path, driverVars, after>>

\* Faulty variant of LeaveEntry: the reference is kept while spinning.
KeepEntry(t) == UNCHANGED entryRefs
LeaveEntry(t) == entryRefs' = [entryRefs EXCEPT ![inst[t]] = @ \ {t}]

\* Wait for whoever opens the database, then look whether it is there; if it
\* is not, it is being shut down: let go of the entry and wait for its end.
LockWeak(t) ==
  /\ pc[t] = "weak" /\ updateLock[inst[t]] = None
  /\ IF dbRefs[inst[t]] # {}
     THEN /\ dbRefs' = [dbRefs EXCEPT ![inst[t]] = @ \union {t}]
          /\ Goto(t, "check")
          /\ UNCHANGED entryRefs
     ELSE /\ LeaveEntry(t)
          /\ Goto(t, "spin")
          /\ UNCHANGED dbRefs
  /\ UNCHANGED <<cached, entryOwned, updateLock, created, config, storage, path,
                 driverVars, inst, after, wanted>>

\* The configurations must be equal.
CheckConfig(t) ==
  /\ pc[t] = "check"
  /\ IF config[inst[t]] = wanted[t]
     THEN Goto(t, "pin") /\ LeaveEntry(t) /\ UNCHANGED <<dbRefs, inst, after>>
     ELSE Drop(t, t, inst[t], "release") /\ UNCHANGED entryRefs
  /\ wanted' = [wanted EXCEPT ![t] = None]
  /\ UNCHANGED <<cached, entryOwned, updateLock, created, config, storage, path, driverVars>>

\* A busy spin until the entry is gone ...
SpinEnds(t) ==
  /\ pc[t] = "spin" /\ ~Alive(inst[t])
  /\ Goto(t, "erase")
  /\ UNCHANGED <<cacheVars, dbVars, driverVars, inst, after, wanted>>

\* ... which is then erased by its name, under cache_lock, and all starts anew.
Erase(t) ==
  /\ pc[t] = "erase"
  /\ cached' = 0
  /\ Goto(t, "lookup")
  /\ UNCHANGED <<entryRefs, entryOwned, updateLock, dbVars, driverVars, inst, after, wanted>>

-----------------------------------------------------------------------------
(* Opening and destroying a database *)

\* Faulty variant of PathFree: the registry lets every database have the file.
AlwaysFree == TRUE
PathFree == InMemory \/ path = 0

\* InsertDatabasePath, then the storage is opened.
OpenStorage(t) ==
  /\ pc[t] = "open" /\ PathFree
  /\ storage' = [storage EXCEPT ![inst[t]] = TRUE]
  /\ path' = IF InMemory THEN path ELSE inst[t]
  /\ Goto(t, "opened")
  /\ UNCHANGED <<cacheVars, created, config, dbRefs, driverVars, inst, after, wanted>>

\* "Unique file handle conflict": the file belongs to another database.
OpenConflicts(t) ==
  /\ pc[t] = "open" /\ ~PathFree
  /\ Goto(t, "conflict") /\ after' = [after EXCEPT ![t] = "unlock"]
  /\ UNCHANGED <<cacheVars, dbVars, driverVars, inst, wanted>>

OpenFails(t) ==
  /\ pc[t] = "opened" /\ MayFail
  /\ Goto(t, "destroy") /\ after' = [after EXCEPT ![t] = "unlock"]
  /\ UNCHANGED <<cacheVars, dbVars, driverVars, inst, wanted>>

\* The entry gets the database, the connection a reference to it.
OpenDone(t) ==
  /\ pc[t] = "opened"
  /\ dbRefs' = [dbRefs EXCEPT ![inst[t]] = {t}]
  /\ updateLock' = [updateLock EXCEPT ![inst[t]] = None]
  /\ LeaveEntry(t)
  /\ Goto(t, "pin")
  /\ UNCHANGED <<cached, entryOwned, created, config, storage, path, driverVars, inst, after,
                 wanted>>

\* A failed open unwinds: first the mutex, then the entry.
UnlockUpdate(t) ==
  /\ pc[t] = "unlock"
  /\ updateLock' = [updateLock EXCEPT ![inst[t]] = None]
  /\ Goto(t, "release")
  /\ UNCHANGED <<cached, entryRefs, entryOwned, dbVars, driverVars, inst, after, wanted>>

ReleaseEntry(t) ==
  /\ pc[t] = "release"
  /\ LeaveEntry(t)
  /\ Goto(t, "idle")
  /\ UNCHANGED <<cached, entryOwned, updateLock, dbVars, driverVars, inst, after, wanted>>

\* Faulty variant of CloseStorage: the storage outlives the database.
LeaveOpen(t) ==
  /\ pc[t] \in {"destroy", "conflict"}
  /\ Goto(t, "destroy2")
  /\ UNCHANGED <<cacheVars, dbVars, driverVars, inst, after, wanted>>

\* ~DatabaseInstance: checkpoint and close the storage, ...
CloseStorage(t) ==
  /\ pc[t] \in {"destroy", "conflict"}
  /\ storage' = [storage EXCEPT ![inst[t]] = FALSE]
  /\ Goto(t, "destroy2")
  /\ UNCHANGED <<cacheVars, created, config, dbRefs, path, driverVars, inst, after, wanted>>

\* ... give the file free, ...
ErasePath(t) ==
  /\ pc[t] = "destroy2"
  /\ path' = IF path = inst[t] THEN 0 ELSE path
  /\ Goto(t, "destroy3")
  /\ UNCHANGED <<cacheVars, created, config, storage, dbRefs, driverVars, inst, after, wanted>>

\* ... and, after all is destroyed, the cache entry.
ClearEntry(t) ==
  /\ pc[t] = "destroy3"
  /\ entryOwned' = [entryOwned EXCEPT ![inst[t]] = FALSE]
  /\ Goto(t, after[t])
  /\ UNCHANGED <<cached, entryRefs, updateLock, dbVars, driverVars, inst, after, wanted>>

-----------------------------------------------------------------------------
(* DuckDBDriver *)

\* Faulty variant of MayPin: also after the shutdown hook has run.
MayPinLate == pinned = 0
MayPin == hook # "run" /\ pinned = 0

\* Faulty variant of PinnedOwners: the pin does not own the database.
NotOwning(t) == dbRefs[inst[t]]
PinnedOwners(t) == dbRefs[inst[t]] \union {Pin}

\* pinDB, when jdbc_pin_db is set.
PinDB(t) ==
  /\ pc[t] = "pin" /\ pinLock = None /\ MayPin
  /\ dbRefs' = [dbRefs EXCEPT ![inst[t]] = PinnedOwners(t)]
  /\ pinned' = inst[t]
  /\ hook' = IF hook = "none" THEN "registered" ELSE hook
  /\ Goto(t, "init")
  /\ UNCHANGED <<cacheVars, created, config, storage, path, pinLock, initNames,
                 initialised, inst, after, wanted>>

\* pinDB, when it is not set or there is nothing to do.
SkipPin(t) ==
  /\ pc[t] = "pin"
  /\ Goto(t, "init")
  /\ UNCHANGED <<cacheVars, dbVars, driverVars, inst, after, wanted>>

\* runSessionInitSQLFile: once for every database name; a failure closes the
\* connection.
RunSessionInit(t) ==
  /\ pc[t] = "init"
  /\ initialised' = IF initNames THEN initialised ELSE initialised \union {inst[t]}
  /\ initNames' = TRUE
  /\ Goto(t, "using")
  /\ UNCHANGED <<cacheVars, dbVars, pinned, pinLock, hook, inst, after, wanted>>

SessionInitFails(t) ==
  /\ pc[t] = "init" /\ MayFail
  /\ Goto(t, "closing")
  /\ UNCHANGED <<cacheVars, dbVars, driverVars, inst, after, wanted>>

\* DuckDBConnection.close(): the ConnectionHolder is deleted.
Close(t) ==
  /\ pc[t] \in {"using", "closing"}
  /\ Drop(t, t, inst[t], "idle")
  /\ UNCHANGED <<cacheVars, created, config, storage, path, driverVars, wanted>>

\* DuckDBDriver.releaseDB(): the pin is destroyed under its lock.
ReleaseDB(t) ==
  /\ pc[t] = "idle" /\ pinLock = None /\ hook # "run" /\ pinned # 0
  /\ pinned' = 0 /\ pinLock' = t
  /\ Drop(Pin, t, pinned, "unpin")
  /\ UNCHANGED <<cacheVars, created, config, storage, path, hook, initNames, initialised,
                 wanted>>

\* PinnedDbRefsShutdownHook, while other threads are still at work; the map
\* keeps its entry, the flag makes it harmless.
ShutdownHook(t) ==
  /\ pc[t] = "idle" /\ pinLock = None /\ hook = "registered"
  /\ pinLock' = t /\ hook' = "run"
  /\ IF pinned # 0 THEN Drop(Pin, t, pinned, "unpin")
     ELSE Goto(t, "unpin") /\ UNCHANGED <<dbRefs, inst, after>>
  /\ UNCHANGED <<cacheVars, created, config, storage, path, pinned, initNames, initialised,
                 wanted>>

Unpin(t) ==
  /\ pc[t] = "unpin"
  /\ pinLock' = None
  /\ Goto(t, "idle")
  /\ UNCHANGED <<cacheVars, dbVars, pinned, hook, initNames, initialised, inst, after,
                 wanted>>

-----------------------------------------------------------------------------
Init ==
  /\ cached = 0 /\ entryRefs = [i \in Ids |-> {}] /\ entryOwned = [i \in Ids |-> FALSE]
  /\ updateLock = [i \in Ids |-> None]
  /\ created = 0 /\ config = [i \in Ids |-> CHOOSE c \in Configs : TRUE]
  /\ storage = [i \in Ids |-> FALSE] /\ dbRefs = [i \in Ids |-> {}] /\ path = 0
  /\ pinned = 0 /\ pinLock = None /\ hook = "none"
  /\ initNames = FALSE /\ initialised = {}
  /\ pc = [t \in Threads |-> "idle"] /\ inst = [t \in Threads |-> 0]
  /\ after = [t \in Threads |-> "idle"]
  /\ wanted = [t \in Threads |-> None]

\* Steps inside connect(), close() and releaseDB(): what has begun goes on.
Step(t) ==
  \/ FindEntry(t) \/ CreateEntry(t) \/ LockWeak(t) \/ CheckConfig(t)
  \/ SpinEnds(t) \/ Erase(t)
  \/ OpenStorage(t) \/ OpenConflicts(t) \/ OpenFails(t) \/ OpenDone(t)
  \/ UnlockUpdate(t) \/ ReleaseEntry(t)
  \/ CloseStorage(t) \/ ErasePath(t) \/ ClearEntry(t)
  \/ PinDB(t) \/ SkipPin(t) \/ RunSessionInit(t) \/ SessionInitFails(t) \/ Unpin(t)

Next ==
  \E t \in Threads :
    Step(t) \/ Connect(t) \/ Close(t) \/ ReleaseDB(t) \/ ShutdownHook(t)

Spec == Init /\ [][Next]_vars

\* Threads inside a call are scheduled; the locks are only held for a while.
FairSpec == Spec /\ \A t \in Threads : WF_vars(Step(t))

-----------------------------------------------------------------------------
(* Properties *)

PC == {"idle", "lookup", "weak", "check", "spin", "erase", "open", "opened", "unlock",
       "release", "conflict", "destroy", "destroy2", "destroy3", "pin", "init", "using",
       "closing", "unpin"}

TypeOK ==
  /\ cached \in 0 .. MaxInstances /\ created \in 0 .. MaxInstances
  /\ entryRefs \in [Ids -> SUBSET Threads] /\ entryOwned \in [Ids -> BOOLEAN]
  /\ updateLock \in [Ids -> Threads \union {None}]
  /\ config \in [Ids -> Configs] /\ storage \in [Ids -> BOOLEAN]
  /\ dbRefs \in [Ids -> SUBSET (Threads \union {Pin})]
  /\ path \in 0 .. MaxInstances /\ pinned \in 0 .. MaxInstances
  /\ pinLock \in Threads \union {None} /\ hook \in {"none", "registered", "run"}
  /\ initNames \in BOOLEAN /\ initialised \subseteq Ids
  /\ pc \in [Threads -> PC] /\ inst \in [Threads -> 0 .. MaxInstances]
  /\ after \in [Threads -> {"idle", "unlock", "release", "unpin"}]
  /\ wanted \in [Threads -> Configs \union {None}]

Connected(t) == pc[t] \in {"pin", "init", "using"}

\* Two connections to one file always work on the same open database, however
\* connects, closes and failed opens overlap.
SameDatabase ==
  ~InMemory => \A t, u \in Threads :
                 Connected(t) /\ Connected(u) => inst[t] = inst[u] /\ storage[inst[t]]

\* A file has one open storage at a time: a new database opens it only after
\* the old one has written its last checkpoint and closed it.
FileOpenOnce == ~InMemory => \A i, j \in Ids : storage[i] /\ storage[j] => i = j

\* jdbc_pin_db keeps the database open until it is released, also when the
\* last connection closes meanwhile.
PinnedStaysOpen == pinned # 0 /\ hook # "run" => storage[pinned]

\* No pin is taken, and so left for ever, once the shutdown hook has run.
NoPinAfterShutdown == hook = "run" => \A i \in Ids : Pin \notin dbRefs[i]

\* connect() returns, with or without a connection: the busy spin and the
\* mutex of an entry end, although the waiters hold on to the entry too.
ConnectReturns ==
  \A t \in Threads : (pc[t] = "lookup") ~> (pc[t] \in {"using", "closing", "idle"})

\* "accessible from DB cache even after the last connection to this DB is
\* closed" (DBHolder): a pinned database is what the cache has for its name.
PinnedAccessible == pinned # 0 /\ hook # "run" => cached = pinned

\* "Either returns an existing entry, or creates and caches a new DB Instance"
\* (GetOrCreateInstance): connecting never runs into a file handle conflict.
ReturnsOrCreates == \A t \in Threads : pc[t] # "conflict"

\* A connection with a session init file works on a database in which the file
\* was run (test_session_init_db_and_connection).
InitRunHere == \A t \in Threads : pc[t] = "using" => inst[t] \in initialised
=============================================================================
