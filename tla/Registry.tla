-------------------------------- MODULE Registry --------------------------------
(***************************************************************************)
(* The interface of the library (zephyrlog.cpp, logger.cpp, zephyrlog.h):  *)
(* the registry of named loggers under a shared mutex, the atomic default  *)
(* logger, the levels, and the logging statements of the program's threads. *)
(* A logger lives as long as a shared_ptr to it does; the thread that      *)
(* releases the last one runs its destructor on the spot, which takes as   *)
(* long as the worker needs to drain, and holds what the thread has locked. *)
(*                                                                         *)
(* One action per access to memory that threads share.  initializeSafe and *)
(* createSafeLogger do what initializeQuick and createLogger do.           *)
(***************************************************************************)
EXTENDS Integers, Sequences

CONSTANTS
  Threads,
  Names,        \* names of loggers
  DefaultName,  \* "default", the name of those initialize...() makes
  MaxLevel,     \* the levels are 0 (DEBUG) .. MaxLevel
  MaxLoggers,   \* bound: loggers ever made
  MaxCalls      \* bound: calls and logging statements, of all threads together

Loggers == 1..MaxLoggers
Null == 0
Levels == 0..MaxLevel
DEBUG == 0

ASSUME RegistryAssumption ==
  /\ DefaultName \in Names
  /\ MaxLevel \in Nat
  /\ MaxLoggers \in Nat
  /\ MaxCalls \in Nat

VARIABLES
  names,        \* names[l]: the name of the l-th logger made
  levelOf,      \* levelOf[l]: its m_level
  registry,     \* g_registry, Null for a name that is not in it
  default,      \* g_defaultLogger
  globalLevel,  \* g_logLevel
  writers,      \* g_registryMutex: the threads that hold it exclusively ...
  readers,      \* ... or shared
  pc,           \* pc[t]: where thread t is in a call or statement
  name,         \* name[t]: the parameter `name'
  level,        \* level[t]: the parameter or the macro's level
  arg,          \* arg[t]: the shared_ptr `logger', a parameter or local
  def,          \* def[t]: the shared_ptr `def'
  handle,       \* handle[t]: a shared_ptr of the program, or Null
  target,       \* target[t]: the raw Logger* whose add() t is inside
  doomed,       \* doomed[t]: the loggers whose destructor t is in
  dead,         \* the loggers destroyed
  calls,        \* the calls made so far
  shadowed,     \* history, see Shadowed
  raced,        \* history, see Overlaps
  disturbed     \* history, see Observe

lockVars == <<writers, readers>>
pointerVars == <<registry, default, arg, def, handle>>
levelVars == <<levelOf, globalLevel>>
localVars == <<name, level>>
vars == <<names, levelVars, pointerVars, lockVars, pc, localVars, target, calls,
          doomed, dead, shadowed, raced, disturbed>>

Init ==
  /\ names = <<>>
  /\ levelOf = [l \in Loggers |-> DEBUG]
  /\ registry = [n \in Names |-> Null]
  /\ default = Null
  /\ globalLevel = DEBUG
  /\ writers = {}
  /\ readers = {}
  /\ pc = [t \in Threads |-> "idle"]
  /\ name = [t \in Threads |-> DefaultName]
  /\ level = [t \in Threads |-> DEBUG]
  /\ arg = [t \in Threads |-> Null]
  /\ def = [t \in Threads |-> Null]
  /\ handle = [t \in Threads |-> Null]
  /\ target = [t \in Threads |-> Null]
  /\ doomed = [t \in Threads |-> {}]
  /\ dead = {}
  /\ calls = 0
  /\ shadowed = {}
  /\ raced = {}
  /\ disturbed = [t \in Threads |-> FALSE]

-------------------------------------------------------------------------------
(* A thread begins a call, at a first step `here', or goes on with it.  In a *)
(* destructor it does nothing else.                                          *)
Call(t, here) ==
  /\ pc[t] = "idle"
  /\ doomed[t] = {}
  /\ calls < MaxCalls
  /\ calls' = calls + 1
  /\ pc' = [pc EXCEPT ![t] = here]

Goto(t, here, there) ==
  /\ pc[t] = here
  /\ doomed[t] = {}
  /\ pc' = [pc EXCEPT ![t] = there]
  /\ UNCHANGED calls

-------------------------------------------------------------------------------
(* Slips that the properties below catch.  No action uses them: to put one   *)
(* in the place of the definition it is named after shows that the property  *)
(* named with it is violated.                                                *)

(* TypeOK: a writer does not wait for the readers. *)
NoReaderAssumed == TRUE

(* DefaultKnown: emplace(), which keeps the logger that has the name. *)
InsertUnlessTaken(t, here, there) ==
  /\ Goto(t, here, there)
  /\ registry' = [registry EXCEPT ![names[arg[t]]] = IF @ = Null THEN arg[t] ELSE @]
  /\ UNCHANGED <<names, levelVars, default, arg, def, handle, lockVars, localVars, target>>

(* QuietUnlessDisturbed: the default logger's own level is not looked at. *)
ThresholdGlobal(l) == globalLevel

(* LevelTakesEffect: only the global level is set. *)
WithLevelForgotten(l, v) == levelOf

(* CallsReturn: the early return leaves the mutex locked. *)
RemoveMissingKeepsLock(t) ==
  /\ registry[name[t]] = Null
  /\ Goto(t, "removeFind", "idle")
  /\ UNCHANGED <<names, levelVars, pointerVars, lockVars, localVars, target>>

(* ImplementsLoggerLife: operator== keeps a raw pointer only. *)
OwnedNotByCallers(l) ==
  \/ l = default
  \/ \E n \in Names : l = registry[n]
  \/ \E t \in Threads : l \in {def[t], handle[t]}

-------------------------------------------------------------------------------
(* std::make_shared<Logger>(n, ...) *)
Make(t, n) ==
  /\ Len(names) < MaxLoggers
  /\ names' = Append(names, n)
  /\ arg' = [arg EXCEPT ![t] = Len(names) + 1]

(* std::unique_lock lock(g_registryMutex), and the end of its scope. *)
NoReader == readers = {}

Lock(t, here, there) ==
  /\ Goto(t, here, there)
  /\ writers = {}
  /\ NoReader
  /\ writers' = {t}
  /\ UNCHANGED <<names, levelVars, pointerVars, readers, localVars, target>>

Unlock(t, here, there) ==
  /\ Goto(t, here, there)
  /\ writers' = writers \ {t}
  /\ UNCHANGED <<names, levelVars, pointerVars, readers, localVars, target>>

-------------------------------------------------------------------------------
(* initializeQuick *)
Initialize(t) ==
  /\ Call(t, "setLock")
  /\ Make(t, DefaultName)
  /\ UNCHANGED <<levelVars, registry, default, def, handle, lockVars, localVars, target>>

(* setDefaultLogger of a logger the program holds; of none, it returns. *)
SetDefault(t) ==
  /\ handle[t] # Null
  /\ Call(t, "setLock")
  /\ arg' = [arg EXCEPT ![t] = handle[t]]
  /\ UNCHANGED <<names, levelVars, registry, default, def, handle, lockVars,
                 localVars, target>>

SetLock(t) == Lock(t, "setLock", "setInsert")

(* g_registry[name] = logger releases the logger that had the name. *)
Insert(t, here, there) ==
  /\ Goto(t, here, there)
  /\ registry' = [registry EXCEPT ![names[arg[t]]] = arg[t]]
  /\ UNCHANGED <<names, levelVars, default, arg, def, handle, lockVars, localVars, target>>

SetInsert(t) == Insert(t, "setInsert", "setUnlock")
SetUnlock(t) == Unlock(t, "setUnlock", "store")

(* The default is stored outside of the mutex. *)
StoreDefault(t) ==
  /\ Goto(t, "store", "idle")
  /\ default' = arg[t]
  /\ arg' = [arg EXCEPT ![t] = Null]
  /\ UNCHANGED <<names, levelVars, registry, def, handle, lockVars, localVars, target>>

(* createLogger, by a thread that has a variable free for the result. *)
Create(t, n) ==
  /\ handle[t] = Null
  /\ Call(t, "createLock")
  /\ Make(t, n)
  /\ UNCHANGED <<levelVars, registry, default, def, handle, lockVars, localVars, target>>

CreateLock(t) == Lock(t, "createLock", "createInsert")
CreateInsert(t) == Insert(t, "createInsert", "createUnlock")

CreateReturn(t) ==
  /\ Goto(t, "createUnlock", "idle")
  /\ writers' = writers \ {t}
  /\ handle' = [handle EXCEPT ![t] = arg[t]]
  /\ arg' = [arg EXCEPT ![t] = Null]
  /\ UNCHANGED <<names, levelVars, registry, default, def, readers, localVars, target>>

(* getLogger, under std::shared_lock lock(g_registryMutex). *)
Get(t, n) ==
  /\ handle[t] = Null
  /\ Call(t, "getLock")
  /\ name' = [name EXCEPT ![t] = n]
  /\ UNCHANGED <<names, levelVars, pointerVars, lockVars, level, target>>

GetLock(t) ==
  /\ Goto(t, "getLock", "getFind")
  /\ writers = {}
  /\ readers' = readers \cup {t}
  /\ UNCHANGED <<names, levelVars, pointerVars, writers, localVars, target>>

GetFind(t) ==
  /\ Goto(t, "getFind", "idle")
  /\ handle' = [handle EXCEPT ![t] = registry[name[t]]]
  /\ readers' = readers \ {t}
  /\ UNCHANGED <<names, levelVars, registry, default, arg, def, writers, localVars, target>>

(* getDefaultLogger *)
GetDefault(t) ==
  /\ handle[t] = Null
  /\ Call(t, "idle")
  /\ handle' = [handle EXCEPT ![t] = default]
  /\ UNCHANGED <<names, levelVars, registry, default, arg, def, lockVars, localVars, target>>

(* The program releases its shared_ptr. *)
Release(t) ==
  /\ handle[t] # Null
  /\ Goto(t, "idle", "idle")
  /\ handle' = [handle EXCEPT ![t] = Null]
  /\ UNCHANGED <<names, levelVars, registry, default, arg, def, lockVars, localVars, target>>

-------------------------------------------------------------------------------
(* removeLogger *)
Remove(t, n) ==
  /\ Call(t, "removeLock")
  /\ name' = [name EXCEPT ![t] = n]
  /\ UNCHANGED <<names, levelVars, pointerVars, lockVars, level, target>>

RemoveLock(t) == Lock(t, "removeLock", "removeFind")

RemoveMissing(t) ==
  /\ registry[name[t]] = Null
  /\ Unlock(t, "removeFind", "idle")

(* The default is loaded, and compared by its name ... *)
ClearsDefault(n) == default # Null /\ names[default] = n

RemoveFound(t) ==
  /\ registry[name[t]] # Null
  /\ Goto(t, "removeFind",
          IF ClearsDefault(name[t]) THEN "removeClear" ELSE "removeErase")
  /\ def' = [def EXCEPT ![t] = default]
  /\ UNCHANGED <<names, levelVars, registry, default, arg, handle, lockVars,
                 localVars, target>>

(* ... and whatever it is by now replaced by null. *)
RemoveClear(t) ==
  /\ Goto(t, "removeClear", "removeErase")
  /\ default' = Null
  /\ UNCHANGED <<names, levelVars, registry, arg, def, handle, lockVars,
                 localVars, target>>

(* g_registry.erase, then the end of def's scope, then that of the lock. *)
RemoveErase(t) ==
  /\ Goto(t, "removeErase", "removeForget")
  /\ registry' = [registry EXCEPT ![name[t]] = Null]
  /\ UNCHANGED <<names, levelVars, default, arg, def, handle, lockVars,
                 localVars, target>>

RemoveForget(t) ==
  /\ Goto(t, "removeForget", "removeUnlock")
  /\ def' = [def EXCEPT ![t] = Null]
  /\ UNCHANGED <<names, levelVars, registry, default, arg, handle, lockVars,
                 localVars, target>>

RemoveUnlock(t) == Unlock(t, "removeUnlock", "idle")

-------------------------------------------------------------------------------
(* setLogLevel: the global level, then the level of the default logger. *)
SetLogLevel(t, v) ==
  /\ Call(t, "levelLoad")
  /\ globalLevel' = v
  /\ level' = [level EXCEPT ![t] = v]
  /\ UNCHANGED <<names, levelOf, pointerVars, lockVars, name, target>>

LevelLoad(t) ==
  /\ Goto(t, "levelLoad", "levelSet")
  /\ def' = [def EXCEPT ![t] = default]
  /\ UNCHANGED <<names, levelVars, registry, default, arg, handle, lockVars,
                 localVars, target>>

WithLevel(l, v) == IF l = Null THEN levelOf ELSE [levelOf EXCEPT ![l] = v]

LevelSet(t) ==
  /\ Goto(t, "levelSet", "idle")
  /\ levelOf' = WithLevel(def[t], level[t])
  /\ def' = [def EXCEPT ![t] = Null]
  /\ UNCHANGED <<names, globalLevel, registry, default, arg, handle, lockVars,
                 localVars, target>>

(* Logger::setLevel through the program's own pointer. *)
SetLevel(t, v) ==
  /\ handle[t] # Null
  /\ Call(t, "idle")
  /\ levelOf' = [levelOf EXCEPT ![handle[t]] = v]
  /\ UNCHANGED <<names, globalLevel, pointerVars, lockVars, localVars, target>>

-------------------------------------------------------------------------------
(* ZINFO and its like: getLogLevel() ... *)
Log(t, v) ==
  /\ Call(t, "filter")
  /\ level' = [level EXCEPT ![t] = v]
  /\ def' = [def EXCEPT ![t] = default]
  /\ UNCHANGED <<names, levelVars, registry, default, arg, handle, lockVars, name, target>>

Threshold(l) == IF l = Null THEN globalLevel ELSE levelOf[l]

Filter(t) ==
  /\ Goto(t, "filter", IF level[t] >= Threshold(def[t]) THEN "route" ELSE "idle")
  /\ def' = [def EXCEPT ![t] = Null]
  /\ UNCHANGED <<names, levelVars, registry, default, arg, handle, lockVars,
                 localVars, target>>

(* ... and ZephyrLog::operator==, which drops the line without a logger. *)
Route(t) ==
  /\ Goto(t, "route", IF default = Null THEN "idle" ELSE "routed")
  /\ arg' = [arg EXCEPT ![t] = default]
  /\ UNCHANGED <<names, levelVars, registry, default, def, handle, lockVars,
                 localVars, target>>

Enter(t, here, l) ==
  /\ Goto(t, here, "adding")
  /\ target' = [target EXCEPT ![t] = l]
  /\ UNCHANGED <<names, levelVars, pointerVars, lockVars, localVars>>

Add(t) == Enter(t, "routed", arg[t])

(* ZI and its like; LoggerRef keeps no shared_ptr. *)
LogTo(t, v) ==
  /\ handle[t] # Null
  /\ Call(t, IF v >= levelOf[handle[t]] THEN "named" ELSE "idle")
  /\ level' = [level EXCEPT ![t] = v]
  /\ UNCHANGED <<names, levelVars, pointerVars, lockVars, name, target>>

AddTo(t) == Enter(t, "named", handle[t])

AddReturn(t) ==
  /\ Goto(t, "adding", "added")
  /\ target' = [target EXCEPT ![t] = Null]
  /\ UNCHANGED <<names, levelVars, pointerVars, lockVars, localVars>>

LogReturn(t) ==
  /\ Goto(t, "added", "idle")
  /\ arg' = [arg EXCEPT ![t] = Null]
  /\ UNCHANGED <<names, levelVars, registry, default, def, handle, lockVars,
                 localVars, target>>

-------------------------------------------------------------------------------
(* What a thread may begin, and how it goes on. *)
Begin(t) ==
  \/ Initialize(t) \/ SetDefault(t) \/ GetDefault(t) \/ Release(t)
  \/ \E n \in Names : Create(t, n) \/ Get(t, n) \/ Remove(t, n)
  \/ \E v \in Levels : SetLogLevel(t, v) \/ SetLevel(t, v) \/ Log(t, v) \/ LogTo(t, v)

Continue(t) ==
  \/ SetLock(t) \/ SetInsert(t) \/ SetUnlock(t) \/ StoreDefault(t)
  \/ CreateLock(t) \/ CreateInsert(t) \/ CreateReturn(t)
  \/ GetLock(t) \/ GetFind(t)
  \/ RemoveLock(t) \/ RemoveMissing(t) \/ RemoveFound(t) \/ RemoveClear(t)
  \/ RemoveErase(t) \/ RemoveForget(t) \/ RemoveUnlock(t)
  \/ LevelLoad(t) \/ LevelSet(t)
  \/ Filter(t) \/ Route(t) \/ Add(t) \/ AddTo(t) \/ AddReturn(t) \/ LogReturn(t)

(* Some shared_ptr owns l.  A step that leaves l without an owner makes its *)
(* thread run the destructor.                                               *)
Owned(l) ==
  \/ l = default
  \/ \E n \in Names : l = registry[n]
  \/ \E t \in Threads : l \in {arg[t], def[t], handle[t]}

Reclaim(t) ==
  /\ doomed' = [doomed EXCEPT ![t] = @ \cup {l \in Loggers : Owned(l) /\ ~Owned(l)'}]
  /\ UNCHANGED dead

(* AsyncLogger's destructor returns: see ShutdownEnds of QuickLogger and    *)
(* SafeLogger.                                                              *)
Destroy(t, l) ==
  /\ l \in doomed[t]
  /\ doomed' = [doomed EXCEPT ![t] = @ \ {l}]
  /\ dead' = dead \cup {l}
  /\ UNCHANGED <<names, levelVars, pointerVars, lockVars, pc, localVars, target, calls>>

(* shadowed: the loggers whose name createLogger() has given to another one, *)
(* which leaves the default logger alone, since they were last registered.   *)
Shadowed(t) ==
  CASE pc[t] = "createInsert" /\ pc'[t] = "createUnlock" ->
         {l \in 1..Len(names) : l # arg[t] /\ (names[l] = names[arg[t]] \/ l \in shadowed)}
    [] pc[t] = "setInsert" /\ pc'[t] = "setUnlock" -> shadowed \ {arg[t]}
    [] OTHER -> shadowed

(* raced: what has overlapped a setDefaultLogger() that has put its logger  *)
(* into the registry and not yet made it the default: a "removal" of its    *)
(* name, or the "setting" of another logger of that name.                   *)
Setting == {"setUnlock", "store"}
Removing == {"removeFind", "removeClear", "removeErase", "removeForget", "removeUnlock"}
Removal ==
  \E s, r \in Threads :
    pc[s] \in Setting /\ pc[r] \in Removing /\ name[r] = names[arg[s]]
Settings ==
  \E s, r \in Threads :
    pc[s] \in Setting /\ pc[r] \in Setting /\ arg[s] # arg[r] /\ names[arg[s]] = names[arg[r]]
Overlaps == {o \in {"removal", "setting"} : IF o = "removal" THEN Removal ELSE Settings}

(* disturbed[u]: another thread has changed the default logger or a level   *)
(* since u began its call.                                                  *)
Observe(t) ==
  /\ shadowed' = Shadowed(t)
  /\ raced' = raced \cup Overlaps'
  /\ disturbed' = [u \in Threads |->
       /\ pc'[u] # "idle"
       /\ disturbed[u] \/ (u # t /\ <<default, levelVars>>' # <<default, levelVars>>)]

Run(t) == (Begin(t) \/ Continue(t)) /\ Reclaim(t) /\ Observe(t)
Finish(t) == (\E l \in Loggers : Destroy(t, l)) /\ Observe(t)

Next == \E t \in Threads : Run(t) \/ Finish(t)

(* Threads keep running, and destructors return.  How often the program     *)
(* calls is its own affair; it is finite, so that locks get free for good.  *)
Fairness ==
  \A t \in Threads :
    /\ WF_vars(Continue(t) /\ Reclaim(t) /\ Observe(t))
    /\ WF_vars(Finish(t))

Spec == Init /\ [][Next]_vars /\ Fairness

-------------------------------------------------------------------------------
(* Type invariant; the mutex has one writer or any number of readers. *)
Pointers == 0..Len(names)
TypeOK ==
  /\ names \in Seq(Names) /\ Len(names) <= MaxLoggers
  /\ levelOf \in [Loggers -> Levels]
  /\ globalLevel \in Levels
  /\ registry \in [Names -> Pointers]
  /\ default \in Pointers
  /\ writers \subseteq Threads
  /\ readers \subseteq Threads
  /\ \A t \in writers : writers = {t} /\ readers = {}
  /\ pc \in [Threads -> Removing \cup
       {"idle", "setLock", "setInsert", "setUnlock", "store", "createLock",
        "createInsert", "createUnlock", "getLock", "getFind", "removeLock",
        "levelLoad", "levelSet", "filter", "route", "routed", "named", "adding",
        "added"}]
  /\ name \in [Threads -> Names]
  /\ level \in [Threads -> Levels]
  /\ arg \in [Threads -> Pointers]
  /\ def \in [Threads -> Pointers]
  /\ handle \in [Threads -> Pointers]
  /\ target \in [Threads -> Pointers]
  /\ doomed \in [Threads -> SUBSET Loggers]
  /\ dead \subseteq Loggers
  /\ calls \in 0..MaxCalls
  /\ shadowed \subseteq Loggers
  /\ raced \subseteq {"removal", "setting"}
  /\ disturbed \in [Threads -> BOOLEAN]

(* What became of a logger, and who is inside its add(). *)
Phase == [l \in Loggers |->
  IF l > Len(names) THEN "none"
  ELSE IF l \in dead THEN "dead"
  ELSE IF \E t \in Threads : l \in doomed[t] THEN "dying"
  ELSE "live"]
Inside == [l \in Loggers |-> {t \in Threads : target[t] = l}]

(* zephyrlog.cpp:14-16 and :116: re-initializing and replacing the default  *)
(* logger, removing it, or dropping the last handle never destroys a logger *)
(* some thread is inside add() of, its raw pointers included; nobody enters *)
(* one whose destructor has begun; and no destructor runs twice.            *)
Life == INSTANCE LoggerLife WITH phase <- Phase, inside <- Inside
ImplementsLoggerLife == Life!Spec

(* A logger is found under its name, whatever was registered, replaced and   *)
(* removed.  getLogger() finds one under the name of the default logger,     *)
(* unless a removal of that name has overlapped the setDefaultLogger() that  *)
(* registered it.  And it finds the default logger itself, unless            *)
(* createLogger() has given the name to another one since, or another        *)
(* setDefaultLogger() has registered its logger and is about to make it the  *)
(* default, or two calls of it have overlapped.                              *)
DefaultKnown ==
  /\ \A n \in Names : registry[n] # Null => names[registry[n]] = n
  /\ default # Null /\ "removal" \notin raced => registry[names[default]] # Null
  /\ default # Null /\ raced = {} =>
       \/ registry[names[default]] = default
       \/ default \in shadowed
       \/ \E s \in Threads : pc[s] \in Setting /\ arg[s] = registry[names[default]]

(* README.md:120: a line below the level of the logger it goes to gets      *)
(* through only when another thread has changed the default logger or a     *)
(* level between the test and the routing of the line.                      *)
QuietUnlessDisturbed ==
  \A t \in Threads :
    pc[t] = "adding" /\ ~disturbed[t] => level[t] >= levelOf[target[t]]

(* When setLogLevel() returns, the level it was given is the one that the   *)
(* macros test, with a default logger or without one, unless another thread *)
(* has set one or the default logger in the meantime.                       *)
LevelTakesEffect ==
  [][\A t \in Threads :
       pc[t] = "levelSet" /\ pc'[t] = "idle" /\ ~disturbed[t] =>
         Threshold(default)' = level[t]]_vars

(* Every call and statement returns: no path leaves g_registryMutex locked, *)
(* and a destructor that runs under it only delays the others.              *)
CallsReturn ==
  \A t \in Threads : pc[t] # "idle" ~> pc[t] = "idle" /\ doomed[t] = {}

(* zephyrlog.cpp:132: "If removing the default logger, clear it".  The      *)
(* default logger that removeLogger() clears has the name being removed.    *)
ClearsOnlyItself ==
  [][\A t \in Threads :
       pc[t] = "removeClear" /\ pc'[t] # pc[t] =>
         default = Null \/ names[default] = name[t]]_vars
===============================================================================
