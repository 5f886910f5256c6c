----------------------------- MODULE RegistryProofs -----------------------------
(***************************************************************************)
(* Proofs about Registry for any threads, names and levels and any number  *)
(* of loggers and calls.                                                   *)
(***************************************************************************)
EXTENDS Registry, TLAPS

Stages == Removing \cup
  {"idle", "setLock", "setInsert", "setUnlock", "store", "createLock",
   "createInsert", "createUnlock", "getLock", "getFind", "removeLock",
   "levelLoad", "levelSet", "filter", "route", "routed", "named", "adding",
   "added"}

(* TypeOK in three parts: what the calls read and write, ... *)
DataTyped ==
  /\ names \in Seq(Names) /\ Len(names) <= MaxLoggers
  /\ levelOf \in [Loggers -> Levels]
  /\ globalLevel \in Levels
  /\ registry \in [Names -> Pointers]
  /\ default \in Pointers
  /\ name \in [Threads -> Names]
  /\ level \in [Threads -> Levels]
  /\ arg \in [Threads -> Pointers]
  /\ def \in [Threads -> Pointers]
  /\ handle \in [Threads -> Pointers]
  /\ target \in [Threads -> Pointers]

(* ... where the threads are and what they have locked, ... *)
ControlTyped ==
  /\ writers \subseteq Threads
  /\ readers \subseteq Threads
  /\ \A t \in writers : writers = {t} /\ readers = {}
  /\ pc \in [Threads -> Stages]
  /\ calls \in 0..MaxCalls

(* ... and what every step keeps book of. *)
BooksTyped ==
  /\ doomed \in [Threads -> SUBSET Loggers]
  /\ dead \subseteq Loggers
  /\ shadowed \subseteq Loggers
  /\ raced \subseteq {"removal", "setting"}
  /\ disturbed \in [Threads -> BOOLEAN]

LEMMA TypeParts ==
  /\ TypeOK <=> DataTyped /\ ControlTyped /\ BooksTyped
  /\ TypeOK' <=> DataTyped' /\ ControlTyped' /\ BooksTyped'
  BY DEF TypeOK, DataTyped, ControlTyped, BooksTyped, Stages

LEMMA TypeInit == Init => TypeOK
<1>. SUFFICES ASSUME Init PROVE TypeOK
  OBVIOUS
<1>1. 0 \in Levels /\ 0 \in 0..0 /\ 0 \in 0..MaxCalls /\ <<>> \in Seq(Names) /\ Len(<<>>) = 0
  BY RegistryAssumption DEF Levels
<1>2. DataTyped
  BY <1>1, RegistryAssumption DEF Init, DataTyped, Pointers, Null, DEBUG
<1>3. ControlTyped
  BY <1>1 DEF Init, ControlTyped, Stages
<1>4. BooksTyped
  BY DEF Init, BooksTyped
<1>. QED
  BY <1>2, <1>3, <1>4, TypeParts

(* Making a logger adds a pointer to those there are. *)
LEMMA MakeTyped ==
  ASSUME DataTyped, NEW t \in Threads, NEW n \in Names, Make(t, n),
         UNCHANGED <<levelVars, registry, default, def, handle, localVars, target>>
  PROVE  DataTyped'
<1>1. names' \in Seq(Names) /\ Len(names') = Len(names) + 1 /\ Len(names) \in Nat
  BY DEF Make, DataTyped
<1>2. Pointers \subseteq Pointers' /\ Len(names) + 1 \in Pointers'
  BY <1>1 DEF Pointers
<1>3. Len(names') <= MaxLoggers
  BY <1>1, RegistryAssumption DEF Make
<1>. QED
  BY <1>1, <1>2, <1>3 DEF Make, DataTyped, levelVars, localVars

(* With the loggers unchanged, pointers stay pointers. *)
LEMMA SamePointers == UNCHANGED names => Pointers' = Pointers
  BY DEF Pointers

LEMMA BeginTyped ==
  ASSUME TypeOK, NEW t \in Threads, Begin(t)
  PROVE  DataTyped' /\ ControlTyped'
<1>. DataTyped /\ ControlTyped
  BY TypeParts
<1>. USE DEF Call, levelVars, pointerVars, lockVars, localVars
<1>1. ASSUME NEW here \in Stages, Call(t, here), UNCHANGED lockVars
      PROVE  ControlTyped'
  BY <1>1, RegistryAssumption DEF ControlTyped
<1>2. CASE Initialize(t)
  <2>1. DataTyped'
    BY <1>2, MakeTyped, RegistryAssumption DEF Initialize
  <2>. QED
    BY <1>1, <1>2, <2>1 DEF Initialize, Stages
<1>3. ASSUME NEW n \in Names, Create(t, n) PROVE DataTyped' /\ ControlTyped'
  <2>1. DataTyped'
    BY <1>3, MakeTyped DEF Create
  <2>. QED
    BY <1>1, <1>3, <2>1 DEF Create, Stages
<1>4. CASE SetDefault(t)
  <2>1. DataTyped'
    BY <1>4, SamePointers DEF SetDefault, DataTyped
  <2>. QED
    BY <1>1, <1>4, <2>1 DEF SetDefault, Stages
<1>5. CASE GetDefault(t)
  <2>1. DataTyped'
    BY <1>5, SamePointers DEF GetDefault, DataTyped
  <2>. QED
    BY <1>1, <1>5, <2>1 DEF GetDefault, Stages
<1>6. CASE Release(t)
  <2>1. Null \in Pointers
    BY DEF Pointers, Null, DataTyped
  <2>2. DataTyped'
    BY <1>6, <2>1, SamePointers DEF Release, Goto, DataTyped
  <2>. QED
    BY <1>6, <2>2 DEF Release, Goto, ControlTyped, Stages
<1>7. ASSUME NEW n \in Names, Get(t, n) \/ Remove(t, n) PROVE DataTyped' /\ ControlTyped'
  <2>1. DataTyped'
    BY <1>7, SamePointers DEF Get, Remove, DataTyped
  <2>. QED
    BY <1>1, <1>7, <2>1 DEF Get, Remove, Stages
<1>8. ASSUME NEW v \in Levels, SetLogLevel(t, v) \/ SetLevel(t, v)
      PROVE  DataTyped' /\ ControlTyped'
  <2>1. DataTyped'
    BY <1>8, SamePointers DEF SetLogLevel, SetLevel, DataTyped
  <2>. QED
    BY <1>1, <1>8, <2>1 DEF SetLogLevel, SetLevel, Stages
<1>9. ASSUME NEW v \in Levels, Log(t, v) \/ LogTo(t, v)
      PROVE  DataTyped' /\ ControlTyped'
  <2>1. DataTyped'
    BY <1>9, SamePointers DEF Log, LogTo, DataTyped
  <2>. QED
    BY <1>1, <1>9, <2>1 DEF Log, LogTo, Stages
<1>. QED
  BY <1>2, <1>3, <1>4, <1>5, <1>6, <1>7, <1>8, <1>9 DEF Begin

LEMMA ContinueTyped ==
  ASSUME TypeOK, NEW t \in Threads, Continue(t)
  PROVE  DataTyped' /\ ControlTyped'
<1>. DataTyped /\ ControlTyped
  BY TypeParts
<1>. Null \in Pointers
  BY DEF Pointers, Null, DataTyped
<1>. USE DEF levelVars, pointerVars, lockVars, localVars
<1>1. ASSUME NEW here \in Stages, NEW there \in Stages,
             Goto(t, here, there), UNCHANGED lockVars
      PROVE  ControlTyped'
  BY <1>1 DEF ControlTyped, Goto
<1>2. ASSUME NEW here \in Stages, NEW there \in Stages,
             Lock(t, here, there) \/ Unlock(t, here, there)
      PROVE  DataTyped' /\ ControlTyped'
  <2>1. DataTyped'
    BY <1>2, SamePointers DEF Lock, Unlock, DataTyped
  <2>2. CASE Lock(t, here, there)
    BY <2>1, <2>2 DEF Lock, Goto, NoReader, ControlTyped
  <2>3. CASE Unlock(t, here, there)
    BY <2>1, <2>3 DEF Unlock, Goto, ControlTyped
  <2>. QED
    BY <1>2, <2>2, <2>3
<1>3. CASE SetLock(t) \/ CreateLock(t) \/ RemoveLock(t)
  BY <1>2, <1>3 DEF SetLock, CreateLock, RemoveLock, Stages, Removing
<1>4. CASE SetUnlock(t) \/ RemoveUnlock(t) \/ RemoveMissing(t)
  BY <1>2, <1>4 DEF SetUnlock, RemoveUnlock, RemoveMissing, Stages, Removing
<1>5. ASSUME NEW here \in Stages, NEW there \in Stages, Insert(t, here, there)
      PROVE  DataTyped' /\ ControlTyped'
  <2>1. DataTyped'
    BY <1>5, SamePointers DEF Insert, DataTyped
  <2>. QED
    BY <1>1, <1>5, <2>1 DEF Insert
<1>6. CASE SetInsert(t) \/ CreateInsert(t)
  BY <1>5, <1>6 DEF SetInsert, CreateInsert, Stages
<1>7. CASE StoreDefault(t)
  <2>1. DataTyped'
    BY <1>7, SamePointers DEF StoreDefault, DataTyped
  <2>. QED
    BY <1>1, <1>7, <2>1 DEF StoreDefault, Stages
<1>8. CASE CreateReturn(t)
  <2>1. DataTyped'
    BY <1>8, SamePointers DEF CreateReturn, DataTyped
  <2>. QED
    BY <1>8, <2>1 DEF CreateReturn, Goto, ControlTyped, Stages
<1>9. CASE GetLock(t)
  <2>1. DataTyped'
    BY <1>9, SamePointers DEF GetLock, DataTyped
  <2>. QED
    BY <1>9, <2>1 DEF GetLock, Goto, ControlTyped, Stages
<1>10. CASE GetFind(t)
  <2>1. DataTyped'
    BY <1>10, SamePointers DEF GetFind, DataTyped
  <2>. QED
    BY <1>10, <2>1 DEF GetFind, Goto, ControlTyped, Stages
<1>11. CASE RemoveFound(t)
  <2>1. DataTyped'
    BY <1>11, SamePointers DEF RemoveFound, DataTyped
  <2>. QED
    BY <1>1, <1>11, <2>1 DEF RemoveFound, Stages, Removing
<1>12. CASE RemoveClear(t) \/ RemoveErase(t) \/ RemoveForget(t)
  <2>1. DataTyped'
    BY <1>12, SamePointers DEF RemoveClear, RemoveErase, RemoveForget, DataTyped
  <2>. QED
    BY <1>1, <1>12, <2>1 DEF RemoveClear, RemoveErase, RemoveForget, Stages, Removing
<1>13. CASE LevelLoad(t)
  <2>1. DataTyped'
    BY <1>13, SamePointers DEF LevelLoad, DataTyped
  <2>. QED
    BY <1>1, <1>13, <2>1 DEF LevelLoad, Stages
<1>14. CASE LevelSet(t)
  <2>1. DataTyped'
    BY <1>14, SamePointers DEF LevelSet, WithLevel, DataTyped
  <2>. QED
    BY <1>1, <1>14, <2>1 DEF LevelSet, Stages
<1>15. CASE Filter(t) \/ Route(t) \/ LogReturn(t)
  <2>1. DataTyped'
    BY <1>15, SamePointers DEF Filter, Route, LogReturn, DataTyped
  <2>. QED
    BY <1>1, <1>15, <2>1 DEF Filter, Route, LogReturn, Stages
<1>16. CASE Add(t) \/ AddTo(t) \/ AddReturn(t)
  <2>1. DataTyped'
    BY <1>16, SamePointers DEF Add, AddTo, Enter, AddReturn, DataTyped
  <2>. QED
    BY <1>1, <1>16, <2>1 DEF Add, AddTo, Enter, AddReturn, Stages
<1>. QED
  BY <1>3, <1>4, <1>6, <1>7, <1>8, <1>9, <1>10, <1>11, <1>12, <1>13, <1>14,
     <1>15, <1>16 DEF Continue

LEMMA TypeNext == TypeOK /\ [Next]_vars => TypeOK'
<1>. SUFFICES ASSUME TypeOK, [Next]_vars PROVE TypeOK'
  OBVIOUS
<1>. DataTyped /\ ControlTyped /\ BooksTyped
  BY TypeParts
<1>1. ASSUME NEW t \in Threads, Observe(t)
      PROVE  /\ shadowed' \subseteq Loggers
             /\ raced' \subseteq {"removal", "setting"}
             /\ disturbed' \in [Threads -> BOOLEAN]
  <2>1. 1..Len(names) \subseteq Loggers
    BY RegistryAssumption DEF DataTyped, Loggers
  <2>2. Shadowed(t) \subseteq Loggers
    BY <2>1 DEF Shadowed, BooksTyped
  <2>. QED
    BY <1>1, <2>2 DEF Observe, Overlaps, BooksTyped
<1>2. ASSUME NEW t \in Threads, Run(t) PROVE TypeOK'
  <2>1. DataTyped' /\ ControlTyped'
    BY <1>2, BeginTyped, ContinueTyped DEF Run
  <2>2. BooksTyped'
    BY <1>1, <1>2 DEF Run, Reclaim, BooksTyped
  <2>. QED
    BY <2>1, <2>2, TypeParts
<1>3. ASSUME NEW t \in Threads, Finish(t) PROVE TypeOK'
  <2>1. DataTyped' /\ ControlTyped'
    BY <1>3, SamePointers DEF Finish, Destroy, DataTyped, ControlTyped, levelVars,
       pointerVars, lockVars, localVars
  <2>2. BooksTyped'
    BY <1>1, <1>3 DEF Finish, Destroy, BooksTyped
  <2>. QED
    BY <2>1, <2>2, TypeParts
<1>4. CASE UNCHANGED vars
  BY <1>4, SamePointers DEF vars, TypeOK, levelVars, pointerVars, lockVars, localVars
<1>. QED
  BY <1>2, <1>3, <1>4 DEF Next

-------------------------------------------------------------------------------
(* Where a thread keeps the pointers it works with. *)
HasArg == {"setLock", "setInsert", "setUnlock", "store", "createLock",
           "createInsert", "createUnlock", "routed", "adding", "added"}

Placed ==
  \A t \in Threads :
    /\ pc[t] \notin HasArg => arg[t] = Null
    /\ pc[t] \in HasArg \ {"adding", "added"} => arg[t] # Null
    /\ pc[t] = "named" => handle[t] # Null
    /\ pc[t] = "adding" => target[t] # Null /\ target[t] \in {arg[t], handle[t]}
    /\ pc[t] # "adding" => target[t] = Null

(* What a step does to the lives of loggers: it makes one, ... *)
Made(t) ==
  /\ \E n \in Names : Make(t, n)
  /\ arg[t] = Null
  /\ UNCHANGED <<registry, default, def, handle, target>>

(* ... enters or leaves the add() of one, ... *)
Entered(t) ==
  /\ target[t] = Null
  /\ target'[t] # Null
  /\ target'[t] \in {arg[t], handle[t]}
  /\ target' = [target EXCEPT ![t] = target'[t]]
  /\ UNCHANGED <<names, pointerVars>>

Left(t) ==
  /\ target[t] # Null
  /\ target' = [target EXCEPT ![t] = Null]
  /\ UNCHANGED <<names, pointerVars>>

(* ... or passes pointers on and drops some. *)
Passed(t) ==
  /\ target[t] = Null
  /\ \A u \in Threads \ {t} :
       arg'[u] = arg[u] /\ def'[u] = def[u] /\ handle'[u] = handle[u]
  /\ \A l \in Loggers : Owned(l)' => Owned(l)
  /\ UNCHANGED <<names, target>>

(* A thread that is not inside add() and whose pointers are as before. *)
LEMMA Quiet ==
  ASSUME TypeOK, Placed, NEW t \in Threads, pc[t] # "adding",
         UNCHANGED <<names, pointerVars, target>>
  PROVE  Passed(t)
  BY DEF Placed, Passed, Owned, pointerVars

LEMMA BeginKind ==
  ASSUME TypeOK, Placed, NEW t \in Threads, Begin(t)
  PROVE  Made(t) \/ Passed(t)
<1>. USE DEF Call, levelVars, localVars
<1>0. DataTyped /\ ControlTyped
  BY TypeParts
<1>1. pc[t] = "idle" /\ arg[t] = Null /\ target[t] = Null
  BY DEF Begin, Initialize, SetDefault, GetDefault, Release, Create, Get, Remove,
     SetLogLevel, SetLevel, Log, LogTo, Goto, Placed, HasArg
<1>2. CASE Initialize(t)
  BY <1>1, <1>2, RegistryAssumption DEF Initialize, Made
<1>3. ASSUME NEW n \in Names, Create(t, n) PROVE Made(t)
  BY <1>1, <1>3 DEF Create, Made
<1>4. CASE SetDefault(t)
  BY <1>0, <1>1, <1>4 DEF SetDefault, Passed, Owned, DataTyped
<1>5. CASE GetDefault(t) \/ Release(t)
  BY <1>0, <1>1, <1>5 DEF GetDefault, Release, Passed, Owned, DataTyped, Null, Loggers
<1>6. ASSUME NEW n \in Names, Get(t, n) \/ Remove(t, n) PROVE Passed(t)
  BY <1>1, <1>6, Quiet DEF Get, Remove
<1>7. ASSUME NEW v \in Levels, SetLogLevel(t, v) \/ SetLevel(t, v) \/ LogTo(t, v)
      PROVE  Passed(t)
  BY <1>1, <1>7, Quiet DEF SetLogLevel, SetLevel, LogTo
<1>8. ASSUME NEW v \in Levels, Log(t, v) PROVE Passed(t)
  BY <1>0, <1>1, <1>8 DEF Log, Passed, Owned, DataTyped
<1>. QED
  BY <1>2, <1>3, <1>4, <1>5, <1>6, <1>7, <1>8 DEF Begin

LEMMA ContinueKind ==
  ASSUME TypeOK, Placed, NEW t \in Threads, Continue(t)
  PROVE  Entered(t) \/ Left(t) \/ Passed(t)
<1>. DataTyped /\ ControlTyped
  BY TypeParts
<1>. USE DEF Goto, levelVars, localVars
<1>1. CASE SetLock(t) \/ CreateLock(t) \/ RemoveLock(t) \/ SetUnlock(t)
             \/ RemoveUnlock(t) \/ RemoveMissing(t) \/ GetLock(t)
  BY <1>1, Quiet DEF SetLock, CreateLock, RemoveLock, SetUnlock, RemoveUnlock,
     RemoveMissing, Lock, Unlock, GetLock
<1>2. CASE SetInsert(t) \/ CreateInsert(t)
  BY <1>2 DEF SetInsert, CreateInsert, Insert, Placed, Passed, Owned, DataTyped
<1>3. CASE StoreDefault(t) \/ CreateReturn(t)
  BY <1>3 DEF StoreDefault, CreateReturn, Placed, Passed, Owned, DataTyped, Null, Loggers
<1>4. CASE GetFind(t)
  BY <1>4 DEF GetFind, Placed, Passed, Owned, DataTyped
<1>5. CASE RemoveFound(t) \/ LevelLoad(t)
  BY <1>5 DEF RemoveFound, LevelLoad, Placed, Passed, Owned, DataTyped
<1>6. CASE RemoveClear(t) \/ RemoveErase(t) \/ RemoveForget(t)
  BY <1>6 DEF RemoveClear, RemoveErase, RemoveForget, Placed, Passed, Owned,
     DataTyped, Null, Loggers
<1>7. CASE LevelSet(t) \/ Filter(t)
  BY <1>7 DEF LevelSet, Filter, Placed, Passed, Owned, DataTyped, Null, Loggers
<1>8. CASE Route(t) \/ LogReturn(t)
  BY <1>8 DEF Route, LogReturn, Placed, Passed, Owned, DataTyped, Null, Loggers
<1>9. CASE Add(t) \/ AddTo(t)
  BY <1>9 DEF Add, AddTo, Enter, Placed, HasArg, Entered, DataTyped
<1>10. CASE AddReturn(t)
  BY <1>10 DEF AddReturn, Placed, Left, DataTyped
<1>. QED
  BY <1>1, <1>2, <1>3, <1>4, <1>5, <1>6, <1>7, <1>8, <1>9, <1>10 DEF Continue

LEMMA PlacedInit == Init => Placed
  BY DEF Init, Placed, HasArg

LEMMA PlacedNext ==
  ASSUME TypeOK, Placed, [Next]_vars
  PROVE  Placed'
<1>. DataTyped /\ ControlTyped
  BY TypeParts
<1>. USE DEF Placed, HasArg, DataTyped, ControlTyped, levelVars, pointerVars, localVars
<1>1. ASSUME NEW t \in Threads, Begin(t) PROVE Placed'
  <2>. USE DEF Call
  <2>0. Len(names) + 1 # Null
    BY DEF Null
  <2>1. CASE Initialize(t) \/ SetDefault(t) \/ \E n \in Names : Create(t, n)
    BY <2>0, <2>1 DEF Initialize, SetDefault, Create, Make
  <2>2. CASE GetDefault(t) \/ Release(t)
    BY <2>2 DEF GetDefault, Release, Goto
  <2>3. CASE \E n \in Names : Get(t, n) \/ Remove(t, n)
    BY <2>3 DEF Get, Remove
  <2>4. CASE \E v \in Levels : SetLogLevel(t, v) \/ SetLevel(t, v)
    BY <2>4 DEF SetLogLevel, SetLevel
  <2>5. CASE \E v \in Levels : Log(t, v) \/ LogTo(t, v)
    BY <2>5 DEF Log, LogTo
  <2>. QED
    BY <1>1, <2>1, <2>2, <2>3, <2>4, <2>5 DEF Begin
<1>2. ASSUME NEW t \in Threads, Continue(t) PROVE Placed'
  <2>. USE DEF Goto
  <2>1. CASE SetLock(t) \/ CreateLock(t) \/ RemoveLock(t) \/ SetUnlock(t)
               \/ RemoveUnlock(t) \/ RemoveMissing(t) \/ GetLock(t)
    BY <2>1 DEF SetLock, CreateLock, RemoveLock, SetUnlock, RemoveUnlock,
       RemoveMissing, Lock, Unlock, GetLock
  <2>2. CASE SetInsert(t) \/ CreateInsert(t)
    BY <2>2 DEF SetInsert, CreateInsert, Insert
  <2>3. CASE StoreDefault(t) \/ CreateReturn(t)
    BY <2>3 DEF StoreDefault, CreateReturn
  <2>4. CASE GetFind(t)
    BY <2>4 DEF GetFind
  <2>5. CASE RemoveFound(t) \/ LevelLoad(t)
    BY <2>5 DEF RemoveFound, LevelLoad
  <2>6. CASE RemoveClear(t) \/ RemoveErase(t) \/ RemoveForget(t)
    BY <2>6 DEF RemoveClear, RemoveErase, RemoveForget
  <2>7. CASE LevelSet(t) \/ Filter(t)
    BY <2>7 DEF LevelSet, Filter
  <2>8. CASE Route(t) \/ LogReturn(t)
    BY <2>8 DEF Route, LogReturn
  <2>9. CASE Add(t) \/ AddTo(t)
    BY <2>9 DEF Add, AddTo, Enter
  <2>10. CASE AddReturn(t)
    BY <2>10 DEF AddReturn
  <2>. QED
    BY <1>2, <2>1, <2>2, <2>3, <2>4, <2>5, <2>6, <2>7, <2>8, <2>9, <2>10 DEF Continue
<1>3. ASSUME NEW t \in Threads, Finish(t) PROVE Placed'
  BY <1>3 DEF Finish, Destroy
<1>4. CASE UNCHANGED vars
  BY <1>4 DEF vars
<1>. QED
  BY <1>1, <1>2, <1>3, <1>4 DEF Next, Run

-------------------------------------------------------------------------------
(* Loggers that are in their destructor or beyond are nobody's any more, and *)
(* one thread's at most.                                                     *)
Gone(l) == l \in dead \/ \E t \in Threads : l \in doomed[t]

Lives ==
  /\ \A l \in Loggers : Gone(l) => l <= Len(names) /\ ~Owned(l)
  /\ \A l \in dead, t \in Threads : l \notin doomed[t]
  /\ \A s, t \in Threads : s # t => doomed[s] \cap doomed[t] = {}

LifeInv == TypeOK /\ Placed /\ Lives

Dropped == {l \in Loggers : Owned(l) /\ ~Owned(l)'}

(* What is owned was made. *)
LEMMA OwnedMade ==
  ASSUME TypeOK, NEW l \in Loggers, Owned(l)
  PROVE  l <= Len(names)
<1>1. DataTyped
  BY TypeParts
<1>. QED
  BY <1>1 DEF DataTyped, Owned, Pointers, Loggers

(* Making a logger drops none and adds one to the owned, ... *)
LEMMA MadeOwned ==
  ASSUME TypeOK, NEW t \in Threads, Made(t)
  PROVE  /\ Len(names) + 1 \in Loggers
         /\ Len(names') = Len(names) + 1
         /\ \A l \in Loggers : Owned(l)' <=> Owned(l) \/ l = Len(names) + 1
<1>1. DataTyped
  BY TypeParts
<1>2. Len(names) + 1 \in Loggers /\ Len(names') = Len(names) + 1
  BY <1>1, RegistryAssumption DEF Made, Make, DataTyped, Loggers
<1>3. ASSUME NEW l \in Loggers
      PROVE  Owned(l)' <=> Owned(l) \/ l = Len(names) + 1
  <2>1. l # Null
    BY DEF Loggers, Null
  <2>2. arg' = [arg EXCEPT ![t] = Len(names) + 1] /\ arg[t] = Null
    BY DEF Made, Make
  <2>3. \A u \in Threads : l \in {arg'[u], def'[u], handle'[u]} <=>
          \/ l \in {arg[u], def[u], handle[u]}
          \/ u = t /\ l = Len(names) + 1
    BY <1>1, <2>1, <2>2 DEF Made, DataTyped
  <2>. QED
    BY <2>3 DEF Made, Owned
<1>. QED
  BY <1>2, <1>3

(* ... and a thread that enters or leaves an add() changes no owner. *)
LEMMA SameOwned ==
  ASSUME UNCHANGED pointerVars, NEW l \in Loggers
  PROVE  Owned(l)' <=> Owned(l)
  BY DEF Owned, pointerVars

LEMMA KindOfStep ==
  ASSUME TypeOK, Placed, NEW t \in Threads, Run(t)
  PROVE  Made(t) \/ Entered(t) \/ Left(t) \/ Passed(t)
  BY BeginKind, ContinueKind DEF Run

(* A step that drops loggers leaves all others, and what it makes is new. *)
LEMMA RunOwned ==
  ASSUME TypeOK, Placed, NEW t \in Threads, Run(t)
  PROVE  /\ Len(names) <= Len(names')
         /\ \A l \in Loggers : Owned(l)' => Owned(l) \/ l > Len(names)
<1>0. Len(names) \in Nat
  BY TypeParts DEF DataTyped
<1>1. CASE Made(t)
  BY <1>0, <1>1, MadeOwned
<1>2. CASE Entered(t) \/ Left(t)
  BY <1>0, <1>2, SameOwned DEF Entered, Left
<1>3. CASE Passed(t)
  BY <1>0, <1>3 DEF Passed
<1>. QED
  BY <1>1, <1>2, <1>3, KindOfStep

LEMMA LivesNext ==
  ASSUME LifeInv, [Next]_vars
  PROVE  Lives'
<1>. TypeOK /\ Placed /\ Lives
  BY DEF LifeInv
<1>0. BooksTyped /\ Len(names) \in Nat
  BY TypeParts DEF DataTyped
<1>1. ASSUME NEW t \in Threads, Run(t) PROVE Lives'
  <2>1. dead' = dead /\ doomed' = [doomed EXCEPT ![t] = @ \cup Dropped]
    BY <1>1 DEF Run, Reclaim, Dropped
  <2>2. \A u \in Threads : doomed'[u] = IF u = t THEN doomed[u] \cup Dropped ELSE doomed[u]
    BY <1>0, <2>1 DEF BooksTyped
  <2>3. \A l \in Dropped : l \in Loggers /\ Owned(l) /\ ~Owned(l)' /\ ~Gone(l)
    BY DEF Dropped, Lives
  <2>4. ASSUME NEW l \in Loggers, Gone(l)'
        PROVE  l <= Len(names') /\ ~Owned(l)'
    <3>1. Gone(l) \/ l \in Dropped
      BY <2>1, <2>2, <2>4 DEF Gone
    <3>2. l <= Len(names)
      BY <2>3, <3>1, OwnedMade DEF Lives
    <3>3. ~Owned(l)'
      <4>1. CASE Gone(l)
        BY <1>0, <1>1, <3>2, <4>1, RunOwned DEF Lives, Loggers
      <4>. QED
        BY <2>3, <3>1, <4>1
    <3>4. Len(names) <= Len(names') /\ Len(names') \in Nat
      <4>1. TypeOK'
        BY TypeNext, <1>1 DEF Next
      <4>. QED
        BY <1>1, <4>1, RunOwned, TypeParts DEF DataTyped
    <3>. QED
      BY <1>0, <3>2, <3>3, <3>4 DEF Loggers
  <2>5. \A l \in dead', u \in Threads : l \notin doomed'[u]
    BY <2>1, <2>2, <2>3 DEF Lives, Gone
  <2>6. \A r, u \in Threads : r # u => doomed'[r] \cap doomed'[u] = {}
    BY <2>2, <2>3 DEF Lives, Gone
  <2>. QED
    BY <2>4, <2>5, <2>6 DEF Lives
<1>2. ASSUME NEW t \in Threads, Finish(t) PROVE Lives'
  <2>1. PICK l \in Loggers : Destroy(t, l)
    BY <1>2 DEF Finish
  <2>2. /\ l \in doomed[t]
        /\ \A u \in Threads : doomed'[u] = IF u = t THEN doomed[u] \ {l} ELSE doomed[u]
        /\ dead' = dead \cup {l}
        /\ UNCHANGED <<names, pointerVars>>
    BY <1>0, <2>1 DEF Destroy, BooksTyped
  <2>3. \A k \in Loggers : Owned(k)' <=> Owned(k)
    BY <2>2, SameOwned
  <2>4. \A k \in Loggers : Gone(k)' => Gone(k)
    BY <2>2 DEF Gone
  <2>5. \A k \in dead', u \in Threads : k \notin doomed'[u]
    BY <2>2 DEF Lives
  <2>6. \A r, u \in Threads : r # u => doomed'[r] \cap doomed'[u] = {}
    BY <2>2 DEF Lives
  <2>. QED
    BY <2>2, <2>3, <2>4, <2>5, <2>6 DEF Lives
<1>3. CASE UNCHANGED vars
  BY <1>3 DEF vars, Lives, Gone, Owned, pointerVars
<1>. QED
  BY <1>1, <1>2, <1>3 DEF Next

LEMMA LifeInvInit == Init => LifeInv
<1>. SUFFICES ASSUME Init PROVE LifeInv
  OBVIOUS
<1>1. Lives
  BY DEF Init, Lives, Gone
<1>. QED
  BY <1>1, TypeInit, PlacedInit DEF LifeInv

LEMMA LifeInvNext == LifeInv /\ [Next]_vars => LifeInv'
  BY TypeNext, PlacedNext, LivesNext DEF LifeInv

(* No pointer of the registry, of the threads or of the program, the raw one *)
(* a thread is inside add() with included, is to a logger that was destroyed *)
(* or is being destroyed.                                                    *)
PointersLive ==
  /\ default # Null => ~Gone(default)
  /\ \A n \in Names : registry[n] # Null => ~Gone(registry[n])
  /\ \A t \in Threads : \A l \in {arg[t], def[t], handle[t], target[t]} :
       l # Null => ~Gone(l)

(* Type correctness: whatever the threads call and however they interleave,  *)
(* every pointer is to a logger that was made and whose destructor has not   *)
(* begun, and the registry's mutex has one writer or any number of readers.  *)
THEOREM TypeCorrect == Spec => [](TypeOK /\ PointersLive)
<1>1. LifeInv => TypeOK /\ PointersLive
  <2>. SUFFICES ASSUME LifeInv PROVE PointersLive
    BY DEF LifeInv
  <2>. TypeOK /\ Placed /\ Lives
    BY DEF LifeInv
  <2>1. ASSUME NEW l \in Pointers, l # Null, Owned(l) PROVE ~Gone(l)
    <3>1. l \in Loggers
      BY <2>1, RegistryAssumption, TypeParts DEF DataTyped, Pointers, Loggers, Null
    <3>. QED
      BY <2>1, <3>1 DEF Lives
  <2>2. default # Null => ~Gone(default)
    BY <2>1, TypeParts DEF DataTyped, Owned
  <2>3. \A n \in Names : registry[n] # Null => ~Gone(registry[n])
    BY <2>1, TypeParts DEF DataTyped, Owned
  <2>4. ASSUME NEW t \in Threads, NEW l \in {arg[t], def[t], handle[t], target[t]}, l # Null
        PROVE  ~Gone(l)
    <3>1. l \in {arg[t], def[t], handle[t]}
      BY <2>4 DEF Placed
    <3>. QED
      BY <2>1, <2>4, <3>1, TypeParts DEF DataTyped, Owned
  <2>. QED
    BY <2>2, <2>3, <2>4 DEF PointersLive
<1>. QED
  BY LifeInvInit, LifeInvNext, <1>1, PTL DEF Spec

-------------------------------------------------------------------------------
(* No logger is there at first, ... *)
LEMMA LifeInit == Init => Life!Init
  BY DEF Init, Life!Init, Phase, Inside, Loggers, Null

(* ... and each step is one in the life of a logger, or of none. *)
LEMMA LifeNext ==
  ASSUME LifeInv, [Next]_vars
  PROVE  [Life!Next]_(Life!lifeVars)
<1>. TypeOK /\ Placed /\ Lives
  BY DEF LifeInv
<1>0. DataTyped /\ BooksTyped /\ Len(names) \in Nat
  BY TypeParts DEF DataTyped
<1>1. ASSUME NEW t \in Threads, Run(t) PROVE Life!Next
  <2>1. /\ dead' = dead
        /\ doomed' = [doomed EXCEPT ![t] = @ \cup Dropped]
    BY <1>1 DEF Run, Reclaim, Dropped
  <2>2. ASSUME \A l \in Loggers : Owned(l) => Owned(l)'
        PROVE  doomed' = doomed
    BY <1>0, <2>1, <2>2 DEF Dropped, BooksTyped
  <2>3. CASE Made(t)
    <3>1. doomed' = doomed
      BY <2>2, <2>3, MadeOwned
    <3>2. Inside' = Inside
      BY <2>3 DEF Made, Inside
    <3>3. \A l \in Loggers : Gone(l) => l <= Len(names)
      BY DEF Lives
    <3>4. Phase[Len(names) + 1] = "none"
      BY <1>0, <2>3, MadeOwned DEF Phase
    <3>5. Phase' = [Phase EXCEPT ![Len(names) + 1] = "live"]
      <4>1. ASSUME NEW k \in Loggers
            PROVE  Phase'[k] = IF k = Len(names) + 1 THEN "live" ELSE Phase[k]
        <5>1. k \in Int /\ Len(names') = Len(names) + 1
          BY <2>3, MadeOwned DEF Loggers
        <5>2. CASE k = Len(names) + 1
          BY <1>0, <2>1, <3>1, <3>3, <5>1, <5>2 DEF Phase, Gone
        <5>3. CASE k # Len(names) + 1
          <6>1. k > Len(names') <=> k > Len(names)
            BY <1>0, <5>1, <5>3
          <6>. QED
            BY <2>1, <3>1, <5>3, <6>1 DEF Phase
        <5>. QED
          BY <5>2, <5>3
      <4>. QED
        BY <4>1 DEF Phase
    <3>. QED
      BY <2>3, <3>2, <3>4, <3>5, MadeOwned DEF Life!Next, Life!Make
  <2>4. CASE Entered(t)
    <3>1. doomed' = doomed
      BY <2>2, <2>4, SameOwned DEF Entered
    <3>2. Phase' = Phase
      BY <2>1, <2>4, <3>1 DEF Entered, Phase
    <3>. DEFINE l == target'[t]
    <3>3. l \in Loggers /\ Owned(l) /\ l \in Pointers
      BY <1>0, <2>4, RegistryAssumption DEF Entered, Owned, DataTyped, Pointers, Loggers, Null
    <3>4. Phase[l] = "live"
      BY <1>0, <3>3, OwnedMade DEF Phase, Lives, Gone, Loggers
    <3>5. Inside' = [Inside EXCEPT ![l] = @ \cup {t}]
      <4>1. target' = [target EXCEPT ![t] = l] /\ target[t] = Null
        BY <2>4 DEF Entered
      <4>2. \A k \in Loggers : k # Null
        BY DEF Loggers, Null
      <4>3. \A k \in Loggers : {u \in Threads : target'[u] = k} =
              IF k = l THEN {u \in Threads : target[u] = k} \cup {t}
                       ELSE {u \in Threads : target[u] = k}
        BY <1>0, <4>1, <4>2 DEF DataTyped
      <4>. QED
        BY <3>3, <4>3 DEF Inside
    <3>. QED
      BY <3>2, <3>3, <3>4, <3>5 DEF Life!Next, Life!Enter
  <2>5. CASE Left(t)
    <3>1. doomed' = doomed
      BY <2>2, <2>5, SameOwned DEF Left
    <3>2. Phase' = Phase
      BY <2>1, <2>5, <3>1 DEF Left, Phase
    <3>. DEFINE l == target[t]
    <3>3. l \in Loggers
      BY <1>0, <2>5, RegistryAssumption DEF Left, DataTyped, Pointers, Loggers, Null
    <3>4. t \in Inside[l]
      BY <3>3 DEF Inside
    <3>5. Inside' = [Inside EXCEPT ![l] = @ \ {t}]
      <4>1. target' = [target EXCEPT ![t] = Null]
        BY <2>5 DEF Left
      <4>2. \A k \in Loggers : k # Null
        BY DEF Loggers, Null
      <4>3. \A k \in Loggers : {u \in Threads : target'[u] = k} =
              IF k = l THEN {u \in Threads : target[u] = k} \ {t}
                       ELSE {u \in Threads : target[u] = k}
        BY <1>0, <4>1, <4>2 DEF DataTyped
      <4>. QED
        BY <3>3, <4>3 DEF Inside
    <3>. QED
      BY <3>2, <3>3, <3>4, <3>5 DEF Life!Next, Life!Leave
  <2>6. CASE Passed(t)
    <3>1. Inside' = Inside
      BY <2>6 DEF Passed, Inside
    <3>2. ASSUME NEW l \in Dropped
          PROVE  l \in Loggers /\ Phase[l] = "live" /\ Inside[l] = {}
      <4>1. l \in Loggers /\ Owned(l) /\ ~Owned(l)'
        BY <3>2 DEF Dropped
      <4>2. Phase[l] = "live"
        BY <1>0, <4>1, OwnedMade DEF Phase, Lives, Gone, Loggers
      <4>3. ASSUME NEW u \in Threads, target[u] = l PROVE FALSE
        <5>1. l # Null
          BY <4>1 DEF Loggers, Null
        <5>2. u # t
          BY <2>6, <4>3, <5>1 DEF Passed
        <5>3. l \in {arg[u], handle[u]}
          BY <4>3, <5>1 DEF Placed
        <5>4. arg'[u] = arg[u] /\ handle'[u] = handle[u]
          BY <2>6, <5>2 DEF Passed
        <5>. QED
          BY <4>1, <5>3, <5>4 DEF Owned
      <4>4. Inside[l] = {}
        BY <4>1, <4>3 DEF Inside
      <4>. QED
        BY <4>1, <4>2, <4>4
    <3>3. Phase' = [l \in Loggers |-> IF l \in Dropped THEN "dying" ELSE Phase[l]]
      <4>1. ASSUME NEW l \in Loggers
            PROVE  (\E u \in Threads : l \in doomed'[u]) <=>
                     (\E u \in Threads : l \in doomed[u]) \/ l \in Dropped
        BY <1>0, <2>1 DEF BooksTyped
      <4>2. ASSUME NEW l \in Dropped
            PROVE  l \in Loggers /\ ~(l > Len(names)) /\ l \notin dead
        BY <1>0, <3>2, <4>2, OwnedMade DEF Dropped, Lives, Gone, Loggers
      <4>3. names' = names
        BY <2>6 DEF Passed
      <4>. QED
        BY <2>1, <4>1, <4>2, <4>3 DEF Phase
    <3>4. Dropped \in SUBSET Loggers
      BY DEF Dropped
    <3>. QED
      BY <3>1, <3>2, <3>3, <3>4 DEF Life!Next, Life!Retire
  <2>. QED
    BY <1>1, <2>3, <2>4, <2>5, <2>6, KindOfStep
<1>2. ASSUME NEW t \in Threads, Finish(t) PROVE Life!Next
  <2>1. PICK l \in Loggers : Destroy(t, l)
    BY <1>2 DEF Finish
  <2>2. /\ l \in doomed[t]
        /\ \A u \in Threads : doomed'[u] = IF u = t THEN doomed[u] \ {l} ELSE doomed[u]
        /\ dead' = dead \cup {l}
        /\ UNCHANGED <<names, target>>
    BY <1>0, <2>1 DEF Destroy, BooksTyped
  <2>3. l <= Len(names) /\ l \notin dead /\ \A u \in Threads : u # t => l \notin doomed[u]
    BY <2>2 DEF Lives, Gone
  <2>4. Phase[l] = "dying"
    BY <1>0, <2>2, <2>3 DEF Phase, Loggers
  <2>5. \A k \in Loggers : k # l =>
          ((\E u \in Threads : k \in doomed'[u]) <=> (\E u \in Threads : k \in doomed[u]))
    BY <2>2
  <2>6. Phase' = [Phase EXCEPT ![l] = "dead"]
    <3>1. ~(l > Len(names'))
      BY <1>0, <2>2, <2>3 DEF Loggers
    <3>2. Phase'[l] = "dead"
      BY <2>2, <3>1 DEF Phase
    <3>3. ASSUME NEW k \in Loggers, k # l PROVE Phase'[k] = Phase[k]
      BY <2>2, <2>5, <3>3 DEF Phase
    <3>. QED
      BY <3>2, <3>3 DEF Phase
  <2>7. Inside' = Inside
    BY <2>2 DEF Inside
  <2>. QED
    BY <2>4, <2>6, <2>7 DEF Life!Next, Life!Destroy
<1>3. CASE UNCHANGED vars
  BY <1>3 DEF vars, Life!lifeVars, Phase, Inside
<1>. QED
  BY <1>1, <1>2, <1>3 DEF Next

(* The registry and the macros keep what AsyncLogger relies on: no logger   *)
(* is destroyed while a thread is inside its add(), none is entered later,  *)
(* and each is destroyed once.                                              *)
THEOREM LifeImplemented == Spec => ImplementsLoggerLife
  BY LifeInvInit, LifeInvNext, LifeInit, LifeNext, PTL
     DEF Spec, ImplementsLoggerLife, Life!Spec

-------------------------------------------------------------------------------
(* What a thread in the middle of a call knows, as long as no other thread  *)
(* has disturbed it.                                                        *)
Informed(t) ==
  /\ pc[t] = "idle" => ~disturbed[t]
  /\ ~disturbed[t] =>
       /\ pc[t] \in {"levelLoad", "levelSet"} => globalLevel = level[t]
       /\ pc[t] \in {"levelSet", "filter"} => def[t] = default
       /\ pc[t] \in {"route", "routed"} => level[t] >= Threshold(default)
       /\ pc[t] = "routed" => arg[t] = default
       /\ pc[t] = "named" => level[t] >= levelOf[handle[t]]
       /\ pc[t] = "adding" => level[t] >= levelOf[target[t]]

LevelInv == \A t \in Threads : Informed(t)

LEMMA LevelInvInit == Init => LevelInv
  BY DEF Init, LevelInv, Informed

(* A thread's steps leave the others' places and variables alone. *)
LEMMA OthersStay ==
  ASSUME TypeOK, NEW t \in Threads, Begin(t) \/ Continue(t), NEW u \in Threads, u # t
  PROVE  /\ pc'[u] = pc[u] /\ name'[u] = name[u] /\ level'[u] = level[u]
         /\ arg'[u] = arg[u] /\ def'[u] = def[u] /\ handle'[u] = handle[u]
         /\ target'[u] = target[u]
<1>. DataTyped /\ ControlTyped
  BY TypeParts
<1>. USE DEF DataTyped, ControlTyped, levelVars, pointerVars, localVars, Goto, Call
<1>1. CASE Begin(t)
  <2>1. CASE Initialize(t) \/ SetDefault(t) \/ GetDefault(t) \/ Release(t)
    BY <2>1 DEF Initialize, SetDefault, GetDefault, Release, Make
  <2>2. CASE \E n \in Names : Create(t, n) \/ Get(t, n) \/ Remove(t, n)
    BY <2>2 DEF Create, Get, Remove, Make
  <2>3. CASE \E v \in Levels : SetLogLevel(t, v) \/ SetLevel(t, v) \/ Log(t, v) \/ LogTo(t, v)
    BY <2>3 DEF SetLogLevel, SetLevel, Log, LogTo
  <2>. QED
    BY <1>1, <2>1, <2>2, <2>3 DEF Begin
<1>2. CASE Continue(t)
  <2>1. CASE SetLock(t) \/ CreateLock(t) \/ RemoveLock(t) \/ SetUnlock(t)
               \/ RemoveUnlock(t) \/ RemoveMissing(t) \/ GetLock(t)
    BY <2>1 DEF SetLock, CreateLock, RemoveLock, SetUnlock, RemoveUnlock,
       RemoveMissing, Lock, Unlock, GetLock
  <2>2. CASE SetInsert(t) \/ CreateInsert(t) \/ StoreDefault(t) \/ CreateReturn(t)
    BY <2>2 DEF SetInsert, CreateInsert, Insert, StoreDefault, CreateReturn
  <2>3. CASE GetFind(t) \/ RemoveFound(t) \/ LevelLoad(t)
    BY <2>3 DEF GetFind, RemoveFound, LevelLoad
  <2>4. CASE RemoveClear(t) \/ RemoveErase(t) \/ RemoveForget(t)
    BY <2>4 DEF RemoveClear, RemoveErase, RemoveForget
  <2>5. CASE LevelSet(t) \/ Filter(t) \/ Route(t) \/ LogReturn(t)
    BY <2>5 DEF LevelSet, Filter, Route, LogReturn
  <2>6. CASE Add(t) \/ AddTo(t) \/ AddReturn(t)
    BY <2>6 DEF Add, AddTo, Enter, AddReturn
  <2>. QED
    BY <1>2, <2>1, <2>2, <2>3, <2>4, <2>5, <2>6 DEF Continue
<1>. QED
  BY <1>1, <1>2

(* What a thread learns by its own steps. *)
LEMMA Learns ==
  ASSUME TypeOK, Placed, NEW t \in Threads, Begin(t) \/ Continue(t), Informed(t),
         disturbed'[t] = (pc'[t] # "idle" /\ disturbed[t])
  PROVE  Informed(t)'
<1>. DataTyped /\ ControlTyped
  BY TypeParts
<1>. USE DEF DataTyped, ControlTyped, Informed, levelVars, pointerVars, localVars, Goto, Call
<1>1. CASE Begin(t)
  <2>1. CASE Initialize(t) \/ SetDefault(t) \/ GetDefault(t) \/ Release(t)
    BY <2>1 DEF Initialize, SetDefault, GetDefault, Release, Make
  <2>2. CASE \E n \in Names : Create(t, n) \/ Get(t, n) \/ Remove(t, n)
    BY <2>2 DEF Create, Get, Remove, Make
  <2>3. CASE \E v \in Levels : SetLogLevel(t, v) \/ SetLevel(t, v)
    BY <2>3 DEF SetLogLevel, SetLevel
  <2>4. CASE \E v \in Levels : Log(t, v) \/ LogTo(t, v)
    BY <2>4 DEF Log, LogTo
  <2>. QED
    BY <1>1, <2>1, <2>2, <2>3, <2>4 DEF Begin
<1>2. CASE Continue(t)
  <2>1. CASE SetLock(t) \/ CreateLock(t) \/ RemoveLock(t) \/ SetUnlock(t)
               \/ RemoveUnlock(t) \/ RemoveMissing(t) \/ GetLock(t)
    BY <2>1 DEF SetLock, CreateLock, RemoveLock, SetUnlock, RemoveUnlock,
       RemoveMissing, Lock, Unlock, GetLock
  <2>2. CASE SetInsert(t) \/ CreateInsert(t) \/ StoreDefault(t) \/ CreateReturn(t)
    BY <2>2 DEF SetInsert, CreateInsert, Insert, StoreDefault, CreateReturn
  <2>3. CASE GetFind(t) \/ RemoveFound(t) \/ LevelLoad(t)
    BY <2>3 DEF GetFind, RemoveFound, LevelLoad
  <2>4. CASE RemoveClear(t) \/ RemoveErase(t) \/ RemoveForget(t)
    BY <2>4 DEF RemoveClear, RemoveErase, RemoveForget
  <2>5. CASE LevelSet(t) \/ LogReturn(t)
    BY <2>5 DEF LevelSet, LogReturn
  <2>6. CASE Filter(t)
    BY <2>6 DEF Filter, Threshold
  <2>7. CASE Route(t)
    BY <2>7 DEF Route, Threshold
  <2>8. CASE Add(t)
    BY <2>8 DEF Add, Enter, Placed, HasArg, Threshold
  <2>9. CASE AddTo(t) \/ AddReturn(t)
    BY <2>9 DEF AddTo, Enter, AddReturn
  <2>. QED
    BY <1>2, <2>1, <2>2, <2>3, <2>4, <2>5, <2>6, <2>7, <2>8, <2>9 DEF Continue
<1>. QED
  BY <1>1, <1>2

LEMMA LevelInvNext ==
  ASSUME LifeInv, LevelInv, [Next]_vars
  PROVE  LevelInv'
<1>. TypeOK /\ Placed
  BY DEF LifeInv
<1>1. ASSUME NEW t \in Threads, Run(t) PROVE LevelInv'
  <2>1. Begin(t) \/ Continue(t)
    BY <1>1 DEF Run
  <2>2. disturbed' = [u \in Threads |->
          /\ pc'[u] # "idle"
          /\ disturbed[u] \/ (u # t /\ <<default, levelVars>>' # <<default, levelVars>>)]
    BY <1>1 DEF Run, Observe
  <2>3. Informed(t)'
    BY <2>1, <2>2, Learns DEF LevelInv
  <2>4. ASSUME NEW u \in Threads, u # t PROVE Informed(u)'
    <3>1. Informed(u)
      BY DEF LevelInv
    <3>2. /\ pc'[u] = pc[u] /\ level'[u] = level[u]
          /\ arg'[u] = arg[u] /\ def'[u] = def[u] /\ handle'[u] = handle[u]
          /\ target'[u] = target[u]
      BY <2>1, <2>4, OthersStay
    <3>3. CASE pc[u] = "idle"
      BY <2>2, <3>2, <3>3 DEF Informed
    <3>4. CASE pc[u] # "idle" /\ UNCHANGED <<default, levelVars>>
      <4>1. disturbed'[u] <=> disturbed[u]
        BY <2>2, <2>4, <3>2, <3>4, TypeParts DEF BooksTyped
      <4>. QED
        BY <3>1, <3>2, <3>4, <4>1 DEF Informed, Threshold, levelVars
    <3>5. CASE pc[u] # "idle" /\ ~UNCHANGED <<default, levelVars>>
      <4>1. disturbed'[u] <=> TRUE
        BY <2>2, <2>4, <3>2, <3>5
      <4>. QED
        BY <3>2, <3>5, <4>1 DEF Informed
    <3>. QED
      BY <3>3, <3>4, <3>5
  <2>. QED
    BY <2>3, <2>4 DEF LevelInv
<1>2. ASSUME NEW t \in Threads, Finish(t) PROVE LevelInv'
  <2>1. /\ UNCHANGED <<default, levelVars, pc, level, arg, def, handle, target>>
        /\ disturbed' = [u \in Threads |->
             /\ pc'[u] # "idle"
             /\ disturbed[u] \/ (u # t /\ <<default, levelVars>>' # <<default, levelVars>>)]
    BY <1>2 DEF Finish, Destroy, Observe, pointerVars, localVars
  <2>2. \A u \in Threads : disturbed'[u] <=> pc[u] # "idle" /\ disturbed[u]
    BY <2>1
  <2>3. ASSUME NEW u \in Threads PROVE Informed(u)'
    <3>1. Informed(u)
      BY DEF LevelInv
    <3>. QED
      BY <2>1, <2>2, <3>1 DEF Informed, Threshold, levelVars
  <2>. QED
    BY <2>3 DEF LevelInv
<1>3. CASE UNCHANGED vars
  BY <1>3 DEF vars, LevelInv, Informed, Threshold, levelVars, pointerVars, localVars
<1>. QED
  BY <1>1, <1>2, <1>3 DEF Next

(* A line is never routed to a logger whose level is above the line's,      *)
(* short of a change by another thread during the statement.                *)
THEOREM LevelsFilter == Spec => []QuietUnlessDisturbed
<1>1. LevelInv => QuietUnlessDisturbed
  BY DEF LevelInv, Informed, QuietUnlessDisturbed
<1>. QED
  BY LifeInvInit, LifeInvNext, LevelInvInit, LevelInvNext, <1>1, PTL DEF Spec

(* setLogLevel() sets the level the macros test, with or without a default  *)
(* logger, short of a change by another thread.                             *)
LEMMA LevelStep ==
  ASSUME LifeInv, LevelInv, [Next]_vars, NEW t \in Threads,
         pc[t] = "levelSet", pc'[t] = "idle", ~disturbed[t]
  PROVE  Threshold(default)' = level[t]
<1>. TypeOK
  BY DEF LifeInv
<1>. DataTyped /\ ControlTyped
  BY TypeParts
<1>1. def[t] = default /\ globalLevel = level[t]
  BY DEF LevelInv, Informed
<1>2. LevelSet(t)
  <2>1. PICK u \in Threads : Run(u) \/ Finish(u)
    BY DEF Next, vars
  <2>2. Run(u)
    BY <2>1 DEF Finish, Destroy
  <2>3. u = t
    BY <2>2, OthersStay DEF Run
  <2>4. CASE Begin(t)
    BY <2>4 DEF Begin, Initialize, SetDefault, GetDefault, Release, Create, Get,
       Remove, SetLogLevel, SetLevel, Log, LogTo, Goto, Call
  <2>5. CASE Continue(t)
    BY <2>5 DEF Continue, SetLock, SetInsert, SetUnlock, StoreDefault, CreateLock,
       CreateInsert, CreateReturn, GetLock, GetFind, RemoveLock, RemoveMissing,
       RemoveFound, RemoveClear, RemoveErase, RemoveForget, RemoveUnlock, LevelLoad,
       Filter, Route, Add, AddTo, AddReturn, LogReturn, Lock, Unlock, Insert, Enter, Goto
  <2>. QED
    BY <2>2, <2>3, <2>4, <2>5 DEF Run
<1>3. default' = default /\ globalLevel' = globalLevel /\ levelOf' = WithLevel(def[t], level[t])
  BY <1>2 DEF LevelSet
<1>4. CASE default = Null
  BY <1>1, <1>3, <1>4 DEF Threshold
<1>5. CASE default # Null
  <2>1. default \in Loggers
    <3>1. Len(names) \in Nat /\ Len(names) <= MaxLoggers /\ default \in 0..Len(names)
      BY DEF DataTyped, Pointers
    <3>. QED
      BY <1>5, <3>1, RegistryAssumption DEF Loggers, Null
  <2>2. levelOf' = [levelOf EXCEPT ![default] = level[t]]
    BY <1>1, <1>3, <1>5 DEF WithLevel
  <2>3. levelOf'[default] = level[t]
    BY <2>1, <2>2 DEF DataTyped
  <2>4. Threshold(default)' = levelOf'[default]
    BY <1>3, <1>5 DEF Threshold
  <2>. QED
    BY <2>3, <2>4
<1>. QED
  BY <1>4, <1>5

THEOREM LevelsAreSet == Spec => LevelTakesEffect
<1>1. LifeInv /\ LevelInv /\ [Next]_vars =>
        [\A t \in Threads :
           pc[t] = "levelSet" /\ pc'[t] = "idle" /\ ~disturbed[t] =>
             Threshold(default)' = level[t]]_vars
  BY LevelStep
<1>. QED
  BY LifeInvInit, LifeInvNext, LevelInvInit, LevelInvNext, <1>1, PTL
     DEF Spec, LevelTakesEffect

-------------------------------------------------------------------------------
(* The registry: every logger is under its name; ... *)
Filed == \A n \in Names : registry[n] # Null => names[registry[n]] = n

(* ... as long as no removal has overlapped a setDefaultLogger() of the same *)
(* name, the default logger's name is in it, and so is that of a logger      *)
(* about to become the default, and a thread about to erase a name has seen  *)
(* that it is not the default's; ...                                         *)
Default == default # Null => registry[names[default]] # Null
Storing == \A t \in Threads :
  pc[t] \in Setting => registry[names[arg[t]]] # Null
Erasing == \A t \in Threads :
  pc[t] = "removeErase" => default = Null \/ names[default] # name[t]

Unremoved == "removal" \notin raced => ~Removal /\ Default /\ Storing /\ Erasing

(* ... and as long as nothing at all has, a logger about to become the      *)
(* default is itself in the registry, or shadowed, and so is the default    *)
(* logger, or one is that is about to become the default.                   *)
Kept(l) == registry[names[l]] = l \/ l \in shadowed
Current == default # Null =>
  \/ Kept(default)
  \/ \E s \in Threads : pc[s] \in Setting /\ arg[s] = registry[names[default]]
Entering == \A t \in Threads : pc[t] \in Setting => Kept(arg[t])

Undisputed == raced = {} => ~Settings /\ Current /\ Entering

DefaultInv == Filed /\ Unremoved /\ Undisputed

LEMMA DefaultInvInit == Init => DefaultInv
  BY RegistryAssumption DEF Init, DefaultInv, Filed, Unremoved, Removal, Setting, Removing,
     Default, Storing, Erasing, Undisputed, Settings, Current, Entering, Kept

(* A name once given stays. *)
LEMMA NamesStay ==
  ASSUME TypeOK, Placed, NEW t \in Threads, Run(t), NEW p \in Pointers, p # Null
  PROVE  names'[p] = names[p] /\ names[p] \in Names
<1>. names \in Seq(Names) /\ Len(names) \in Nat /\ p \in 1..Len(names)
  BY TypeParts DEF DataTyped, Pointers, Null
<1>1. CASE Made(t)
  BY <1>1 DEF Made, Make
<1>2. CASE Entered(t) \/ Left(t) \/ Passed(t)
  BY <1>2 DEF Entered, Left, Passed
<1>. QED
  BY <1>1, <1>2, KindOfStep

(* What a step does to the registry and the default logger. *)
Files(t) ==
  /\ arg[t] # Null
  /\ registry' = [registry EXCEPT ![names[arg[t]]] = arg[t]]
  /\ UNCHANGED <<default, arg>>
  /\ \/ pc[t] = "setInsert" /\ pc'[t] = "setUnlock"
     \/ pc[t] = "createInsert" /\ pc'[t] = "createUnlock"

Erases(t) ==
  /\ pc[t] = "removeErase"
  /\ registry' = [registry EXCEPT ![name[t]] = Null]
  /\ UNCHANGED <<default, arg>>
  /\ pc'[t] = "removeForget"

Stores(t) ==
  /\ pc[t] = "store"
  /\ default' = arg[t]
  /\ UNCHANGED registry
  /\ pc'[t] = "idle"

Clears(t) ==
  /\ default' = Null
  /\ UNCHANGED <<registry, arg>>
  /\ pc[t] = "removeClear"
  /\ pc'[t] = "removeErase"

Neither(t) ==
  /\ UNCHANGED <<registry, default>>
  /\ pc[t] \in Setting <=> pc'[t] \in Setting
  /\ pc[t] \in Setting => UNCHANGED arg
  /\ pc'[t] \notin {"setUnlock", "createUnlock"}
  /\ pc'[t] = "removeErase" =>
       UNCHANGED name /\ (default = Null \/ names[default] # name[t])

LEMMA DefaultKind ==
  ASSUME TypeOK, Placed, NEW t \in Threads, Begin(t) \/ Continue(t)
  PROVE  Files(t) \/ Erases(t) \/ Stores(t) \/ Clears(t) \/ Neither(t)
<1>. DataTyped /\ ControlTyped
  BY TypeParts
<1>. USE DEF Setting, DataTyped, ControlTyped, levelVars, pointerVars, localVars, Goto, Call
<1>1. CASE Begin(t)
  <2>1. CASE Initialize(t) \/ SetDefault(t) \/ GetDefault(t) \/ Release(t)
    BY <2>1 DEF Initialize, SetDefault, GetDefault, Release, Make, Neither
  <2>2. CASE \E n \in Names : Create(t, n) \/ Get(t, n) \/ Remove(t, n)
    BY <2>2 DEF Create, Get, Remove, Make, Neither
  <2>3. CASE \E v \in Levels : SetLogLevel(t, v) \/ SetLevel(t, v) \/ Log(t, v) \/ LogTo(t, v)
    BY <2>3 DEF SetLogLevel, SetLevel, Log, LogTo, Neither
  <2>. QED
    BY <1>1, <2>1, <2>2, <2>3 DEF Begin
<1>2. CASE Continue(t)
  <2>1. CASE SetLock(t) \/ CreateLock(t) \/ RemoveLock(t) \/ SetUnlock(t)
               \/ RemoveUnlock(t) \/ RemoveMissing(t) \/ GetLock(t)
    BY <2>1 DEF SetLock, CreateLock, RemoveLock, SetUnlock, RemoveUnlock,
       RemoveMissing, Lock, Unlock, GetLock, Neither
  <2>2. CASE SetInsert(t) \/ CreateInsert(t)
    BY <2>2 DEF SetInsert, CreateInsert, Insert, Files, Placed, HasArg
  <2>3. CASE StoreDefault(t)
    BY <2>3 DEF StoreDefault, Stores
  <2>4. CASE GetFind(t) \/ LevelLoad(t) \/ CreateReturn(t)
    BY <2>4 DEF GetFind, LevelLoad, CreateReturn, Neither
  <2>5. CASE RemoveFound(t)
    BY <2>5 DEF RemoveFound, ClearsDefault, Neither
  <2>6. CASE RemoveClear(t)
    BY <2>6 DEF RemoveClear, Clears
  <2>7. CASE RemoveErase(t)
    BY <2>7 DEF RemoveErase, Erases
  <2>8. CASE RemoveForget(t) \/ LevelSet(t) \/ Filter(t) \/ Route(t) \/ LogReturn(t)
    BY <2>8 DEF RemoveForget, LevelSet, Filter, Route, LogReturn, Neither
  <2>9. CASE Add(t) \/ AddTo(t) \/ AddReturn(t)
    BY <2>9 DEF Add, AddTo, Enter, AddReturn, Neither
  <2>. QED
    BY <1>2, <2>1, <2>2, <2>3, <2>4, <2>5, <2>6, <2>7, <2>8, <2>9 DEF Continue
<1>. QED
  BY <1>1, <1>2

(* What a step finds: names that stay, and the other threads where they were. *)
Around(t) ==
  /\ TypeOK /\ Placed /\ DefaultInv
  /\ \A p \in Pointers : p # Null => names'[p] = names[p] /\ names[p] \in Names
  /\ \A u \in Threads : u # t => pc'[u] = pc[u] /\ name'[u] = name[u] /\ arg'[u] = arg[u]
  /\ Observe(t)

LEMMA OverlapsStay ==
  ASSUME NEW t \in Threads, Around(t)
  PROVE  /\ "removal" \notin raced' => "removal" \notin raced /\ ~Removal'
         /\ raced' = {} => raced = {} /\ ~Removal' /\ ~Settings'
<1>1. raced' = raced \cup Overlaps'
  BY DEF Around, Observe
<1>2. Removal' => "removal" \in Overlaps'
  BY DEF Overlaps
<1>3. Settings' => "setting" \in Overlaps'
  BY DEF Overlaps
<1>. QED
  BY <1>1, <1>2, <1>3

LEMMA UnremovedStep ==
  ASSUME NEW t \in Threads, Around(t),
         Files(t) \/ Erases(t) \/ Stores(t) \/ Clears(t) \/ Neither(t)
  PROVE  Unremoved'
<1>. SUFFICES ASSUME "removal" \notin raced' PROVE ~Removal' /\ Default' /\ Storing' /\ Erasing'
  BY DEF Unremoved
<1>1. ~Removal' /\ ~Removal /\ Default /\ Storing /\ Erasing
  BY OverlapsStay DEF Around, DefaultInv, Unremoved
<1>2. \A u \in Threads : pc[u] \in Setting => arg[u] # Null
  BY DEF Around, Placed, HasArg, Setting
<1>3. /\ registry \in [Names -> Pointers] /\ default \in Pointers
      /\ \A u \in Threads : arg[u] \in Pointers /\ name[u] \in Names
  BY TypeParts DEF Around, DataTyped
<1>4. /\ \A p \in Pointers : p # Null => names'[p] = names[p] /\ names[p] \in Names
      /\ \A u \in Threads : u # t => pc'[u] = pc[u] /\ name'[u] = name[u] /\ arg'[u] = arg[u]
  BY DEF Around
<1>. USE DEF Setting
<1>5. CASE Files(t)
  BY <1>1, <1>2, <1>3, <1>4, <1>5 DEF Files, Default, Storing, Erasing, Null
<1>6. CASE Erases(t)
  <2>1. ASSUME NEW u \in Threads, pc[u] \in Setting
        PROVE  names[arg[u]] # name[t]
    BY <1>1, <1>6, <2>1 DEF Erases, Removal, Removing
  <2>. QED
    BY <1>1, <1>2, <1>3, <1>4, <1>6, <2>1 DEF Erases, Default, Storing, Erasing, Null
<1>7. CASE Stores(t)
  <2>1. ASSUME NEW u \in Threads, pc[u] = "removeErase"
        PROVE  names[arg[t]] # name[u]
    BY <1>1, <1>7, <2>1 DEF Stores, Removal, Removing
  <2>. QED
    BY <1>1, <1>2, <1>3, <1>4, <1>7, <2>1 DEF Stores, Default, Storing, Erasing, Null
<1>8. CASE Clears(t)
  BY <1>1, <1>2, <1>3, <1>4, <1>8 DEF Clears, Default, Storing, Erasing, Null
<1>9. CASE Neither(t)
  BY <1>1, <1>2, <1>3, <1>4, <1>9 DEF Neither, Default, Storing, Erasing, Null
<1>. QED
  BY <1>1, <1>5, <1>6, <1>7, <1>8, <1>9

LEMMA UndisputedStep ==
  ASSUME NEW t \in Threads, Around(t),
         Files(t) \/ Erases(t) \/ Stores(t) \/ Clears(t) \/ Neither(t)
  PROVE  Undisputed'
<1>. SUFFICES ASSUME raced' = {} PROVE ~Settings' /\ Current' /\ Entering'
  BY DEF Undisputed
<1>1. /\ ~Settings' /\ Current /\ Entering
      /\ ~Removal /\ Erasing
  BY OverlapsStay DEF Around, DefaultInv, Undisputed, Unremoved
<1>2. \A u \in Threads : pc[u] \in Setting => arg[u] # Null
  BY DEF Around, Placed, HasArg, Setting
<1>3. /\ registry \in [Names -> Pointers] /\ default \in Pointers
      /\ \A u \in Threads : arg[u] \in Pointers /\ name[u] \in Names
      /\ Pointers \ {Null} = 1..Len(names)
  BY TypeParts DEF Around, DataTyped, Pointers, Null
<1>4. /\ \A p \in Pointers : p # Null => names'[p] = names[p] /\ names[p] \in Names
      /\ \A u \in Threads : u # t => pc'[u] = pc[u] /\ name'[u] = name[u] /\ arg'[u] = arg[u]
  BY DEF Around
<1>5. shadowed' = Shadowed(t)
  BY DEF Around, Observe
<1>6. ASSUME Files(t), pc[t] = "setInsert", pc'[t] = "setUnlock"
      PROVE  Current' /\ Entering'
  <2>1. /\ arg' = arg /\ default' = default /\ arg[t] # Null /\ shadowed' = shadowed \ {arg[t]}
        /\ \A n \in Names : registry'[n] = IF n = names[arg[t]] THEN arg[t] ELSE registry[n]
    BY <1>3, <1>5, <1>6 DEF Files, Shadowed
  <2>2. ASSUME NEW l \in Pointers \ {Null}, Kept(l), names[l] # names[arg[t]]
        PROVE  Kept(l)'
    BY <1>4, <2>1, <2>2 DEF Kept
  <2>3. Kept(arg[t])'
    BY <1>3, <1>4, <2>1 DEF Kept
  <2>4. ASSUME NEW u \in Threads, pc'[u] \in Setting PROVE Kept(arg[u])'
    <3>1. CASE names[arg[u]] = names[arg[t]]
      <4>1. arg[u] # Null /\ names'[arg[u]] = names[arg[u]] /\ names'[arg[t]] = names[arg[t]]
        BY <1>2, <1>3, <1>4, <2>1, <2>4
      <4>2. arg'[u] = arg'[t]
        BY <1>1, <1>6, <2>1, <2>4, <3>1, <4>1 DEF Settings, Setting
      <4>. QED
        BY <2>1, <2>3, <4>2
    <3>2. CASE names[arg[u]] # names[arg[t]]
      <4>1. u # t /\ pc[u] \in Setting
        BY <1>4, <2>4, <3>2
      <4>2. arg[u] \in Pointers \ {Null} /\ Kept(arg[u])
        BY <1>1, <1>2, <1>3, <4>1 DEF Entering, Kept
      <4>. QED
        BY <2>1, <2>2, <3>2, <4>2
    <3>. QED
      BY <3>1, <3>2
  <2>5. Current'
    <3>. SUFFICES ASSUME default # Null PROVE
           \/ Kept(default)'
           \/ \E s \in Threads : pc'[s] \in Setting /\ arg'[s] = registry'[names'[default]]
      BY <2>1 DEF Current, Kept
    <3>1. names'[default] = names[default] /\ names[default] \in Names
      BY <1>3, <1>4
    <3>2. CASE names[default] = names[arg[t]]
      BY <1>6, <2>1, <3>1, <3>2 DEF Setting
    <3>3. CASE names[default] # names[arg[t]] /\ Kept(default)
      BY <1>3, <2>1, <2>2, <3>3 DEF Kept
    <3>4. CASE /\ names[default] # names[arg[t]]
               /\ \E s \in Threads : pc[s] \in Setting /\ arg[s] = registry[names[default]]
      BY <1>4, <1>6, <2>1, <3>1, <3>4 DEF Setting
    <3>. QED
      BY <1>1, <3>2, <3>3, <3>4 DEF Current, Kept
  <2>. QED
    BY <2>4, <2>5 DEF Entering, Kept
<1>7. ASSUME Files(t), pc[t] = "createInsert", pc'[t] = "createUnlock"
      PROVE  Current' /\ Entering'
  <2>1. /\ arg' = arg /\ default' = default /\ arg[t] # Null
        /\ \A l \in Pointers \ {Null} :
             l \in shadowed' <=> l # arg[t] /\ (names[l] = names[arg[t]] \/ l \in shadowed)
        /\ \A n \in Names : registry'[n] = IF n = names[arg[t]] THEN arg[t] ELSE registry[n]
    BY <1>3, <1>5, <1>7 DEF Files, Shadowed
  <2>2. ASSUME NEW l \in Pointers \ {Null}, Kept(l) \/ names[l] = names[arg[t]]
        PROVE  Kept(l)'
    BY <1>3, <1>4, <2>1, <2>2 DEF Kept
  <2>3. ASSUME NEW u \in Threads, pc'[u] \in Setting PROVE Kept(arg[u])'
    <3>1. pc[u] \in Setting
      BY <1>4, <1>7, <2>3 DEF Setting
    <3>. QED
      BY <1>1, <1>2, <1>3, <2>1, <2>2, <3>1 DEF Entering, Kept
  <2>4. Current'
    <3>. SUFFICES ASSUME default # Null, ~Kept(default), names[default] # names[arg[t]] PROVE
           \E s \in Threads : pc'[s] \in Setting /\ arg'[s] = registry'[names'[default]]
      BY <1>3, <2>1, <2>2 DEF Current, Kept
    <3>1. PICK s \in Threads : pc[s] \in Setting /\ arg[s] = registry[names[default]]
      BY <1>1 DEF Current, Kept
    <3>. QED
      BY <1>3, <1>4, <1>7, <2>1, <3>1 DEF Setting
  <2>. QED
    BY <2>3, <2>4 DEF Entering, Kept
<1>8. CASE Erases(t)
  <2>1. /\ arg' = arg /\ default' = default /\ shadowed' = shadowed
        /\ \A n \in Names : n # name[t] => registry'[n] = registry[n]
        /\ \A u \in Threads : pc'[u] \in Setting <=> pc[u] \in Setting
    BY <1>3, <1>4, <1>5, <1>8 DEF Erases, Shadowed, Setting
  <2>2. ASSUME NEW u \in Threads, pc[u] \in Setting
        PROVE  names[arg[u]] # name[t]
    BY <1>1, <1>8, <2>2 DEF Erases, Removal, Removing
  <2>3. default # Null => names[default] # name[t]
    BY <1>1, <1>8 DEF Erases, Erasing
  <2>4. \A l \in Pointers \ {Null} : names[l] # name[t] => (Kept(l)' <=> Kept(l))
    BY <1>4, <2>1 DEF Kept
  <2>5. Entering'
    BY <1>1, <1>2, <1>3, <2>1, <2>2, <2>4 DEF Entering, Kept
  <2>6. Current'
    BY <1>1, <1>3, <1>4, <2>1, <2>3, <2>4 DEF Current, Kept
  <2>. QED
    BY <1>1, <2>5, <2>6
<1>9. CASE Stores(t)
  <2>1. /\ default' = arg[t] /\ registry' = registry /\ shadowed' = shadowed
        /\ \A u \in Threads : pc'[u] \in Setting => pc[u] \in Setting /\ arg'[u] = arg[u]
    BY <1>4, <1>5, <1>9 DEF Stores, Shadowed, Setting
  <2>2. \A l \in Pointers \ {Null} : Kept(l)' <=> Kept(l)
    BY <1>4, <2>1 DEF Kept
  <2>3. Kept(arg[t]) /\ arg[t] \in Pointers \ {Null}
    BY <1>1, <1>2, <1>3, <1>9 DEF Stores, Entering, Setting
  <2>4. Current'
    BY <2>1, <2>2, <2>3 DEF Current, Kept
  <2>5. Entering'
    BY <1>1, <1>2, <1>3, <2>1, <2>2 DEF Entering, Kept
  <2>. QED
    BY <1>1, <2>4, <2>5
<1>10. CASE Clears(t)
  <2>1. /\ default' = Null /\ registry' = registry /\ shadowed' = shadowed /\ arg' = arg
        /\ \A u \in Threads : pc'[u] \in Setting => pc[u] \in Setting
    BY <1>4, <1>5, <1>10 DEF Clears, Shadowed, Setting
  <2>2. \A l \in Pointers \ {Null} : Kept(l)' <=> Kept(l)
    BY <1>4, <2>1 DEF Kept
  <2>. QED
    BY <1>1, <1>2, <1>3, <2>1, <2>2 DEF Current, Entering
<1>11. CASE Neither(t)
  <2>1. /\ default' = default /\ registry' = registry /\ shadowed' = shadowed
        /\ \A u \in Threads : pc'[u] \in Setting <=> pc[u] \in Setting
        /\ \A u \in Threads : pc[u] \in Setting => arg'[u] = arg[u]
    BY <1>4, <1>5, <1>11 DEF Neither, Shadowed
  <2>2. \A l \in Pointers \ {Null} : Kept(l)' <=> Kept(l)
    BY <1>4, <2>1 DEF Kept
  <2>3. Entering'
    BY <1>1, <1>2, <1>3, <2>1, <2>2 DEF Entering, Kept
  <2>4. Current'
    BY <1>1, <1>3, <1>4, <2>1, <2>2 DEF Current, Kept
  <2>. QED
    BY <1>1, <2>3, <2>4
<1>. QED
  BY <1>1, <1>6, <1>7, <1>8, <1>9, <1>10, <1>11 DEF Files

LEMMA DefaultInvNext ==
  ASSUME LifeInv, DefaultInv, [Next]_vars
  PROVE  DefaultInv'
<1>. TypeOK /\ Placed /\ DataTyped
  BY TypeParts DEF LifeInv
<1>1. ASSUME NEW t \in Threads, Run(t) PROVE DefaultInv'
  <2>1. Begin(t) \/ Continue(t)
    BY <1>1 DEF Run
  <2>2. \A p \in Pointers : p # Null => names'[p] = names[p] /\ names[p] \in Names
    BY <1>1, NamesStay
  <2>3. \A u \in Threads : u # t => pc'[u] = pc[u] /\ name'[u] = name[u] /\ arg'[u] = arg[u]
    BY <2>1, OthersStay
  <2>4. Files(t) \/ Erases(t) \/ Stores(t) \/ Clears(t) \/ Neither(t)
    BY <2>1, DefaultKind
  <2>5. /\ registry \in [Names -> Pointers] /\ default \in Pointers
        /\ \A u \in Threads : arg[u] \in Pointers /\ name[u] \in Names
    BY DEF DataTyped
  <2>6. Filed'
    BY <2>2, <2>4, <2>5 DEF DefaultInv, Filed, Files, Erases, Stores, Clears, Neither, Null
  <2>7. Around(t)
    BY <1>1, <2>2, <2>3 DEF Run, Around
  <2>8. Unremoved'
    BY <2>4, <2>7, UnremovedStep
  <2>9. Undisputed'
    BY <2>4, <2>7, UndisputedStep
  <2>. QED
    BY <2>6, <2>8, <2>9 DEF DefaultInv
<1>2. ASSUME NEW t \in Threads, Finish(t) PROVE DefaultInv'
  <2>1. /\ UNCHANGED <<names, registry, default, arg, pc, name>>
        /\ shadowed' = shadowed
        /\ raced \subseteq raced'
    BY <1>2, TypeParts DEF Finish, Destroy, Observe, Shadowed, pointerVars, localVars, BooksTyped
  <2>. QED
    BY <2>1 DEF DefaultInv, Filed, Unremoved, Removal, Default, Storing, Erasing,
       Undisputed, Settings, Current, Entering, Kept
<1>3. CASE UNCHANGED vars
  BY <1>3 DEF vars, pointerVars, localVars, DefaultInv, Filed, Unremoved, Removal,
     Default, Storing, Erasing, Undisputed, Settings, Current, Entering, Kept
<1>. QED
  BY <1>1, <1>2, <1>3 DEF Next

(* Loggers are found under their names, and getLogger() finds the default   *)
(* logger itself under its own: unless createLogger() has given that name to *)
(* another logger since, or calls that removed or set one of that name have  *)
(* overlapped the setDefaultLogger() that registered it; and some logger it  *)
(* finds there unless a removal has.                                         *)
THEOREM DefaultStaysKnown == Spec => []DefaultKnown
<1>1. DefaultInv => DefaultKnown
  BY DEF DefaultInv, Filed, Unremoved, Default, Undisputed, Current, Kept, DefaultKnown
<1>. QED
  BY LifeInvInit, LifeInvNext, DefaultInvInit, DefaultInvNext, <1>1, PTL DEF Spec
===============================================================================
