----------------------------- MODULE MountProofs -----------------------------
(***************************************************************************)
(* Proofs about Mount, for any number of workers and handles: the typing   *)
(* invariant with the ownership of bucseMutex, that no tick or handler     *)
(* touches what main has freed, and that what was written is offered.      *)
(***************************************************************************)
EXTENDS Mount, TLAPS

USE DEF Main, Ticker, Nobody, Idle, At, Calls, Parts, MainPlaces

\* TypeOK is not inductive: it does not say that there is no tick thread, so none
\* with the mutex, until main starts one.
NotTickingYet == main \in {"mount", "postInit", "scanning", "start"} => ticker = "none"
TypeInv == TypeOK /\ NotTickingYet

LEMMA TypeInit == Init => TypeInv
<1> SUFFICES ASSUME Init PROVE TypeInv
  OBVIOUS
<1>1. worker \in [Workers -> {Idle} \union [call : Calls, at : {"lock", "inside"}]]
      /\ \A w \in Workers : worker[w].at # "inside"
  BY DEF Init
<1>2. handles \in 0 .. MaxHandles
  BY MountAssumption DEF Init
<1>3. QED
  BY <1>1, <1>2 DEF Init, TypeInv, TypeOK, NotTickingYet

\* The steps of the main thread keep the types.
LEMMA TypeMain == TypeInv /\ (MainStep \/ PostInitLock \/ Unmount) => TypeOK'
<1> SUFFICES ASSUME TypeOK, NotTickingYet, MainStep \/ PostInitLock \/ Unmount PROVE TypeOK'
  BY DEF TypeInv
<1> USE MountAssumption DEF TypeOK
<1>1. CASE FuseMount
  <2>1. main' \in {"postInit", "stop"}
    BY <1>1 DEF FuseMount
  <2>2. QED
    BY <1>1, <2>1 DEF FuseMount
<1>2. CASE PostInit       BY <1>2 DEF PostInit, Scan, Gives
<1>3. CASE Start
  <2>1. main = "start" /\ main' \in {"serve", "stop"} /\ ticker' \in {"none", "check"}
    BY <1>3 DEF Start
  <2>2. UNCHANGED <<worker, bucseMutex, shutdownTicking, file, handles, alive>>
    BY <1>3 DEF Start
  <2>3. bucseMutex # Ticker /\ bucseMutex # Main
    BY <2>1 DEF NotTickingYet
  <2>4. QED
    BY <2>1, <2>2, <2>3
<1>4. CASE LoopReturns    BY <1>4 DEF LoopReturns
<1>5. CASE StopTicking    BY <1>5 DEF StopTicking
<1>6. CASE Join           BY <1>6 DEF Join
<1>7. CASE JoinNothing    BY <1>7 DEF JoinNothing
<1>8. CASE CacheCleanup   BY <1>8 DEF CacheCleanup
<1>9. CASE FreeTree       BY <1>9 DEF FreeTree, FlushFile
<1>10. CASE Shutdown      BY <1>10 DEF Shutdown
<1>11. CASE PostInitLock  BY <1>11 DEF PostInitLock, Takes
<1>12. CASE Unmount       BY <1>12 DEF Unmount
<1>13. QED
  BY <1>1, <1>2, <1>3, <1>4, <1>5, <1>6, <1>7, <1>8, <1>9, <1>10, <1>11, <1>12 DEF MainStep

\* The steps of the tick thread keep the types.
LEMMA TypeTick == TypeOK /\ (TickStep \/ TickLock) => TypeOK'
<1> SUFFICES ASSUME TypeOK, TickStep \/ TickLock PROVE TypeOK'
  OBVIOUS
<1> USE MountAssumption DEF TypeOK
<1>1. CASE TickCheck  BY <1>1 DEF TickCheck
<1>2. CASE TickLock   BY <1>2 DEF TickLock, Takes
<1>3. CASE Tick       BY <1>3 DEF Tick, Scan, Gives
<1>4. CASE TickWake   BY <1>4 DEF TickWake
<1>5. QED
  BY <1>1, <1>2, <1>3, <1>4 DEF TickStep

\* A handler that is over leaves the types and the mutex in order.
LEMMA TypeLeave ==
  ASSUME TypeOK, NEW w \in Workers, NEW c \in Calls,
         NEW next \in {Idle} \union [call : Calls, at : {"lock"}],
         Leave(w, c, next),
         file' \in {"absent", "clean", "dirty", "refused"}, handles' \in 0 .. MaxHandles
  PROVE  TypeOK'
  BY MountAssumption DEF TypeOK, Leave, Gives

\* The steps of a worker keep the types.
LEMMA TypeWorker ==
  ASSUME TypeOK, NEW w \in Workers, Enter(w) \/ Handle(w) \/ \E c \in Calls : Request(w, c)
  PROVE  TypeOK'
<1>1. ASSUME NEW c \in Calls, Request(w, c) PROVE TypeOK'
  BY <1>1, MountAssumption DEF TypeOK, Request
<1>2. CASE Enter(w)
  BY <1>2, MountAssumption DEF TypeOK, Enter, Takes
<1>3. CASE CreateOpens(w)
  BY <1>3, MountAssumption DEF TypeOK, CreateOpens
<1>4. MaxHandles \in Nat /\ handles \in 0 .. MaxHandles
      /\ file \in {"absent", "clean", "dirty", "refused"}
  BY MountAssumption DEF TypeOK
<1>5. Opens => handles' \in 0 .. MaxHandles
  BY <1>4 DEF Opens
<1>6. FlushFile => file' \in {"absent", "clean", "dirty", "refused"}
  BY <1>4 DEF FlushFile
<1>7. CASE Lookup(w)          BY <1>4, <1>6, <1>7, TypeLeave DEF Lookup
<1>8. CASE Create(w)          BY <1>4, <1>5, <1>8, TypeLeave DEF Create
<1>9. CASE CreateExisting(w)  BY <1>4, <1>9, TypeLeave DEF CreateExisting
<1>10. CASE Open(w)           BY <1>4, <1>5, <1>10, TypeLeave DEF Open
<1>11. CASE Read(w)           BY <1>4, <1>6, <1>11, TypeLeave DEF Read
<1>12. CASE Write(w)          BY <1>4, <1>12, TypeLeave DEF Write
<1>13. CASE Release(w)        BY <1>4, <1>6, <1>13, TypeLeave DEF Release
<1>14. QED
  BY <1>1, <1>2, <1>3, <1>7, <1>8, <1>9, <1>10, <1>11, <1>12, <1>13 DEF Handle

\* The tick thread exists only once main has started it.
LEMMA NotTickingStep == NotTickingYet /\ [Next]_vars => NotTickingYet'
<1> SUFFICES ASSUME NotTickingYet, [Next]_vars PROVE NotTickingYet'
  OBVIOUS
<1> USE DEF NotTickingYet
<1>1. CASE MainStep
  BY <1>1 DEF MainStep, FuseMount, PostInit, Start, LoopReturns, StopTicking, Join, JoinNothing,
              CacheCleanup, FreeTree, Shutdown
<1>2. CASE PostInitLock \/ Unmount
  BY <1>2 DEF PostInitLock, Unmount
<1>3. CASE TickStep \/ TickLock
  BY <1>3 DEF TickStep, TickLock, TickCheck, Tick, TickWake
<1>4. ASSUME NEW w \in Workers, Enter(w) \/ Handle(w) \/ \E c \in Calls : Request(w, c)
      PROVE  UNCHANGED <<main, ticker>>
  BY <1>4 DEF Enter, Request, Handle, Leave, Lookup, Create, CreateExisting, CreateOpens,
              Open, Read, Write, Release
<1>5. CASE Terminated \/ UNCHANGED vars
  BY <1>5 DEF Terminated, vars
<1>6. QED
  BY <1>1, <1>2, <1>3, <1>4, <1>5 DEF Next

LEMMA TypeStep == TypeInv /\ [Next]_vars => TypeInv'
<1>1. TypeOK /\ UNCHANGED vars => TypeOK'
  BY DEF TypeOK, vars
<1>2. TypeInv /\ [Next]_vars => TypeOK'
  BY <1>1, TypeMain, TypeTick, TypeWorker DEF Next, Terminated, TypeInv
<1>3. QED
  BY <1>2, NotTickingStep DEF TypeInv

\* Every variable keeps its type, and the mutex is held by whoever is inside a
\* tick or a handler: the pthread_mutex_lock and unlock of bucse-mount.c and of
\* the *_guarded handlers pair up.
THEOREM TypeCorrect == Spec => []TypeOK
<1>1. Init => TypeInv
  BY TypeInit
<1>2. TypeInv /\ [Next]_vars => TypeInv'
  BY TypeStep
<1>3. TypeInv => TypeOK
  BY DEF TypeInv
<1>4. QED
  BY <1>1, <1>2, <1>3, PTL DEF Spec

-----------------------------------------------------------------------------
(***************************************************************************)
(* UsesLiveMemory is not inductive: it does not say why nobody is inside   *)
(* when main frees memory.  Requests come and go only while main serves,   *)
(* and main passes its join only when the tick thread is over or never was.*)
(***************************************************************************)
Joined == {"cacheCleanup", "freeTree", "shutdown", "exited"}
Freed == {"freeTree", "shutdown", "exited"}

LiveInv ==
    /\ main \in Joined => ticker \in {"none", "ended"}
    /\ main \notin {"serve", "drain"} => \A w \in Workers : worker[w] = Idle
    /\ main \notin Freed => alive = Parts

USE DEF Joined, Freed

LEMMA LiveInit == Init => LiveInv
  BY DEF Init, LiveInv

LEMMA LiveStep == TypeOK /\ LiveInv /\ [Next]_vars => LiveInv'
<1> SUFFICES ASSUME TypeOK, LiveInv, [Next]_vars PROVE LiveInv'
  OBVIOUS
<1> USE DEF LiveInv
<1>1. CASE MainStep
  <2>1. CASE FuseMount     BY <2>1 DEF FuseMount
  <2>2. CASE PostInit      BY <2>2 DEF PostInit
  <2>3. CASE Start         BY <2>3 DEF Start
  <2>4. CASE LoopReturns   BY <2>4 DEF LoopReturns
  <2>5. CASE StopTicking   BY <2>5 DEF StopTicking
  <2>6. CASE Join          BY <2>6 DEF Join
  <2>7. CASE JoinNothing   BY <2>7 DEF JoinNothing
  <2>8. CASE CacheCleanup  BY <2>8 DEF CacheCleanup
  <2>9. CASE FreeTree      BY <2>9 DEF FreeTree
  <2>10. CASE Shutdown     BY <2>10 DEF Shutdown
  <2>11. QED
    BY <1>1, <2>1, <2>2, <2>3, <2>4, <2>5, <2>6, <2>7, <2>8, <2>9, <2>10 DEF MainStep
<1>2. CASE PostInitLock  BY <1>2 DEF PostInitLock
<1>3. CASE Unmount       BY <1>3 DEF Unmount
<1>4. CASE TickStep      BY <1>4 DEF TickStep, TickCheck, Tick, TickWake
<1>5. CASE TickLock      BY <1>5 DEF TickLock
<1>6. ASSUME NEW w \in Workers, Enter(w) \/ Handle(w) \/ \E c \in Calls : Request(w, c)
      PROVE  LiveInv'
  <2>1. UNCHANGED <<main, ticker, alive>>
    BY <1>6 DEF Enter, Request, Handle, Leave, Lookup, Create, CreateExisting, CreateOpens,
                Open, Read, Write, Release
  <2>2. worker[w] # Idle \/ main = "serve"
    <3>1. CASE Enter(w)
      <4>1. worker[w].at = "lock" /\ Idle.at = "idle"
        BY <3>1 DEF Enter
      <4>2. QED
        BY <4>1
    <3>2. CASE Handle(w)
      <4>1. \E c \in Calls : worker[w] = At(c, "inside")
        BY <3>2 DEF Handle, Leave, Lookup, Create, CreateExisting, CreateOpens,
                    Open, Read, Write, Release
      <4>2. worker[w].at = "inside" /\ Idle.at = "idle"
        BY <4>1
      <4>3. QED
        BY <4>2
    <3>3. CASE \E c \in Calls : Request(w, c)
      BY <3>3 DEF Request
    <3>4. QED
      BY <1>6, <3>1, <3>2, <3>3
  <2>3. main \in {"serve", "drain"}
    BY <2>2
  <2>4. QED
    BY <2>1, <2>3
<1>7. CASE Terminated \/ UNCHANGED vars
  BY <1>7 DEF Terminated, vars
<1>8. QED
  BY <1>1, <1>2, <1>3, <1>4, <1>5, <1>6, <1>7 DEF Next

LEMMA LiveSuffices == LiveInv => UsesLiveMemory
  BY DEF LiveInv, UsesLiveMemory

\* No tick and no handler ever works on memory main has freed, however many
\* workers there are and however the start failed (bucse-mount.c:602-623).
THEOREM NoUseAfterFree == Spec => []UsesLiveMemory
<1>1. Init => LiveInv
  BY LiveInit
<1>2. TypeOK /\ LiveInv /\ [Next]_vars => LiveInv'
  BY LiveStep
<1>3. Spec => []LiveInv
  BY <1>1, <1>2, TypeCorrect, PTL DEF Spec
<1>4. QED
  BY <1>3, LiveSuffices, PTL

-----------------------------------------------------------------------------
(***************************************************************************)
(* NothingUnsaved: main flushes the tree while the destination is alive,   *)
(* and afterwards nobody is left to write.                                 *)
(***************************************************************************)
SaveInv ==
    /\ main \in Freed => ticker \in {"none", "ended"} /\ \A w \in Workers : worker[w] = Idle
    /\ main \in {"cacheCleanup", "freeTree"} => "destination" \in alive
    /\ main \in {"shutdown", "exited"} => file # "dirty"

LEMMA SaveStep == TypeOK /\ LiveInv /\ LiveInv' /\ SaveInv /\ [Next]_vars => SaveInv'
<1> SUFFICES ASSUME TypeOK, LiveInv, LiveInv', SaveInv, [Next]_vars PROVE SaveInv'
  OBVIOUS
<1>1. main' \in Freed => ticker' \in {"none", "ended"} /\ \A w \in Workers : worker'[w] = Idle
  BY DEF LiveInv
<1>2. CASE MainStep
  <2>1. main' = "cacheCleanup" => UNCHANGED alive /\ main = "join"
    BY <1>2 DEF MainStep, FuseMount, PostInit, Start, LoopReturns, StopTicking, Join, JoinNothing,
                CacheCleanup, FreeTree, Shutdown
  <2>2. main' = "freeTree" => main = "cacheCleanup" /\ alive' = alive \ {"cache"}
    BY <1>2 DEF MainStep, FuseMount, PostInit, Start, LoopReturns, StopTicking, Join, JoinNothing,
                CacheCleanup, FreeTree, Shutdown
  <2>3. main' = "shutdown" => main = "freeTree" /\ FlushFile
    BY <1>2 DEF MainStep, FuseMount, PostInit, Start, LoopReturns, StopTicking, Join, JoinNothing,
                CacheCleanup, FreeTree, Shutdown
  <2>4. main' = "exited" => main = "shutdown" /\ UNCHANGED file
    BY <1>2 DEF MainStep, FuseMount, PostInit, Start, LoopReturns, StopTicking, Join, JoinNothing,
                CacheCleanup, FreeTree, Shutdown
  <2>5. main' \in {"cacheCleanup", "freeTree"} => "destination" \in alive'
    BY <2>1, <2>2 DEF LiveInv, SaveInv
  <2>6. main' \in {"shutdown", "exited"} => file' # "dirty"
    BY <2>3, <2>4 DEF SaveInv, FlushFile
  <2>7. QED
    BY <1>1, <2>5, <2>6 DEF SaveInv
<1>3. CASE PostInitLock \/ Unmount
  BY <1>1, <1>3 DEF PostInitLock, Unmount, SaveInv
<1>4. CASE TickStep \/ TickLock
  <2>1. UNCHANGED <<main, alive>> /\ (ticker = "ticking" \/ UNCHANGED file)
    BY <1>4 DEF TickStep, TickLock, TickCheck, Tick, TickWake
  <2>2. QED
    BY <1>1, <2>1 DEF SaveInv
<1>5. ASSUME NEW w \in Workers, Enter(w) \/ Handle(w) \/ \E c \in Calls : Request(w, c)
      PROVE  SaveInv'
  <2>1. UNCHANGED <<main, alive>>
    BY <1>5 DEF Enter, Request, Handle, Leave, Lookup, Create, CreateExisting, CreateOpens,
                Open, Read, Write, Release
  <2>2. worker[w].at = "inside" \/ UNCHANGED file
    BY <1>5 DEF Enter, Request, Handle, Leave, Lookup, Create, CreateExisting, CreateOpens,
                Open, Read, Write, Release
  <2>3. main \in Freed => UNCHANGED file
    <3>1. Idle.at = "idle"
      OBVIOUS
    <3>2. QED
      BY <2>2, <3>1 DEF SaveInv
  <2>4. QED
    BY <1>1, <2>1, <2>3 DEF SaveInv
<1>6. CASE Terminated \/ UNCHANGED vars
  BY <1>6 DEF Terminated, vars, SaveInv
<1>7. QED
  BY <1>2, <1>3, <1>4, <1>5, <1>6 DEF Next

\* What was written is offered to the repository before the process exits, however
\* many workers write and however the mount ends (recursivelyFreeFilesystem,
\* bucse-mount.c:53-65, before the destination's shutdown at 618).
THEOREM WrittenIsOffered == Spec => []NothingUnsaved
<1>1. Init => LiveInv
  BY LiveInit
<1>2. TypeOK /\ LiveInv /\ [Next]_vars => LiveInv'
  BY LiveStep
<1>3. Spec => []LiveInv
  BY <1>1, <1>2, TypeCorrect, PTL DEF Spec
<1>4. Init => SaveInv
  BY DEF Init, SaveInv
<1>5. SaveInv => NothingUnsaved
  BY DEF SaveInv, NothingUnsaved
<1>6. QED
  BY <1>3, <1>4, <1>5, SaveStep, TypeCorrect, PTL DEF Spec
=============================================================================
