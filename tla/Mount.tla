-------------------------------- MODULE Mount --------------------------------
(***************************************************************************)
(* The life of a bucse-mount process: its main thread (main and            *)
(* bucse_fuse_main in bucse-mount.c), the tick thread that looks for new   *)
(* action files, and the FUSE workers, which run the *_guarded handlers.   *)
(* bucseMutex keeps ticks and handlers apart; nothing but the join keeps   *)
(* them from the memory main frees at the end.  One file stands for the    *)
(* tree.  A handler is three steps: it waits for the mutex, enters, and    *)
(* leaves having done its work.                                            *)
(***************************************************************************)
EXTENDS Naturals

CONSTANTS
    Workers,    \* the threads of fuse_session_loop_mt
    MaxHandles  \* bound on the open handles of the file

Main == "main"
Ticker == "ticker"
Nobody == "nobody"

ASSUME MountAssumption ==
    /\ {Main, Ticker, Nobody} \intersect Workers = {}
    /\ MaxHandles \in Nat

VARIABLES
    main,           \* where the main thread is
    ticker,         \* where the tick thread is, "none" before it is created
    worker,         \* per worker: its call, and where in the call it is
    bucseMutex,     \* who holds it
    shutdownTicking,
    file,           \* the file in memory; "refused" is dirty after a flush that failed
    handles,        \* how often it is open
    alive           \* what main has not freed yet

vars == <<main, ticker, worker, bucseMutex, shutdownTicking, file, handles, alive>>

Calls == {"lookup", "create", "open", "read", "write", "release"}
Idle == [call |-> "none", at |-> "idle"]
At(c, place) == [call |-> c, at |-> place]
Parts == {"cache", "tree", "destination"}

Init ==
    /\ main = "mount" /\ ticker = "none"
    /\ worker = [w \in Workers |-> Idle]
    /\ bucseMutex = Nobody /\ shutdownTicking = FALSE
    /\ file = "absent" /\ handles = 0
    /\ alive = Parts

\* A thread takes the mutex, or gives it back.
Takes(thread) == bucseMutex = Nobody /\ bucseMutex' = thread
Gives == bucseMutex' = Nobody

\* destination->tick and postInit: another machine's AddFile may be found.  It
\* fails on a file that is there (doAction).
Scan == file' \in IF file = "absent" THEN {"absent", "clean"} ELSE {file}

-----------------------------------------------------------------------------
\* The main thread, up to serving.  Every failure goes on to the end of main.
FuseMount ==
    /\ main = "mount"
    /\ main' \in {"postInit", "stop"}
    /\ UNCHANGED <<ticker, worker, bucseMutex, shutdownTicking, file, handles, alive>>

PostInitLock ==
    /\ main = "postInit" /\ Takes(Main)
    /\ main' = "scanning"
    /\ UNCHANGED <<ticker, worker, shutdownTicking, file, handles, alive>>

PostInit ==
    /\ main = "scanning" /\ Scan /\ Gives
    /\ main' \in {"start", "stop"}
    /\ UNCHANGED <<ticker, worker, shutdownTicking, handles, alive>>

\* pthread_create, with fuse_daemonize before and the signal handlers after it.
Start ==
    /\ main = "start"
    /\ \/ main' = "serve" /\ ticker' = "check"
       \/ main' = "stop" /\ ticker' \in {"none", "check"}
    /\ UNCHANGED <<worker, bucseMutex, shutdownTicking, file, handles, alive>>

\* An unmount or a signal ends the loop; it returns when the workers have.
Unmount ==
    /\ main = "serve" /\ main' = "drain"
    /\ UNCHANGED <<ticker, worker, bucseMutex, shutdownTicking, file, handles, alive>>

LoopReturns ==
    /\ main = "drain" /\ \A w \in Workers : worker[w] = Idle
    /\ main' = "stop"
    /\ UNCHANGED <<ticker, worker, bucseMutex, shutdownTicking, file, handles, alive>>

StopTicking ==
    /\ main = "stop" /\ main' = "join"
    /\ shutdownTicking' = TRUE
    /\ UNCHANGED <<ticker, worker, bucseMutex, file, handles, alive>>

\* Mutant: main does not wait for the thread.
JoinAtOnce ==
    /\ main = "join" /\ ticker # "none"
    /\ main' = "cacheCleanup"
    /\ UNCHANGED <<ticker, worker, bucseMutex, shutdownTicking, file, handles, alive>>

Join ==
    /\ main = "join" /\ ticker = "ended"
    /\ main' = "cacheCleanup"
    /\ UNCHANGED <<ticker, worker, bucseMutex, shutdownTicking, file, handles, alive>>

\* pthread_join of a tickThread that was never set: an error code, or a crash.
JoinNothing ==
    /\ main = "join" /\ ticker = "none"
    /\ main' \in {"cacheCleanup", "crashed"}
    /\ UNCHANGED <<ticker, worker, bucseMutex, shutdownTicking, file, handles, alive>>

CacheCleanup ==
    /\ main = "cacheCleanup" /\ main' = "freeTree"
    /\ alive' = alive \ {"cache"}
    /\ UNCHANGED <<ticker, worker, bucseMutex, shutdownTicking, file, handles>>

\* flushFile of a dirty file: the repository takes the result, or refuses it.
FlushFile ==
    file' \in IF file \notin {"dirty", "refused"} THEN {file}
              ELSE IF "destination" \in alive THEN {"clean", "refused"} ELSE {file}

\* Mutant: the files are freed without a flush.
FreeUnflushed ==
    /\ main = "freeTree" /\ main' = "shutdown"
    /\ alive' = alive \ {"tree"}
    /\ UNCHANGED <<ticker, worker, bucseMutex, shutdownTicking, file, handles>>

\* recursivelyFreeFilesystem: each file is flushed, whatever comes of it.
FreeTree ==
    /\ main = "freeTree" /\ main' = "shutdown"
    /\ FlushFile
    /\ alive' = alive \ {"tree"}
    /\ UNCHANGED <<ticker, worker, bucseMutex, shutdownTicking, handles>>

Shutdown ==
    /\ main = "shutdown" /\ main' = "exited"
    /\ alive' = alive \ {"destination"}
    /\ UNCHANGED <<ticker, worker, bucseMutex, shutdownTicking, file, handles>>

MainStep ==
    \/ FuseMount \/ PostInit \/ Start \/ LoopReturns \/ StopTicking
    \/ Join \/ JoinNothing \/ CacheCleanup \/ FreeTree \/ Shutdown

-----------------------------------------------------------------------------
\* Mutant: the thread never looks at shutdownTicking.
TickForever ==
    /\ ticker = "check" /\ ticker' = "lock"
    /\ UNCHANGED <<main, worker, bucseMutex, shutdownTicking, file, handles, alive>>

\* tickThreadFunc.
TickCheck ==
    /\ ticker = "check"
    /\ ticker' = IF shutdownTicking THEN "ended" ELSE "lock"
    /\ UNCHANGED <<main, worker, bucseMutex, shutdownTicking, file, handles, alive>>

TickLock ==
    /\ ticker = "lock" /\ Takes(Ticker)
    /\ ticker' = "ticking"
    /\ UNCHANGED <<main, worker, shutdownTicking, file, handles, alive>>

\* Mutant: a tick that fails breaks out of the loop with the mutex.
TickKeepsMutex ==
    /\ ticker = "ticking" /\ Scan
    /\ \/ ticker' = "sleep" /\ Gives
       \/ ticker' = "ended" /\ UNCHANGED bucseMutex
    /\ UNCHANGED <<main, worker, shutdownTicking, handles, alive>>

\* A tick that fails (malloc) ends the thread.
Tick ==
    /\ ticker = "ticking" /\ Scan /\ Gives
    /\ ticker' \in {"sleep", "ended"}
    /\ UNCHANGED <<main, worker, shutdownTicking, handles, alive>>

TickWake ==
    /\ ticker = "sleep" /\ ticker' = "check"
    /\ UNCHANGED <<main, worker, bucseMutex, shutdownTicking, file, handles, alive>>

TickStep == TickCheck \/ Tick \/ TickWake

-----------------------------------------------------------------------------
\* The kernel sends requests that fit the handles; a create follows a lookup that
\* found nothing, and the directory stays locked until it is over.
NoneCreates == \A w \in Workers : worker[w].call \notin {"lookup", "create"}

Request(w, c) ==
    /\ main = "serve" /\ worker[w] = Idle
    /\ c = "lookup" => NoneCreates /\ handles < MaxHandles
    /\ c = "open" => file # "absent" /\ handles < MaxHandles
    /\ c \in {"read", "write", "release"} => handles > 0
    /\ worker' = [worker EXCEPT ![w] = At(c, "lock")]
    /\ handles' = IF c = "release" THEN handles - 1 ELSE handles
    /\ UNCHANGED <<main, ticker, bucseMutex, shutdownTicking, file, alive>>

Enter(w) ==
    /\ worker[w].at = "lock" /\ Takes(w)
    /\ worker' = [worker EXCEPT ![w].at = "inside"]
    /\ UNCHANGED <<main, ticker, shutdownTicking, file, handles, alive>>

\* The handler of call c is over: its effect, and what the worker does next.
Leave(w, c, next) ==
    /\ worker[w] = At(c, "inside") /\ Gives
    /\ worker' = [worker EXCEPT ![w] = next]
    /\ UNCHANGED <<main, ticker, shutdownTicking, alive>>

Opens == handles' = IF handles < MaxHandles THEN handles + 1 ELSE handles

\* The getattr of a lookup, which flushes pending writes; the kernel goes on to
\* create or to open the file.
Lookup(w) ==
    /\ Leave(w, "lookup", IF file = "absent" THEN At("create", "lock") ELSE At("open", "lock"))
    /\ FlushFile \/ UNCHANGED file
    /\ UNCHANGED handles

Create(w) ==
    /\ file = "absent" /\ file' = "dirty" /\ Opens
    /\ Leave(w, "create", Idle)

\* The file came up after the lookup, and the caller passed O_EXCL.
CreateExisting(w) ==
    /\ file # "absent"
    /\ Leave(w, "create", Idle)
    /\ UNCHANGED <<file, handles>>

\* Without O_EXCL create.c calls bucse_open_guarded: the mutex once more.
CreateOpens(w) ==
    /\ file # "absent"
    /\ worker[w] = At("create", "inside")
    /\ worker' = [worker EXCEPT ![w] = At("open", "lock")]
    /\ UNCHANGED <<main, ticker, bucseMutex, shutdownTicking, file, handles, alive>>

Open(w) == Leave(w, "open", Idle) /\ Opens /\ UNCHANGED file

Read(w) == Leave(w, "read", Idle) /\ FlushFile /\ UNCHANGED handles

\* The write that makes too many pending flushes them.
Write(w) ==
    /\ Leave(w, "write", Idle)
    /\ file' \in {"dirty", "clean", "refused"}
    /\ UNCHANGED handles

\* A handle opened for reading flushes nothing.
Release(w) ==
    /\ Leave(w, "release", Idle)
    /\ FlushFile \/ UNCHANGED file
    /\ UNCHANGED handles

Handle(w) ==
    \/ Lookup(w) \/ Create(w) \/ CreateExisting(w) \/ CreateOpens(w)
    \/ Open(w) \/ Read(w) \/ Write(w) \/ Release(w)

-----------------------------------------------------------------------------
Ended == main \in {"exited", "crashed"}
Terminated == Ended /\ UNCHANGED vars

Next ==
    \/ MainStep \/ PostInitLock \/ Unmount
    \/ TickStep \/ TickLock
    \/ \E w \in Workers : Enter(w) \/ Handle(w) \/ \E c \in Calls \ {"create"} : Request(w, c)
    \/ Terminated

\* Threads run; a thread that waits for the mutex gets it some time, as the tick
\* thread sleeps a second after giving it back.  Nobody has to unmount.
Fairness ==
    /\ WF_vars(MainStep) /\ SF_vars(PostInitLock)
    /\ WF_vars(TickStep) /\ SF_vars(TickLock)
    /\ \A w \in Workers : WF_vars(Handle(w)) /\ SF_vars(Enter(w))

Spec == Init /\ [][Next]_vars /\ Fairness

-----------------------------------------------------------------------------
MainPlaces == {"mount", "postInit", "scanning", "start", "serve", "drain", "stop", "join",
               "cacheCleanup", "freeTree", "shutdown", "exited", "crashed"}

\* Every variable keeps its type; main and the tick thread hold the mutex while
\* they tick and at no other time, and whoever is inside a handler holds it.
TypeOK ==
    /\ main \in MainPlaces
    /\ ticker \in {"none", "check", "lock", "ticking", "sleep", "ended"}
    /\ worker \in [Workers -> {Idle} \union [call : Calls, at : {"lock", "inside"}]]
    /\ bucseMutex \in {Nobody, Main, Ticker} \union Workers
    /\ bucseMutex = Main <=> main = "scanning"
    /\ bucseMutex = Ticker <=> ticker = "ticking"
    /\ \A w \in Workers : worker[w].at = "inside" => bucseMutex = w
    /\ shutdownTicking \in BOOLEAN
    /\ file \in {"absent", "clean", "dirty", "refused"}
    /\ handles \in 0 .. MaxHandles
    /\ alive \subseteq Parts

\* A tick or handler that works on the tree and the destination never finds them
\* freed: main frees them without the mutex (bucse-mount.c:615-620) and relies on
\* the loop and the join before.
UsesLiveMemory ==
    (ticker = "ticking" \/ \E w \in Workers : worker[w].at = "inside") => alive = Parts

\* What was written when the mount was stopped is offered to the repository before
\* the process exits (recursivelyFreeFilesystem flushes every file, before the
\* destination shuts down), and stored unless the repository refuses it.
NothingUnsaved == main = "exited" => file # "dirty"

\* Every request the kernel sends is answered, ticks and other calls
\* notwithstanding (the *_guarded handlers).
CallsReturn == \A w \in Workers : worker[w] # Idle ~> worker[w] = Idle

\* Once the mount is stopped, or could not start, the process ends: the loop
\* returns, the tick thread sees shutdownTicking, the join returns.
Exits == main \in {"drain", "stop"} ~> Ended

\* A handler waits for the mutex it holds (create.c:60).
Relocks == \E w \in Workers : worker[w].at = "lock" /\ bucseMutex = w

\* That is the only way for a request to hang: in every run of the process in which
\* no handler locks the mutex twice, every request is answered and the process
\* ends when it is stopped, or could not start.
ServesUnlessRelocked == []~Relocks => CallsReturn /\ Exits
=============================================================================
