----------------------------- MODULE Lifecycle -----------------------------
(***************************************************************************)
(* Start, Stop and the end of a CacheServer.  Start() runs in the main     *)
(* thread: it creates the metrics, acceptor and handler threads and waits  *)
(* on a latch for the last two.  Stop() runs in a signal handler, at any   *)
(* point of Start() and beside every thread.  After Start() main() ends    *)
(* its exporter thread and destroys the server, whose members go in the    *)
(* reverse order of their declaration, and at last the MetricsChannel.     *)
(*                                                                         *)
(* One iteration of a thread's loop is one step; what the acceptor and the *)
(* handler do in it is the subject of ConnManager and RequestHandler, the  *)
(* metrics on their way are in Metrics.                                    *)
(***************************************************************************)
EXTENDS Metrics

Threads == {"metricsUpdater", "connManager", "reqHandler"}
Latched == {"connManager", "reqHandler"}

VARIABLES mainPc,      \* where the main thread is
          isRunning,
          thread,      \* state of each jthread
          stop,        \* the threads whose stop_token is set
          latch,       \* shutdownLatch
          coroutine,   \* handleRequests(): "none", "live", or "done" for good
          stopPc,      \* where Stop() is; threads still to be asked to stop
          shards, connManager,  \* members the threads use: they exist
          serverChannel         \* the MetricsChannel of main() exists

objects == <<shards, connManager, serverChannel>>
life == <<mainPc, isRunning, thread, stop, latch, coroutine, stopPc, objects>>
lifecycleVars == <<life, metricsVars>>

\* Undefined behaviour may have ended the process.
Alive == mainPc # "crashed"

\* The thread that each place in Start() is about to create.
Creates == [metrics |-> "metricsUpdater", acceptor |-> "connManager",
            handler |-> "reqHandler"]
After == [metrics |-> "acceptor", acceptor |-> "handler", handler |-> "wait"]

LifecycleInit ==
    /\ mainPc = "start" /\ isRunning = FALSE
    /\ thread = [t \in Threads |-> "none"] /\ stop = {}
    /\ latch = 2
    /\ coroutine = "none" /\ stopPc = "idle"
    /\ shards = TRUE /\ connManager = TRUE /\ serverChannel = TRUE
    /\ MetricsInit

-----------------------------------------------------------------------------
(* The main thread.                                                        *)

StartRunning == /\ mainPc = "start"
                /\ mainPc' = "metrics" /\ isRunning' = TRUE
                /\ UNCHANGED <<thread, stop, latch, coroutine, stopPc, objects,
                               metricsVars>>

StartThread == /\ mainPc \in DOMAIN Creates
               /\ thread' = [thread EXCEPT ![Creates[mainPc]] = "running"]
               /\ mainPc' = After[mainPc]
               /\ UNCHANGED <<isRunning, stop, latch, coroutine, stopPc, objects,
                              metricsVars>>

\* Seeded fault: the main thread does not wait for the latch.
StartReturnsUnlatched ==
    /\ mainPc = "wait"
    /\ mainPc' = "returned"
    /\ UNCHANGED <<isRunning, thread, stop, latch, coroutine, stopPc, objects, metricsVars>>

StartReturns == /\ mainPc = "wait" /\ latch = 0
                /\ mainPc' = "returned"
                /\ UNCHANGED <<isRunning, thread, stop, latch, coroutine, stopPc, objects,
                               metricsVars>>

\* ~jthread() of the exporter: request_stop(), then join().
StopExporter == /\ mainPc = "returned" /\ ~exporterStop
                /\ exporterStop' = TRUE
                /\ UNCHANGED <<life, counters, snapshot, channel, exported, exporterPc>>

\* serverShards is declared after the threads, and so goes before them.
DestroyShards == /\ mainPc = "returned" /\ exporterPc = "exited"
                 /\ mainPc' = "join" /\ shards' = FALSE
                 /\ UNCHANGED <<isRunning, thread, stop, latch, coroutine, stopPc,
                                connManager, serverChannel, metricsVars>>

\* ~jthread() of a running thread: request_stop(), then join().
DestroyThreads == /\ mainPc = "join" /\ stop # Threads
                  /\ stop' = Threads
                  /\ UNCHANGED <<mainPc, isRunning, thread, latch, coroutine, stopPc,
                                 objects, metricsVars>>

\* Seeded fault: the threads are asked to stop but not joined.
DestroyConnManagerAtOnce ==
    /\ mainPc = "join" /\ stop = Threads
    /\ mainPc' = "destroyed" /\ connManager' = FALSE
    /\ UNCHANGED <<isRunning, thread, stop, latch, coroutine, stopPc, shards, serverChannel,
                   metricsVars>>

DestroyConnManager == /\ mainPc = "join" /\ stop = Threads
                      /\ \A t \in Threads : thread[t] # "running"
                      /\ mainPc' = "destroyed" /\ connManager' = FALSE
                      /\ UNCHANGED <<isRunning, thread, stop, latch, coroutine, stopPc,
                                     shards, serverChannel, metricsVars>>

DestroyChannel == /\ mainPc = "destroyed"
                  /\ mainPc' = "end" /\ serverChannel' = FALSE
                  /\ UNCHANGED <<isRunning, thread, stop, latch, coroutine, stopPc, shards,
                                 connManager, metricsVars>>

-----------------------------------------------------------------------------
(* The threads.                                                            *)

Running(t) == Alive /\ thread[t] = "running"

\* The loop of a thread ends when its token is set; the acceptor and the
\* handler then count the latch down.
ThreadExits(t) == /\ Running(t) /\ t \in stop
                  /\ t = "reqHandler" => coroutine # "none"
                  /\ t = "metricsUpdater" => snapshot = Idle
                  /\ thread' = [thread EXCEPT ![t] = "exited"]
                  /\ latch' = IF t \in Latched THEN latch - 1 ELSE latch
                  /\ UNCHANGED <<mainPc, isRunning, stop, coroutine, stopPc, objects,
                                 metricsVars>>

\* handleRequests() runs: called by the handler thread, whatever its token
\* says, or resumed by next_value() in its loop.
Resumes == /\ Running("reqHandler")
           /\ coroutine = "none" \/ (coroutine = "live" /\ "reqHandler" \notin stop)

\* It handles the events of one epoll_wait() and yields.
Polls == /\ Resumes /\ isRunning
         /\ coroutine' = "live"
         /\ CountEvents
         /\ UNCHANGED <<mainPc, isRunning, thread, stop, latch, stopPc, objects>>

\* Its epoll_wait() fails: EINTR, as any other error, ends the coroutine.
EpollWaitFails == /\ Resumes /\ isRunning
                  /\ coroutine' = "done"
                  /\ UNCHANGED <<mainPc, isRunning, thread, stop, latch, stopPc, objects,
                                 metricsVars>>

\* isRunning is false, and the coroutine flows off its end.  Its promise
\* has no return_void(), so that is undefined: it may just be done.
FlowsOffEnd == /\ Resumes /\ ~isRunning
               /\ coroutine' = "done"
               /\ mainPc' \in {mainPc, "crashed"}
               /\ UNCHANGED <<isRunning, thread, stop, latch, stopPc, objects, metricsVars>>

\* An iteration of metricsUpdater() begins unless the token is set, and is
\* finished in any case.
Updates == /\ Running("metricsUpdater")
           /\ \/ ReadErrors /\ "metricsUpdater" \notin stop
              \/ PushSnapshot
           /\ UNCHANGED life

Exports == Alive /\ ExporterStep /\ UNCHANGED life

-----------------------------------------------------------------------------
(* Stop(), called once for each signal.                                    *)

StopBegins == /\ Alive /\ stopPc = "idle" /\ connManager /\ isRunning
              /\ isRunning' = FALSE
              /\ stopPc' = "metricsUpdater"
              /\ UNCHANGED <<mainPc, thread, stop, latch, coroutine, objects, metricsVars>>

\* Seeded fault: the last thread of the list is left out.
RequestStopSkipsHandler ==
    /\ Alive /\ stopPc \in Threads
    /\ stop' = IF thread[stopPc] = "none" \/ stopPc = "reqHandler" THEN stop
               ELSE stop \union {stopPc}
    /\ stopPc' = CASE stopPc = "metricsUpdater" -> "connManager"
                   [] stopPc = "connManager"    -> "reqHandler"
                   [] stopPc = "reqHandler"     -> "idle"
    /\ UNCHANGED <<mainPc, isRunning, thread, latch, coroutine, objects, metricsVars>>

\* request_stop() on the next thread; on a jthread without a thread it does
\* nothing.
RequestStop ==
    /\ Alive /\ stopPc \in Threads
    /\ stop' = IF thread[stopPc] = "none" THEN stop ELSE stop \union {stopPc}
    /\ stopPc' = CASE stopPc = "metricsUpdater" -> "connManager"
                   [] stopPc = "connManager"    -> "reqHandler"
                   [] stopPc = "reqHandler"     -> "idle"
    /\ UNCHANGED <<mainPc, isRunning, thread, latch, coroutine, objects, metricsVars>>

-----------------------------------------------------------------------------
MainStep == \/ StartRunning \/ StartThread \/ StartReturns
            \/ StopExporter \/ DestroyShards \/ DestroyThreads
            \/ DestroyConnManager \/ DestroyChannel

LifecycleNext ==
    \/ MainStep
    \/ \E t \in Threads : ThreadExits(t)
    \/ Polls \/ EpollWaitFails \/ FlowsOffEnd \/ Updates \/ Exports
    \/ StopBegins \/ RequestStop

LifecycleSpec == LifecycleInit /\ [][LifecycleNext]_lifecycleVars

\* Every thread runs, and Stop() finishes once it is called; nothing makes
\* a signal arrive.
LifecycleFairness ==
    /\ WF_lifecycleVars(MainStep) /\ WF_lifecycleVars(RequestStop)
    /\ WF_lifecycleVars(Polls \/ FlowsOffEnd)
    /\ WF_lifecycleVars(Updates) /\ WF_lifecycleVars(Exports)
    /\ \A t \in Threads : WF_lifecycleVars(ThreadExits(t))

LifecycleFairSpec == LifecycleSpec /\ LifecycleFairness

-----------------------------------------------------------------------------
(* No thread outlives what it uses: serverShards is destroyed only when    *)
(* the handler and the acceptor have left their loops, connManager only    *)
(* when the metrics thread has, although ~CacheServer() joins no thread    *)
(* by itself, and the channel only when nobody pushes or pops any more.    *)
NoUseAfterDestroy ==
    Alive => /\ ~shards => \A t \in Latched : thread[t] = "exited"
             /\ ~connManager => \A t \in Threads : thread[t] # "running"
             /\ ~serverChannel => /\ thread["metricsUpdater"] # "running"
                                  /\ exporterPc = "exited"

\* 1 while a thread still has to count the latch down.
Due(t) == IF thread[t] = "exited" THEN 0 ELSE 1

(* What the proofs show to be inductive: the latch counts the threads that *)
(* have not exited, no thread is created twice, and main() passes each of  *)
(* its joins only when the threads concerned are gone.                     *)
LifecycleIInv ==
    /\ thread \in [Threads -> {"none", "running", "exited"}]
    /\ latch = Due("connManager") + Due("reqHandler")
    /\ mainPc \in {"start", "metrics", "acceptor", "handler", "wait", "returned", "join",
                   "destroyed", "end", "crashed"}
    /\ mainPc \in {"start", "metrics", "acceptor"} => thread["connManager"] = "none"
    /\ mainPc \in {"start", "metrics", "acceptor", "handler"} => thread["reqHandler"] = "none"
    /\ mainPc \in {"returned", "join", "destroyed", "end"} =>
           \A t \in Latched : thread[t] = "exited"
    /\ mainPc \in {"join", "destroyed", "end"} => exporterPc = "exited"
    /\ mainPc \in {"destroyed", "end"} => \A t \in Threads : thread[t] # "running"
    /\ ~shards => mainPc \in {"join", "destroyed", "end", "crashed"}
    /\ ~connManager => mainPc \in {"destroyed", "end", "crashed"}
    /\ ~serverChannel => mainPc \in {"end", "crashed"}

(* A signal that arrives once Start() waits brings the server to its end,  *)
(* or undefined behaviour has ended the process.                           *)
StopEndsServer ==
    (mainPc = "wait" /\ stopPc = "metricsUpdater") ~> mainPc \in {"end", "crashed"}

(* While the server is not asked to stop, what it has counted is exported  *)
(* sooner or later, however the three threads are scheduled.               *)
MetricsCatchUp ==
    \A n \in 1..MaxRequests :
        (numRequests >= n /\ isRunning) ~> (exported.requests >= n \/ ~isRunning)
=============================================================================
