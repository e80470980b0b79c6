------------------------------- MODULE Services -------------------------------
(***************************************************************************)
(* The logging system and the background worker as one application runs    *)
(* them: the owner and the jobs log messages, jobs queue further jobs for  *)
(* either queue, and the owner collects messages with flush, shuts the     *)
(* logging system down and destroys the worker, in either order.           *)
(***************************************************************************)
EXTENDS LoggingSystem, BackgroundWorker

ASSUME ServicesAssumption == Clients = Runners

vars == <<logVars, workerVars>>

Init == LogInit /\ WorkerInit

Free(t) == ~Calling(t) /\ queuing[t] = "no"
OwnerFree == Free(Main) /\ runner[Main] = "idle" /\ life # "joining"

\* The owner's calls of the logging system; LogListener calls flush before the
\* plugin is finalised.
OwnerLogs ==
  /\ OwnerFree
  /\ \/ log(Main) \/ shutdown(Main)
     \/ ~down /\ flush(Main)
     \/ \E l \in Loggers : registerLogger(Main, l) \/ unregisterLogger(Main, l)
  /\ UNCHANGED workerVars

OwnerQueues ==
  /\ OwnerFree /\ life = "alive"
  /\ \/ \E q \in {"background", "foreground"} : queueJob(Main, q)
     \/ Destroy
  /\ UNCHANGED logVars

\* A job logs a message, queues another job, or does neither.
JobLogs(t) ==
  /\ runner[t] = "run" /\ Free(t)
  /\ log(t)
  /\ Goto(t, "ran")
  /\ UNCHANGED <<backgroundJobs, foregroundJobs, exit, queuing, queued, job, started, life>>

JobQueues(t) ==
  /\ runner[t] = "run" /\ Free(t) /\ MayQueue(t)
  /\ \E q \in {"background", "foreground"} : Queue(t, q)
  /\ Goto(t, "ran")
  /\ UNCHANGED <<logVars, backgroundJobs, foregroundJobs, exit, queued, job, started, life>>

JobReturns(t) == Free(t) /\ JobDone(t) /\ UNCHANGED logVars

\* What the thread of a runner does next once it is inside a call, a job or an
\* update; the choices of the application are not among them.
Runs(t) ==
  \/ ClientStep(t) /\ UNCHANGED workerVars
  \/ (QueueStep(t) \/ BackgroundStep(t)) /\ UNCHANGED logVars
  \/ JobReturns(t)
  \/ t = Main /\ Free(Main) /\ ForegroundStep /\ UNCHANGED logVars

Processor == process /\ UNCHANGED workerVars

Next ==
  \/ Processor \/ OwnerLogs \/ OwnerQueues
  \/ \E t \in Runners : JobLogs(t) \/ JobQueues(t) \/ Runs(t)

Spec == Init /\ [][Next]_vars

\* Threads keep running, jobs return, and the application goes on updating.
FairSpec == Spec /\ WF_vars(Processor) /\ \A t \in Runners : WF_vars(Runs(t))

-----------------------------------------------------------------------------
\* The type of the state of both services.
TypeOK == LogTypeOK /\ WorkerTypeOK

\* No wake-up is lost and nobody waits for ever: when the application has made its
\* calls, every call has returned (flush, which waits without a predicate; shutdown
\* and the destructor, which join threads that may just be going to sleep), every
\* message logged before the thread ended has been handed out, and every job has
\* been run unless the destructor dropped it.
EverythingIsServed ==
  <>[](/\ \A t \in Runners : Free(t) /\ life # "joining"
       /\ messages = <<>> \/ at = "ended"
       /\ 1..queued \subseteq started \/ exit)
=============================================================================
