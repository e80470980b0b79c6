---------------------------- MODULE BackgroundWorker ----------------------------
(***************************************************************************)
(* plg_editor_interaction: a pool of threads that run queued jobs, a       *)
(* second queue that the owner's update signal runs, and the destructor.   *)
(* Jobs are numbered in the order in which they enter a queue.  What a job *)
(* does is left to the module that composes this one.                      *)
(*                                                                         *)
(* Definitions whose name ends in Faulty are plausible mistakes; nothing   *)
(* refers to them, they document which property would notice.              *)
(***************************************************************************)
EXTENDS Integers, FiniteSets, SequencesExt

CONSTANTS
  Main,           \* the thread that owns the worker and fires signalUpdate
  Workers,        \* backgroundThreads_: hardware_concurrency() / 2 of them
  MaxJobs         \* bound on the jobs queued

ASSUME WorkerAssumption ==
  /\ IsFiniteSet(Workers) /\ Main \notin Workers
  /\ MaxJobs \in Nat

Runners == Workers \cup {Main}

VARIABLES
  backgroundJobs, \* backgroundJobs_
  foregroundJobs, \* foregroundJobs_
  exit,           \* exit_
  runner,         \* [Runners -> stage of backgroundUpdate, or of foregroundUpdate]
  queuing,        \* [Runners -> stage of queueBackgroundJob or queueForegroundJob]
  queued,         \* jobs queued so far
  job,            \* [Runners -> the job the thread has taken and not yet called, or 0]
  started,        \* the jobs whose function was called
  life            \* of the BackgroundWorker object

workerVars == <<backgroundJobs, foregroundJobs, exit, runner, queuing, queued, job, started, life>>

RunnerStages == {"idle", "check", "wait", "asleep", "taken", "run", "ran", "ended"}
InJob(t) == runner[t] \in {"run", "ran"}

WorkerInit ==
  /\ backgroundJobs = <<>> /\ foregroundJobs = <<>>
  /\ exit = FALSE
  /\ runner = [t \in Runners |-> IF t = Main THEN "idle" ELSE "check"]
  /\ queuing = [t \in Runners |-> "no"]
  /\ queued = 0 /\ started = {}
  /\ job = [t \in Runners |-> 0]
  /\ life = "alive"

Goto(t, stage) == runner' = [runner EXCEPT ![t] = stage]

\* Both updates read exit_ without a mutex before each job.
CheckExit(w) ==
  /\ w \in Workers /\ runner[w] = "check"
  /\ Goto(w, IF exit THEN "ended" ELSE "wait")
  /\ UNCHANGED <<backgroundJobs, foregroundJobs, exit, queuing, queued, job, started, life>>

\* The predicate of jobWaiter_.wait, and what follows it under the mutex.
SleepOrLeave(w) ==
  /\ w \in Workers /\ runner[w] = "wait"
  /\ exit \/ backgroundJobs = <<>>
  /\ Goto(w, IF exit THEN "ended" ELSE "asleep")
  /\ UNCHANGED <<backgroundJobs, foregroundJobs, exit, queuing, queued, job, started, life>>

\* The mutex is released with the job taken and not yet called.
Take(t, jobs) ==
  /\ job' = [job EXCEPT ![t] = Head(jobs)]
  /\ Goto(t, "taken")

TakeJob(w) ==
  /\ w \in Workers /\ runner[w] = "wait"
  /\ ~exit /\ backgroundJobs # <<>>
  /\ Take(w, backgroundJobs) /\ backgroundJobs' = Tail(backgroundJobs)
  /\ UNCHANGED <<foregroundJobs, exit, queuing, queued, started, life>>

\* exit_ is looked at once more, and the job is forgotten.
CallJobFaulty(t) ==
  /\ runner[t] = "taken"
  /\ started' = IF exit THEN started ELSE started \cup {job[t]}
  /\ job' = [job EXCEPT ![t] = 0]
  /\ Goto(t, "run")
  /\ UNCHANGED <<backgroundJobs, foregroundJobs, exit, queuing, queued, life>>

\* job(), although exit_ may have been set since it was taken.
CallJob(t) ==
  /\ runner[t] = "taken"
  /\ started' = started \cup {job[t]}
  /\ job' = [job EXCEPT ![t] = 0]
  /\ Goto(t, "run")
  /\ UNCHANGED <<backgroundJobs, foregroundJobs, exit, queuing, queued, life>>

JobDone(t) ==
  /\ InJob(t) /\ queuing[t] = "no"
  /\ Goto(t, "check")
  /\ UNCHANGED <<backgroundJobs, foregroundJobs, exit, queuing, queued, job, started, life>>

\* signalUpdate calls foregroundUpdate, which returns at once without a job.
Update ==
  /\ life = "alive" /\ runner[Main] = "idle" /\ queuing[Main] = "no"
  /\ foregroundJobs # <<>>
  /\ Goto(Main, "check")
  /\ UNCHANGED <<backgroundJobs, foregroundJobs, exit, queuing, queued, job, started, life>>

ForegroundJob ==
  /\ runner[Main] = "check" /\ ~exit /\ foregroundJobs # <<>>
  /\ Take(Main, foregroundJobs) /\ foregroundJobs' = Tail(foregroundJobs)
  /\ UNCHANGED <<backgroundJobs, exit, queuing, queued, started, life>>

UpdateDone ==
  /\ runner[Main] = "check" /\ (exit \/ foregroundJobs = <<>>)
  /\ Goto(Main, "idle")
  /\ UNCHANGED <<backgroundJobs, foregroundJobs, exit, queuing, queued, job, started, life>>

-----------------------------------------------------------------------------
(* queueBackgroundJob and queueForegroundJob: exit_ is read before the mutex *)
(* is taken, and the notification follows its release.                       *)

Queue(t, stage) == queuing' = [queuing EXCEPT ![t] = stage]

MayQueue(t) ==
  /\ queuing[t] = "no" /\ ~exit
  /\ queued + Cardinality({u \in Runners : queuing[u] \in {"background", "foreground"}}) < MaxJobs

queueJob(t, target) ==
  /\ MayQueue(t)
  /\ Queue(t, target)
  /\ UNCHANGED <<backgroundJobs, foregroundJobs, exit, runner, queued, job, started, life>>

PushBackground(t) ==
  /\ queuing[t] = "background"
  /\ Queue(t, "notify")
  /\ queued' = queued + 1
  /\ backgroundJobs' = Append(backgroundJobs, queued')
  /\ UNCHANGED <<foregroundJobs, exit, runner, job, started, life>>

NotifyOne(t) ==
  /\ queuing[t] = "notify"
  /\ Queue(t, "no")
  /\ \/ \E w \in Workers : runner[w] = "asleep" /\ Goto(w, "wait")
     \/ (\A w \in Workers : runner[w] # "asleep") /\ UNCHANGED runner
  /\ UNCHANGED <<backgroundJobs, foregroundJobs, exit, queued, job, started, life>>

PushForeground(t) ==
  /\ queuing[t] = "foreground"
  /\ Queue(t, "no")
  /\ queued' = queued + 1
  /\ foregroundJobs' = Append(foregroundJobs, queued')
  /\ UNCHANGED <<backgroundJobs, exit, runner, job, started, life>>

-----------------------------------------------------------------------------
\* The destructor sets exit_ and wakes one thread.
DestroyFaulty ==
  /\ life = "alive" /\ runner[Main] = "idle" /\ queuing[Main] = "no"
  /\ exit' = TRUE /\ life' = "joining"
  /\ \/ \E w \in Workers : runner[w] = "asleep" /\ Goto(w, "wait")
     \/ (\A w \in Workers : runner[w] # "asleep") /\ UNCHANGED runner
  /\ UNCHANGED <<backgroundJobs, foregroundJobs, queuing, queued, job, started>>

\* Sets exit_ under the mutex, wakes everybody and joins; jobs still queued are
\* dropped.  No update signal arrives afterwards.
Destroy ==
  /\ life = "alive" /\ runner[Main] = "idle" /\ queuing[Main] = "no"
  /\ exit' = TRUE /\ life' = "joining"
  /\ runner' = [t \in Runners |-> IF runner[t] = "asleep" THEN "wait" ELSE runner[t]]
  /\ UNCHANGED <<backgroundJobs, foregroundJobs, queuing, queued, job, started>>

Joined ==
  /\ life = "joining" /\ \A w \in Workers : runner[w] = "ended"
  /\ life' = "gone"
  /\ UNCHANGED <<backgroundJobs, foregroundJobs, exit, runner, queuing, queued, job, started>>

QueueStep(t) == PushBackground(t) \/ NotifyOne(t) \/ PushForeground(t)
BackgroundStep(w) == CheckExit(w) \/ SleepOrLeave(w) \/ TakeJob(w) \/ CallJob(w)
ForegroundStep == Update \/ ForegroundJob \/ UpdateDone \/ Joined

-----------------------------------------------------------------------------
WorkerTypeOK ==
  /\ backgroundJobs \in Seq(1..MaxJobs) /\ foregroundJobs \in Seq(1..MaxJobs)
  /\ exit \in BOOLEAN
  /\ runner \in [Runners -> RunnerStages]
  /\ queuing \in [Runners -> {"no", "background", "notify", "foreground"}]
  /\ queued \in 0..MaxJobs
  /\ job \in [Runners -> 0..MaxJobs]
  /\ started \in SUBSET (1..MaxJobs)
  /\ life \in {"alive", "joining", "gone"}

\* The jobs in the queues, and those that threads have taken and not yet called.
Waiting == Range(backgroundJobs) \cup Range(foregroundJobs)
Taken == {job[t] : t \in {u \in Runners : runner[u] = "taken"}}

\* No job is lost or called twice, whichever threads take them and wherever they are when
\* the destructor sets exit_: each waits in one queue, is taken by one thread, or was called.
\* A thread may call a job although exit_ is set, the one that it had taken by then, but the
\* destructor waits for it: once it has returned no job is about to run, runs or queues
\* another, so that what jobs refer to may go.
JobsAccounted ==
  /\ 1..queued = Waiting \cup Taken \cup started
  /\ started \cap (Waiting \cup Taken) = {} /\ Waiting \cap Taken = {}
  /\ \A t, u \in Runners : runner[t] = "taken" /\ runner[u] = "taken" /\ job[t] = job[u] => t = u
  /\ life = "gone" => \A t \in Runners : runner[t] # "taken" /\ ~InJob(t) /\ queuing[t] = "no"
=============================================================================
