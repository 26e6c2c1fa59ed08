---------------------------- MODULE ThreadSystem ----------------------------
(***************************************************************************)
(* The threads of a Nectere server and its shutdown: src/Nectere/          *)
(* Concurrency/ThreadSystem.cpp and Thread.cpp, as main.cpp and            *)
(* Manager::Start drive them.                                              *)
(*                                                                         *)
(* The main thread starts the scheduler thread and the task threads, adds  *)
(* the update task and the network task, waits for the stop and joins the  *)
(* threads.  A task thread sleeps on m_TaskCondition, takes a task, updates *)
(* it and adds it again.  The network task keeps its thread until the      *)
(* server is stopped, and runs the stop command in it; the console's       *)
(* handler calls the same Stop in a thread of the system's.                *)
(*                                                                         *)
(* What a condition variable promises is kept apart: the predicate is      *)
(* evaluated in one step and the thread falls asleep in another, both with *)
(* the mutex held; a notification wakes those asleep at that moment.       *)
(***************************************************************************)
EXTENDS Integers, Sequences, FiniteSets

CONSTANTS Worker,     \* the task threads
          scheduler,  \* the scheduler thread
          main,       \* the thread that created the ThreadSystem
          Stopper,    \* who may call Stop: the stop command, the console's handler
          None        \* no task, no thread

ASSUME ThreadAssumption ==
  /\ IsFiniteSet(Worker)
  /\ scheduler \notin Worker /\ main \notin Worker \cup {scheduler}
  /\ None \notin Worker \cup {scheduler, main, "update", "network"}
  /\ Stopper \subseteq {"network", "console"}

Spawned == Worker \cup {scheduler}
Thread == Spawned \cup {main}
Task == {"update", "network"}
Caller == {"network", "console"}

VARIABLES
  running,    \* ThreadSystem::m_Running
  tasks,      \* m_Tasks
  life,       \* task -> "new", "started" (OnTaskStart done), "leaked", "deleted"
  pc,         \* thread -> what it does next
  hold,       \* thread -> the task in its hands, or None
  callback,   \* m_OnStopCallback is set
  posted,     \* server->Stop() has posted its handler to the io_context
  stop,       \* stopper -> how far it is in ThreadSystem::Stop
  joining,    \* the thread Clean is stopping, or None
  joined,     \* the threads Clean has joined and deleted
  crashed     \* an exception left ThreadSystem::Stop

vars == <<running, tasks, life, pc, hold, callback, posted, stop, joining, joined, crashed>>

tasksVars == <<tasks, life, hold>>
stopVars == <<running, callback, posted, stop, crashed>>
joinVars == <<joining, joined>>

Init ==
  /\ running = FALSE
  /\ tasks = <<>>
  /\ life = [k \in Task |-> "new"]
  /\ pc = [t \in Thread |-> IF t = main THEN "boot" ELSE "unborn"]
  /\ hold = [t \in Thread |-> None]
  /\ callback = FALSE
  /\ posted = FALSE
  /\ stop = [s \in Caller |-> "none"]
  /\ joining = None
  /\ joined = {}
  /\ crashed = FALSE

\* The process lives: main has not returned, nobody has thrown.
Alive == ~crashed /\ pc[main] # "done"

Goto(t, from, to) == Alive /\ pc[t] = from /\ pc' = [pc EXCEPT ![t] = to]

\* m_TaskMutex is held by a thread that has evaluated the predicate.
TaskMutexFree == \A w \in Worker : pc[w] \notin {"sleep", "take"}
-----------------------------------------------------------------------------
(* Task threads: Thread::Run around TaskThreadLoop. *)

\* Top of the loop.  The scheduler's loop does nothing else.
Round(t) ==
  /\ Goto(t, "idle", IF running THEN "wait" ELSE "exit")
  /\ t = scheduler => ~running
  /\ UNCHANGED <<tasksVars, stopVars, joinVars>>

\* m_TaskCondition.wait: locks, evaluates the predicate ...
CheckTasks(w) ==
  /\ TaskMutexFree
  /\ Goto(w, "wait", IF tasks # <<>> \/ ~running THEN "take" ELSE "sleep")
  /\ UNCHANGED <<tasksVars, stopVars, joinVars>>

\* ... and falls asleep, which unlocks, when it is false.
Sleep(w) ==
  /\ Goto(w, "sleep", "asleep")
  /\ UNCHANGED <<tasksVars, stopVars, joinVars>>

\* A condition variable may wake a thread unasked.
SpuriousWake(w) ==
  /\ Goto(w, "asleep", "wait")
  /\ UNCHANGED <<tasksVars, stopVars, joinVars>>

\* Faulty variant: front() without pop().
TakeNoPop(w) ==
  /\ Goto(w, "take", IF running THEN "run" ELSE "exit")
  /\ hold' = [hold EXCEPT ![w] = IF running THEN Head(tasks) ELSE @]
  /\ UNCHANGED <<tasks, life, stopVars, joinVars>>

\* Takes the oldest task, unless the system has been stopped meanwhile.
Take(w) ==
  /\ Goto(w, "take", IF running THEN "run" ELSE "exit")
  /\ IF running
     THEN /\ hold' = [hold EXCEPT ![w] = Head(tasks)]
          /\ tasks' = Tail(tasks)
     ELSE UNCHANGED <<hold, tasks>>
  /\ UNCHANGED <<life, stopVars, joinVars>>

\* Task::Update, the first time: OnTaskStart only, then NeedUpdate.
StartTask(w) ==
  /\ Goto(w, "run", "add")
  /\ life[hold[w]] = "new"
  /\ life' = [life EXCEPT ![hold[w]] = "started"]
  /\ UNCHANGED <<tasks, hold, stopVars, joinVars>>

\* UserManager::Update, one round; it always wants another.
UpdateUsers(w) ==
  /\ Goto(w, "run", "add")
  /\ hold[w] = "update" /\ life["update"] = "started"
  /\ UNCHANGED <<tasksVars, stopVars, joinVars>>

\* w is inside io_context::run().
InNetwork(w) == pc[w] = "run" /\ hold[w] = "network" /\ life["network"] = "started"

\* The posted handler stops the io_context: run() returns, the task succeeds
\* and is deleted.  Until then the network task keeps its thread.
StopNetwork(w) ==
  /\ Goto(w, "run", "idle")
  /\ InNetwork(w) /\ posted /\ stop["network"] = "none"
  /\ life' = [life EXCEPT !["network"] = "deleted"]
  /\ hold' = [hold EXCEPT ![w] = None]
  /\ UNCHANGED <<tasks, stopVars, joinVars>>

\* Thread::Run after the loop: m_Stopped is stored, ...
StoreStopped(t) ==
  /\ Goto(t, "exit", "ended")
  /\ UNCHANGED <<tasksVars, stopVars, joinVars>>

\* ... then m_ThreadCondition notified, without its mutex.
NotifyStopped(t) ==
  /\ Alive /\ pc[t] = "ended"
  /\ pc' = [u \in Thread |-> CASE u = t -> "gone"
                               [] u = main /\ pc[main] = "joinAsleep" /\ joining = t -> "join"
                               [] OTHER -> pc[u]]
  /\ UNCHANGED <<tasksVars, stopVars, joinVars>>
-----------------------------------------------------------------------------
(* AddTask, by a task thread or by main. *)

AfterAdd(t) == IF t # main THEN "idle" ELSE IF callback THEN "await" ELSE "callback"

\* A task that comes when the system is stopped is dropped, and never deleted.
AddTask(t) ==
  /\ Goto(t, "add", IF running THEN "push" ELSE AfterAdd(t))
  /\ IF running
     THEN UNCHANGED <<life, hold>>
     ELSE /\ life' = [life EXCEPT ![hold[t]] = "leaked"]
          /\ hold' = [hold EXCEPT ![t] = None]
  /\ UNCHANGED <<tasks, stopVars, joinVars>>

PushTask(t) ==
  /\ TaskMutexFree
  /\ Goto(t, "push", "notify")
  /\ tasks' = Append(tasks, hold[t])
  /\ hold' = [hold EXCEPT ![t] = None]
  /\ UNCHANGED <<life, stopVars, joinVars>>

Asleep == {w \in Worker : pc[w] = "asleep"}

\* Faulty variant: the task is pushed, nobody is told.
NotifyTaskNever(t) ==
  /\ Goto(t, "notify", AfterAdd(t))
  /\ UNCHANGED <<tasksVars, stopVars, joinVars>>

\* notify_one.
NotifyTask(t) ==
  /\ Alive /\ pc[t] = "notify"
  /\ \/ Asleep = {} /\ pc' = [pc EXCEPT ![t] = AfterAdd(t)]
     \/ \E w \in Asleep : pc' = [pc EXCEPT ![t] = AfterAdd(t), ![w] = "wait"]
  /\ UNCHANGED <<tasksVars, stopVars, joinVars>>
-----------------------------------------------------------------------------
(* ThreadSystem::Stop, by the stop command or by the console's handler. *)

StopStep(s, from, to) == Alive /\ stop[s] = from /\ stop' = [stop EXCEPT ![s] = to]

\* Two calls may both find the system running.
StopCalled(s) ==
  /\ StopStep(s, "none", "callback")
  /\ running
  /\ s = "network" => \E w \in Worker : InNetwork(w)
  /\ UNCHANGED <<running, callback, posted, crashed, tasksVars, joinVars, pc>>

\* Faulty variant: the server is not told.
StopCallbackNone(s) ==
  /\ StopStep(s, "callback", "clear")
  /\ crashed' = ~callback
  /\ UNCHANGED <<running, callback, posted, tasksVars, joinVars, pc>>

\* m_OnStopCallback(): server->Stop().  It throws when it is not set yet.
StopCallback(s) ==
  /\ StopStep(s, "callback", "clear")
  /\ posted' = callback
  /\ crashed' = ~callback
  /\ UNCHANGED <<running, callback, tasksVars, joinVars, pc>>

StopClear(s) ==
  /\ StopStep(s, "clear", "notifyTasks")
  /\ running' = FALSE
  /\ UNCHANGED <<callback, posted, crashed, tasksVars, joinVars, pc>>

\* m_TaskCondition.notify_all(), without m_TaskMutex.
StopNotifyTasks(s) ==
  /\ StopStep(s, "notifyTasks", "notifyMain")
  /\ pc' = [t \in Thread |-> IF t \in Asleep THEN "wait" ELSE pc[t]]
  /\ UNCHANGED <<running, callback, posted, crashed, tasksVars, joinVars>>

\* m_ThreadsCondition.notify_all(), without m_ThreadsMutex.
StopNotifyMain(s) ==
  /\ StopStep(s, "notifyMain", "none")
  /\ pc' = [pc EXCEPT ![main] = IF @ = "awaitAsleep" THEN "await" ELSE @]
  /\ UNCHANGED <<running, callback, posted, crashed, tasksVars, joinVars>>
-----------------------------------------------------------------------------
(* The main thread. *)

\* ThreadSystem::Start, then Manager::Start adds the update task.
Boot ==
  /\ Alive /\ pc[main] = "boot"
  /\ running' = TRUE
  /\ pc' = [t \in Thread |-> IF t = main THEN "add" ELSE "idle"]
  /\ hold' = [hold EXCEPT ![main] = "update"]
  /\ UNCHANGED <<tasks, life, callback, posted, stop, crashed, joinVars>>

\* SetOnStopCallback, then server->Start() adds the network task.
SetOnStopCallback ==
  /\ Goto(main, "callback", "add")
  /\ callback' = TRUE
  /\ hold' = [hold EXCEPT ![main] = "network"]
  /\ UNCHANGED <<tasks, life, running, posted, stop, crashed, joinVars>>

\* Await: evaluates the predicate, and falls asleep when it is false.
AwaitCheck ==
  /\ Goto(main, "await", IF running THEN "awaitSleep" ELSE "clean")
  /\ UNCHANGED <<tasksVars, stopVars, joinVars>>

AwaitSleep ==
  /\ Goto(main, "awaitSleep", "awaitAsleep")
  /\ UNCHANGED <<tasksVars, stopVars, joinVars>>

AwaitSpuriousWake ==
  /\ Goto(main, "awaitAsleep", "await")
  /\ UNCHANGED <<tasksVars, stopVars, joinVars>>

\* Clean: Thread::Stop of one thread after the other.
Clean(t) ==
  /\ joining = None /\ t \in Spawned \ joined
  /\ Goto(main, "clean", "join")
  /\ joining' = t
  /\ UNCHANGED <<tasksVars, stopVars, joined>>

\* m_Stopped of t.
Stopped(t) == pc[t] \in {"ended", "gone"}

JoinCheck ==
  /\ Goto(main, "join", IF Stopped(joining) THEN "joinEnd" ELSE "joinSleep")
  /\ UNCHANGED <<tasksVars, stopVars, joinVars>>

JoinSleep ==
  /\ Goto(main, "joinSleep", "joinAsleep")
  /\ UNCHANGED <<tasksVars, stopVars, joinVars>>

JoinSpuriousWake ==
  /\ Goto(main, "joinAsleep", "join")
  /\ UNCHANGED <<tasksVars, stopVars, joinVars>>

\* Faulty variant: the Thread is deleted as soon as m_Stopped is seen.
JoinNoWait ==
  /\ Goto(main, "joinEnd", "clean")
  /\ joined' = joined \cup {joining}
  /\ joining' = None
  /\ UNCHANGED <<tasksVars, stopVars>>

\* std::thread::join, then delete(thread).
Join ==
  /\ Goto(main, "joinEnd", "clean")
  /\ pc[joining] = "gone"
  /\ joined' = joined \cup {joining}
  /\ joining' = None
  /\ UNCHANGED <<tasksVars, stopVars>>

\* The tasks left in m_Tasks, the server and the manager are deleted.
Finish ==
  /\ joined = Spawned
  /\ Goto(main, "clean", "done")
  /\ life' = [k \in Task |-> IF \E i \in DOMAIN tasks : tasks[i] = k THEN "deleted" ELSE life[k]]
  /\ tasks' = <<>>
  /\ UNCHANGED <<hold, stopVars, joinVars>>
-----------------------------------------------------------------------------
Work(w) ==
  \/ CheckTasks(w) \/ Sleep(w) \/ Take(w)
  \/ StartTask(w) \/ UpdateUsers(w) \/ StopNetwork(w)

Adding(t) == AddTask(t) \/ PushTask(t) \/ NotifyTask(t)

Ending(t) == Round(t) \/ StoreStopped(t) \/ NotifyStopped(t)

MainStep ==
  \/ Boot \/ SetOnStopCallback \/ AwaitCheck \/ AwaitSleep
  \/ \E t \in Spawned : Clean(t)
  \/ JoinCheck \/ JoinSleep \/ Join \/ Finish

StopGoesOn(s) == StopCallback(s) \/ StopClear(s) \/ StopNotifyTasks(s) \/ StopNotifyMain(s)

Next ==
  \/ \E w \in Worker : Work(w) \/ SpuriousWake(w)
  \/ \E t \in Worker \cup {main} : Adding(t)
  \/ \E t \in Spawned : Ending(t)
  \/ MainStep \/ AwaitSpuriousWake \/ JoinSpuriousWake
  \/ \E s \in Stopper : StopCalled(s) \/ StopGoesOn(s)

\* The system runs every thread that can run, and a Stop that was called goes
\* on.  Nobody has to call Stop, and no condition variable has to wake anyone
\* unasked.
Fairness ==
  /\ \A w \in Worker : WF_vars(Work(w) \/ Adding(w))
  /\ \A t \in Spawned : WF_vars(Ending(t))
  /\ WF_vars(MainStep \/ Adding(main))
  /\ \A s \in Stopper : WF_vars(StopGoesOn(s))

Spec == Init /\ [][Next]_vars

FairSpec == Spec /\ Fairness
-----------------------------------------------------------------------------
TypeOK ==
  /\ running \in BOOLEAN /\ callback \in BOOLEAN /\ posted \in BOOLEAN /\ crashed \in BOOLEAN
  /\ tasks \in Seq(Task) /\ Len(tasks) <= Cardinality(Task)
  /\ life \in [Task -> {"new", "started", "leaked", "deleted"}]
  /\ pc \in [Thread -> {"unborn", "idle", "wait", "sleep", "asleep", "take", "run",
                        "add", "push", "notify", "exit", "ended", "gone",
                        "boot", "callback", "await", "awaitSleep", "awaitAsleep",
                        "clean", "join", "joinSleep", "joinAsleep", "joinEnd", "done"}]
  /\ hold \in [Thread -> Task \cup {None}]
  /\ stop \in [Caller -> {"none", "callback", "clear", "notifyTasks", "notifyMain"}]
  /\ joining \in Spawned \cup {None}
  /\ joined \subseteq Spawned

Holders(k) == {t \in Thread : hold[t] = k}
Places(k) == {i \in DOMAIN tasks : tasks[i] = k}

\* A task is in one place: once in the queue or in the hands of one thread, and
\* nowhere once it was deleted or dropped.  Two threads never update the users
\* at once, although any of them may take the task, and no thread and no Clean
\* deletes a task that another one has.
TaskInOnePlace ==
  \A k \in Task :
    /\ Cardinality(Holders(k)) + Cardinality(Places(k)) <= 1
    /\ life[k] \in {"leaked", "deleted"} => Holders(k) = {} /\ Places(k) = {}

\* A Thread is deleted, and with it the condition variable it notifies last,
\* only when its thread has finished; when the server and the managers go, no
\* thread is left in a task.
NothingOutlivesClean ==
  /\ \A t \in joined : pc[t] = "gone"
  /\ pc[main] = "done" =>
       /\ \A t \in Spawned : pc[t] = "gone" /\ hold[t] = None
       /\ stop["network"] = "none"

\* Who is about to look into m_Tasks, or to wake one who will.
Seekers == {w \in Worker : pc[w] \in {"idle", "wait", "take"}} \cup {t \in Thread : pc[t] = "notify"}

\* No task is forgotten: while a task thread is asleep on m_TaskCondition, every
\* task in the queue has another that is about to look for it, or a notification
\* on its way.  A thread that evaluated the predicate and is not asleep yet keeps
\* m_TaskMutex, so that a push falls before it or after it.
NoTaskForgotten == running /\ Asleep # {} => Len(tasks) <= Cardinality(Seekers)

\* While the system runs, a task in the queue is taken sooner or later: the
\* predicate under the mutex and the notification after the push lose none,
\* with the network task holding one thread for good.
QueuedIsTaken ==
  \A k \in Task : Places(k) # {} /\ running ~> Places(k) = {} \/ ~running \/ crashed

\* A thread sleeps although what it waits for has come to pass, and nobody is
\* left to notify it.
LostWakeUp ==
  \/ ~running /\ Asleep # {} /\ \A s \in Stopper : stop[s] = "none"
  \/ ~running /\ pc[main] = "awaitAsleep" /\ \A s \in Stopper : stop[s] = "none"
  \/ pc[main] = "joinAsleep" /\ pc[joining] = "gone"

\* Thread t has a step to take that is not a wake-up.
MayStep(t) ==
  \/ pc[t] \in {"idle", "sleep", "take", "add", "notify", "exit", "ended", "callback",
               "await", "awaitSleep", "clean", "join", "joinSleep"}
  \/ pc[t] \in {"wait", "push"} /\ TaskMutexFree
  \/ pc[t] = "run" /\ (InNetwork(t) => posted /\ stop["network"] = "none")
  \/ pc[t] = "joinEnd" /\ pc[joining] = "gone"

\* A stopped server is never stuck short of its end: some thread, or a Stop that
\* was called, can go on, unless a wake-up was lost.  The mutexes, the join and the
\* io_context, whose run() ends because server->Stop() came before m_Running was
\* cleared, close no circle of waits.
EndInSight ==
  ~running /\ pc[main] \notin {"boot", "done"} /\ ~crashed /\ ~LostWakeUp =>
    (\E s \in Stopper : stop[s] # "none") \/ \E t \in Thread : MayStep(t)

\* Once stopped, the server comes to its end, or a notification was lost: no
\* other wait, on a mutex, on the network or on a thread, can hold it up.
StopsOrLosesWakeUp ==
  ~running /\ pc[main] # "boot" ~> pc[main] = "done" \/ LostWakeUp \/ crashed

\* StopCommand::Treat answers "Server Stopped": the server does stop.
ServerStopped ==
  ~running /\ pc[main] # "boot" ~> pc[main] = "done" \/ crashed
=============================================================================
