------------------------- MODULE ThreadSystemProofs -------------------------
(***************************************************************************)
(* No task is in two places, none is forgotten, nothing outlives Clean and *)
(* a stopped server has its end in sight, for any number of task threads.  *)
(***************************************************************************)
EXTENDS ThreadSystem, FiniteSetTheorems, TLAPS

Step == {"unborn", "idle", "wait", "sleep", "asleep", "take", "run",
         "add", "push", "notify", "exit", "ended", "gone",
         "boot", "callback", "await", "awaitSleep", "awaitAsleep",
         "clean", "join", "joinSleep", "joinAsleep", "joinEnd", "done"}

Types ==
  /\ running \in BOOLEAN /\ callback \in BOOLEAN /\ posted \in BOOLEAN /\ crashed \in BOOLEAN
  /\ tasks \in Seq(Task)
  /\ life \in [Task -> {"new", "started", "leaked", "deleted"}]
  /\ pc \in [Thread -> Step]
  /\ hold \in [Thread -> Task \cup {None}]
  /\ stop \in [Caller -> {"none", "callback", "clear", "notifyTasks", "notifyMain"}]
  /\ joining \in Spawned \cup {None}
  /\ joined \subseteq Spawned

\* Tasks are held by the threads that are busy with one, each by one of them.
Held ==
  /\ \A t \in Thread : hold[t] # None <=> pc[t] \in {"run", "add", "push"}
  /\ \A t, u \in Thread : hold[t] = hold[u] /\ hold[t] # None => t = u

\* The queue holds no task twice, and none that a thread has.
Queue ==
  /\ \A i, j \in DOMAIN tasks : tasks[i] = tasks[j] => i = j
  /\ \A t \in Thread, i \in DOMAIN tasks : hold[t] # tasks[i]

Nowhere(k) == (\A t \in Thread : hold[t] # k) /\ (\A i \in DOMAIN tasks : tasks[i] # k)

\* A task that is gone, or not yet made, is nowhere.
Absent ==
  /\ \A k \in Task : life[k] \in {"leaked", "deleted"} => Nowhere(k)
  /\ ~callback => Nowhere("network") /\ life["network"] = "new"
  /\ pc[main] = "boot" => Nowhere("update") /\ life["update"] = "new"
  /\ pc[main] = "callback" => ~callback

\* m_TaskMutex: one thread has evaluated the predicate, and what it saw holds.
TaskMutex ==
  /\ \A v, w \in Worker : pc[v] \in {"sleep", "take"} /\ pc[w] \in {"sleep", "take"} => v = w
  /\ \A w \in Worker : pc[w] = "take" /\ running => tasks # <<>>

\* Nobody runs before Boot; Clean joins the threads that are gone, all of them.
Joining ==
  /\ running => pc[main] # "boot"
  /\ pc[main] = "boot" => \A t \in Spawned : pc[t] = "unborn"
  /\ \A t \in joined : pc[t] = "gone"
  /\ pc[main] \in {"join", "joinSleep", "joinAsleep", "joinEnd"} => joining # None
  /\ pc[main] = "done" => joined = Spawned

\* The stop command runs inside the network task.
StopInNetwork == stop["network"] # "none" => \E w \in Worker : InNetwork(w)

IInv == Types /\ Held /\ Queue /\ Absent /\ TaskMutex /\ Joining /\ StopInNetwork
-----------------------------------------------------------------------------
LEMMA Names ==
  /\ None \notin Task /\ None \notin Thread /\ "update" \in Task /\ "network" \in Task
  /\ main \notin Spawned /\ main \notin Worker /\ main \in Thread
  /\ Worker \subseteq Spawned /\ Spawned \subseteq Thread
BY ThreadAssumption DEF Task, Thread, Spawned

LEMMA TailOf ==
  ASSUME NEW s \in Seq(Task), s # <<>>
  PROVE  /\ Head(s) \in Task /\ 1 \in DOMAIN s /\ Head(s) = s[1]
         /\ Tail(s) \in Seq(Task)
         /\ \A i \in DOMAIN Tail(s) : i + 1 \in DOMAIN s /\ Tail(s)[i] = s[i + 1] /\ i + 1 # 1
         /\ \A i, j \in DOMAIN Tail(s) : i + 1 = j + 1 => i = j
OBVIOUS

LEMMA AppendTo ==
  ASSUME NEW s \in Seq(Task), NEW k \in Task
  PROVE  /\ Append(s, k) \in Seq(Task) /\ Append(s, k) # <<>>
         /\ \A i \in DOMAIN Append(s, k) :
              (i \in DOMAIN s /\ Append(s, k)[i] = s[i]) \/ (i = Len(s) + 1 /\ Append(s, k)[i] = k)
OBVIOUS

LEMMA RoundKeeps ==
  ASSUME IInv, NEW t \in Spawned, Round(t)
  PROVE  IInv'
<1> USE Names DEF IInv, Types, Round, Goto, tasksVars, stopVars, joinVars
<1>1. Types'
  BY DEF Step
<1>2. Held'
  BY DEF Held
<1>3. Queue'
  BY DEF Queue
<1>4. Absent'
  BY DEF Absent, Nowhere
<1>5. TaskMutex'
  BY DEF TaskMutex
<1>6. Joining'
  BY DEF Joining
<1>7. StopInNetwork'
  BY DEF StopInNetwork, InNetwork
<1>8. QED
  BY <1>1, <1>2, <1>3, <1>4, <1>5, <1>6, <1>7

LEMMA CheckTasksKeeps ==
  ASSUME IInv, NEW w \in Worker, CheckTasks(w)
  PROVE  IInv'
<1> USE Names DEF IInv, Types, CheckTasks, Goto, tasksVars, stopVars, joinVars
<1>1. Types'
  BY DEF Step
<1>2. Held'
  BY DEF Held
<1>3. Queue'
  BY DEF Queue
<1>4. Absent'
  BY DEF Absent, Nowhere
<1>5. TaskMutex'
  BY DEF TaskMutex, TaskMutexFree
<1>6. Joining'
  BY DEF Joining
<1>7. StopInNetwork'
  BY DEF StopInNetwork, InNetwork
<1>8. QED
  BY <1>1, <1>2, <1>3, <1>4, <1>5, <1>6, <1>7

LEMMA SleepKeeps ==
  ASSUME IInv, NEW w \in Worker, Sleep(w)
  PROVE  IInv'
<1> USE Names DEF IInv, Types, Sleep, Goto, tasksVars, stopVars, joinVars
<1>1. Types'
  BY DEF Step
<1>2. Held'
  BY DEF Held
<1>3. Queue'
  BY DEF Queue
<1>4. Absent'
  BY DEF Absent, Nowhere
<1>5. TaskMutex'
  BY DEF TaskMutex
<1>6. Joining'
  BY DEF Joining
<1>7. StopInNetwork'
  BY DEF StopInNetwork, InNetwork
<1>8. QED
  BY <1>1, <1>2, <1>3, <1>4, <1>5, <1>6, <1>7

LEMMA SpuriousWakeKeeps ==
  ASSUME IInv, NEW w \in Worker, SpuriousWake(w)
  PROVE  IInv'
<1> USE Names DEF IInv, Types, SpuriousWake, Goto, tasksVars, stopVars, joinVars
<1>1. Types'
  BY DEF Step
<1>2. Held'
  BY DEF Held
<1>3. Queue'
  BY DEF Queue
<1>4. Absent'
  BY DEF Absent, Nowhere
<1>5. TaskMutex'
  BY DEF TaskMutex
<1>6. Joining'
  BY DEF Joining
<1>7. StopInNetwork'
  BY DEF StopInNetwork, InNetwork
<1>8. QED
  BY <1>1, <1>2, <1>3, <1>4, <1>5, <1>6, <1>7

LEMMA TakeKeeps ==
  ASSUME IInv, NEW w \in Worker, Take(w)
  PROVE  IInv'
<1> USE Names DEF IInv, Types, Take, Goto, stopVars, joinVars
<1>9. ASSUME running
      PROVE  /\ pc' = [pc EXCEPT ![w] = "run"] /\ hold[w] = None
             /\ 1 \in DOMAIN tasks /\ tasks[1] \in Task
             /\ hold' = [hold EXCEPT ![w] = tasks[1]]
             /\ tasks' \in Seq(Task)
             /\ \A k \in DOMAIN tasks' :
                  k + 1 \in DOMAIN tasks /\ tasks'[k] = tasks[k + 1] /\ k + 1 # 1
             /\ \A i, j \in DOMAIN tasks' : i + 1 = j + 1 => i = j
  <2>1. tasks # <<>>
    BY <1>9 DEF TaskMutex
  <2>2. hold[w] = None
    BY DEF Held
  <2>3. /\ pc' = [pc EXCEPT ![w] = "run"] /\ tasks' = Tail(tasks)
        /\ hold' = [hold EXCEPT ![w] = Head(tasks)]
    BY <1>9
  <2> HIDE DEF Take
  <2>4. tasks \in Seq(Task)
    OBVIOUS
  <2>5. QED
    BY <2>1, <2>2, <2>3, <2>4, TailOf
<1>10. ASSUME ~running
       PROVE  pc' = [pc EXCEPT ![w] = "exit"] /\ UNCHANGED <<hold, tasks>>
  BY <1>10
<1>1. Types'
  BY <1>9, <1>10 DEF Step
<1>2. Held'
  BY <1>9, <1>10 DEF Held, Queue, Step
<1>3. Queue'
  <2>1. CASE running
    BY <2>1, <1>9 DEF Queue
  <2>2. CASE ~running
    BY <2>2, <1>10 DEF Queue
  <2>3. QED
    BY <2>1, <2>2
<1>4. Absent'
  <2>1. \A k \in Task : Nowhere(k) => Nowhere(k)'
    BY <1>9, <1>10 DEF Nowhere
  <2>2. QED
    BY <2>1, <1>9, <1>10 DEF Absent, Step
<1>5. TaskMutex'
  BY DEF TaskMutex
<1>6. Joining'
  BY DEF Joining
<1>7. StopInNetwork'
  BY DEF StopInNetwork, InNetwork
<1>8. QED
  BY <1>1, <1>2, <1>3, <1>4, <1>5, <1>6, <1>7

LEMMA StartTaskKeeps ==
  ASSUME IInv, NEW w \in Worker, StartTask(w)
  PROVE  IInv'
<1> USE Names DEF IInv, Types, StartTask, Goto, stopVars, joinVars
<1>1. Types'
  BY DEF Step
<1>2. Held'
  BY DEF Held
<1>3. Queue'
  BY DEF Queue
<1>4. Absent'
  BY DEF Absent, Nowhere
<1>5. TaskMutex'
  BY DEF TaskMutex
<1>6. Joining'
  BY DEF Joining
<1>7. StopInNetwork'
  BY DEF StopInNetwork, InNetwork
<1>8. QED
  BY <1>1, <1>2, <1>3, <1>4, <1>5, <1>6, <1>7

LEMMA UpdateUsersKeeps ==
  ASSUME IInv, NEW w \in Worker, UpdateUsers(w)
  PROVE  IInv'
<1> USE Names DEF IInv, Types, UpdateUsers, Goto, tasksVars, stopVars, joinVars
<1>1. Types'
  BY DEF Step
<1>2. Held'
  BY DEF Held
<1>3. Queue'
  BY DEF Queue
<1>4. Absent'
  BY DEF Absent, Nowhere
<1>5. TaskMutex'
  BY DEF TaskMutex
<1>6. Joining'
  BY DEF Joining
<1>7. StopInNetwork'
  BY DEF StopInNetwork, InNetwork
<1>8. QED
  BY <1>1, <1>2, <1>3, <1>4, <1>5, <1>6, <1>7

LEMMA StopNetworkKeeps ==
  ASSUME IInv, NEW w \in Worker, StopNetwork(w)
  PROVE  IInv'
<1> USE Names DEF IInv, Types, StopNetwork, Goto, stopVars, joinVars
<1>1. Types'
  BY DEF Step
<1>2. Held'
  BY DEF Held
<1>3. Queue'
  BY DEF Queue
<1>4. Absent'
  BY DEF Absent, Held, Queue, Nowhere, InNetwork
<1>5. TaskMutex'
  BY DEF TaskMutex
<1>6. Joining'
  BY DEF Joining
<1>7. StopInNetwork'
  BY DEF StopInNetwork
<1>8. QED
  BY <1>1, <1>2, <1>3, <1>4, <1>5, <1>6, <1>7

LEMMA StoreStoppedKeeps ==
  ASSUME IInv, NEW t \in Spawned, StoreStopped(t)
  PROVE  IInv'
<1> USE Names DEF IInv, Types, StoreStopped, Goto, tasksVars, stopVars, joinVars
<1>1. Types'
  BY DEF Step
<1>2. Held'
  BY DEF Held
<1>3. Queue'
  BY DEF Queue
<1>4. Absent'
  BY DEF Absent, Nowhere
<1>5. TaskMutex'
  BY DEF TaskMutex
<1>6. Joining'
  BY DEF Joining
<1>7. StopInNetwork'
  BY DEF StopInNetwork, InNetwork
<1>8. QED
  BY <1>1, <1>2, <1>3, <1>4, <1>5, <1>6, <1>7

LEMMA NotifyStoppedKeeps ==
  ASSUME IInv, NEW t \in Spawned, NotifyStopped(t)
  PROVE  IInv'
<1> USE Names DEF IInv, Types, NotifyStopped, tasksVars, stopVars, joinVars
<1>1. Types'
  BY DEF Step
<1>2. Held'
  BY DEF Held
<1>3. Queue'
  BY DEF Queue
<1>4. Absent'
  BY DEF Absent, Nowhere
<1>5. TaskMutex'
  BY DEF TaskMutex
<1>6. Joining'
  BY DEF Joining
<1>7. StopInNetwork'
  BY DEF StopInNetwork, InNetwork
<1>8. QED
  BY <1>1, <1>2, <1>3, <1>4, <1>5, <1>6, <1>7

LEMMA AddTaskKeeps ==
  ASSUME IInv, NEW t \in Thread \ {scheduler}, AddTask(t)
  PROVE  IInv'
<1> USE Names DEF IInv, Types, AddTask, Goto, stopVars, joinVars
<1>1. Types'
  BY DEF Step, AfterAdd
<1>2. Held'
  BY DEF Held, AfterAdd
<1>3. Queue'
  BY DEF Queue
<1>4. Absent'
  <2>1. CASE running
    BY <2>1 DEF Absent, Nowhere, Step, AfterAdd
  <2>2. CASE ~running
    <3>1. \A k \in Task : Nowhere(k) => Nowhere(k)'
      BY <2>2 DEF Nowhere
    <3>2. PICK k \in Task : k = hold[t]
      BY DEF Held
    <3>3. Nowhere(k)'
      BY <2>2, <3>2 DEF Nowhere, Held, Queue
    <3>4. life' = [life EXCEPT ![k] = "leaked"]
      BY <2>2, <3>2
    <3>5. (~callback => k # "network") /\ (pc[main] = "boot" => k # "update")
      BY <3>2 DEF Absent, Nowhere
    <3>6. QED
      BY <2>2, <3>1, <3>3, <3>4, <3>5 DEF Absent, Step, AfterAdd
  <2>3. QED
    BY <2>1, <2>2
<1>5. TaskMutex'
  BY DEF TaskMutex, AfterAdd
<1>6. Joining'
  BY DEF Joining, AfterAdd
<1>7. StopInNetwork'
  BY DEF StopInNetwork, Held, InNetwork
<1>8. QED
  BY <1>1, <1>2, <1>3, <1>4, <1>5, <1>6, <1>7

LEMMA PushTaskKeeps ==
  ASSUME IInv, NEW t \in Thread \ {scheduler}, PushTask(t)
  PROVE  IInv'
<1> USE Names DEF IInv, Types, PushTask, Goto, stopVars, joinVars
<1>1. Types'
  BY DEF Step, Held
<1>2. Held'
  BY DEF Held
<1>3. Queue'
  BY DEF Queue, Held
<1>4. Absent'
  <2>1. hold[t] \in Task
    BY DEF Held
  <2>2. \A k \in Task : Nowhere(k) => Nowhere(k)'
    BY <2>1, AppendTo DEF Nowhere
  <2>3. QED
    BY <2>1, <2>2 DEF Absent, Nowhere, Step
<1>5. TaskMutex'
  BY DEF TaskMutex
<1>6. Joining'
  BY DEF Joining
<1>7. StopInNetwork'
  BY DEF StopInNetwork, InNetwork
<1>8. QED
  BY <1>1, <1>2, <1>3, <1>4, <1>5, <1>6, <1>7

LEMMA NotifyTaskKeeps ==
  ASSUME IInv, NEW t \in Thread \ {scheduler}, NotifyTask(t)
  PROVE  IInv'
<1> USE Names DEF IInv, Types, NotifyTask, tasksVars, stopVars, joinVars
<1>1. Types'
  BY DEF Step, AfterAdd
<1>2. Held'
  <2>1. CASE pc' = [pc EXCEPT ![t] = AfterAdd(t)]
    BY <2>1 DEF Held, AfterAdd, Step
  <2>2. ASSUME NEW w \in Asleep, pc' = [pc EXCEPT ![t] = AfterAdd(t), ![w] = "wait"]
        PROVE  Held'
    BY <2>2 DEF Held, AfterAdd, Asleep, Step
  <2>3. QED
    BY <2>1, <2>2
<1>3. Queue'
  BY DEF Queue
<1>4. Absent'
  BY DEF Absent, Nowhere, AfterAdd
<1>5. TaskMutex'
  BY DEF TaskMutex, AfterAdd
<1>6. Joining'
  BY DEF Joining, Absent, Asleep, AfterAdd
<1>7. StopInNetwork'
  BY DEF StopInNetwork, InNetwork, Asleep
<1>8. QED
  BY <1>1, <1>2, <1>3, <1>4, <1>5, <1>6, <1>7

LEMMA StopCalledKeeps ==
  ASSUME IInv, NEW s \in Caller, StopCalled(s)
  PROVE  IInv'
<1> USE Names DEF IInv, Types, StopCalled, StopStep, tasksVars, joinVars
<1>1. Types'
  OBVIOUS
<1>2. Held'
  BY DEF Held
<1>3. Queue'
  BY DEF Queue
<1>4. Absent'
  BY DEF Absent, Nowhere
<1>5. TaskMutex'
  BY DEF TaskMutex
<1>6. Joining'
  BY DEF Joining
<1>7. StopInNetwork'
  BY DEF StopInNetwork, InNetwork
<1>8. QED
  BY <1>1, <1>2, <1>3, <1>4, <1>5, <1>6, <1>7

LEMMA StopCallbackKeeps ==
  ASSUME IInv, NEW s \in Caller, StopCallback(s)
  PROVE  IInv'
<1> USE Names DEF IInv, Types, StopCallback, StopStep, tasksVars, joinVars
<1>1. Types'
  OBVIOUS
<1>2. Held'
  BY DEF Held
<1>3. Queue'
  BY DEF Queue
<1>4. Absent'
  BY DEF Absent, Nowhere
<1>5. TaskMutex'
  BY DEF TaskMutex
<1>6. Joining'
  BY DEF Joining
<1>7. StopInNetwork'
  BY DEF StopInNetwork, InNetwork
<1>8. QED
  BY <1>1, <1>2, <1>3, <1>4, <1>5, <1>6, <1>7

LEMMA StopClearKeeps ==
  ASSUME IInv, NEW s \in Caller, StopClear(s)
  PROVE  IInv'
<1> USE Names DEF IInv, Types, StopClear, StopStep, tasksVars, joinVars
<1>1. Types'
  OBVIOUS
<1>2. Held'
  BY DEF Held
<1>3. Queue'
  BY DEF Queue
<1>4. Absent'
  BY DEF Absent, Nowhere
<1>5. TaskMutex'
  BY DEF TaskMutex
<1>6. Joining'
  BY DEF Joining
<1>7. StopInNetwork'
  BY DEF StopInNetwork, InNetwork
<1>8. QED
  BY <1>1, <1>2, <1>3, <1>4, <1>5, <1>6, <1>7

LEMMA StopNotifyTasksKeeps ==
  ASSUME IInv, NEW s \in Caller, StopNotifyTasks(s)
  PROVE  IInv'
<1> USE Names DEF IInv, Types, StopNotifyTasks, StopStep, tasksVars, joinVars
<1>1. Types'
  BY DEF Step
<1>2. Held'
  BY DEF Held, Asleep
<1>3. Queue'
  BY DEF Queue
<1>4. Absent'
  BY DEF Absent, Nowhere
<1>5. TaskMutex'
  BY DEF TaskMutex
<1>6. Joining'
  BY DEF Joining, Asleep
<1>7. StopInNetwork'
  BY DEF StopInNetwork, InNetwork, Asleep
<1>8. QED
  BY <1>1, <1>2, <1>3, <1>4, <1>5, <1>6, <1>7

LEMMA StopNotifyMainKeeps ==
  ASSUME IInv, NEW s \in Caller, StopNotifyMain(s)
  PROVE  IInv'
<1> USE Names DEF IInv, Types, StopNotifyMain, StopStep, tasksVars, joinVars
<1>1. Types'
  BY DEF Step
<1>2. Held'
  BY DEF Held
<1>3. Queue'
  BY DEF Queue
<1>4. Absent'
  BY DEF Absent, Nowhere
<1>5. TaskMutex'
  BY DEF TaskMutex
<1>6. Joining'
  BY DEF Joining
<1>7. StopInNetwork'
  BY DEF StopInNetwork, InNetwork
<1>8. QED
  BY <1>1, <1>2, <1>3, <1>4, <1>5, <1>6, <1>7

LEMMA BootKeeps ==
  ASSUME IInv, Boot
  PROVE  IInv'
<1> USE Names DEF IInv, Types, Boot, joinVars
<1>1. Types'
  BY DEF Step
<1>2. Held'
  BY DEF Held, Joining, Thread, Step
<1>3. Queue'
  BY DEF Queue, Absent, Nowhere
<1>4. Absent'
  BY DEF Absent, Nowhere
<1>5. TaskMutex'
  BY DEF TaskMutex
<1>6. Joining'
  BY DEF Joining
<1>7. StopInNetwork'
  BY DEF StopInNetwork, Joining, InNetwork
<1>8. QED
  BY <1>1, <1>2, <1>3, <1>4, <1>5, <1>6, <1>7

LEMMA SetOnStopCallbackKeeps ==
  ASSUME IInv, SetOnStopCallback
  PROVE  IInv'
<1> USE Names DEF IInv, Types, SetOnStopCallback, Goto, joinVars
<1>1. Types'
  BY DEF Step
<1>2. Held'
  BY DEF Held, Absent, Nowhere
<1>3. Queue'
  BY DEF Queue, Absent, Nowhere
<1>4. Absent'
  BY DEF Absent, Nowhere
<1>5. TaskMutex'
  BY DEF TaskMutex
<1>6. Joining'
  BY DEF Joining
<1>7. StopInNetwork'
  BY DEF StopInNetwork, InNetwork
<1>8. QED
  BY <1>1, <1>2, <1>3, <1>4, <1>5, <1>6, <1>7

LEMMA AwaitCheckKeeps ==
  ASSUME IInv, AwaitCheck
  PROVE  IInv'
<1> USE Names DEF IInv, Types, AwaitCheck, Goto, tasksVars, stopVars, joinVars
<1>1. Types'
  BY DEF Step
<1>2. Held'
  BY DEF Held
<1>3. Queue'
  BY DEF Queue
<1>4. Absent'
  BY DEF Absent, Nowhere
<1>5. TaskMutex'
  BY DEF TaskMutex
<1>6. Joining'
  BY DEF Joining
<1>7. StopInNetwork'
  BY DEF StopInNetwork, InNetwork
<1>8. QED
  BY <1>1, <1>2, <1>3, <1>4, <1>5, <1>6, <1>7

LEMMA AwaitSleepKeeps ==
  ASSUME IInv, AwaitSleep
  PROVE  IInv'
<1> USE Names DEF IInv, Types, AwaitSleep, Goto, tasksVars, stopVars, joinVars
<1>1. Types'
  BY DEF Step
<1>2. Held'
  BY DEF Held
<1>3. Queue'
  BY DEF Queue
<1>4. Absent'
  BY DEF Absent, Nowhere
<1>5. TaskMutex'
  BY DEF TaskMutex
<1>6. Joining'
  BY DEF Joining
<1>7. StopInNetwork'
  BY DEF StopInNetwork, InNetwork
<1>8. QED
  BY <1>1, <1>2, <1>3, <1>4, <1>5, <1>6, <1>7

LEMMA AwaitSpuriousWakeKeeps ==
  ASSUME IInv, AwaitSpuriousWake
  PROVE  IInv'
<1> USE Names DEF IInv, Types, AwaitSpuriousWake, Goto, tasksVars, stopVars, joinVars
<1>1. Types'
  BY DEF Step
<1>2. Held'
  BY DEF Held
<1>3. Queue'
  BY DEF Queue
<1>4. Absent'
  BY DEF Absent, Nowhere
<1>5. TaskMutex'
  BY DEF TaskMutex
<1>6. Joining'
  BY DEF Joining
<1>7. StopInNetwork'
  BY DEF StopInNetwork, InNetwork
<1>8. QED
  BY <1>1, <1>2, <1>3, <1>4, <1>5, <1>6, <1>7

LEMMA CleanKeeps ==
  ASSUME IInv, NEW t \in Spawned, Clean(t)
  PROVE  IInv'
<1> USE Names DEF IInv, Types, Clean, Goto, tasksVars, stopVars
<1>1. Types'
  BY DEF Step
<1>2. Held'
  BY DEF Held
<1>3. Queue'
  BY DEF Queue
<1>4. Absent'
  BY DEF Absent, Nowhere
<1>5. TaskMutex'
  BY DEF TaskMutex
<1>6. Joining'
  BY DEF Joining
<1>7. StopInNetwork'
  BY DEF StopInNetwork, InNetwork
<1>8. QED
  BY <1>1, <1>2, <1>3, <1>4, <1>5, <1>6, <1>7

LEMMA JoinCheckKeeps ==
  ASSUME IInv, JoinCheck
  PROVE  IInv'
<1> USE Names DEF IInv, Types, JoinCheck, Goto, tasksVars, stopVars, joinVars
<1>1. Types'
  BY DEF Step
<1>2. Held'
  BY DEF Held
<1>3. Queue'
  BY DEF Queue
<1>4. Absent'
  BY DEF Absent, Nowhere
<1>5. TaskMutex'
  BY DEF TaskMutex
<1>6. Joining'
  BY DEF Joining
<1>7. StopInNetwork'
  BY DEF StopInNetwork, InNetwork
<1>8. QED
  BY <1>1, <1>2, <1>3, <1>4, <1>5, <1>6, <1>7

LEMMA JoinSleepKeeps ==
  ASSUME IInv, JoinSleep
  PROVE  IInv'
<1> USE Names DEF IInv, Types, JoinSleep, Goto, tasksVars, stopVars, joinVars
<1>1. Types'
  BY DEF Step
<1>2. Held'
  BY DEF Held
<1>3. Queue'
  BY DEF Queue
<1>4. Absent'
  BY DEF Absent, Nowhere
<1>5. TaskMutex'
  BY DEF TaskMutex
<1>6. Joining'
  BY DEF Joining
<1>7. StopInNetwork'
  BY DEF StopInNetwork, InNetwork
<1>8. QED
  BY <1>1, <1>2, <1>3, <1>4, <1>5, <1>6, <1>7

LEMMA JoinSpuriousWakeKeeps ==
  ASSUME IInv, JoinSpuriousWake
  PROVE  IInv'
<1> USE Names DEF IInv, Types, JoinSpuriousWake, Goto, tasksVars, stopVars, joinVars
<1>1. Types'
  BY DEF Step
<1>2. Held'
  BY DEF Held
<1>3. Queue'
  BY DEF Queue
<1>4. Absent'
  BY DEF Absent, Nowhere
<1>5. TaskMutex'
  BY DEF TaskMutex
<1>6. Joining'
  BY DEF Joining
<1>7. StopInNetwork'
  BY DEF StopInNetwork, InNetwork
<1>8. QED
  BY <1>1, <1>2, <1>3, <1>4, <1>5, <1>6, <1>7

LEMMA JoinKeeps ==
  ASSUME IInv, Join
  PROVE  IInv'
<1> USE Names DEF IInv, Types, Join, Goto, tasksVars, stopVars
<1>1. Types'
  BY DEF Step, Joining
<1>2. Held'
  BY DEF Held
<1>3. Queue'
  BY DEF Queue
<1>4. Absent'
  BY DEF Absent, Nowhere
<1>5. TaskMutex'
  BY DEF TaskMutex
<1>6. Joining'
  BY DEF Joining
<1>7. StopInNetwork'
  BY DEF StopInNetwork, InNetwork
<1>8. QED
  BY <1>1, <1>2, <1>3, <1>4, <1>5, <1>6, <1>7

LEMMA FinishKeeps ==
  ASSUME IInv, Finish
  PROVE  IInv'
<1> USE Names DEF IInv, Types, Finish, Goto, stopVars, joinVars
<1>1. Types'
  BY DEF Step
<1>2. Held'
  BY DEF Held
<1>3. Queue'
  BY DEF Queue
<1>4. Absent'
  <2>1. \A k \in Task : Nowhere(k) => Nowhere(k)'
    BY DEF Nowhere
  <2>2. \A k \in Task : (\E i \in DOMAIN tasks : tasks[i] = k) => Nowhere(k)'
    BY DEF Nowhere, Queue
  <2>3. QED
    BY <2>1, <2>2 DEF Absent, Nowhere, Step
<1>5. TaskMutex'
  BY DEF TaskMutex, Joining
<1>6. Joining'
  BY DEF Joining
<1>7. StopInNetwork'
  BY DEF StopInNetwork, Queue, InNetwork
<1>8. QED
  BY <1>1, <1>2, <1>3, <1>4, <1>5, <1>6, <1>7

-----------------------------------------------------------------------------
LEMMA InitIInv == Init => IInv
<1> SUFFICES ASSUME Init PROVE IInv
  OBVIOUS
<1>1. Types
  <2>1. tasks \in Seq(Task) /\ joined \subseteq Spawned
    BY DEF Init
  <2>2. pc \in [Thread -> Step] /\ hold \in [Thread -> Task \cup {None}]
    BY DEF Init, Step
  <2>3. life \in [Task -> {"new", "started", "leaked", "deleted"}]
    BY DEF Init
  <2>4. stop \in [Caller -> {"none", "callback", "clear", "notifyTasks", "notifyMain"}]
    BY DEF Init
  <2>5. QED
    BY <2>1, <2>2, <2>3, <2>4 DEF Init, Types
<1>2. Held /\ Queue
  BY DEF Init, Held, Queue
<1>3. Absent
  BY Names DEF Init, Absent, Nowhere
<1>4. TaskMutex /\ Joining
  BY Names DEF Init, TaskMutex, Joining
<1>5. StopInNetwork
  BY DEF Init, StopInNetwork, Caller
<1>6. QED
  BY <1>1, <1>2, <1>3, <1>4, <1>5 DEF IInv

LEMMA Inductive == Spec => []IInv
<1>1. IInv /\ [Next]_vars => IInv'
  <2> SUFFICES ASSUME IInv, [Next]_vars PROVE IInv'
    OBVIOUS
  <2>1. ASSUME NEW w \in Worker, Work(w) \/ SpuriousWake(w) PROVE IInv'
    BY <2>1, CheckTasksKeeps, SleepKeeps, TakeKeeps, StartTaskKeeps, UpdateUsersKeeps,
       StopNetworkKeeps, SpuriousWakeKeeps DEF Work
  <2>2. ASSUME NEW t \in Worker \cup {main}, Adding(t) PROVE IInv'
    <3>1. t \in Thread \ {scheduler}
      BY ThreadAssumption DEF Thread, Spawned
    <3>2. QED
      BY <2>2, <3>1, AddTaskKeeps, PushTaskKeeps, NotifyTaskKeeps DEF Adding
  <2>3. ASSUME NEW t \in Spawned, Ending(t) PROVE IInv'
    BY <2>3, RoundKeeps, StoreStoppedKeeps, NotifyStoppedKeeps DEF Ending
  <2>4. CASE MainStep \/ AwaitSpuriousWake \/ JoinSpuriousWake
    BY <2>4, BootKeeps, SetOnStopCallbackKeeps, AwaitCheckKeeps, AwaitSleepKeeps,
       AwaitSpuriousWakeKeeps, CleanKeeps, JoinCheckKeeps, JoinSleepKeeps,
       JoinSpuriousWakeKeeps, JoinKeeps, FinishKeeps DEF MainStep
  <2>5. ASSUME NEW s \in Stopper, StopCalled(s) \/ StopGoesOn(s) PROVE IInv'
    <3>1. s \in Caller
      BY ThreadAssumption DEF Caller
    <3>2. QED
      BY <2>5, <3>1, StopCalledKeeps, StopCallbackKeeps, StopClearKeeps,
         StopNotifyTasksKeeps, StopNotifyMainKeeps DEF StopGoesOn
  <2>6. CASE UNCHANGED vars
    BY <2>6 DEF vars, IInv, Types, Held, Queue, Absent, Nowhere, TaskMutex, Joining,
       StopInNetwork, InNetwork
  <2>7. QED
    BY <2>1, <2>2, <2>3, <2>4, <2>5, <2>6 DEF Next
<1>2. QED
  BY InitIInv, <1>1, PTL DEF Spec

\* A set of which any two members are equal counts at most one.
LEMMA AtMostOne ==
  ASSUME NEW S, \A x, y \in S : x = y
  PROVE  Cardinality(S) \in {0, 1} /\ (Cardinality(S) = 0 <=> S = {})
<1>1. CASE S = {}
  BY <1>1, FS_EmptySet
<1>2. ASSUME NEW x \in S PROVE Cardinality(S) = 1 /\ S # {}
  <2>1. S = {x}
    BY <1>2
  <2>2. QED
    BY <2>1, FS_Singleton
<1>3. QED
  BY <1>1, <1>2

\* The state keeps its types, and the queue never holds more than the two tasks.
THEOREM ThreadTypes == Spec => []TypeOK
<1>1. IInv => TypeOK
  <2> SUFFICES ASSUME IInv PROVE TypeOK
    OBVIOUS
  <2>1. tasks \in Seq(Task) /\ \A i, j \in DOMAIN tasks : tasks[i] = tasks[j] => i = j
    BY DEF IInv, Types, Queue
  <2>2. Len(tasks) <= 2
    BY <2>1 DEF Task
  <2>3. Cardinality(Task) = 2
    <3>1. IsFiniteSet({"update"}) /\ Cardinality({"update"}) = 1
      BY FS_Singleton
    <3>2. Task = {"update"} \cup {"network"} /\ "network" \notin {"update"}
      BY DEF Task
    <3>3. QED
      BY <3>1, <3>2, FS_AddElement
  <2>4. QED
    BY <2>2, <2>3 DEF IInv, Types, Step, TypeOK
<1>2. QED
  BY Inductive, <1>1, PTL

\* A task is in one place: in the queue, in one thread's hands, or gone.
THEOREM TaskInOnePlaceTheorem == Spec => []TaskInOnePlace
<1>1. IInv => TaskInOnePlace
  <2> SUFFICES ASSUME IInv, NEW k \in Task
               PROVE  /\ Cardinality(Holders(k)) + Cardinality(Places(k)) <= 1
                      /\ life[k] \in {"leaked", "deleted"} => Holders(k) = {} /\ Places(k) = {}
    BY DEF TaskInOnePlace
  <2>1. \A t, u \in Holders(k) : t = u
    BY Names DEF Holders, IInv, Held
  <2>2. \A i, j \in Places(k) : i = j
    BY DEF Places, IInv, Queue
  <2>3. Holders(k) = {} \/ Places(k) = {}
    BY DEF Holders, Places, IInv, Queue
  <2>4. Cardinality(Holders(k)) + Cardinality(Places(k)) <= 1
    BY <2>1, <2>2, <2>3, AtMostOne
  <2>5. life[k] \in {"leaked", "deleted"} => Holders(k) = {} /\ Places(k) = {}
    BY DEF IInv, Absent, Nowhere, Holders, Places
  <2>6. QED
    BY <2>4, <2>5
<1>2. QED
  BY Inductive, <1>1, PTL

\* A Thread is deleted when its thread is gone; when main returns, no thread is
\* left, and no Stop in the network task.
THEOREM NothingOutlivesCleanTheorem == Spec => []NothingOutlivesClean
<1>1. IInv => NothingOutlivesClean
  <2> SUFFICES ASSUME IInv PROVE NothingOutlivesClean
    OBVIOUS
  <2>1. \A t \in joined : pc[t] = "gone"
    BY DEF IInv, Joining
  <2>2. ASSUME pc[main] = "done" PROVE \A t \in Spawned : pc[t] = "gone" /\ hold[t] = None
    BY <2>1, <2>2, Names DEF IInv, Joining, Held
  <2>3. pc[main] = "done" => stop["network"] = "none"
    BY <2>2, Names DEF IInv, StopInNetwork, InNetwork
  <2>4. QED
    BY <2>1, <2>2, <2>3 DEF NothingOutlivesClean
<1>2. QED
  BY Inductive, <1>1, PTL
-----------------------------------------------------------------------------
(* Nobody waits for what does not come. *)

\* Where each thread may be, and what one that found no task saw.
Roles ==
  /\ \A w \in Worker : pc[w] \in {"unborn", "idle", "wait", "sleep", "asleep", "take", "run",
                                  "add", "push", "notify", "exit", "ended", "gone"}
  /\ pc[scheduler] \in {"unborn", "idle", "exit", "ended", "gone"}
  /\ pc[main] \in {"boot", "add", "push", "notify", "callback", "await", "awaitSleep",
                   "awaitAsleep", "clean", "join", "joinSleep", "joinAsleep", "joinEnd", "done"}
  /\ pc[main] # "boot" => \A t \in Spawned : pc[t] # "unborn"
  /\ \A w \in Worker : pc[w] = "sleep" /\ running => tasks = <<>>

\* m_Running is cleared after the server was told, m_Stopped was seen before join.
Shutdown ==
  /\ posted => callback
  /\ \A s \in Caller : stop[s] = "clear" /\ ~crashed => posted
  /\ ~running /\ pc[main] # "boot" /\ ~crashed => posted
  /\ \A s \in Caller \ Stopper : stop[s] = "none"

JoinSeen == pc[main] = "joinEnd" => pc[joining] \in {"ended", "gone"}

LEMMA Distinct ==
  /\ main # scheduler /\ main \in Thread /\ scheduler \in Thread
  /\ \A w \in Worker : w # main /\ w # scheduler /\ w \in Thread
  /\ \A t \in Spawned : t # main /\ t \in Thread /\ (t = scheduler \/ t \in Worker)
  /\ \A t \in Worker \cup {main} : t # scheduler /\ t \in Thread
BY ThreadAssumption DEF Thread, Spawned

LEMMA RolesKeep ==
  ASSUME IInv, Roles, [Next]_vars
  PROVE  Roles'
<1> USE Distinct DEF IInv, Types, Roles, Goto, tasksVars, stopVars, joinVars
<1>1. ASSUME NEW w \in Worker, Work(w) \/ SpuriousWake(w) PROVE Roles'
  <2>1. CASE CheckTasks(w) \/ Sleep(w) \/ SpuriousWake(w)
    BY <2>1 DEF CheckTasks, Sleep, SpuriousWake
  <2>2. CASE Take(w)
    BY <2>2 DEF Take, TaskMutex
  <2>3. CASE StartTask(w) \/ UpdateUsers(w) \/ StopNetwork(w)
    BY <2>3 DEF StartTask, UpdateUsers, StopNetwork
  <2>4. QED
    BY <1>1, <2>1, <2>2, <2>3 DEF Work
<1>2. ASSUME NEW t \in Worker \cup {main}, Adding(t) PROVE Roles'
  <2>1. CASE AddTask(t)
    BY <2>1 DEF AddTask, AfterAdd
  <2>2. CASE PushTask(t)
    BY <2>2 DEF PushTask, TaskMutexFree
  <2>3. CASE NotifyTask(t)
    BY <2>3 DEF NotifyTask, AfterAdd, Asleep
  <2>4. QED
    BY <1>2, <2>1, <2>2, <2>3 DEF Adding
<1>3. ASSUME NEW t \in Spawned, Ending(t) PROVE Roles'
  BY <1>3 DEF Ending, Round, StoreStopped, NotifyStopped
<1>4. CASE Boot
  BY <1>4 DEF Boot
<1>5. CASE MainStep \/ AwaitSpuriousWake \/ JoinSpuriousWake
  BY <1>4, <1>5 DEF MainStep, SetOnStopCallback, AwaitCheck, AwaitSleep, AwaitSpuriousWake,
     Clean, JoinCheck, JoinSleep, JoinSpuriousWake, Join, Finish
<1>6. ASSUME NEW s \in Stopper, StopCalled(s) \/ StopGoesOn(s) PROVE Roles'
  BY <1>6 DEF StopGoesOn, StopCalled, StopCallback, StopClear, StopNotifyTasks,
     StopNotifyMain, StopStep, Asleep
<1>7. CASE UNCHANGED vars
  BY <1>7 DEF vars
<1>8. QED
  BY <1>1, <1>2, <1>3, <1>5, <1>6, <1>7 DEF Next

LEMMA JoinSeenKeeps ==
  ASSUME IInv, JoinSeen, [Next]_vars
  PROVE  JoinSeen'
<1> USE Distinct DEF IInv, Types, JoinSeen, Joining, Goto, tasksVars, stopVars, joinVars
<1>1. ASSUME NEW w \in Worker, Work(w) \/ SpuriousWake(w) PROVE JoinSeen'
  <2>1. \E x \in Step : pc[w] \notin {"ended", "gone"} /\ pc' = [pc EXCEPT ![w] = x]
    BY <1>1 DEF Work, CheckTasks, Sleep, SpuriousWake, Take, StartTask, UpdateUsers,
       StopNetwork, Step
  <2>2. UNCHANGED joining
    BY <1>1 DEF Work, CheckTasks, Sleep, SpuriousWake, Take, StartTask, UpdateUsers, StopNetwork
  <2>3. QED
    BY <2>1, <2>2
<1>2. ASSUME NEW t \in Worker \cup {main}, Adding(t) PROVE JoinSeen'
  <2>1. CASE AddTask(t) \/ PushTask(t)
    BY <2>1 DEF AddTask, PushTask, AfterAdd
  <2>2. CASE NotifyTask(t)
    BY <2>2 DEF NotifyTask, AfterAdd, Asleep
  <2>3. QED
    BY <1>2, <2>1, <2>2 DEF Adding
<1>3. ASSUME NEW t \in Spawned, Ending(t) PROVE JoinSeen'
  BY <1>3 DEF Ending, Round, StoreStopped, NotifyStopped
<1>4. CASE Boot
  BY <1>4 DEF Boot
<1>5. CASE JoinCheck
  BY <1>5 DEF JoinCheck, Stopped
<1>6. CASE MainStep \/ AwaitSpuriousWake \/ JoinSpuriousWake
  BY <1>4, <1>5, <1>6 DEF MainStep, SetOnStopCallback, AwaitCheck, AwaitSleep,
     AwaitSpuriousWake, Clean, JoinSleep, JoinSpuriousWake, Join, Finish
<1>7. ASSUME NEW s \in Stopper, StopCalled(s) \/ StopGoesOn(s) PROVE JoinSeen'
  BY <1>7 DEF StopGoesOn, StopCalled, StopCallback, StopClear, StopNotifyTasks,
     StopNotifyMain, StopStep, Asleep
<1>8. CASE UNCHANGED vars
  BY <1>8 DEF vars
<1>9. QED
  BY <1>1, <1>2, <1>3, <1>6, <1>7, <1>8 DEF Next

LEMMA ShutdownKeeps ==
  ASSUME IInv, Shutdown, [Next]_vars
  PROVE  Shutdown'
<1> USE Distinct DEF IInv, Types, Goto, tasksVars, stopVars, joinVars
<1>9. ASSUME UNCHANGED <<running, callback, posted, stop, crashed>>,
             pc[main] = "boot" => pc'[main] = "boot"
      PROVE  Shutdown'
  BY <1>9 DEF Shutdown
<1>1. ASSUME NEW w \in Worker, Work(w) \/ SpuriousWake(w) PROVE Shutdown'
  BY <1>1, <1>9 DEF Work, CheckTasks, Sleep, SpuriousWake, Take, StartTask, UpdateUsers, StopNetwork
<1>2. ASSUME NEW t \in Worker \cup {main}, Adding(t) PROVE Shutdown'
  BY <1>2, <1>9 DEF Adding, AddTask, PushTask, NotifyTask, AfterAdd, Asleep
<1>3. ASSUME NEW t \in Spawned, Ending(t) PROVE Shutdown'
  BY <1>3, <1>9 DEF Ending, Round, StoreStopped, NotifyStopped
<1>4. CASE Boot \/ SetOnStopCallback
  BY <1>4 DEF Boot, SetOnStopCallback, Shutdown
<1>5. CASE MainStep \/ AwaitSpuriousWake \/ JoinSpuriousWake
  BY <1>4, <1>5, <1>9 DEF MainStep, AwaitCheck, AwaitSleep, AwaitSpuriousWake,
     Clean, JoinCheck, Stopped, JoinSleep, JoinSpuriousWake, Join, Finish
<1>6. ASSUME NEW s \in Stopper, StopCalled(s) \/ StopGoesOn(s) PROVE Shutdown'
  <2>1. s \in Caller
    BY ThreadAssumption DEF Caller
  <2>2. pc[main] # "boot" => pc'[main] # "boot"
    BY <1>6 DEF StopGoesOn, StopCalled, StopCallback, StopClear, StopNotifyTasks,
       StopNotifyMain, StopStep, Asleep
  <2>3. pc'[main] # "boot" => pc[main] # "boot"
    BY <1>6 DEF StopGoesOn, StopCalled, StopCallback, StopClear, StopNotifyTasks,
       StopNotifyMain, StopStep, Asleep
  <2>4. CASE StopCalled(s)
    BY <2>1, <2>3, <2>4 DEF StopCalled, StopStep, Shutdown
  <2>7. CASE StopCallback(s)
    <3>1. /\ UNCHANGED <<running, callback>> /\ posted' = callback /\ crashed' = ~callback
          /\ stop' = [stop EXCEPT ![s] = "clear"] /\ callback \in BOOLEAN
      BY <2>7 DEF StopCallback, StopStep
    <3>2. ~crashed' <=> callback
      BY <3>1
    <3>3. posted' => callback'
      BY <3>1
    <3>4. ~crashed' => posted'
      BY <3>1, <3>2
    <3>5. \A q \in Caller \ Stopper : stop'[q] = "none"
      BY <2>1, <3>1 DEF Shutdown
    <3>6. QED
      BY <3>3, <3>4, <3>5 DEF Shutdown
  <2>5. CASE StopClear(s) \/ StopNotifyTasks(s) \/ StopNotifyMain(s)
    BY <2>1, <2>3, <2>5 DEF StopClear, StopNotifyTasks, StopNotifyMain, StopStep, Shutdown
  <2>6. QED
    BY <1>6, <2>4, <2>5, <2>7 DEF StopGoesOn
<1>7. CASE UNCHANGED vars
  BY <1>7, <1>9 DEF vars
<1>8. QED
  BY <1>1, <1>2, <1>3, <1>5, <1>6, <1>7 DEF Next

\* When nothing but a lost wake-up keeps a thread asleep, a thread that cannot
\* step is the main thread asleep in the join of one that can.
THEOREM EndInSightTheorem == Spec => []EndInSight
<1>1. ASSUME IInv, Roles, Shutdown, JoinSeen PROVE EndInSight
  <2> USE <1>1, Distinct DEF IInv, Types
  <2> SUFFICES ASSUME ~running, pc[main] \notin {"boot", "done"}, ~crashed, ~LostWakeUp,
                      \A s \in Stopper : stop[s] = "none"
               PROVE  \E t \in Thread : MayStep(t)
    BY DEF EndInSight
  <2>1. posted /\ stop["network"] = "none"
    BY DEF Shutdown, Caller
  <2>2. ASSUME ~TaskMutexFree PROVE \E t \in Thread : MayStep(t)
    BY <2>2 DEF TaskMutexFree, MayStep
  <2>3. ASSUME TaskMutexFree, NEW w \in Worker, pc[w] # "gone" PROVE MayStep(w)
    <3>1. pc[w] # "asleep"
      BY DEF LostWakeUp, Asleep
    <3>2. pc[w] # "unborn"
      BY DEF Roles, Spawned
    <3>3. QED
      BY <2>1, <2>3, <3>1, <3>2 DEF Roles, MayStep
  <2>4. pc[scheduler] = "gone" \/ MayStep(scheduler)
    BY DEF Roles, Spawned, MayStep
  <2>5. CASE pc[main] \in {"joinAsleep", "joinEnd"}
    <3>1. joining \in Spawned /\ joining \in Thread
      BY <2>5 DEF Joining
    <3>2. CASE pc[main] = "joinAsleep"
      <4>1. pc[joining] # "gone"
        BY <3>2 DEF LostWakeUp
      <4>2. QED
        BY <2>2, <2>3, <2>4, <3>1, <4>1
    <3>3. CASE pc[main] = "joinEnd"
      BY <3>1, <3>3 DEF JoinSeen, MayStep
    <3>4. QED
      BY <2>5, <3>2, <3>3
  <2>6. CASE pc[main] \notin {"joinAsleep", "joinEnd"}
    <3>1. pc[main] # "awaitAsleep"
      BY DEF LostWakeUp
    <3>2. CASE TaskMutexFree
      BY <2>6, <3>1, <3>2 DEF Roles, MayStep
    <3>3. QED
      BY <2>2, <3>2
  <2>7. QED
    BY <2>5, <2>6
<1>2. Init => Roles /\ Shutdown /\ JoinSeen
  BY Distinct DEF Init, Roles, Shutdown, JoinSeen, Caller
<1>3. QED
  BY Inductive, <1>1, <1>2, RolesKeep, ShutdownKeeps, JoinSeenKeeps, PTL DEF Spec
-----------------------------------------------------------------------------
LEMMA ThreadsFinite ==
  ASSUME NEW S \in SUBSET Thread
  PROVE  IsFiniteSet(S) /\ Cardinality(S) \in Nat
<1>1. Thread = (Worker \cup {scheduler}) \cup {main}
  BY DEF Thread, Spawned
<1>2. IsFiniteSet(Thread)
  BY <1>1, ThreadAssumption, FS_AddElement
<1>3. IsFiniteSet(S)
  BY <1>2, FS_Subset
<1>4. QED
  BY <1>3, FS_CardinalityType

\* As many seekers, and as many tasks.
LEMMA SeekersStay ==
  ASSUME IInv, NoTaskForgotten, running' => running, Asleep' # {} => Asleep # {},
         Seekers \subseteq Seekers', tasks' = tasks
  PROVE  NoTaskForgotten'
<1>1. Seekers' \in SUBSET Thread
  BY Distinct DEF Seekers
<1>2. Cardinality(Seekers) <= Cardinality(Seekers')
  BY <1>1, ThreadsFinite, FS_Subset
<1>3. Cardinality(Seekers) \in Nat /\ Cardinality(Seekers') \in Nat /\ Len(tasks) \in Nat
  BY <1>1, ThreadsFinite DEF IInv, Types
<1>4. QED
  BY <1>2, <1>3 DEF NoTaskForgotten

LEMMA TakeForgetsNone ==
  ASSUME IInv, NoTaskForgotten, NEW w \in Worker, Take(w)
  PROVE  NoTaskForgotten'
<1> SUFFICES ASSUME running, Asleep # {} PROVE Len(tasks') <= Cardinality(Seekers')
  BY Distinct DEF NoTaskForgotten, Take, Goto, stopVars, Asleep, IInv, Types
<1>1. tasks # <<>> /\ tasks' = Tail(tasks) /\ pc[w] = "take" /\ pc' = [pc EXCEPT ![w] = "run"]
  BY DEF Take, Goto, IInv, TaskMutex
<1>2. Seekers' = Seekers \ {w} /\ w \in Seekers /\ Seekers \in SUBSET Thread
  BY <1>1, Distinct DEF Seekers, IInv, Types
<1>3. Cardinality(Seekers') = Cardinality(Seekers) - 1 /\ Cardinality(Seekers) \in Nat
  BY <1>2, ThreadsFinite, FS_RemoveElement
<1>4. Len(tasks') = Len(tasks) - 1 /\ Len(tasks) \in Nat
  BY <1>1 DEF IInv, Types
<1>5. Len(tasks) <= Cardinality(Seekers)
  BY DEF NoTaskForgotten
<1>6. QED
  BY <1>3, <1>4, <1>5

LEMMA PushForgetsNone ==
  ASSUME IInv, NoTaskForgotten, NEW t \in Worker \cup {main}, PushTask(t)
  PROVE  NoTaskForgotten'
<1> SUFFICES ASSUME running, Asleep # {} PROVE Len(tasks') <= Cardinality(Seekers')
  BY Distinct DEF NoTaskForgotten, PushTask, Goto, stopVars, Asleep, IInv, Types
<1>1. tasks' = Append(tasks, hold[t]) /\ pc[t] = "push" /\ pc' = [pc EXCEPT ![t] = "notify"]
  BY DEF PushTask, Goto
<1>2. Seekers' = Seekers \cup {t} /\ t \notin Seekers /\ Seekers \in SUBSET Thread
  BY <1>1, Distinct DEF Seekers, IInv, Types
<1>3. Cardinality(Seekers') = Cardinality(Seekers) + 1 /\ Cardinality(Seekers) \in Nat
  BY <1>2, ThreadsFinite, FS_AddElement
<1>4. Len(tasks') = Len(tasks) + 1 /\ Len(tasks) \in Nat
  BY <1>1 DEF IInv, Types
<1>5. Len(tasks) <= Cardinality(Seekers)
  BY DEF NoTaskForgotten
<1>6. QED
  BY <1>3, <1>4, <1>5

\* Who notifies and goes elsewhere has woken another.
LEMMA NotifyForgetsNone ==
  ASSUME IInv, NoTaskForgotten, NEW t \in Worker \cup {main}, NotifyTask(t)
  PROVE  NoTaskForgotten'
<1> USE Distinct DEF IInv, Types
<1>1. pc[t] = "notify" /\ running' = running /\ tasks' = tasks
  BY DEF NotifyTask, tasksVars, stopVars
<1>2. CASE Asleep = {} /\ pc' = [pc EXCEPT ![t] = AfterAdd(t)]
  <2>1. Asleep' = {}
    BY <1>2 DEF Asleep, AfterAdd
  <2>2. QED
    BY <2>1 DEF NoTaskForgotten
<1>3. ASSUME NEW w \in Asleep, pc' = [pc EXCEPT ![t] = AfterAdd(t), ![w] = "wait"]
      PROVE  NoTaskForgotten'
  <2>1. w \in Worker /\ w # t /\ w \notin Seekers /\ t \in Seekers
    BY <1>1 DEF Asleep, Seekers
  <2>2. (Seekers \ {t}) \cup {w} \subseteq Seekers'
    BY <1>1, <1>3, <2>1 DEF Seekers, Asleep, AfterAdd
  <2>3. Seekers \in SUBSET Thread /\ Seekers' \in SUBSET Thread
    BY DEF Seekers
  <2>4. IsFiniteSet(Seekers \ {t}) /\ Cardinality(Seekers \ {t}) = Cardinality(Seekers) - 1
    BY <2>1, <2>3, ThreadsFinite, FS_RemoveElement
  <2>5. Cardinality((Seekers \ {t}) \cup {w}) = Cardinality(Seekers \ {t}) + 1
    BY <2>1, <2>4, FS_AddElement
  <2>6. Cardinality((Seekers \ {t}) \cup {w}) <= Cardinality(Seekers')
    BY <2>2, <2>3, ThreadsFinite, FS_Subset
  <2>7. /\ Cardinality(Seekers) \in Nat /\ Cardinality(Seekers') \in Nat
        /\ Cardinality(Seekers) <= Cardinality(Seekers') /\ Len(tasks) \in Nat
    BY <2>3, <2>4, <2>5, <2>6, ThreadsFinite
  <2>8. running' => Len(tasks) <= Cardinality(Seekers)
    BY <1>1, <1>3 DEF NoTaskForgotten
  <2>9. QED
    BY <1>1, <2>7, <2>8 DEF NoTaskForgotten
<1>4. QED
  BY <1>2, <1>3 DEF NotifyTask

LEMMA ForgottenKeeps ==
  ASSUME IInv, Roles, NoTaskForgotten, [Next]_vars
  PROVE  NoTaskForgotten'
<1> USE Distinct DEF IInv, Types, Goto, tasksVars, stopVars, joinVars
<1>1. ASSUME NEW w \in Worker, CheckTasks(w) \/ Sleep(w) PROVE NoTaskForgotten'
  <2>1. CASE tasks # <<>> \/ ~running
    <3>1. UNCHANGED <<running, tasks>> /\ (running => Seekers \subseteq Seekers')
      BY <1>1, <2>1 DEF CheckTasks, Sleep, Seekers, Roles
    <3>2. running => (Asleep' # {} => Asleep # {})
      BY <1>1, <2>1 DEF CheckTasks, Sleep, Asleep, Roles
    <3>3. QED
      BY <3>1, <3>2, SeekersStay DEF NoTaskForgotten
  <2>2. CASE tasks = <<>>
    <3>1. Len(tasks') = 0
      BY <1>1, <2>2 DEF CheckTasks, Sleep
    <3>2. Seekers' \in SUBSET Thread
      BY DEF Seekers
    <3>3. QED
      BY <3>1, <3>2, ThreadsFinite DEF NoTaskForgotten
  <2>3. QED
    BY <2>1, <2>2
<1>2. ASSUME NEW w \in Worker, Work(w) \/ SpuriousWake(w) PROVE NoTaskForgotten'
  <2>1. ASSUME SpuriousWake(w) \/ StartTask(w) \/ UpdateUsers(w) \/ StopNetwork(w)
        PROVE  NoTaskForgotten'
    <3>1. UNCHANGED <<running, tasks>> /\ Seekers \subseteq Seekers' /\ Asleep' \subseteq Asleep
      BY <2>1 DEF SpuriousWake, StartTask, UpdateUsers, StopNetwork, Seekers, Asleep
    <3>2. QED
      BY <3>1, SeekersStay
  <2>2. QED
    BY <1>1, <1>2, <2>1, TakeForgetsNone DEF Work
<1>3. ASSUME NEW t \in Worker \cup {main}, Adding(t) PROVE NoTaskForgotten'
  <2>1. ASSUME AddTask(t) PROVE NoTaskForgotten'
    <3>1. UNCHANGED <<running, tasks>> /\ Seekers \subseteq Seekers' /\ Asleep' \subseteq Asleep
      BY <2>1 DEF AddTask, AfterAdd, Seekers, Asleep
    <3>2. QED
      BY <3>1, SeekersStay
  <2>2. QED
    BY <1>3, <2>1, PushForgetsNone, NotifyForgetsNone DEF Adding
<1>4. ASSUME NEW t \in Spawned, Ending(t) PROVE NoTaskForgotten'
  <2>1. UNCHANGED <<running, tasks>> /\ (running => Seekers \subseteq Seekers')
    BY <1>4 DEF Ending, Round, StoreStopped, NotifyStopped, Seekers
  <2>2. Asleep' \subseteq Asleep
    BY <1>4 DEF Ending, Round, StoreStopped, NotifyStopped, Asleep
  <2>3. QED
    BY <2>1, <2>2, SeekersStay DEF NoTaskForgotten
<1>5. CASE Boot
  <2>1. Asleep' = {}
    BY <1>5 DEF Boot, Asleep
  <2>2. QED
    BY <2>1 DEF NoTaskForgotten
<1>6. CASE Finish
  <2>1. Len(tasks') = 0 /\ Seekers' \in SUBSET Thread
    BY <1>6 DEF Finish, Seekers
  <2>2. QED
    BY <2>1, ThreadsFinite DEF NoTaskForgotten
<1>7. CASE MainStep \/ AwaitSpuriousWake \/ JoinSpuriousWake
  <2>1. ASSUME ~Boot, ~Finish
        PROVE  /\ UNCHANGED <<running, tasks>> /\ Seekers \subseteq Seekers'
               /\ Asleep' \subseteq Asleep
    BY <1>7, <2>1 DEF MainStep, SetOnStopCallback, AwaitCheck, AwaitSleep, AwaitSpuriousWake,
       Clean, JoinCheck, JoinSleep, JoinSpuriousWake, Join, Seekers, Asleep
  <2>2. QED
    BY <1>5, <1>6, <2>1, SeekersStay
<1>8. ASSUME NEW s \in Stopper, StopCalled(s) \/ StopGoesOn(s) PROVE NoTaskForgotten'
  <2>1. (running' => running) /\ tasks' = tasks
    BY <1>8 DEF StopGoesOn, StopCalled, StopCallback, StopClear, StopNotifyTasks,
       StopNotifyMain, StopStep
  <2>2. Seekers \subseteq Seekers' /\ Asleep' \subseteq Asleep
    BY <1>8 DEF StopGoesOn, StopCalled, StopCallback, StopClear, StopNotifyTasks,
       StopNotifyMain, StopStep, Seekers, Asleep
  <2>3. QED
    BY <2>1, <2>2, SeekersStay
<1>9. CASE UNCHANGED vars
  BY <1>9 DEF vars, NoTaskForgotten, Seekers, Asleep
<1>10. QED
  BY <1>2, <1>3, <1>4, <1>7, <1>8, <1>9 DEF Next

\* For any number of task threads, none sleeps over a task that nobody is about to
\* look for: the predicate under m_TaskMutex and one notification a push suffice.
THEOREM NoTaskForgottenTheorem == Spec => []NoTaskForgotten
<1>1. Init => Roles /\ NoTaskForgotten
  BY Distinct DEF Init, Roles, NoTaskForgotten
<1>2. QED
  BY Inductive, <1>1, RolesKeep, ForgottenKeeps, PTL DEF Spec
=============================================================================
