-------------------------- MODULE LifecycleProofs --------------------------
(***************************************************************************)
(* Proofs about Lifecycle, for every application: whoever waits holds the  *)
(* lock of the slot, a wait that returns means that the worker has ended,  *)
(* and run returns Ok only when what it started is down.                   *)
(***************************************************************************)
EXTENDS Lifecycle, TLAPS

Ats == {"start", "set_task", "serve", "stop", "lock", "join", "servers", "take",
        "await", "drain", "tasks", "ok", "err"}

ServerTypes ==
  /\ task \in [Servers -> {"none", "spawned", "bound", "stored", "ended"}]
  /\ tx \in [Servers -> {"none", "set", "sent"}]
  /\ serve \in [Servers -> {"none", "on", "off", "failed"}] /\ handle \in [Servers -> BOOLEAN]
  /\ conn \in [Servers -> [Conns -> {"none", "upgrade", "open", "late"}]]
  /\ drain \in [Servers -> {"no", "empty", "cut"}] /\ missed \subseteq Servers

Types ==
  /\ app \in Apps
  /\ run \in [at : Ats, i : Nat]
  /\ worker \in [Workers -> {"none", "running", "stopping", "exited", "panicked"}]
  /\ signal \in [Workers -> BOOLEAN] /\ slot \in [Workers -> BOOLEAN]
  /\ mutex \in [Workers -> Users \cup {App, Nobody}]
  /\ user \in [Users -> [pc : {"idle", "wait", "done"}, w : Workers \cup {Nobody},
                         was : BOOLEAN]]
  /\ ServerTypes

(* Where the loops of run are.                                             *)
Place(at, i) ==
  /\ i >= 1
  /\ at = "start" => i <= Len(StartHooks) + 1
  /\ at = "set_task" => i <= Len(StartHooks) /\ StartHooks[i] \in Workers
  /\ at = "serve" => i = 1
  /\ at = "stop" => i <= Len(StopHooks) + 1
  /\ at \in {"lock", "join"} => i <= Len(StopHooks) /\ StopHooks[i] \in Workers
  /\ at \in {"servers", "tasks", "ok"} => i <= Len(Order) + 1
  /\ at \in {"take", "await", "drain"} => i <= Len(Order)
  /\ at = "err" => i <= Len(StartHooks) + Len(StopHooks)

Places == Place(run.at, run.i)

(* The lock of a slot and the ones that wait.                              *)
Holders ==
  \A w \in Workers : mutex[w] # Nobody =>
    /\ slot[w]
    /\ \/ mutex[w] = App /\ At("join") /\ StopHooks[run.i] = w
       \/ mutex[w] \in Users /\ user[mutex[w]].pc = "wait" /\ user[mutex[w]].w = w

Waiters ==
  /\ \A u \in Users : user[u].pc = "wait" =>
       user[u].w \in Workers /\ mutex[user[u].w] = u
  /\ \A u \in Users : user[u].pc = "done" => user[u].w \in Workers
  /\ At("join") => mutex[StopHooks[run.i]] = App

(* A worker whose slot is empty has not been started or has ended.         *)
EmptySlots == \A w \in Workers : Started(w) /\ ~slot[w] => Ended(w)

(* Only the start hooks passed so far have started a worker.               *)
NotYetStarted ==
  \A w \in Workers : worker[w] # "none" =>
    /\ At("start") => \E j \in DOMAIN StartHooks : j < run.i /\ StartHooks[j] = w
    /\ At("set_task") => \E j \in DOMAIN StartHooks : j <= run.i /\ StartHooks[j] = w

(* The stop hooks passed so far have waited for their workers.             *)
WorkersDown ==
  \A j \in DOMAIN StopHooks :
    /\ StopHooks[j] # Plain
    /\ \/ run.at \in {"stop", "lock", "join"} /\ j < run.i
       \/ run.at \in {"servers", "take", "await", "drain", "tasks", "ok"}
    => worker[StopHooks[j]] \in {"none", "exited", "panicked"}

WorkerInv == Holders /\ Waiters /\ EmptySlots /\ NotYetStarted /\ WorkersDown /\ WaitMeansEnded

(* What start and stop of the servers have done.                           *)
NotServing(s) ==
  \/ serve[s] \in {"off", "failed"}
  \/ serve[s] = "none" /\ (Kind[s] # "ws" \/ task[s] = "ended")

(* No connection of the JoinSet is left: there is none without a serve loop, *)
(* and what comes after the drain is not in the set stop waited for.         *)
Closed(s) ==
  \/ drain[s] = "cut" \/ serve[s] = "none"
  \/ drain[s] = "empty" /\ \A c \in Conns : conn[s][c] # "open"

Spawned ==
  \A s \in Servers :
    /\ run.at \in {"start", "set_task"} => task[s] = "none"
    /\ task[s] \in {"none", "spawned", "stored"} => serve[s] = "none"
    /\ Kind[s] # "ws" => serve[s] = "none"
    /\ serve[s] = "none" => (\A c \in Conns : conn[s][c] = "none") /\ ~handle[s]
    /\ handle[s] => task[s] = "ended"

(* A serve task whose start has returned is in its slot until stop takes it. *)
Taken(s) ==
  \E j \in DOMAIN Order :
    /\ Order[j] = s
    /\ \/ run.at \in {"servers", "take"} /\ j < run.i
       \/ run.at \in {"await", "drain"} /\ j <= run.i
       \/ run.at \in {"tasks", "ok"}

Handles ==
  \A s \in Servers : task[s] = "ended" /\ serve[s] # "none" /\ ~handle[s] => Taken(s)

ServersDown ==
  /\ \A j \in DOMAIN Order :
       \/ run.at \in {"servers", "take", "await", "drain"} /\ j < run.i
       \/ run.at \in {"tasks", "ok"}
       => Order[j] \in missed \/ (NotServing(Order[j]) /\ Closed(Order[j]))
  /\ At("drain") => Order[run.i] \in missed \/ NotServing(Order[run.i])

Joined ==
  \A j \in DOMAIN Order :
    (At("tasks") /\ j < run.i) \/ At("ok") => task[Order[j]] = "ended"

ServerInv == Spawned /\ Handles /\ ServersDown /\ Joined

IInv == Types /\ Places /\ WorkerInv /\ ServerInv
-----------------------------------------------------------------------------
(* Types and loop indices.                                                 *)

LEMMA AppIs ==
  ASSUME Types
  PROVE  /\ Len(StartHooks) \in Nat /\ DOMAIN StartHooks = 1..Len(StartHooks)
         /\ Len(StopHooks) \in Nat /\ DOMAIN StopHooks = 1..Len(StopHooks)
         /\ Len(Order) \in Nat /\ DOMAIN Order = 1..Len(Order)
         /\ \A j \in DOMAIN StartHooks : StartHooks[j] \in Workers \cup {Plain}
         /\ \A j \in DOMAIN StopHooks : StopHooks[j] \in Workers \cup {Plain}
         /\ \A j \in DOMAIN Order : Order[j] \in Servers
         /\ \A j, k \in DOMAIN StartHooks :
              StartHooks[j] = StartHooks[k] /\ StartHooks[j] # Plain => j = k
         /\ \A j, k \in DOMAIN Order : Order[j] = Order[k] => j = k
         /\ app.users \subseteq Users
<1>1. app \in Apps BY DEF Types
<1>2. /\ StartHooks \in Seq(Workers \cup {Plain}) /\ StopHooks \in Seq(Workers \cup {Plain})
      /\ Order \in Seq(Servers) /\ app.users \subseteq Users
  BY <1>1, AppsAssumption DEF StartHooks, StopHooks, Order
<1>3. /\ \A j, k \in DOMAIN StartHooks :
              StartHooks[j] = StartHooks[k] /\ StartHooks[j] # Plain => j = k
      /\ \A j, k \in DOMAIN Order : Order[j] = Order[k] => j = k
  BY <1>1, OnceAssumption DEF StartHooks, Order
<1> QED BY <1>2, <1>3

LEMMA RunIs ==
  ASSUME Types, NEW a \in Ats
  PROVE  /\ Go(a) => run'.at = a /\ run'.i = run.i /\ run' \in [at : Ats, i : Nat]
         /\ GoOn(a) => run'.at = a /\ run'.i = run.i + 1 /\ run' \in [at : Ats, i : Nat]
         /\ First(a) => run'.at = a /\ run'.i = 1 /\ run' \in [at : Ats, i : Nat]
BY DEF Types, Go, GoOn, First

LEMMA Moves ==
  ASSUME app' = app, Place(run'.at, run'.i) PROVE Places'
BY DEF Places, Place, StartHooks, StopHooks, Order

LEMMA InitTypes == Init => Types /\ Places
<1> SUFFICES ASSUME Init PROVE Types /\ Places OBVIOUS
<1>1. Types
  <2>1. Idle \in [pc : {"idle", "wait", "done"}, w : Workers \cup {Nobody}, was : BOOLEAN]
    BY DEF Idle
  <2>2. run \in [at : Ats, i : Nat] BY DEF Init, Ats
  <2> QED BY <2>1, <2>2 DEF Init, Types, ServerTypes
<1>2. run.at = "start" /\ run.i = 1 BY DEF Init
<1> QED BY <1>1, <1>2, AppIs DEF Places, Place

LEMMA ServerTypesStay == ASSUME ServerTypes, UNCHANGED servers PROVE ServerTypes'
BY DEF ServerTypes, servers

(* The steps of the holders of handles, of the workers and of the servers. *)
LEMMA OthersTypes ==
  ASSUME Types, Places,
         \/ \E w \in Workers : \/ UserShutdown(w) \/ WorkerSees(w) \/ WorkerEnds(w)
                               \/ \E u \in app.users : UserWait(u, w)
         \/ \E u \in app.users : UserJoin(u) \/ UserDrops(u) \/ UserAgain(u)
         \/ \E s \in Servers : Server(s) \/ TlsFails(s) \/ ServeFails(s)
         \/ \E s \in Servers, c \in Conns : Upgrade(s, c) \/ Upgraded(s, c) \/ Disconnect(s, c)
  PROVE  Types' /\ Places' /\ UNCHANGED <<app, run>>
<1>0. app.users \subseteq Users BY AppIs
<1>1. ASSUME NEW w \in Workers, UserShutdown(w) \/ WorkerSees(w) \/ WorkerEnds(w)
      PROVE  Types' /\ UNCHANGED <<app, run>>
  BY <1>1, ServerTypesStay DEF UserShutdown, Shutdown, WorkerSees, WorkerEnds, Types
<1>2. ASSUME NEW w \in Workers, NEW u \in app.users, UserWait(u, w)
      PROVE  Types' /\ UNCHANGED <<app, run>>
  <2>1. u \in Users BY <1>0
  <2>2. mutex' \in [Workers -> Users \cup {App, Nobody}] BY <1>2, <2>1 DEF UserWait, Lock, Types
  <2>3. Started(w) \in BOOLEAN BY DEF Started
  <2>4. user' \in [Users -> [pc : {"idle", "wait", "done"}, w : Workers \cup {Nobody},
                             was : BOOLEAN]]
    BY <1>2, <2>1, <2>3 DEF UserWait, Types
  <2>5. UNCHANGED <<app, run, worker, signal, slot, servers>> BY <1>2 DEF UserWait, Lock
  <2> QED BY <2>2, <2>4, <2>5, ServerTypesStay DEF Types
<1>3. ASSUME NEW u \in app.users, UserJoin(u) \/ UserDrops(u) \/ UserAgain(u)
      PROVE  Types' /\ UNCHANGED <<app, run>>
  <2>1. u \in Users BY <1>0
  <2>2. mutex' \in [Workers -> Users \cup {App, Nobody}]
    BY <1>3 DEF UserJoin, UserDrops, UserAgain, Join, Types
  <2>3. slot' \in [Workers -> BOOLEAN] BY <1>3 DEF UserJoin, UserDrops, UserAgain, Join, Types
  <2>4. Idle \in [pc : {"idle", "wait", "done"}, w : Workers \cup {Nobody}, was : BOOLEAN]
    BY DEF Idle
  <2>5. user' \in [Users -> [pc : {"idle", "wait", "done"}, w : Workers \cup {Nobody},
                             was : BOOLEAN]]
    BY <1>3, <2>1, <2>4 DEF UserJoin, UserDrops, UserAgain, Types
  <2>6. UNCHANGED <<app, run, worker, signal, servers>>
    BY <1>3 DEF UserJoin, UserDrops, UserAgain
  <2> QED BY <2>2, <2>3, <2>5, <2>6, ServerTypesStay DEF Types
<1>4. ASSUME NEW s \in Servers, Server(s) \/ TlsFails(s) \/ ServeFails(s)
      PROVE  Types' /\ UNCHANGED <<app, run>>
  <2>1. UNCHANGED <<app, run, workers, conn, drain, missed>>
    BY <1>4 DEF Server, Bind, Store, Serve, SpawnServe, StoreServe, EndServe, TlsFails,
                ServeFails, workers
  <2>2. /\ task' \in [Servers -> {"none", "spawned", "bound", "stored", "ended"}]
        /\ tx' \in [Servers -> {"none", "set", "sent"}]
        /\ serve' \in [Servers -> {"none", "on", "off", "failed"}]
        /\ handle' \in [Servers -> BOOLEAN]
    BY <1>4 DEF Server, Bind, Store, Serve, SpawnServe, StoreServe, EndServe, TlsFails,
                ServeFails, Types, ServerTypes
  <2> QED BY <2>1, <2>2 DEF Types, ServerTypes, workers
<1>5. ASSUME NEW s \in Servers, NEW c \in Conns,
             Upgrade(s, c) \/ Upgraded(s, c) \/ Disconnect(s, c)
      PROVE  Types' /\ UNCHANGED <<app, run>>
  <2>1. PICK v \in {"none", "upgrade", "open", "late"} : SetConn(s, c, v)
    BY <1>5 DEF Upgrade, Upgraded, Disconnect
  <2>2. conn' \in [Servers -> [Conns -> {"none", "upgrade", "open", "late"}]]
    BY <2>1 DEF SetConn, Types, ServerTypes
  <2> QED BY <2>1, <2>2 DEF SetConn, Types, ServerTypes, workers
<1>6. Types' /\ UNCHANGED <<app, run>> BY <1>1, <1>2, <1>3, <1>4, <1>5
<1> QED BY <1>6, Moves DEF Places

LEMMA RunTypes ==
  ASSUME Types, Places, Run \/ Signal
  PROVE  Types' /\ Places'
<1>0. /\ Len(StartHooks) \in Nat /\ DOMAIN StartHooks = 1..Len(StartHooks)
      /\ Len(StopHooks) \in Nat /\ DOMAIN StopHooks = 1..Len(StopHooks)
      /\ Len(Order) \in Nat /\ DOMAIN Order = 1..Len(Order)
      /\ \A j \in DOMAIN Order : Order[j] \in Servers
  BY AppIs
<1>1. run.i \in Nat /\ run.i >= 1 BY DEF Types, Places, Place
<1> USE AppIs, RunIs DEF Ats
<1>2. CASE StartHook
  <2>1. UNCHANGED <<app, signal, slot, mutex, user, servers>> BY <1>2 DEF StartHook
  <2>2. worker' \in [Workers -> {"none", "running", "stopping", "exited", "panicked"}]
    BY <1>2 DEF StartHook, Types
  <2>3. \/ GoOn("start") \/ Go("err")
        \/ Go("set_task") /\ StartHooks[run.i] \in Workers
    BY <1>2 DEF StartHook
  <2>4. run' \in [at : Ats, i : Nat] BY <2>3
  <2>5. Types' BY <2>1, <2>2, <2>4, ServerTypesStay DEF Types
  <2>6. run.i <= Len(StartHooks) BY <1>2 DEF StartHook
  <2>7. Place(run'.at, run'.i) BY <1>0, <1>1, <2>1, <2>3, <2>6 DEF Place, Places, At
  <2> QED BY <2>1, <2>5, <2>7, Moves DEF workers
<1>3. CASE SetTask
  <2>1. UNCHANGED <<app, worker, signal, mutex, user, servers>> /\ GoOn("start")
        /\ slot' = [slot EXCEPT ![StartHooks[run.i]] = TRUE]
    BY <1>3 DEF SetTask
  <2>2. Types' BY <2>1, ServerTypesStay DEF Types
  <2>3. run.i <= Len(StartHooks) BY <1>3 DEF SetTask, Places, Place, At
  <2>4. Place(run'.at, run'.i) BY <1>0, <1>1, <2>1, <2>3 DEF Place, Places, At
  <2> QED BY <2>1, <2>2, <2>4, Moves DEF workers
<1>4. CASE SpawnServers \/ Signal \/ HooksStopped \/ ServersStopped
  <2>1. /\ UNCHANGED <<workers, tx, serve, handle, conn, drain, missed>>
        /\ task' \in [Servers -> {"none", "spawned", "bound", "stored", "ended"}]
    BY <1>4 DEF SpawnServers, Signal, HooksStopped, ServersStopped, servers, Types, ServerTypes
  <2>2. First("serve") \/ First("stop") \/ First("servers") \/ First("tasks")
    BY <1>4 DEF SpawnServers, Signal, HooksStopped, ServersStopped
  <2>3. Types' BY <2>1, <2>2 DEF Types, ServerTypes, workers
  <2>4. Place(run'.at, run'.i) BY <1>0, <2>1, <2>2 DEF Place, Places, At
  <2> QED BY <2>1, <2>3, <2>4, Moves DEF workers
<1>5. CASE StopHook
  <2>1. UNCHANGED <<app, worker, slot, mutex, user, servers>> BY <1>5 DEF StopHook
  <2>2. signal' \in [Workers -> BOOLEAN] BY <1>5 DEF StopHook, Tell, Shutdown, Types
  <2>3. \/ GoOn("stop") \/ Go("err")
        \/ Go("lock") /\ StopHooks[run.i] \in Workers
    BY <1>5 DEF StopHook
  <2>4. Types' BY <2>1, <2>2, <2>3, ServerTypesStay DEF Types
  <2>5. run.i <= Len(StopHooks) BY <1>5 DEF StopHook
  <2>6. Place(run'.at, run'.i) BY <1>0, <1>1, <2>1, <2>3, <2>5 DEF Place, Places, At
  <2> QED BY <2>1, <2>4, <2>6, Moves DEF workers
<1>6. CASE StopLock \/ StopJoin
  <2>0. run.i <= Len(StopHooks) /\ StopHooks[run.i] \in Workers
    BY <1>6 DEF StopLock, StopJoin, Places, Place, At
  <2>1. UNCHANGED <<app, worker, signal, user, servers>> BY <1>6 DEF StopLock, StopJoin
  <2>2. mutex' \in [Workers -> Users \cup {App, Nobody}] /\ slot' \in [Workers -> BOOLEAN]
    BY <1>6 DEF StopLock, StopJoin, Lock, Join, Types
  <2>3. GoOn("stop") \/ Go("err") \/ Go("join") BY <1>6 DEF StopLock, StopJoin
  <2>4. Types' BY <2>1, <2>2, <2>3, ServerTypesStay DEF Types
  <2>5. Place(run'.at, run'.i) BY <1>0, <1>1, <2>0, <2>1, <2>3 DEF Place, Places, At
  <2> QED BY <2>1, <2>4, <2>5, Moves DEF workers
<1>7. CASE StopServer
  <2>0. run.i <= Len(Order) /\ Order[run.i] \in Servers BY <1>0, <1>1, <1>7 DEF StopServer
  <2>1. UNCHANGED <<workers, task, serve, handle, conn, drain>> BY <1>7 DEF StopServer
  <2>2. tx' \in [Servers -> {"none", "set", "sent"}] /\ missed' \subseteq Servers
    BY <1>7, <2>0 DEF StopServer, Send, Types, ServerTypes
  <2>3. Go("take") \/ GoOn("servers") BY <1>7 DEF StopServer
  <2>4. Types' BY <2>1, <2>2, <2>3 DEF Types, ServerTypes, workers
  <2>5. Place(run'.at, run'.i) BY <1>0, <1>1, <2>0, <2>1, <2>3 DEF Place, Places, At
  <2> QED BY <2>1, <2>4, <2>5, Moves DEF workers
<1>8. CASE TakeServe \/ AwaitServe \/ DrainConns \/ DrainTimeout
  <2>0. run.i <= Len(Order) /\ Order[run.i] \in Servers
    BY <1>0, <1>1, <1>8 DEF TakeServe, AwaitServe, DrainConns, DrainTimeout, Places,
                        Place, At
  <2>1. UNCHANGED <<workers, task, tx, serve, conn>>
    BY <1>8 DEF TakeServe, AwaitServe, DrainConns, DrainTimeout
  <2>2. handle' \in [Servers -> BOOLEAN] /\ missed' \subseteq Servers
    BY <1>8, <2>0 DEF TakeServe, AwaitServe, DrainConns, DrainTimeout, Types, ServerTypes
  <2>3. drain' \in [Servers -> {"no", "empty", "cut"}]
    BY <1>8 DEF TakeServe, AwaitServe, DrainConns, DrainTimeout, Types, ServerTypes
  <2>4. Go("await") \/ Go("drain") \/ GoOn("servers")
    BY <1>8 DEF TakeServe, AwaitServe, DrainConns, DrainTimeout
  <2>5. Types' BY <2>1, <2>2, <2>3, <2>4 DEF Types, ServerTypes, workers
  <2>6. Place(run'.at, run'.i) BY <1>0, <1>1, <2>0, <2>1, <2>4 DEF Place, Places, At
  <2> QED BY <2>1, <2>5, <2>6, Moves DEF workers
<1>9. CASE JoinServer \/ Finish
  <2>0. run.i <= Len(Order) + 1 BY <1>9 DEF JoinServer, Finish, Places, Place, At
  <2>1. UNCHANGED <<workers, servers>> BY <1>9 DEF JoinServer, Finish
  <2>2. \/ GoOn("tasks") /\ run.i <= Len(Order)
        \/ Go("ok")
    BY <1>9 DEF JoinServer, Finish
  <2>3. Types' BY <2>1, <2>2, ServerTypesStay DEF Types, workers
  <2>4. Place(run'.at, run'.i) BY <1>0, <1>1, <2>0, <2>1, <2>2 DEF Place, Places, At
  <2> QED BY <2>1, <2>3, <2>4, Moves DEF workers
<1> QED BY <1>2, <1>3, <1>4, <1>5, <1>6, <1>7, <1>8, <1>9 DEF Run

LEMMA NextTypes == Types /\ Places /\ [Next]_vars => Types' /\ Places'
<1> SUFFICES ASSUME Types, Places, [Next]_vars PROVE Types' /\ Places' OBVIOUS
<1>1. CASE UNCHANGED vars BY <1>1, Moves, ServerTypesStay DEF vars, servers, Types, Places
<1>2. CASE Next
  BY <1>1, <1>2, RunTypes, OthersTypes DEF Next, Returned, Request
<1> QED BY <1>1, <1>2
-----------------------------------------------------------------------------
(* The workers.                                                            *)

LEMMA InitWorkers == Init => WorkerInv
<1> SUFFICES ASSUME Init PROVE WorkerInv OBVIOUS
<1>1. \A u \in Users : user[u].pc = "idle" BY DEF Init, Idle
<1>2. run.at = "start" /\ run.i = 1 BY DEF Init
<1>3. Holders /\ EmptySlots /\ NotYetStarted BY DEF Init, Holders, EmptySlots, Started, NotYetStarted
<1>4. Waiters /\ WaitMeansEnded BY <1>1, <1>2 DEF Waiters, WaitMeansEnded, At
<1>5. WorkersDown BY <1>2 DEF WorkersDown
<1> QED BY <1>3, <1>4, <1>5 DEF WorkerInv

(* The steps that leave the workers and run where they are.                *)
LEMMA WorkersStay ==
  ASSUME WorkerInv, UNCHANGED <<workers, run>> PROVE WorkerInv'
BY DEF WorkerInv, workers, Holders, Waiters, EmptySlots, Started, Ended, NotYetStarted,
       WorkersDown, WaitMeansEnded, At, StartHooks, StopHooks

(* The steps of run that concern no worker.                                *)
LEMMA RunOn ==
  ASSUME Types, Places, WorkerInv, UNCHANGED workers,
         SpawnServers \/ Signal \/ HooksStopped \/ StopServer \/ TakeServe \/ AwaitServe
           \/ DrainConns \/ DrainTimeout \/ ServersStopped \/ JoinServer \/ Finish
  PROVE  WorkerInv'
<1> USE RunIs DEF Ats
<1>1. /\ run.at \notin {"set_task", "lock", "join"} 
      /\ run'.at \notin {"start", "set_task", "lock", "join", "err"}
  BY DEF SpawnServers, Signal, HooksStopped, StopServer, TakeServe, AwaitServe, DrainConns,
         DrainTimeout,
         ServersStopped, JoinServer, Finish, At
<1>2. \/ run'.at = "serve"
      \/ run'.at = "stop" /\ run'.i = 1
      \/ At("stop") /\ run.i > Len(StopHooks)
      \/ run.at \in {"servers", "take", "await", "drain", "tasks"}
  BY DEF SpawnServers, Signal, HooksStopped, StopServer, TakeServe, AwaitServe, DrainConns,
         DrainTimeout,
         ServersStopped, JoinServer, Finish, At
<1>3. UNCHANGED <<app, worker, signal, slot, mutex, user>> BY DEF workers
<1>4. Holders' BY <1>1, <1>3 DEF WorkerInv, Holders, At
<1>5. Waiters' BY <1>1, <1>3 DEF WorkerInv, Waiters, At
<1>6. EmptySlots' BY <1>1, <1>3 DEF WorkerInv, EmptySlots, Started, Ended
<1>7. NotYetStarted' BY <1>1, <1>3 DEF NotYetStarted, At
<1>8. WaitMeansEnded' BY <1>3 DEF WorkerInv, WaitMeansEnded, Ended
<1>9. WorkersDown'
  <2>1. /\ DOMAIN StopHooks = 1..Len(StopHooks) /\ Len(StopHooks) \in Nat
        /\ StopHooks' = StopHooks /\ run.i \in Nat
    BY <1>3, AppIs DEF StopHooks, Types
  <2>2. WorkersDown BY DEF WorkerInv
  <2>3. CASE run'.at = "serve" BY <2>3 DEF WorkersDown
  <2>4. CASE run'.at = "stop" /\ run'.i = 1 BY <2>1, <2>4 DEF WorkersDown
  <2>5. CASE At("stop") /\ run.i > Len(StopHooks)
    <3>1. \A j \in DOMAIN StopHooks : j < run.i BY <2>1, <2>5
    <3> QED BY <1>3, <2>1, <2>2, <2>5, <3>1 DEF WorkersDown, At
  <2>6. CASE run.at \in {"servers", "take", "await", "drain", "tasks"}
    BY <1>3, <2>1, <2>2, <2>6 DEF WorkersDown
  <2> QED BY <1>2, <2>3, <2>4, <2>5, <2>6
<1> QED BY <1>4, <1>5, <1>6, <1>7, <1>8, <1>9 DEF WorkerInv

(* The steps of run that start, tell and await a worker.                   *)
LEMMA RunWorkers ==
  ASSUME Types, Places, WorkerInv,
         StartHook \/ SetTask \/ StopHook \/ StopLock \/ StopJoin
  PROVE  WorkerInv'
<1>0. /\ Len(StartHooks) \in Nat /\ DOMAIN StartHooks = 1..Len(StartHooks)
      /\ Len(StopHooks) \in Nat /\ DOMAIN StopHooks = 1..Len(StopHooks)
      /\ \A j, k \in DOMAIN StartHooks :
              StartHooks[j] = StartHooks[k] /\ StartHooks[j] # Plain => j = k
  BY AppIs
<1>1. run.i \in Nat /\ run.i >= 1 BY DEF Types, Places, Place
<1>2. /\ worker \in [Workers -> {"none", "running", "stopping", "exited", "panicked"}]
      /\ slot \in [Workers -> BOOLEAN] /\ mutex \in [Workers -> Users \cup {App, Nobody}]
  BY DEF Types
<1>3. App \notin Users /\ Nobody \notin Users /\ App # Nobody /\ Plain \notin Workers
  BY NamesAssumption DEF App, Nobody
<1>4. Holders /\ Waiters /\ EmptySlots /\ NotYetStarted /\ WorkersDown /\ WaitMeansEnded
  BY DEF WorkerInv
<1>5. UNCHANGED <<app, user>> /\ StartHooks' = StartHooks /\ StopHooks' = StopHooks
  BY DEF StartHook, SetTask, StopHook, StopLock, StopJoin, StartHooks, StopHooks
<1> USE RunIs DEF Ats
<1>6. CASE StartHook
  <2> DEFINE h == StartHooks[run.i]
  <2>1. At("start") /\ run.i \in DOMAIN StartHooks /\ UNCHANGED <<slot, mutex>>
    BY <1>0, <1>1, <1>6 DEF StartHook
  <2>2. CASE h = Plain /\ worker' = worker /\ (GoOn("start") \/ Go("err"))
    <3>1. \/ run'.at = "start" /\ run'.i = run.i + 1
          \/ run'.at = "err"
      BY <2>2
    <3>2. Holders' BY <1>4, <1>5, <2>1, <3>1 DEF Holders, At
    <3>3. Waiters' BY <1>4, <1>5, <2>1, <3>1 DEF Waiters, At
    <3>4. EmptySlots' BY <1>4, <1>5, <2>1, <2>2, <3>1 DEF EmptySlots, Started, Ended, At
    <3>5. NotYetStarted' BY <1>0, <1>1, <1>4, <1>5, <2>1, <2>2, <3>1 DEF NotYetStarted, At
    <3>6. WorkersDown' BY <3>1 DEF WorkersDown
    <3>7. WaitMeansEnded' BY <1>4, <1>5, <2>2 DEF WaitMeansEnded, Ended
    <3> QED BY <3>2, <3>3, <3>4, <3>5, <3>6, <3>7 DEF WorkerInv
  <2>3. CASE h \in Workers /\ worker' = [worker EXCEPT ![h] = "running"] /\ Go("set_task")
    <3>1. run'.at = "set_task" /\ run'.i = run.i BY <2>3
    <3>2. worker[h] = "none"
      BY <1>0, <1>1, <1>3, <1>4, <2>1, <2>3 DEF NotYetStarted, At
    <3>3. Holders' BY <1>4, <1>5, <2>1, <3>1 DEF Holders, At
    <3>4. Waiters' BY <1>4, <1>5, <2>1, <3>1 DEF Waiters, At
    <3>5. EmptySlots' BY <1>2, <1>4, <1>5, <2>1, <2>3, <3>1 DEF EmptySlots, Started, Ended, At
    <3>6. NotYetStarted' BY <1>0, <1>1, <1>2, <1>4, <1>5, <2>1, <2>3, <3>1 DEF NotYetStarted, At
    <3>7. WorkersDown' BY <3>1 DEF WorkersDown
    <3>8. WaitMeansEnded'
      BY <1>2, <1>4, <1>5, <2>3, <3>2 DEF WaitMeansEnded, Waiters, Ended
    <3> QED BY <3>3, <3>4, <3>5, <3>6, <3>7, <3>8 DEF WorkerInv
  <2> QED BY <1>6, <2>2, <2>3 DEF StartHook
<1>7. CASE SetTask
  <2> DEFINE w == StartHooks[run.i]
  <2>1. /\ At("set_task") /\ run.i \in DOMAIN StartHooks /\ w \in Workers
        /\ UNCHANGED <<worker, mutex>>
        /\ slot' = [slot EXCEPT ![w] = TRUE]
    BY <1>0, <1>1, <1>7 DEF SetTask, Places, Place, At
  <2>2. run'.at = "start" /\ run'.i = run.i + 1 BY <1>7 DEF SetTask
  <2> HIDE DEF w
  <2>3. Holders' BY <1>2, <1>4, <1>5, <2>1, <2>2 DEF Holders, At
  <2>4. Waiters' BY <1>4, <1>5, <2>1, <2>2 DEF Waiters, At
  <2>5. EmptySlots' BY <1>2, <1>4, <1>5, <2>1, <2>2 DEF EmptySlots, Started, Ended, At, w
  <2>6. NotYetStarted' BY <1>0, <1>1, <1>4, <1>5, <2>1, <2>2 DEF NotYetStarted, At
  <2>7. WorkersDown' BY <2>2 DEF WorkersDown
  <2>8. WaitMeansEnded' BY <1>4, <1>5, <2>1 DEF WaitMeansEnded, Ended
  <2> QED BY <2>3, <2>4, <2>5, <2>6, <2>7, <2>8 DEF WorkerInv
<1>8. CASE StopHook
  <2>1. At("stop") /\ run.i \in DOMAIN StopHooks /\ UNCHANGED <<worker, slot, mutex>>
    BY <1>0, <1>1, <1>8 DEF StopHook
  <2>2. \/ run'.at = "stop" /\ run'.i = run.i + 1 /\ StopHooks[run.i] = Plain
        \/ run'.at = "err"
        \/ run'.at = "lock" /\ run'.i = run.i
    BY <1>8 DEF StopHook
  <2>3. Holders' BY <1>4, <1>5, <2>1, <2>2 DEF Holders, At
  <2>4. Waiters' BY <1>4, <1>5, <2>1, <2>2 DEF Waiters, At
  <2>5. EmptySlots' BY <1>4, <1>5, <2>1, <2>2 DEF EmptySlots, Started, Ended, At
  <2>6. NotYetStarted' BY <2>2 DEF NotYetStarted, At
  <2>7. WorkersDown' BY <1>0, <1>1, <1>4, <1>5, <2>1, <2>2 DEF WorkersDown, At
  <2>8. WaitMeansEnded' BY <1>4, <1>5, <2>1 DEF WaitMeansEnded, Ended
  <2> QED BY <2>3, <2>4, <2>5, <2>6, <2>7, <2>8 DEF WorkerInv
<1>9. CASE StopLock
  <2> DEFINE w == StopHooks[run.i]
  <2>1. /\ At("lock") /\ run.i \in DOMAIN StopHooks /\ w \in Workers
        /\ UNCHANGED <<worker, slot>> /\ mutex[w] = Nobody
    BY <1>0, <1>1, <1>9 DEF StopLock, Lock, Places, Place, At
  <2>2. CASE slot[w]
    <3>1. mutex' = [mutex EXCEPT ![w] = App] /\ run'.at = "join" /\ run'.i = run.i
      BY <1>9, <2>2 DEF StopLock, Lock
    <3> HIDE DEF w
    <3>2. Holders' BY <1>2, <1>3, <1>4, <1>5, <2>1, <2>2, <3>1 DEF Holders, At, w
    <3>3. Waiters' BY <1>2, <1>3, <1>4, <1>5, <2>1, <3>1 DEF Waiters, At, w
    <3>4. EmptySlots' BY <1>4, <1>5, <2>1, <3>1 DEF EmptySlots, Started, Ended, At
    <3>5. NotYetStarted' BY <3>1 DEF NotYetStarted, At
    <3>6. WorkersDown' BY <1>4, <1>5, <2>1, <3>1 DEF WorkersDown, At
    <3>7. WaitMeansEnded' BY <1>4, <1>5, <2>1 DEF WaitMeansEnded, Ended
    <3> QED BY <3>2, <3>3, <3>4, <3>5, <3>6, <3>7 DEF WorkerInv
  <2>3. CASE ~slot[w]
    <3>1. mutex' = mutex /\ run'.at = "stop" /\ run'.i = run.i + 1
      BY <1>9, <2>3 DEF StopLock, Lock
    <3>2. worker[w] \in {"none", "exited", "panicked"}
      BY <1>4, <2>1, <2>3 DEF EmptySlots, Started, Ended, At
    <3>3. Holders' BY <1>4, <1>5, <2>1, <3>1 DEF Holders, At
    <3>4. Waiters' BY <1>4, <1>5, <2>1, <3>1 DEF Waiters, At
    <3>5. EmptySlots' BY <1>4, <1>5, <2>1, <3>1 DEF EmptySlots, Started, Ended, At
    <3>6. NotYetStarted' BY <3>1 DEF NotYetStarted, At
    <3>7. WorkersDown' BY <1>0, <1>1, <1>4, <1>5, <2>1, <3>1, <3>2 DEF WorkersDown, At
    <3>8. WaitMeansEnded' BY <1>4, <1>5, <2>1 DEF WaitMeansEnded, Ended
    <3> QED BY <3>3, <3>4, <3>5, <3>6, <3>7, <3>8 DEF WorkerInv
  <2> QED BY <2>2, <2>3
<1>10. CASE StopJoin
  <2> DEFINE w == StopHooks[run.i]
  <2>1. /\ At("join") /\ run.i \in DOMAIN StopHooks /\ w \in Workers
        /\ worker' = worker /\ Ended(w)
        /\ slot' = [slot EXCEPT ![w] = FALSE] /\ mutex' = [mutex EXCEPT ![w] = Nobody]
    BY <1>0, <1>1, <1>10 DEF StopJoin, Join, Places, Place, At
  <2>2. \/ run'.at = "err"
        \/ run'.at = "stop" /\ run'.i = run.i + 1
    BY <1>10 DEF StopJoin
  <2> HIDE DEF w
  <2>3. mutex[w] = App BY <1>4, <2>1 DEF Waiters, w
  <2>4. Holders' BY <1>2, <1>3, <1>4, <1>5, <2>1, <2>2 DEF Holders, At, w
  <2>5. Waiters' BY <1>2, <1>3, <1>4, <1>5, <2>1, <2>2, <2>3 DEF Waiters, At
  <2>6. EmptySlots' BY <1>2, <1>4, <1>5, <2>1, <2>2 DEF EmptySlots, Started, Ended, At
  <2>7. NotYetStarted' BY <2>2 DEF NotYetStarted, At
  <2>8. WorkersDown' BY <1>0, <1>1, <1>4, <1>5, <2>1, <2>2 DEF WorkersDown, At, Ended, w
  <2>9. WaitMeansEnded' BY <1>4, <1>5, <2>1 DEF WaitMeansEnded, Ended
  <2> QED BY <2>4, <2>5, <2>6, <2>7, <2>8, <2>9 DEF WorkerInv
<1> QED BY <1>6, <1>7, <1>8, <1>9, <1>10
(* The steps of the workers and of the holders of their handles.           *)
LEMMA OthersWorkers ==
  ASSUME Types, WorkerInv,
         \/ \E w \in Workers : \/ UserShutdown(w) \/ WorkerSees(w) \/ WorkerEnds(w)
                               \/ \E u \in app.users : UserWait(u, w)
         \/ \E u \in app.users : UserJoin(u) \/ UserDrops(u) \/ UserAgain(u)
  PROVE  WorkerInv'
<1>0. app.users \subseteq Users BY AppIs
<1>2. /\ worker \in [Workers -> {"none", "running", "stopping", "exited", "panicked"}]
      /\ slot \in [Workers -> BOOLEAN] /\ mutex \in [Workers -> Users \cup {App, Nobody}]
      /\ user \in [Users -> [pc : {"idle", "wait", "done"}, w : Workers \cup {Nobody},
                             was : BOOLEAN]]
  BY DEF Types
<1>3. App \notin Users /\ Nobody \notin Users /\ App # Nobody /\ Plain \notin Workers
  BY NamesAssumption DEF App, Nobody
<1>4. Holders /\ Waiters /\ EmptySlots /\ NotYetStarted /\ WorkersDown /\ WaitMeansEnded
  BY DEF WorkerInv
<1>5. UNCHANGED <<app, run>> /\ StartHooks' = StartHooks /\ StopHooks' = StopHooks
  BY DEF UserShutdown, WorkerSees, WorkerEnds, UserWait, UserJoin, UserDrops, UserAgain,
         StartHooks, StopHooks
<1>6. ASSUME NEW w \in Workers, UserShutdown(w) PROVE WorkerInv'
  <2>1. UNCHANGED <<worker, slot, mutex, user>> BY <1>6 DEF UserShutdown
  <2> QED BY <1>4, <1>5, <2>1
        DEF WorkerInv, Holders, Waiters, EmptySlots, Started, Ended, NotYetStarted,
            WorkersDown, WaitMeansEnded, At
<1>7. ASSUME NEW w \in Workers, WorkerSees(w) \/ WorkerEnds(w) PROVE WorkerInv'
  <2>1. PICK e \in {"stopping", "exited", "panicked"} :
          /\ worker' = [worker EXCEPT ![w] = e] /\ worker[w] \in {"running", "stopping"}
          /\ UNCHANGED <<slot, mutex, user>>
    BY <1>7 DEF WorkerSees, WorkerEnds
  <2>2. Holders' BY <1>4, <1>5, <2>1 DEF Holders, At
  <2>3. Waiters' BY <1>4, <1>5, <2>1 DEF Waiters, At
  <2>4. EmptySlots' BY <1>2, <1>4, <1>5, <2>1 DEF EmptySlots, Started, Ended
  <2>5. NotYetStarted' BY <1>2, <1>4, <1>5, <2>1 DEF NotYetStarted, At
  <2>6. WorkersDown' BY <1>2, <1>4, <1>5, <2>1 DEF WorkersDown
  <2>7. WaitMeansEnded' BY <1>2, <1>4, <1>5, <2>1 DEF WaitMeansEnded, Waiters, Ended
  <2> QED BY <2>2, <2>3, <2>4, <2>5, <2>6, <2>7 DEF WorkerInv
<1>8. ASSUME NEW w \in Workers, NEW u \in app.users, UserWait(u, w) PROVE WorkerInv'
  <2>0. u \in Users BY <1>0
  <2>1. /\ UNCHANGED <<worker, slot>> /\ user[u].pc = "idle" /\ mutex[w] = Nobody
        /\ user' = [user EXCEPT ![u] = [pc |-> IF slot[w] THEN "wait" ELSE "done", w |-> w,
                                        was |-> Started(w)]]
        /\ mutex' = IF slot[w] THEN [mutex EXCEPT ![w] = u] ELSE mutex
    BY <1>8 DEF UserWait, Lock
  <2>2. /\ user'[u].pc = (IF slot[w] THEN "wait" ELSE "done")
        /\ user'[u].w = w /\ user'[u].was = Started(w)
        /\ \A v \in Users : v # u => user'[v] = user[v]
    BY <1>2, <2>0, <2>1
  <2>3. Holders' BY <1>2, <1>3, <1>4, <1>5, <2>0, <2>1, <2>2 DEF Holders, At
  <2>4. Waiters' BY <1>2, <1>3, <1>4, <1>5, <2>0, <2>1, <2>2 DEF Waiters, At
  <2>5. EmptySlots' BY <1>4, <1>5, <2>1 DEF EmptySlots, Started, Ended
  <2>6. NotYetStarted' BY <1>4, <1>5, <2>1 DEF NotYetStarted, At
  <2>7. WorkersDown' BY <1>4, <1>5, <2>1 DEF WorkersDown
  <2>8. WaitMeansEnded' BY <1>4, <2>0, <2>1, <2>2 DEF WaitMeansEnded, EmptySlots, Ended
  <2> QED BY <2>3, <2>4, <2>5, <2>6, <2>7, <2>8 DEF WorkerInv
<1>9. ASSUME NEW u \in app.users, UserJoin(u) PROVE WorkerInv'
  <2> DEFINE w == user[u].w
  <2>0. u \in Users BY <1>0
  <2>1. /\ worker' = worker /\ user[u].pc = "wait" /\ Ended(w)
        /\ slot' = [slot EXCEPT ![w] = FALSE] /\ mutex' = [mutex EXCEPT ![w] = Nobody]
        /\ user' = [user EXCEPT ![u].pc = "done"]
    BY <1>9 DEF UserJoin, Join
  <2>2. w \in Workers /\ mutex[w] = u BY <1>4, <2>0, <2>1 DEF Waiters
  <2>3. /\ user'[u].pc = "done" /\ user'[u].w = w
        /\ \A v \in Users : v # u => user'[v] = user[v]
    BY <1>2, <2>0, <2>1
  <2> HIDE DEF w
  <2>4. Holders' BY <1>2, <1>3, <1>4, <1>5, <2>0, <2>1, <2>2, <2>3 DEF Holders, At
  <2>5. Waiters' BY <1>2, <1>3, <1>4, <1>5, <2>0, <2>1, <2>2, <2>3 DEF Waiters, Holders, At
  <2>6. EmptySlots' BY <1>2, <1>4, <1>5, <2>1, <2>2 DEF EmptySlots, Started, Ended
  <2>7. NotYetStarted' BY <1>4, <1>5, <2>1 DEF NotYetStarted, At
  <2>8. WorkersDown' BY <1>4, <1>5, <2>1 DEF WorkersDown
  <2>9. WaitMeansEnded' BY <1>4, <2>0, <2>1, <2>3 DEF WaitMeansEnded, Ended
  <2> QED BY <2>4, <2>5, <2>6, <2>7, <2>8, <2>9 DEF WorkerInv
<1>10. ASSUME NEW u \in app.users, UserDrops(u) PROVE WorkerInv'
  <2> DEFINE w == user[u].w
  <2>0. u \in Users BY <1>0
  <2>1. /\ UNCHANGED <<worker, slot>> /\ user[u].pc = "wait"
        /\ mutex' = [mutex EXCEPT ![w] = Nobody] /\ user' = [user EXCEPT ![u] = Idle]
    BY <1>10 DEF UserDrops
  <2>2. w \in Workers /\ mutex[w] = u BY <1>4, <2>0, <2>1 DEF Waiters
  <2>3. user'[u].pc = "idle" /\ (\A v \in Users : v # u => user'[v] = user[v])
    BY <1>2, <2>0, <2>1 DEF Idle
  <2> HIDE DEF w
  <2>4. Holders' BY <1>2, <1>3, <1>4, <1>5, <2>0, <2>1, <2>2, <2>3 DEF Holders, At
  <2>5. Waiters' BY <1>2, <1>3, <1>4, <1>5, <2>0, <2>1, <2>2, <2>3 DEF Waiters, Holders, At
  <2>6. EmptySlots' BY <1>4, <1>5, <2>1 DEF EmptySlots, Started, Ended
  <2>7. NotYetStarted' BY <1>4, <1>5, <2>1 DEF NotYetStarted, At
  <2>8. WorkersDown' BY <1>4, <1>5, <2>1 DEF WorkersDown
  <2>9. WaitMeansEnded' BY <1>4, <2>0, <2>1, <2>3 DEF WaitMeansEnded, Ended
  <2> QED BY <2>4, <2>5, <2>6, <2>7, <2>8, <2>9 DEF WorkerInv
<1>11. ASSUME NEW u \in app.users, UserAgain(u) PROVE WorkerInv'
  <2>0. u \in Users BY <1>0
  <2>1. /\ UNCHANGED <<worker, slot, mutex>> /\ user[u].pc = "done"
        /\ user' = [user EXCEPT ![u] = Idle]
    BY <1>11 DEF UserAgain
  <2>2. user'[u].pc = "idle" /\ (\A v \in Users : v # u => user'[v] = user[v])
    BY <1>2, <2>0, <2>1 DEF Idle
  <2>3. Holders' BY <1>2, <1>3, <1>4, <1>5, <2>0, <2>1, <2>2 DEF Holders, At
  <2>4. Waiters' BY <1>4, <1>5, <2>0, <2>1, <2>2 DEF Waiters, At
  <2>5. EmptySlots' BY <1>4, <1>5, <2>1 DEF EmptySlots, Started, Ended
  <2>6. NotYetStarted' BY <1>4, <1>5, <2>1 DEF NotYetStarted, At
  <2>7. WorkersDown' BY <1>4, <1>5, <2>1 DEF WorkersDown
  <2>8. WaitMeansEnded' BY <1>4, <2>0, <2>1, <2>2 DEF WaitMeansEnded, Ended
  <2> QED BY <2>3, <2>4, <2>5, <2>6, <2>7, <2>8 DEF WorkerInv
<1> QED BY <1>6, <1>7, <1>8, <1>9, <1>10, <1>11

LEMMA NextWorkers == Types /\ Places /\ WorkerInv /\ [Next]_vars => WorkerInv'
<1> SUFFICES ASSUME Types, Places, WorkerInv, [Next]_vars PROVE WorkerInv' OBVIOUS
<1>1. CASE UNCHANGED vars BY <1>1, WorkersStay DEF vars, workers
<1>2. CASE Run \/ Signal
  <2>1. CASE SpawnServers \/ Signal \/ HooksStopped \/ StopServer \/ TakeServe \/ AwaitServe
             \/ DrainConns \/ DrainTimeout \/ ServersStopped \/ JoinServer \/ Finish
    <3>1. UNCHANGED workers
      BY <2>1 DEF SpawnServers, Signal, HooksStopped, StopServer, TakeServe, AwaitServe,
                  DrainConns, DrainTimeout, ServersStopped, JoinServer, Finish
    <3> QED BY <2>1, <3>1, RunOn
  <2> QED BY <1>2, <2>1, RunWorkers DEF Run
<1>3. CASE \/ \E s \in Servers : Server(s) \/ TlsFails(s) \/ ServeFails(s)
           \/ \E s \in Servers, c \in Conns : Upgrade(s, c) \/ Upgraded(s, c) \/ Disconnect(s, c)
  BY <1>3, WorkersStay DEF Server, Bind, Store, Serve, SpawnServe, StoreServe, EndServe,
                           TlsFails, ServeFails, Upgrade, Upgraded, Disconnect, SetConn
<1> QED BY <1>1, <1>2, <1>3, OthersWorkers DEF Next, Returned, Request
-----------------------------------------------------------------------------
(* The servers.                                                            *)

LEMMA InitServers == Init => ServerInv
<1> SUFFICES ASSUME Init PROVE ServerInv OBVIOUS
<1>1. run.at = "start" BY DEF Init
<1> QED BY <1>1 DEF Init, ServerInv, Spawned, Handles, ServersDown, Joined, At

LEMMA ServersStay ==
  ASSUME ServerInv, UNCHANGED <<app, run, servers>> PROVE ServerInv'
BY DEF ServerInv, servers, Spawned, Handles, Taken, ServersDown, NotServing, Closed,
       Joined, At, Order

(* A step of one server: what is down stays down.                          *)
LEMMA ServerSteps ==
  ASSUME Types, Places, ServerInv, NEW s \in Servers,
         Server(s) \/ TlsFails(s) \/ ServeFails(s)
  PROVE  ServerInv'
<1>0. DOMAIN Order = 1..Len(Order) /\ (\A j \in DOMAIN Order : Order[j] \in Servers)
  BY AppIs
<1>1. /\ task \in [Servers -> {"none", "spawned", "bound", "stored", "ended"}]
      /\ serve \in [Servers -> {"none", "on", "off", "failed"}] /\ handle \in [Servers -> BOOLEAN]
      /\ conn \in [Servers -> [Conns -> {"none", "upgrade", "open", "late"}]]
      /\ drain \in [Servers -> {"no", "empty", "cut"}]
      /\ Kind \in [Servers -> {"http", "grpc", "ws"}]
  BY KindAssumption DEF Types, ServerTypes
<1>2. UNCHANGED <<app, run, missed>> /\ Order' = Order
  BY DEF Server, Bind, Store, Serve, SpawnServe, StoreServe, EndServe, TlsFails,
         ServeFails, workers, Order
<1>3. Spawned /\ Handles /\ ServersDown /\ Joined BY DEF ServerInv
<1>4. ASSUME NEW r \in Servers PROVE task[r] = "ended" => task'[r] = "ended"
  BY <1>1 DEF Server, Bind, Store, Serve, SpawnServe, StoreServe, EndServe, TlsFails,
              ServeFails
<1>5. ASSUME NEW r \in Servers PROVE NotServing(r) => NotServing(r)'
  BY <1>1 DEF Server, Bind, Store, Serve, SpawnServe, StoreServe, EndServe, TlsFails,
              ServeFails, NotServing
<1>6. ASSUME NEW r \in Servers, NotServing(r), Closed(r) PROVE Closed(r)'
  BY <1>1, <1>6 DEF Server, Bind, Store, Serve, SpawnServe, StoreServe, EndServe, TlsFails,
              ServeFails, NotServing, Closed
<1>7. Spawned'
  <2>1. ASSUME NEW r \in Servers
        PROVE  /\ run'.at \in {"start", "set_task"} => task'[r] = "none"
               /\ task'[r] \in {"none", "spawned", "stored"} => serve'[r] = "none"
               /\ Kind[r] # "ws" => serve'[r] = "none"
               /\ serve'[r] = "none" => (\A c \in Conns : conn'[r][c] = "none") /\ ~handle'[r]
               /\ handle'[r] => task'[r] = "ended"
    <3>1. /\ run.at \in {"start", "set_task"} => task[r] = "none" /\ task[s] = "none"
          /\ task[r] \in {"none", "spawned", "stored"} => serve[r] = "none"
          /\ task[s] \in {"none", "spawned", "stored"} => serve[s] = "none"
          /\ Kind[r] # "ws" => serve[r] = "none"
          /\ serve[r] = "none" => (\A c \in Conns : conn[r][c] = "none") /\ ~handle[r]
          /\ handle[r] => task[r] = "ended"
      BY <1>3 DEF Spawned
    <3>2. CASE Bind(s) BY <1>1, <1>2, <3>1, <3>2 DEF Bind
    <3>3. CASE Store(s) BY <1>1, <1>2, <3>1, <3>3 DEF Store
    <3>4. CASE Serve(s) \/ TlsFails(s) BY <1>1, <1>2, <3>1, <3>4 DEF Serve, TlsFails
    <3>5. CASE SpawnServe(s) BY <1>1, <1>2, <3>1, <3>5 DEF SpawnServe
    <3>6. CASE StoreServe(s) BY <1>1, <1>2, <3>1, <3>6 DEF StoreServe
    <3>7. CASE EndServe(s) BY <1>1, <1>2, <3>1, <3>7 DEF EndServe
    <3>8. CASE ServeFails(s) BY <1>1, <1>2, <3>1, <3>8 DEF ServeFails
    <3> QED BY <3>2, <3>3, <3>4, <3>5, <3>6, <3>7, <3>8 DEF Server
  <2> QED BY <2>1 DEF Spawned
<1>8. Handles'
  <2>1. ASSUME NEW r \in Servers, task'[r] = "ended", serve'[r] # "none", ~handle'[r]
        PROVE  task[r] = "ended" /\ serve[r] # "none" /\ ~handle[r]
    <3>1. /\ task[s] \in {"none", "spawned", "stored"} => serve[s] = "none"
          /\ Kind[s] # "ws" => serve[s] = "none"
      BY <1>3 DEF Spawned
    <3> QED BY <1>1, <2>1, <3>1
          DEF Server, Bind, Store, Serve, SpawnServe, StoreServe, EndServe, TlsFails,
              ServeFails
  <2>2. ASSUME NEW r \in Servers, Taken(r) PROVE Taken(r)' BY <1>2, <2>2 DEF Taken
  <2> QED BY <1>3, <2>1, <2>2 DEF Handles
<1>9. ServersDown'
  <2>1. At("drain") => Order[run.i] \in Servers
    BY <1>0, AppIs DEF Types, Places, Place, At
  <2> QED BY <1>0, <1>2, <1>3, <1>5, <1>6, <2>1 DEF ServersDown, At
<1>10. Joined' BY <1>0, <1>2, <1>3, <1>4 DEF Joined, At
<1> QED BY <1>7, <1>8, <1>9, <1>10 DEF ServerInv

(* A step of one connection: what is drained stays so.                     *)
LEMMA ConnSteps ==
  ASSUME Types, Places, ServerInv, NEW s \in Servers, NEW c \in Conns,
         Upgrade(s, c) \/ Upgraded(s, c) \/ Disconnect(s, c)
  PROVE  ServerInv'
<1>0. DOMAIN Order = 1..Len(Order) /\ (\A j \in DOMAIN Order : Order[j] \in Servers)
  BY AppIs
<1>1. UNCHANGED <<app, run, task, tx, serve, handle, drain, missed>> /\ Order' = Order
  BY DEF Upgrade, Upgraded, Disconnect, SetConn, workers, Order
<1>2. Spawned /\ Handles /\ ServersDown /\ Joined BY DEF ServerInv
<1>3. conn \in [Servers -> [Conns -> {"none", "upgrade", "open", "late"}]] BY DEF Types, ServerTypes
<1>4. PICK v : /\ SetConn(s, c, v)
               /\ v # "none" => conn[s][c] = "upgrade" \/ serve[s] # "none"
               /\ v = "open" => conn[s][c] = "upgrade" /\ drain[s] = "no"
  BY DEF Upgrade, Upgraded, Disconnect
<1>5. \A r \in Servers, d \in Conns :
        conn'[r][d] = IF r = s /\ d = c THEN v ELSE conn[r][d]
  BY <1>3, <1>4 DEF SetConn
<1>6. serve[s] = "none" => \A d \in Conns : conn[s][d] = "none" BY <1>2 DEF Spawned
<1>7. Spawned' BY <1>1, <1>2, <1>4, <1>5, <1>6 DEF Spawned
<1>8. Handles' BY <1>1, <1>2 DEF Handles, Taken
<1>9. ASSUME NEW r \in Servers, Closed(r) PROVE Closed(r)'
  BY <1>1, <1>4, <1>5, <1>6, <1>9 DEF Closed
<1>10. ASSUME NEW r \in Servers, NotServing(r) PROVE NotServing(r)'
  BY <1>1, <1>10 DEF NotServing
<1>11. ServersDown'
  <2>1. At("drain") => Order[run.i] \in Servers
    BY <1>0, AppIs DEF Types, Places, Place, At
  <2> QED BY <1>0, <1>1, <1>2, <1>9, <1>10, <2>1 DEF ServersDown, At
<1>12. Joined' BY <1>1, <1>2 DEF Joined, At
<1> QED BY <1>7, <1>8, <1>11, <1>12 DEF ServerInv

(* The steps of run: before the servers are stopped, and while they are.   *)
LEMMA RunServers ==
  ASSUME Types, Places, ServerInv, Run \/ Signal
  PROVE  ServerInv'
<1>0. /\ Len(Order) \in Nat /\ DOMAIN Order = 1..Len(Order)
      /\ \A j \in DOMAIN Order : Order[j] \in Servers
      /\ \A j, k \in DOMAIN Order : Order[j] = Order[k] => j = k
  BY AppIs
<1>1. /\ task \in [Servers -> {"none", "spawned", "bound", "stored", "ended"}]
      /\ serve \in [Servers -> {"none", "on", "off", "failed"}] /\ handle \in [Servers -> BOOLEAN]
      /\ conn \in [Servers -> [Conns -> {"none", "upgrade", "open", "late"}]]
      /\ drain \in [Servers -> {"no", "empty", "cut"}]
      /\ Kind \in [Servers -> {"http", "grpc", "ws"}]
  BY KindAssumption DEF Types, ServerTypes
<1>1i. run.i \in Nat /\ run.i >= 1 BY DEF Types, Places, Place
<1>2. Order' = Order
  BY DEF Run, StartHook, SetTask, SpawnServers, Signal, StopHook, StopLock, StopJoin,
         HooksStopped, StopServer, TakeServe, AwaitServe, DrainConns, DrainTimeout, ServersStopped,
         JoinServer, Finish, workers, Order
<1>3. Spawned /\ Handles /\ ServersDown /\ Joined BY DEF ServerInv
<1> USE RunIs DEF Ats
<1>4. CASE \/ StartHook \/ SetTask \/ Signal \/ StopHook \/ StopLock \/ StopJoin \/ HooksStopped
  <2>1. UNCHANGED <<task, tx, serve, handle, conn, drain, missed>>
    BY <1>4 DEF StartHook, SetTask, Signal, StopHook, StopLock, StopJoin, HooksStopped, servers
  <2>2. /\ run'.at \in {"start", "set_task"} => run.at \in {"start", "set_task"}
        /\ run.at \in {"start", "set_task", "serve", "stop", "lock", "join"}
        /\ \/ run'.at \in {"start", "set_task", "stop", "lock", "join", "err"}
           \/ run'.at = "servers" /\ run'.i = 1
    BY <1>4 DEF StartHook, SetTask, Signal, StopHook, StopLock, StopJoin, HooksStopped, At
  <2>3. Spawned' BY <1>3, <2>1, <2>2 DEF Spawned
  <2>4. Handles' BY <1>3, <2>1, <2>2 DEF Handles, Taken
  <2>5. ServersDown' BY <1>0, <1>2, <2>2 DEF ServersDown, At
  <2>6. Joined' BY <2>2 DEF Joined, At
  <2> QED BY <2>3, <2>4, <2>5, <2>6 DEF ServerInv
<1>5. CASE SpawnServers
  <2>1. /\ UNCHANGED <<tx, serve, handle, conn, drain, missed>> /\ run'.at = "serve"
        /\ At("start") /\ \A s \in Servers : task'[s] \in {"none", "spawned"}
    BY <1>5 DEF SpawnServers
  <2>2. Spawned' BY <1>3, <2>1 DEF Spawned, At
  <2>3. Handles' BY <2>1 DEF Handles
  <2>4. ServersDown' BY <2>1 DEF ServersDown, At
  <2>5. Joined' BY <2>1 DEF Joined, At
  <2> QED BY <2>2, <2>3, <2>4, <2>5 DEF ServerInv
<1>6. CASE StopServer
  <2> DEFINE s == Order[run.i]
  <2>1. /\ UNCHANGED <<task, serve, handle, conn, drain>> /\ At("servers")
        /\ run.i \in DOMAIN Order /\ s \in Servers /\ missed \subseteq missed'
    BY <1>0, <1>1i, <1>6 DEF StopServer, Send
  <2>2. \/ run'.at = "take" /\ run'.i = run.i
        \/ run'.at = "servers" /\ run'.i = run.i + 1 /\ Kind[s] # "ws"
    BY <1>6 DEF StopServer
  <2> HIDE DEF s
  <2>3. Spawned' BY <1>3, <2>1, <2>2 DEF Spawned
  <2>4. ASSUME NEW r \in Servers, Taken(r) PROVE Taken(r)'
    BY <1>0, <1>1i, <1>2, <2>1, <2>2, <2>4 DEF Taken, At
  <2>5. Handles' BY <1>3, <2>1, <2>4 DEF Handles
  <2>6. Kind[s] # "ws" => NotServing(s) /\ Closed(s)
    BY <1>3, <2>1 DEF Spawned, NotServing, Closed
  <2>7. \A r \in Servers : NotServing(r) => NotServing(r)' BY <2>1 DEF NotServing
  <2>7c. \A r \in Servers : Closed(r) => Closed(r)' BY <2>1 DEF Closed
  <2>8. ServersDown'
    BY <1>0, <1>1i, <1>2, <1>3, <2>1, <2>2, <2>6, <2>7, <2>7c DEF ServersDown, At, s
  <2>9. Joined' BY <2>2 DEF Joined, At
  <2> QED BY <2>3, <2>5, <2>8, <2>9 DEF ServerInv
<1>7. CASE TakeServe
  <2> DEFINE s == Order[run.i]
  <2>1. /\ UNCHANGED <<task, serve, conn, drain>> /\ At("take")
        /\ run.i \in DOMAIN Order /\ s \in Servers
        /\ handle' = [handle EXCEPT ![s] = FALSE]
        /\ missed' = IF ~handle[s] /\ task[s] # "ended" THEN missed \cup {s} ELSE missed
    BY <1>0, <1>1i, <1>7 DEF TakeServe, Places, Place, At
  <2>2. run'.at = (IF handle[s] THEN "await" ELSE "drain") /\ run'.i = run.i
    BY <1>7 DEF TakeServe
  <2>3. ~handle[s] /\ task[s] = "ended" => serve[s] = "none"
    <3>1. ~Taken(s) BY <1>0, <1>1i, <2>1 DEF Taken, At
    <3> QED BY <1>1, <1>3, <2>1, <3>1 DEF Handles
  <2> HIDE DEF s
  <2>4. Spawned' BY <1>1, <1>3, <2>1, <2>2 DEF Spawned
  <2>5. ASSUME NEW r \in Servers, Taken(r) PROVE Taken(r)'
    BY <1>0, <1>1i, <1>2, <2>1, <2>2, <2>5 DEF Taken, At
  <2>6. ASSUME NEW r \in Servers, r = s PROVE Taken(r)'
    BY <1>0, <1>1i, <1>2, <2>1, <2>2, <2>6 DEF Taken, s
  <2>7. Handles' BY <1>1, <1>3, <2>1, <2>5, <2>6 DEF Handles
  <2>8. \A r \in Servers : NotServing(r) => NotServing(r)' BY <2>1 DEF NotServing
  <2>8c. \A r \in Servers : Closed(r) => Closed(r)' BY <2>1 DEF Closed
  <2>9. ~handle[s] => s \in missed' \/ NotServing(s) BY <2>1, <2>3 DEF NotServing
  <2>10. ServersDown'
    BY <1>0, <1>1i, <1>2, <1>3, <2>1, <2>2, <2>8, <2>8c, <2>9 DEF ServersDown, At, s
  <2>11. Joined' BY <2>2 DEF Joined, At
  <2> QED BY <2>4, <2>7, <2>10, <2>11 DEF ServerInv
<1>8. CASE AwaitServe \/ DrainConns \/ DrainTimeout
  <2> DEFINE s == Order[run.i]
  <2>1. /\ UNCHANGED <<task, serve, handle, conn, missed>>
        /\ run.at \in {"await", "drain"} /\ run.i \in DOMAIN Order /\ s \in Servers
    BY <1>0, <1>1i, <1>8 DEF AwaitServe, DrainConns, DrainTimeout, Places, Place, At
  <2>2. \/ /\ At("await") /\ run'.at = "drain" /\ run'.i = run.i
           /\ serve[s] = "off" /\ drain' = drain
        \/ /\ run'.at = "servers" /\ run'.i = run.i + 1
           /\ At("await") => serve[s] = "failed"
           /\ \/ drain' = [drain EXCEPT ![s] = "cut"]
              \/ /\ drain' = [drain EXCEPT ![s] = "empty"]
                 /\ \A c \in Conns : conn[s][c] # "open"
    BY <1>8 DEF AwaitServe, DrainConns, DrainTimeout, Drained, At
  <2>3. s \in missed \/ NotServing(s)
    BY <1>3, <2>1, <2>2 DEF ServersDown, NotServing, At
  <2> HIDE DEF s
  <2>4. Spawned' BY <1>3, <2>1, <2>2 DEF Spawned
  <2>5. ASSUME NEW r \in Servers, Taken(r) PROVE Taken(r)'
    BY <1>0, <1>1i, <1>2, <2>1, <2>2, <2>5 DEF Taken, At
  <2>6. Handles' BY <1>3, <2>1, <2>5 DEF Handles
  <2>7. \A r \in Servers : NotServing(r) => NotServing(r)' BY <2>1 DEF NotServing
  <2>8. \A r \in Servers : Closed(r) => Closed(r)' BY <1>1, <2>1, <2>2 DEF Closed
  <2>9. ASSUME NEW r \in Servers, r = s, run'.at = "servers" PROVE Closed(r)'
    BY <1>1, <2>1, <2>2, <2>9 DEF Closed
  <2>10. ServersDown'
    BY <1>0, <1>1i, <1>2, <1>3, <2>1, <2>2, <2>3, <2>7, <2>8, <2>9 DEF ServersDown, At, s
  <2>11. Joined' BY <2>2 DEF Joined, At
  <2> QED BY <2>4, <2>6, <2>10, <2>11 DEF ServerInv
<1>9. CASE ServersStopped \/ JoinServer \/ Finish
  <2>1. UNCHANGED <<task, serve, handle, conn, drain, missed>>
    BY <1>9 DEF ServersStopped, JoinServer, Finish, servers
  <2>2. \/ At("servers") /\ run.i > Len(Order) /\ run'.at = "tasks" /\ run'.i = 1
        \/ At("tasks") /\ run'.at = "tasks" /\ run'.i = run.i + 1 /\ task[Order[run.i]] = "ended"
        \/ At("tasks") /\ run.i > Len(Order) /\ run'.at = "ok"
    BY <1>9 DEF ServersStopped, JoinServer, Finish
  <2>3. Spawned' BY <1>3, <2>1, <2>2 DEF Spawned
  <2>4. ASSUME NEW r \in Servers, Taken(r) PROVE Taken(r)'
    BY <1>0, <1>1i, <1>2, <2>1, <2>2, <2>4 DEF Taken, At
  <2>5. Handles' BY <1>3, <2>1, <2>4 DEF Handles
  <2>6. \A r \in Servers : NotServing(r) => NotServing(r)' BY <2>1 DEF NotServing
  <2>6c. \A r \in Servers : Closed(r) => Closed(r)' BY <2>1 DEF Closed
  <2>7. ServersDown' BY <1>0, <1>1i, <1>2, <1>3, <2>1, <2>2, <2>6, <2>6c DEF ServersDown, At
  <2>8. Joined' BY <1>0, <1>1i, <1>2, <1>3, <2>1, <2>2 DEF Joined, At
  <2> QED BY <2>3, <2>5, <2>7, <2>8 DEF ServerInv
<1> QED BY <1>4, <1>5, <1>6, <1>7, <1>8, <1>9 DEF Run

LEMMA NextServers == Types /\ Places /\ ServerInv /\ [Next]_vars => ServerInv'
<1> SUFFICES ASSUME Types, Places, ServerInv, [Next]_vars PROVE ServerInv' OBVIOUS
<1>1. CASE UNCHANGED vars BY <1>1, ServersStay DEF vars, servers
<1>2. CASE \/ \E w \in Workers : \/ UserShutdown(w) \/ WorkerSees(w) \/ WorkerEnds(w)
                                 \/ \E u \in app.users : UserWait(u, w)
           \/ \E u \in app.users : UserJoin(u) \/ UserDrops(u) \/ UserAgain(u)
  BY <1>2, ServersStay DEF UserShutdown, WorkerSees, WorkerEnds, UserWait, UserJoin,
                           UserDrops, UserAgain
<1> QED BY <1>1, <1>2, RunServers, ServerSteps, ConnSteps DEF Next, Returned, Request

-----------------------------------------------------------------------------
(* The theorems.                                                           *)

LEMMA Invariance == Spec => []IInv
<1>1. Init => IInv BY InitTypes, InitWorkers, InitServers DEF IInv
<1>2. IInv /\ [Next]_vars => IInv' BY NextTypes, NextWorkers, NextServers DEF IInv
<1> QED BY <1>1, <1>2, PTL DEF Spec

\* In every application the state stays in its type: no loop of run leaves its
\* hooks or servers, and the lock of a slot is held only by one that waits for
\* the task in it (ecat/src/lib.rs:44-79, worker.rs:39-50).
THEOREM TypeCorrect == Spec => []TypeOK
<1>1. ASSUME IInv PROVE TypeOK
  <2>1. Types /\ Places /\ Holders BY <1>1 DEF IInv, WorkerInv
  <2>2. run.at \in Ats /\ run.i \in Nat /\ Place(run.at, run.i) BY <2>1 DEF Types, Places
  <2>3. Len(StartHooks) \in Nat /\ Len(StopHooks) \in Nat /\ Len(Order) \in Nat
    BY <2>1, AppIs
  <2>4. run.i \in 1..(1 + Len(StartHooks) + Len(StopHooks) + Len(Order))
    BY <2>2, <2>3 DEF Place, Ats
  <2> QED BY <2>1, <2>2, <2>4 DEF TypeOK, Types, ServerTypes, Holders, Ats
<1> QED BY <1>1, Invariance, PTL

\* However many hold clones of a WorkerHandle and wait at once, and whoever
\* drops its wait, a wait that returns means that the worker has ended, unless
\* it began before the task was in its slot (worker.rs:37-50).
THEOREM WaitMeansEndedHolds == Spec => []WaitMeansEnded
<1>1. IInv => WaitMeansEnded BY DEF IInv, WorkerInv
<1> QED BY <1>1, Invariance, PTL

\* Whatever hooks and servers an application has, run returns Ok only when its
\* workers and its server tasks have ended and, for a WebSocket server whose stop
\* did not come too early, when its serve loop is over and no connection is left
\* of those that were in its JoinSet, unless the drain was cut short by its
\* deadline or by an error of the serve loop (ecat/src/lib.rs:61-79,
\* ecat-transport-ws/src/lib.rs:111-163).
THEOREM OkMeansDownHolds == Spec => []OkMeansDown
<1>1. ASSUME IInv PROVE OkMeansDown
  <2> SUFFICES ASSUME At("ok") PROVE OkMeansDown BY DEF OkMeansDown
  <2>1. /\ WorkersDown /\ ServersDown /\ Joined /\ Spawned
        /\ \A i \in DOMAIN Order : Order[i] \in Servers
    BY <1>1, AppIs DEF IInv, WorkerInv, ServerInv
  <2>2. \A i \in DOMAIN StopHooks : StopHooks[i] # Plain =>
          worker[StopHooks[i]] \in {"none", "exited", "panicked"}
    BY <2>1 DEF WorkersDown, At
  <2>3. \A i \in DOMAIN Order :
          /\ task[Order[i]] = "ended"
          /\ Order[i] \notin missed =>
               /\ serve[Order[i]] # "on"
               /\ \/ drain[Order[i]] = "cut"
                  \/ \A c \in Conns : conn[Order[i]][c] # "open"
    BY <2>1 DEF ServersDown, NotServing, Closed, Spawned, Joined, At
  <2> QED BY <2>2, <2>3 DEF OkMeansDown
<1> QED BY <1>1, Invariance, PTL
=============================================================================
