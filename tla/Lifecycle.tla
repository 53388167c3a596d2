------------------------------ MODULE Lifecycle ------------------------------
(***************************************************************************)
(* The life of an application (crate ecat): App::run with its hooks, the   *)
(* background workers of WorkerHook and WorkerHandle with the watch        *)
(* channel of ecat-data's Shutdown, and start and stop of the HTTP, gRPC   *)
(* and WebSocket servers, which run starts as tasks of their own.          *)
(*                                                                         *)
(* Workers are the application's futures: they may end, panic, or stop     *)
(* when they see the signal. Others hold clones of the WorkerHandle, call  *)
(* shutdown and wait, and may drop a wait they began. run is called once.  *)
(* A signal that arrives before wait_for_shutdown has installed its        *)
(* handlers ends the process and is not a step here.                       *)
(***************************************************************************)
EXTENDS Integers, Sequences

CONSTANTS
  Workers, Plain,     \* names of workers, and of a hook that may fail
  Servers,            \* names
  Kind,               \* [Servers -> {"http", "grpc", "ws"}]
  Users,              \* holders of clones of every WorkerHandle
  Apps,               \* the applications to check: start and stop, the hooks in
                      \* order; order, the servers; users of the handles
  Conns               \* bound: the WebSocket connections a server has at a time

ASSUME KindAssumption == Kind \in [Servers -> {"http", "grpc", "ws"}]
ASSUME AppsAssumption ==
  \A a \in Apps : /\ a.start \in Seq(Workers \cup {Plain}) /\ a.stop \in Seq(Workers \cup {Plain})
                  /\ a.order \in Seq(Servers) /\ a.users \subseteq Users
ASSUME NamesAssumption == Plain \notin Workers /\ "app" \notin Users /\ "nobody" \notin Users
\* background_worker and server take what they register by value
\* (worker.rs:137-156, ecat/src/lib.rs:103-106): each is registered once.
ASSUME OnceAssumption ==
  \A a \in Apps :
    /\ \A i, j \in DOMAIN a.start : a.start[i] = a.start[j] /\ a.start[i] # Plain => i = j
    /\ \A i, j \in DOMAIN a.order : a.order[i] = a.order[j] => i = j

VARIABLES
  app,      \* the application
  run,      \* at: where App::run is; i: the hook or server it is at
  worker,   \* the tasks: "none", "running", "stopping", "exited", "panicked"
  signal,   \* the value in the watch channel of each worker
  slot,     \* WorkerHandle::task: is a JoinHandle in it
  mutex,    \* who holds the lock of the slot
  user,     \* pc, the worker waited for, and whether it was in its slot then
  task,     \* the task that runs server.start()
  tx,       \* shutdown_tx of a server: "none", "set", "sent"
  serve,    \* WebSocket: the serve task
  handle,   \* WebSocket: serve_task holds its handle
  conn,     \* WebSocket: "none", "upgrade" (answered, not in the JoinSet yet), "open"
            \* (in the JoinSet), "late" (put there when stop was done with the set)
  drain,    \* history: how stop left the JoinSet: "no" (not there yet), "empty", "cut"
  missed    \* history: servers whose stop came before what it needs was stored

vars == <<app, run, worker, signal, slot, mutex, user, task, tx, serve, handle, conn, drain, missed>>
workers == <<app, worker, signal, slot, mutex, user>>
servers == <<task, tx, serve, handle, conn, drain, missed>>

App == "app"
Order == app.order
StartHooks == app.start
StopHooks == app.stop
Nobody == "nobody"
Idle == [pc |-> "idle", w |-> Nobody, was |-> FALSE]

Init ==
  /\ app \in Apps
  /\ run = [at |-> "start", i |-> 1]
  /\ worker = [w \in Workers |-> "none"] /\ signal = [w \in Workers |-> FALSE]
  /\ slot = [w \in Workers |-> FALSE] /\ mutex = [w \in Workers |-> Nobody]
  /\ user = [u \in Users |-> Idle]
  /\ task = [s \in Servers |-> "none"] /\ tx = [s \in Servers |-> "none"]
  /\ serve = [s \in Servers |-> "none"] /\ handle = [s \in Servers |-> FALSE]
  /\ conn = [s \in Servers |-> [c \in Conns |-> "none"]]
  /\ drain = [s \in Servers |-> "no"] /\ missed = {}

At(a) == run.at = a
Go(a) == run' = [run EXCEPT !.at = a]
GoOn(a) == run' = [at |-> a, i |-> run.i + 1]
First(a) == run' = [at |-> a, i |-> 1]

-----------------------------------------------------------------------------
(* WorkerHandle                                                            *)

\* What a JoinHandle waits for.
Ended(w) == worker[w] \in {"exited", "panicked"}

\* wait takes the lock and, when there is a task, keeps it until the task has
\* ended; the JoinHandle stays in the slot meanwhile.
\* Mutant: it is taken out of the slot first.
LockTakes(w, h) == /\ mutex[w] = Nobody
                   /\ slot' = [slot EXCEPT ![w] = FALSE]
                   /\ mutex' = IF slot[w] THEN [mutex EXCEPT ![w] = h] ELSE mutex
Lock(w, h) == /\ mutex[w] = Nobody
              /\ mutex' = IF slot[w] THEN [mutex EXCEPT ![w] = h] ELSE mutex
              /\ UNCHANGED slot

\* The task has ended, with the result of wait.
\* Mutant: the lock is not given back.
JoinKeepsLock(w) == Ended(w) /\ slot' = [slot EXCEPT ![w] = FALSE] /\ UNCHANGED mutex
Join(w) == /\ Ended(w)
           /\ slot' = [slot EXCEPT ![w] = FALSE] /\ mutex' = [mutex EXCEPT ![w] = Nobody]

\* shutdown sets the value of the channel, where it stays.
Shutdown(w) == signal' = [signal EXCEPT ![w] = TRUE]

UserShutdown(w) ==
  /\ ~signal[w] /\ Shutdown(w)
  /\ UNCHANGED <<app, run, worker, slot, mutex, user, servers>>

\* on_start has put the task into its slot.
Started(w) == worker[w] # "none" /\ ~(run.at = "set_task" /\ StartHooks[run.i] = w)

UserWait(u, w) ==
  /\ user[u].pc = "idle" /\ Lock(w, u)
  /\ user' = [user EXCEPT ![u] = [pc |-> IF slot[w] THEN "wait" ELSE "done", w |-> w,
                                  was |-> Started(w)]]
  /\ UNCHANGED <<app, run, worker, signal, servers>>

UserJoin(u) ==
  /\ user[u].pc = "wait" /\ Join(user[u].w)
  /\ user' = [user EXCEPT ![u].pc = "done"]
  /\ UNCHANGED <<app, run, worker, signal, servers>>

\* The future of wait is dropped: the lock goes, the slot stays as it is.
UserDrops(u) ==
  /\ user[u].pc = "wait"
  /\ user' = [user EXCEPT ![u] = Idle]
  /\ mutex' = [mutex EXCEPT ![user[u].w] = Nobody]
  /\ UNCHANGED <<app, run, worker, signal, slot, servers>>

UserAgain(u) ==
  /\ user[u].pc = "done" /\ user' = [user EXCEPT ![u] = Idle]
  /\ UNCHANGED <<app, run, worker, signal, slot, mutex, servers>>

\* Shutdown::cancelled: the value is looked at before the change is awaited.
WorkerSees(w) ==
  /\ worker[w] = "running" /\ signal[w]
  /\ worker' = [worker EXCEPT ![w] = "stopping"]
  /\ UNCHANGED <<app, run, signal, slot, mutex, user, servers>>

WorkerEnds(w) ==
  /\ worker[w] \in {"running", "stopping"}
  /\ \E e \in {"exited", "panicked"} : worker' = [worker EXCEPT ![w] = e]
  /\ UNCHANGED <<app, run, signal, slot, mutex, user, servers>>

-----------------------------------------------------------------------------
(* App::run                                                                *)

StartHook ==
  /\ At("start") /\ run.i <= Len(StartHooks)
  /\ LET h == StartHooks[run.i] IN
     \/ h = Plain /\ (GoOn("start") \/ Go("err")) /\ UNCHANGED worker
     \/ /\ h \in Workers /\ Go("set_task")
        /\ worker' = [worker EXCEPT ![h] = "running"]
  /\ UNCHANGED <<app, signal, slot, mutex, user, servers>>

\* set_task: its lock is free unless someone waits, and nobody can wait yet.
SetTask ==
  LET w == StartHooks[run.i] IN
  /\ At("set_task") /\ mutex[w] = Nobody
  /\ slot' = [slot EXCEPT ![w] = TRUE]
  /\ GoOn("start")
  /\ UNCHANGED <<app, worker, signal, mutex, user, servers>>

SpawnServers ==
  /\ At("start") /\ run.i > Len(StartHooks)
  /\ task' = [s \in Servers |-> IF \E i \in DOMAIN Order : Order[i] = s THEN "spawned" ELSE "none"]
  /\ First("serve")
  /\ UNCHANGED <<workers, tx, serve, handle, conn, drain, missed>>

\* wait_for_shutdown returns.
Signal ==
  /\ At("serve") /\ First("stop")
  /\ UNCHANGED <<workers, servers>>

\* on_stop: shutdown, then wait; an error ends run at once.
\* Mutant: it waits without the shutdown.
TellNobody(w) == UNCHANGED signal
Tell(w) == Shutdown(w)

StopHook ==
  /\ At("stop") /\ run.i <= Len(StopHooks)
  /\ LET h == StopHooks[run.i] IN
     \/ h = Plain /\ (GoOn("stop") \/ Go("err")) /\ UNCHANGED signal
     \/ h \in Workers /\ Go("lock") /\ Tell(h)
  /\ UNCHANGED <<app, worker, slot, mutex, user, servers>>

StopLock ==
  LET w == StopHooks[run.i] IN
  /\ At("lock") /\ Lock(w, App)
  /\ IF slot[w] THEN Go("join") ELSE GoOn("stop")
  /\ UNCHANGED <<app, worker, signal, user, servers>>

StopJoin ==
  LET w == StopHooks[run.i] IN
  /\ At("join") /\ Join(w)
  /\ IF worker[w] = "panicked" THEN Go("err") ELSE GoOn("stop")
  /\ UNCHANGED <<app, worker, signal, user, servers>>

HooksStopped ==
  /\ At("stop") /\ run.i > Len(StopHooks) /\ First("servers")
  /\ UNCHANGED <<workers, servers>>

-----------------------------------------------------------------------------
(* Server::stop, one server after the other                                *)

\* take the sender and send: there may be none yet.
Send(s) ==
  /\ tx' = IF tx[s] = "set" THEN [tx EXCEPT ![s] = "sent"] ELSE tx
  /\ missed' = IF tx[s] = "none" /\ task[s] # "ended" THEN missed \cup {s} ELSE missed

StopServer ==
  LET s == Order[run.i] IN
  /\ At("servers") /\ run.i <= Len(Order)
  /\ Send(s)
  /\ IF Kind[s] = "ws" THEN Go("take") ELSE GoOn("servers")
  /\ UNCHANGED <<workers, task, serve, handle, conn, drain>>

\* WebSocket: take the handle of the serve task, if it is there by now.
TakeServe ==
  LET s == Order[run.i] IN
  /\ At("take")
  /\ handle' = [handle EXCEPT ![s] = FALSE]
  /\ missed' = IF ~handle[s] /\ task[s] # "ended" THEN missed \cup {s} ELSE missed
  /\ Go(IF handle[s] THEN "await" ELSE "drain")
  /\ UNCHANGED <<workers, task, tx, serve, conn, drain>>

\* Its error or panic is returned at once, and run only logs it: the JoinSet is
\* left as it is.
AwaitServe ==
  LET s == Order[run.i] IN
  /\ At("await")
  /\ \/ serve[s] = "off" /\ Go("drain") /\ UNCHANGED drain
     \/ serve[s] = "failed" /\ GoOn("servers") /\ drain' = [drain EXCEPT ![s] = "cut"]
  /\ UNCHANGED <<workers, task, tx, serve, handle, conn, missed>>

\* join_next has nothing left.
\* Mutant: the connections are not waited for.
DrainedAtOnce(s) == TRUE
Drained(s) == \A c \in Conns : conn[s][c] # "open"

DrainConns ==
  LET s == Order[run.i] IN
  /\ At("drain") /\ Drained(s) /\ GoOn("servers")
  /\ drain' = [drain EXCEPT ![s] = "empty"]
  /\ UNCHANGED <<workers, task, tx, serve, handle, conn, missed>>

\* The deadline: abort_all asks the connections that are left to end at their
\* next await, and nobody waits for them.
DrainTimeout ==
  LET s == Order[run.i] IN
  /\ At("drain") /\ (\E c \in Conns : conn[s][c] = "open") /\ GoOn("servers")
  /\ drain' = [drain EXCEPT ![s] = "cut"]
  /\ UNCHANGED <<workers, task, tx, serve, handle, conn, missed>>

ServersStopped ==
  /\ At("servers") /\ run.i > Len(Order) /\ First("tasks")
  /\ UNCHANGED <<workers, servers>>

JoinServer ==
  /\ At("tasks") /\ run.i <= Len(Order)
  /\ task[Order[run.i]] = "ended" /\ GoOn("tasks")
  /\ UNCHANGED <<workers, servers>>

Finish ==
  /\ At("tasks") /\ run.i > Len(Order) /\ Go("ok")
  /\ UNCHANGED <<workers, servers>>

-----------------------------------------------------------------------------
(* Server::start, in its task                                              *)

\* HTTP and WebSocket bind, then store the sender; gRPC stores it first.
Bind(s) ==
  /\ task[s] = IF Kind[s] = "grpc" THEN "stored" ELSE "spawned"
  /\ \E ok \in BOOLEAN : task' = [task EXCEPT ![s] = IF ok THEN "bound" ELSE "ended"]
  /\ UNCHANGED <<run, workers, tx, serve, handle, conn, drain, missed>>

Store(s) ==
  /\ task[s] = IF Kind[s] = "grpc" THEN "spawned" ELSE "bound"
  /\ tx[s] = "none" /\ tx' = [tx EXCEPT ![s] = "set"]
  /\ task' = IF Kind[s] = "grpc" THEN [task EXCEPT ![s] = "stored"] ELSE task
  /\ UNCHANGED <<run, workers, serve, handle, conn, drain, missed>>

\* Graceful shutdown: the requests under way are finished.
Serve(s) ==
  /\ Kind[s] # "ws" /\ task[s] = "bound" /\ tx[s] = "sent"
  /\ task' = [task EXCEPT ![s] = "ended"]
  /\ UNCHANGED <<run, workers, tx, serve, handle, conn, drain, missed>>

\* HTTP: the TLS files are read once the sender is stored; the error ends start.
TlsFails(s) ==
  /\ Kind[s] = "http" /\ task[s] = "bound" /\ tx[s] # "none"
  /\ task' = [task EXCEPT ![s] = "ended"]
  /\ UNCHANGED <<run, workers, tx, serve, handle, conn, drain, missed>>

\* A request is served: one whose stop was missed goes on for ever.
Request(s) == Kind[s] # "ws" /\ task[s] = "bound" /\ tx[s] # "none" /\ UNCHANGED vars

\* WebSocket: the serve loop is a task of its own, and start returns.
SpawnServe(s) ==
  /\ Kind[s] = "ws" /\ task[s] = "bound" /\ tx[s] # "none" /\ serve[s] = "none"
  /\ serve' = [serve EXCEPT ![s] = "on"]
  /\ UNCHANGED <<run, workers, task, tx, handle, conn, drain, missed>>

StoreServe(s) ==
  /\ Kind[s] = "ws" /\ task[s] = "bound" /\ serve[s] # "none"
  /\ handle' = [handle EXCEPT ![s] = TRUE]
  /\ task' = [task EXCEPT ![s] = "ended"]
  /\ UNCHANGED <<run, workers, tx, serve, conn, drain, missed>>

EndServe(s) ==
  /\ serve[s] = "on" /\ tx[s] = "sent"
  /\ serve' = [serve EXCEPT ![s] = "off"]
  /\ UNCHANGED <<run, workers, task, tx, handle, conn, drain, missed>>

\* axum's serve loop returns an error or panics.
ServeFails(s) ==
  /\ serve[s] = "on"
  /\ serve' = [serve EXCEPT ![s] = "failed"]
  /\ UNCHANGED <<run, workers, task, tx, handle, conn, drain, missed>>

SetConn(s, c, v) ==
  /\ conn' = [conn EXCEPT ![s] = [@ EXCEPT ![c] = v]]
  /\ UNCHANGED <<run, workers, task, tx, serve, handle, drain, missed>>

\* The request is answered; the graceful end of the serve loop waits for the
\* answer, but not for what on_upgrade does then. The connections of a loop that
\* failed are tasks of their own.
Upgrade(s, c) ==
  /\ serve[s] \in {"on", "failed"} /\ conn[s][c] = "none"
  /\ SetConn(s, c, "upgrade")

\* on_upgrade takes the lock of the JoinSet and spawns ws_loop. stop holds that lock
\* while it drains; "drain" is also the time in which it waits for the lock, so one
\* may still be spawned then.
Upgraded(s, c) ==
  /\ conn[s][c] = "upgrade"
  /\ SetConn(s, c, IF drain[s] = "no" THEN "open" ELSE "late")

\* ws_loop returns, or the upgrade comes to nothing: the peer is gone, the
\* handler is done, or close_tx was seen. None of it can be relied upon, since a
\* handler that does not yield sees nothing.
Disconnect(s, c) ==
  /\ conn[s][c] # "none"
  /\ SetConn(s, c, "none")

\* run has returned.
Returned ==
  /\ run.at \in {"ok", "err"} /\ UNCHANGED vars

-----------------------------------------------------------------------------
Run == \/ StartHook \/ SetTask \/ SpawnServers \/ StopHook \/ StopLock \/ StopJoin
       \/ HooksStopped \/ StopServer \/ TakeServe \/ AwaitServe \/ DrainConns
       \/ DrainTimeout \/ ServersStopped \/ JoinServer \/ Finish
Server(s) == Bind(s) \/ Store(s) \/ Serve(s) \/ SpawnServe(s) \/ StoreServe(s) \/ EndServe(s)

Next ==
  \/ Run \/ Signal \/ Returned
  \/ \E w \in Workers : \/ UserShutdown(w) \/ WorkerSees(w) \/ WorkerEnds(w)
                        \/ \E u \in app.users : UserWait(u, w)
  \/ \E u \in app.users : UserJoin(u) \/ UserDrops(u) \/ UserAgain(u)
  \/ \E s \in Servers : Server(s) \/ TlsFails(s) \/ Request(s) \/ ServeFails(s)
  \/ \E s \in Servers, c \in Conns : Upgrade(s, c) \/ Upgraded(s, c) \/ Disconnect(s, c)

\* The runtime polls every task; a worker that was told to stop does; the requests
\* under way are finished once a server is told to stop (Serve, EndServe); a wait
\* that somebody holds is polled (UserJoin), and the lock of tokio is fair. Nothing
\* is assumed of WebSocket connections: the deadline of the drain passes.
Fairness ==
  /\ WF_vars(Run) /\ SF_vars(StopLock)
  /\ \A w \in Workers : WF_vars(WorkerSees(w)) /\ WF_vars(worker[w] = "stopping" /\ WorkerEnds(w))
  /\ \A u \in Users : WF_vars(UserJoin(u))
  /\ \A s \in Servers : WF_vars(Server(s))

Spec == Init /\ [][Next]_vars /\ Fairness

-----------------------------------------------------------------------------
(* Properties                                                              *)

\* The types; and the lock of a slot is held only while a JoinHandle is in it,
\* by one that waits for it (worker.rs:39-50).
TypeOK ==
  /\ run.at \in {"start", "set_task", "serve", "stop", "lock", "join", "servers", "take",
                 "await", "drain", "tasks", "ok", "err"}
  /\ run.i \in 1..(1 + Len(StartHooks) + Len(StopHooks) + Len(Order))
  /\ worker \in [Workers -> {"none", "running", "stopping", "exited", "panicked"}]
  /\ signal \in [Workers -> BOOLEAN] /\ slot \in [Workers -> BOOLEAN]
  /\ \A w \in Workers : mutex[w] # Nobody =>
       /\ slot[w]
       /\ \/ mutex[w] = App /\ At("join") /\ StopHooks[run.i] = w
          \/ mutex[w] \in Users /\ user[mutex[w]].pc = "wait" /\ user[mutex[w]].w = w
  /\ task \in [Servers -> {"none", "spawned", "bound", "stored", "ended"}]
  /\ tx \in [Servers -> {"none", "set", "sent"}]
  /\ serve \in [Servers -> {"none", "on", "off", "failed"}] /\ handle \in [Servers -> BOOLEAN]
  /\ conn \in [Servers -> [Conns -> {"none", "upgrade", "open", "late"}]]
  /\ drain \in [Servers -> {"no", "empty", "cut"}] /\ missed \subseteq Servers

\* A wait that returns means that the worker has ended, however many wait at
\* once and whoever drops a wait, unless it began before the task was in its
\* slot (worker.rs:37-50: a later waiter does not report completion early).
WaitMeansEnded ==
  \A u \in Users : user[u].pc = "done" /\ user[u].was => Ended(user[u].w)

\* When run returns Ok, every worker with a stop hook that was started has
\* ended and every server task has ended. A WebSocket server whose stop found
\* what it needs has no serve loop any more, and none of the connections that were
\* in its JoinSet, however upgrades, disconnects and stop interleave, unless the
\* deadline of the drain passed or the serve loop had failed: abort_all is not
\* waited for, and the error of the loop is only logged. A connection whose
\* upgrade was under way during the drain may be left in any case
\* (ecat/src/lib.rs:61-77, ecat-transport-ws/src/lib.rs:111-163).
OkMeansDown ==
  At("ok") =>
    /\ \A i \in DOMAIN StopHooks : StopHooks[i] # Plain =>
         worker[StopHooks[i]] \in {"none", "exited", "panicked"}
    /\ \A i \in DOMAIN Order : LET s == Order[i] IN
         /\ task[s] = "ended"
         /\ s \notin missed => /\ serve[s] # "on"
                               /\ drain[s] = "cut" \/ \A c \in Conns : conn[s][c] # "open"

\* After the signal run returns, if the workers obey and no stop was missed:
\* neither an early shutdown() of a handle, nor a waiter that holds a slot's
\* lock, nor one that drops its wait keeps it (ecat/src/lib.rs:59-79,
\* worker.rs:104-107, ecat-data/src/worker.rs:23-29).
SignalEndsRun == At("stop") ~> (run.at \in {"ok", "err"} \/ missed # {})
=============================================================================
