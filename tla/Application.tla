---------------------------- MODULE Application ----------------------------
(***************************************************************************)
(* The life of the public and the private application of one process       *)
(* (internal/app.go): Run installs, prepares and boots one step after the  *)
(* other, each application in a goroutine of its own, then serves; an      *)
(* interrupt runs the callbacks Run has registered.                        *)
(*                                                                         *)
(* Both applications are given the same list of prepare functions, and     *)
(* with it the same single components (infra_pool.go), which look for      *)
(* their database in the application they have been told last to be of.    *)
(***************************************************************************)
EXTENDS Naturals, Sequences, FiniteSets

CONSTANTS Singles,    \* single components, each bound by a prepare function
          Listens,    \* what ListenEvent is called with: <<eventName, objMethod>>
          Routes,     \* the methods of controllers, with the HTTP method of their route
          MaxPanics   \* bound: shutdown functions that panic

Apps == {"public", "private"}

VARIABLES
  withDB,      \* applications whose Database.Install was set before Run
  at,          \* the step of Run an application has come to
  db,          \* applications whose Database.db is set
  client,      \* Cache.client: not asked for, being connected, there
  singlemap,   \* the single components bound to an application
  marked,      \* single components setPrivate was called on
  listened,    \* the calls of ListenEvent, by application
  eventsPath,  \* keys of eventsPath: events whose route is known
  booted,      \* components whose Booting has returned for an application
  hooks,       \* shutdownList, by the component that registered it
  callbacks,   \* registered for an interrupt, in order
  firing,      \* the callbacks of the interrupt that are left
  ran,         \* hooks the callback under way has run
  stopped,     \* applications that were shut down
  process      \* "up", "interrupted" or "dead"

vars == <<withDB, at, db, client, singlemap, marked, listened, eventsPath, booted, hooks, callbacks,
          firing, ran, stopped, process>>

(* Mutation: as in UnitTestImpl.Run, the components come before the        *)
(* database.                                                               *)
StepsPreparedFirst ==
  <<"middlewares", "prepares", "db", "redis", "tables", "other", "starters", "building",
    "singles", "register", "serve", "closed">>

(* What Run does, in its order.                                            *)
Steps ==
  <<"middlewares", "db", "redis", "tables", "other", "prepares", "starters", "building",
    "singles", "register", "serve", "closed">>

After(s) == LET i == CHOOSE i \in DOMAIN Steps : Steps[i] = s IN Steps[i + 1]

(* NewPublicApplication, NewPrivateApplication, and InstallDB of whichever *)
(* is to have a database, before any Run.                                  *)
Init ==
  /\ withDB \in SUBSET Apps
  /\ at = [a \in Apps |-> Steps[1]]
  /\ db = {} /\ client = [a \in Apps |-> "nil"]
  /\ singlemap = [a \in Apps |-> {}] /\ marked = {}
  /\ listened = [a \in Apps |-> {}] /\ eventsPath = [a \in Apps |-> {}]
  /\ booted = [a \in Apps |-> {}] /\ hooks = [a \in Apps |-> <<>>]
  /\ callbacks = <<>> /\ firing = <<>> /\ ran = 0 /\ stopped = {} /\ process = "up"

interrupts == <<callbacks, firing, ran, stopped, process>>
components == <<singlemap, marked, listened, eventsPath, booted, hooks>>

Running(a, s) == process # "dead" /\ at[a] = s
Goto(a, s) == at' = [at EXCEPT ![a] = s]
Advance(a) == Goto(a, After(at[a]))

(* What leaves nothing that another step looks at.                         *)
Continue(a, s) ==
  /\ Running(a, s)
  /\ Advance(a)
  /\ UNCHANGED <<db, client, components, interrupts>>

addMiddlewares(a) == Continue(a, "middlewares")
installDBTable(a) == Continue(a, "tables")
otherBooting(a) == Continue(a, "other")
Starters(a) == Continue(a, "starters")

(* installDB waits for the database, but for redis a goroutine of its own: *)
(* "redis连接不上，避免堵塞服务启动".  Either is installed if it was asked for.   *)
InstallDatabase(a) ==
  /\ Running(a, "db")
  /\ db' = db \union ({a} \intersect withDB)
  /\ Advance(a)
  /\ UNCHANGED <<client, components, interrupts>>

InstallRedis(a) ==
  /\ Running(a, "redis")
  /\ client' \in {client, [client EXCEPT ![a] = "connecting"]}
  /\ Advance(a)
  /\ UNCHANGED <<db, components, interrupts>>

RedisConnected(a) ==
  /\ process # "dead" /\ client[a] = "connecting"
  /\ client' = [client EXCEPT ![a] = "ready"]
  /\ UNCHANGED <<at, db, components, interrupts>>

(* InfraPool.bind of a single component: a mark once set stays, whichever  *)
(* application it is bound to next.                                        *)
bind(a, c) ==
  /\ singlemap' = [singlemap EXCEPT ![a] = @ \union {c}]
  /\ marked' = IF a = "private" THEN marked \union {c} ELSE marked

(* EventBus.addEvent, whose parameters are the other way round than those  *)
(* of ListenEvent: the method is the key, the event what it is bound to.   *)
eventsAddr(a) == {[key |-> l[2], addr |-> l[1]] : l \in listened[a]}
Bound(a, l) == \E e \in eventsAddr(a) : e.key = l[2]

(* The prepare functions, in an order that is that of the packages: each   *)
(* binds its component and may listen to an event.                         *)
Prepare(a, c, calls) ==
  /\ Running(a, "prepares")
  /\ c \notin singlemap[a]
  /\ \A l \in calls : ~Bound(a, l)
  /\ bind(a, c)
  /\ listened' = [listened EXCEPT ![a] = @ \union calls]
  /\ UNCHANGED <<at, db, client, eventsPath, booted, hooks, interrupts>>

(* "Event already bound" ends the process.                                 *)
ListenFatal(a) ==
  /\ Running(a, "prepares")
  /\ \E l \in Listens : Bound(a, l)
  /\ process' = "dead"
  /\ UNCHANGED <<at, db, client, components, callbacks, firing, ran, stopped>>

Prepared(a) ==
  /\ Running(a, "prepares")
  /\ singlemap[a] = Singles
  /\ Advance(a)
  /\ UNCHANGED <<db, client, components, interrupts>>

(* EventBus.building: match looks for a method among what the keys are     *)
(* bound to, and takes any of those it finds.                              *)
match(a, m) == {e.key : e \in {f \in eventsAddr(a) : f.addr = m}}
Matched(a) == {m \in DOMAIN Routes : match(a, m) # {}}

building(a) ==
  /\ Running(a, "building")
  /\ \A m \in Matched(a) : Routes[m] = "POST"
  /\ \E name \in [Matched(a) -> UNION {match(a, m) : m \in DOMAIN Routes}] :
       /\ \A m \in Matched(a) : name[m] \in match(a, m)
       /\ eventsPath' = [eventsPath EXCEPT ![a] = {name[m] : m \in Matched(a)}]
  /\ Advance(a)
  /\ UNCHANGED <<db, client, singlemap, marked, listened, booted, hooks, interrupts>>

(* "Event routing must be 'post'" ends the process.                        *)
RouteFatal(a) ==
  /\ Running(a, "building")
  /\ \E m \in Matched(a) : Routes[m] # "POST"
  /\ process' = "dead"
  /\ UNCHANGED <<at, db, client, components, callbacks, firing, ran, stopped>>

(* singleBooting, in the order of a map; Booting may register a function   *)
(* for the shutdown.  A component of both applications boots twice.        *)
Booting(a, c, registers) ==
  /\ Running(a, "singles")
  /\ c \in singlemap[a] \ booted[a]
  /\ booted' = [booted EXCEPT ![a] = @ \union {c}]
  /\ hooks' = IF registers THEN [hooks EXCEPT ![a] = Append(@, c)] ELSE hooks
  /\ UNCHANGED <<at, db, client, singlemap, marked, listened, eventsPath, interrupts>>

Booted(a) ==
  /\ Running(a, "singles")
  /\ booted[a] = singlemap[a]
  /\ Advance(a)
  /\ UNCHANGED <<db, client, components, interrupts>>

shutdown(a) ==
  /\ Running(a, "register")
  /\ callbacks' = Append(callbacks, a)
  /\ Advance(a)
  /\ UNCHANGED <<db, client, components, firing, ran, stopped, process>>

-----------------------------------------------------------------------------
(* The signal, which fires the callbacks registered by then, one by one;   *)
(* without any it ends the process.                                        *)
Interrupt ==
  /\ process = "up"
  /\ process' = IF callbacks = <<>> THEN "dead" ELSE "interrupted"
  /\ firing' = callbacks
  /\ UNCHANGED <<at, db, client, components, callbacks, ran, stopped>>

Firing(a) == process = "interrupted" /\ firing # <<>> /\ a = Head(firing)

(* InfraPool.shutdown                                                      *)
RunHook(a) ==
  /\ Firing(a) /\ ran < Len(hooks[a])
  /\ ran' = ran + 1
  /\ UNCHANGED <<at, db, client, components, callbacks, firing, stopped, process>>

(* The recover of the callback stands before the call, in no deferred      *)
(* function: a hook that panics takes the process with it.                 *)
HookPanics(a) ==
  /\ MaxPanics > 0
  /\ Firing(a) /\ ran < Len(hooks[a])
  /\ process' = "dead"
  /\ UNCHANGED <<at, db, client, components, callbacks, firing, ran, stopped>>

(* IrisApp.Shutdown closes the listener of an application that serves; one *)
(* that is about to serve does so nevertheless.                            *)
Shutdown(a) ==
  /\ Firing(a) /\ ran = Len(hooks[a])
  /\ stopped' = stopped \union {a}
  /\ at' = IF at[a] = "serve" THEN [at EXCEPT ![a] = "closed"] ELSE at
  /\ firing' = Tail(firing) /\ ran' = 0
  /\ UNCHANGED <<db, client, components, callbacks, process>>

RunStep(a) ==
  \/ addMiddlewares(a) \/ installDBTable(a) \/ otherBooting(a) \/ Starters(a)
  \/ InstallDatabase(a) \/ InstallRedis(a) \/ RedisConnected(a)
  \/ ListenFatal(a) \/ Prepared(a) \/ building(a) \/ RouteFatal(a) \/ Booted(a) \/ shutdown(a)
  \/ RunHook(a) \/ HookPanics(a) \/ Shutdown(a)
  \/ \E c \in Singles :
       \/ \E calls \in {{}} \union {{l} : l \in Listens} : Prepare(a, c, calls)
       \/ \E registers \in BOOLEAN : Booting(a, c, registers)

Next == withDB' = withDB /\ (Interrupt \/ \E a \in Apps : RunStep(a))

Spec == Init /\ [][Next]_vars

-----------------------------------------------------------------------------
(* Infra.app: where a component looks for its database.                    *)
appOf(c) == IF c \in marked THEN "private" ELSE "public"

(* Whenever an application serves, its single components have booted with  *)
(* it, and each finds a database if the application it looks for it in was *)
(* given one by InstallDB, and none if not: also while the other           *)
(* application is installing, preparing and booting the same components,   *)
(* and takes them over.                                                    *)
ServedFromBooted ==
  \A a \in Apps : at[a] = "serve" =>
    \A c \in Singles : c \in booted[a] /\ (appOf(c) \in db <=> appOf(c) \in withDB)

(* An application that serves knows a route for every event that was       *)
(* listened to ("监听1个topic的事件，由指定控制器消费": the events of a      *)
(* topic are consumed by the controller that is named).                    *)
EventsRouted ==
  \A a \in Apps : at[a] = "serve" => \A l \in listened[a] : l[1] \in eventsPath[a]

=============================================================================
