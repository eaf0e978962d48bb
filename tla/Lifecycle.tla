---------------------------- MODULE Lifecycle ----------------------------
(* One avalon-server process from start-up to exit (bin/bundled_main.rs,    *)
(* run.rs, serve.rs, shutdown.rs, bundled_postgres.rs): the main task walks *)
(* through start-up, serves, drains and stops; the signal task watches the  *)
(* phase and a deadline; connections and websocket sessions end on their    *)
(* own time; the outbox worker ticks; the managed database's processes are  *)
(* stopped at the end or by the exit hook.  A Tick is one unit of the       *)
(* shutdown timeout and passes only when the main task cannot move, unless  *)
(* the process is stalled.                                                  *)
EXTENDS Integers, Sequences
CONSTANTS Conn,          \* client connections
          Configs,       \* the environments an operator starts the node with
          Timeout,       \* AVALON_SHUTDOWN_TIMEOUT_SECS
          MaxStalls      \* how often the runtime is starved for a tick
ASSUME LifecycleAssumption == Timeout \in Nat \ {0} /\ MaxStalls \in Nat
VARIABLES config, main, phase, requested, handler, age, spent, exit, scanned,
          gone, conn, waiter, outbox, outboxRows, db, hook, stalls
lifecycleVars == <<config, main, phase, requested, handler, age, spent, exit, scanned,
                   gone, conn, waiter, outbox, outboxRows, db, hook, stalls>>
others == <<config, phase, requested, handler, age, exit, scanned, gone,
            conn, waiter, outbox, outboxRows, db, hook, stalls>>

Boot == <<"hook", "database", "create", "keys", "roles", "ledger", "identity", "interest",
          "shard", "guard", "realtime", "state", "workers", "bind">>
After(s) == LET i == CHOOSE j \in 1..Len(Boot) : Boot[j] = s
            IN IF i = Len(Boot) THEN "serve" ELSE Boot[i + 1]

\* What the process makes of its environment.
is_settlement_only == config.roles = {"settlement"}
gateway_enabled == ~is_settlement_only
Holds(role) == config.roles \cap {"combined", role} # {}
own_shard_id == IF config.replica THEN "none"
                ELSE IF config.shard # "unset" THEN config.shard
                ELSE IF config.key = "file" /\ ~config.remote THEN "node" ELSE "core"
signs_own_shard_locally == ~config.replica /\ ~config.remote

\* evaluate: only a core author on a network with a pinned key is judged; a
\* local development network without peers is let off with a warning.
CoreAuthorRefused == /\ own_shard_id = "core"
                     /\ config.anchor \in {"network", "dev_peers"}
                     /\ ~config.pinned

\* The start-up checks the configuration alone decides.
Conflicts(s) == CASE s = "ledger" -> ~Holds("indexer") /\ ~config.backing
                  [] s = "shard" -> config.replica /\ config.shard # "unset"
                  [] s = "guard" -> signs_own_shard_locally /\ CoreAuthorRefused
                  [] s = "realtime" -> ~Holds("realtime") /\ ~config.backing
                  [] OTHER -> FALSE

LifecycleInit == /\ config \in Configs
                 /\ main = IF config.bundled THEN "hook" ELSE "keys"
                 /\ phase = "starting" /\ requested = FALSE /\ handler = "first"
                 /\ age = 0 /\ spent = 0
                 /\ exit = "no" /\ scanned = FALSE /\ gone = FALSE
                 /\ conn = [c \in Conn |-> "none"] /\ waiter = "no"
                 /\ outbox = "none" /\ outboxRows = {} /\ db = "off" /\ hook = FALSE
                 /\ stalls = 0

\* process::exit on some thread: the others run on until the hooks are done.
Leave(status) == exit = "no" /\ exit' = status
Free == exit \in {"no", "interrupted", "second", "deadline"} /\ ~gone

---------------------------------------------------------------------------
\* Start-up.

\* The stages that can also fail on what they find: a file, the database, a
\* setting that does not parse, an address in use.
Fallible == {"database", "create", "keys", "roles", "ledger", "identity", "shard", "realtime",
             "state", "workers", "bind"}

\* A step of start-up: the next stage, or a refusal that exits.
Boots(s) == /\ Free /\ main = s
            /\ \/ ~Conflicts(s) /\ main' = After(s) /\ exit' = exit
               \/ /\ s \in Fallible \/ Conflicts(s)
                  /\ exit = "no" /\ exit' = "refused" /\ main' = main

force_stop_on_exit ==
    /\ Free /\ main = "hook" /\ main' = "database" /\ hook' = TRUE
    /\ UNCHANGED <<config, phase, requested, handler, age, spent, exit, scanned, gone, conn,
                   waiter, outbox, outboxRows, db, stalls>>

\* start_if_needed up to instance.start(): its processes exist from here on,
\* whether or not the start succeeds.
start_if_needed ==
    /\ Boots("database")
    /\ db' \in {"off", IF scanned THEN "late" ELSE "up"}
    /\ (exit' # "refused" => db' # "off")
    /\ UNCHANGED <<config, phase, requested, handler, age, spent, scanned, gone, conn, waiter,
                   outbox, outboxRows, hook, stalls>>

create_database == Boots("create") /\ UNCHANGED <<config, phase, requested, handler, age,
                   spent, scanned, gone, conn, waiter, outbox, outboxRows, db, hook, stalls>>

Quietly(s) == Boots(s) /\ UNCHANGED <<config, phase, requested, handler, age, spent, scanned,
                          gone, conn, waiter, outbox, outboxRows, db, hook, stalls>>
apply_keys == Quietly("keys")
resolve_roles == Quietly("roles")
connect_ledger == Quietly("ledger")
load_identity == Quietly("identity")
start_interest == Quietly("interest")
choose_shard == Quietly("shard")
guard_core_author == Quietly("guard")
choose_realtime == Quietly("realtime")
build_state == Quietly("state")

\* The outbox worker runs where requests can enqueue: on a gateway that
\* authors a shard.  Its first tick starts at once.
spawn_workers ==
    /\ Boots("workers")
    /\ outbox' = IF main' # main /\ gateway_enabled /\ ~config.replica THEN "tick" ELSE outbox
    /\ UNCHANGED <<config, phase, requested, handler, age, spent, scanned, gone, conn, waiter,
                   outboxRows, db, hook, stalls>>

\* The listener is bound and mark_running moves the phase on.
bind_and_mark_running ==
    /\ Boots("bind")
    /\ phase' = IF main' # main THEN "running" ELSE phase
    /\ UNCHANGED <<config, requested, handler, age, spent, scanned, gone, conn, waiter, outbox,
                   outboxRows, db, hook, stalls>>

---------------------------------------------------------------------------
\* Signals.

\* The first signal exits a process still starting and otherwise asks the
\* tasks to stop and sets the deadline.
FirstSignal ==
    /\ ~gone /\ handler = "first" /\ exit = "no"
    /\ \/ phase = "starting" /\ exit' = "interrupted" /\ UNCHANGED <<requested, handler>>
       \/ phase # "starting" /\ requested' = TRUE /\ handler' = "armed" /\ exit' = exit
    /\ UNCHANGED <<config, main, phase, age, spent, scanned, gone, conn, waiter, outbox, outboxRows,
                   db, hook, stalls>>

SecondSignal ==
    /\ ~gone /\ handler # "first" /\ Leave("second")
    /\ UNCHANGED <<config, main, phase, requested, handler, age, spent, scanned, gone, conn,
                   waiter, outbox, outboxRows, db, hook, stalls>>

drain_deadline == Timeout * 2 + 1

\* The deadline finds the final stop already begun and disarms, or exits.
DeadlinePassed ==
    /\ ~gone /\ handler = "armed" /\ age = drain_deadline /\ exit = "no"
    /\ IF phase = "stopping" THEN handler' = "disarmed" /\ exit' = exit
       ELSE exit' = "deadline" /\ handler' = handler
    /\ UNCHANGED <<config, main, phase, requested, age, spent, scanned, gone, conn, waiter,
                   outbox, outboxRows, db, hook, stalls>>

---------------------------------------------------------------------------
\* Connections and websocket sessions.

Tracked == {c \in Conn : conn[c] \in {"open", "busy"}}    \* serve's JoinSet
Sessions == {c \in Conn : conn[c] = "session"}            \* OPEN_SESSIONS

Change(c, from, to) ==
    /\ ~gone /\ conn[c] = from /\ conn' = [conn EXCEPT ![c] = to]
    /\ UNCHANGED <<config, main, phase, requested, handler, age, spent, exit, scanned, gone,
                   outbox, db, hook, stalls>>

Accept(c) == main = "serve" /\ Change(c, "none", "open") /\ UNCHANGED <<waiter, outboxRows>>

\* A request; on an authoring gateway it may enqueue an event.  After the
\* request to stop, the connection closes once its answer is out.
HttpRequest(c) == ~requested /\ Change(c, "open", "busy") /\ UNCHANGED <<waiter, outboxRows>>
MayEnqueue == gateway_enabled /\ ~config.replica
RespondHttp(c) ==
    /\ Change(c, "busy", IF requested THEN "closed" ELSE "open")
    /\ outboxRows' \in {outboxRows, IF MayEnqueue THEN outboxRows \cup {c} ELSE outboxRows}
    /\ waiter' = waiter
Disconnect(c) == Change(c, "open", "closed") /\ UNCHANGED <<waiter, outboxRows>>

\* An upgrade takes the connection out of the JoinSet; the spawned handler
\* counts its session when it first runs.
Upgrade(c) == gateway_enabled /\ Change(c, "busy", "upgraded") /\ UNCHANGED <<waiter, outboxRows>>
socket_session(c) == Change(c, "upgraded", "session") /\ UNCHANGED <<waiter, outboxRows>>

\* Dropping the last session wakes whoever is waiting.
DropSession(c) == /\ Change(c, "session", "closed") /\ outboxRows' = outboxRows
                  /\ waiter' = IF Sessions = {c} /\ waiter \in {"enabled", "parked"}
                               THEN "woken" ELSE waiter

---------------------------------------------------------------------------
\* The end of serving.

Moves(from, to) == Free /\ main = from /\ main' = to /\ spent' = 0

\* shutdown.requested() ends the accept loop and the listener is dropped.
StopAccepting ==
    /\ requested /\ Moves("serve", "drain")
    /\ UNCHANGED others

\* sessions_closed: register for the wake-up, then read the count.
enable == /\ Free /\ main = "drain" /\ Tracked = {} /\ waiter \in {"no", "woken"}
          /\ waiter' = "enabled"
          /\ UNCHANGED <<config, main, phase, requested, handler, age, spent, exit, scanned,
                         gone, conn, outbox, outboxRows, db, hook, stalls>>

sessions_closedUnregistered ==
    /\ Free /\ main = "drain" /\ Tracked = {} /\ waiter = "enabled"
    /\ \/ Sessions = {} /\ main' = "worker" /\ spent' = 0 /\ waiter' = "no"
       \/ UNCHANGED <<main, spent>> /\ waiter' = "parked"
    /\ UNCHANGED <<config, phase, requested, handler, age, exit, scanned, gone, conn, outbox,
                   outboxRows, db, hook, stalls>>

sessions_closed ==
    /\ Free /\ main = "drain" /\ Tracked = {} /\ waiter = "enabled"
    /\ IF Sessions = {} THEN main' = "worker" /\ spent' = 0 /\ waiter' = "no"
       ELSE UNCHANGED <<main, spent>> /\ waiter' = "parked"
    /\ UNCHANGED <<config, phase, requested, handler, age, exit, scanned, gone, conn, outbox,
                   outboxRows, db, hook, stalls>>

\* The drain timeout, unless the drain is over by then, aborts what is left
\* of the JoinSet.
DrainTimeout ==
    /\ spent >= Timeout /\ Tracked \cup Sessions # {} /\ Moves("drain", "worker")
    /\ conn' = [c \in Conn |-> IF c \in Tracked THEN "cut" ELSE conn[c]]
    /\ waiter' = "no"
    /\ UNCHANGED <<config, phase, requested, handler, age, exit, scanned, gone, outbox, outboxRows,
                   db, hook, stalls>>

\* The outbox worker: a tick runs to its end; the stop is seen between ticks.
TickEnds == /\ ~gone /\ outbox = "tick" /\ outbox' = "idle"
            /\ outboxRows' = {}
            /\ UNCHANGED <<config, main, phase, requested, handler, age, spent, exit, scanned,
                           gone, conn, waiter, db, hook, stalls>>
TickBegins == /\ ~gone /\ outbox = "idle" /\ ~requested /\ outbox' = "tick"
              /\ UNCHANGED <<config, main, phase, requested, handler, age, spent, exit,
                             scanned, gone, conn, waiter, outboxRows, db, hook, stalls>>
WorkerStops == /\ ~gone /\ outbox = "idle" /\ requested /\ outbox' = "stopped"
               /\ UNCHANGED <<config, main, phase, requested, handler, age, spent, exit,
                              scanned, gone, conn, waiter, outboxRows, db, hook, stalls>>

\* Waiting for the worker, at most the timeout; then the final stop begins.
AwaitWorker ==
    /\ (outbox \notin {"none", "stopped"} => spent >= Timeout)
    /\ Moves("worker", "stop")
    /\ phase' = "stopping"
    /\ UNCHANGED <<config, requested, handler, age, exit, scanned, gone, conn, waiter, outbox,
                   outboxRows, db, hook, stalls>>

\* stop: the database's own shutdown, or its end by force when that fails or
\* takes too long; then main returns and the process exits.
StopDatabase ==
    /\ Moves("stop", "returned")
    /\ db' = "off"
    /\ UNCHANGED <<config, phase, requested, handler, age, exit, scanned, gone, conn, waiter,
                   outbox, outboxRows, hook, stalls>>
Return == /\ main = "returned" /\ Leave("graceful")
          /\ UNCHANGED <<config, main, phase, requested, handler, age, spent, scanned, gone,
                         conn, waiter, outbox, outboxRows, db, hook, stalls>>

\* Exiting: the hook stops every process it finds, then the process is gone.
force_stop ==
    /\ exit # "no" /\ ~scanned /\ scanned' = TRUE
    /\ db' = IF hook THEN "off" ELSE db
    /\ UNCHANGED <<config, main, phase, requested, handler, age, spent, exit, gone, conn,
                   waiter, outbox, outboxRows, hook, stalls>>
Vanish == /\ scanned /\ ~gone /\ gone' = TRUE
          /\ UNCHANGED <<config, main, phase, requested, handler, age, spent, exit, scanned,
                         conn, waiter, outbox, outboxRows, db, hook, stalls>>

---------------------------------------------------------------------------
\* Time: it passes while the main task waits for others; a starved runtime
\* lets it pass at any moment, up to a bound.
Waiting == \/ main \in {"serve", "stop"} /\ ~(main = "serve" /\ requested)
           \/ main = "drain" /\ spent < Timeout /\ (Tracked # {} \/ waiter = "parked")
           \/ main = "worker" /\ outbox \in {"tick", "idle"} /\ spent < Timeout
LifecycleTick ==
    /\ requested /\ exit = "no" /\ age < drain_deadline
    /\ \/ Waiting /\ stalls' = stalls
       \/ ~Waiting /\ stalls < MaxStalls /\ stalls' = stalls + 1
    /\ age' = age + 1
    /\ spent' = IF main \in {"drain", "worker"} /\ spent < Timeout THEN spent + 1 ELSE spent
    /\ UNCHANGED <<config, main, phase, requested, handler, exit, scanned, gone, conn,
                   waiter, outbox, outboxRows, db, hook>>

StartUp == \/ force_stop_on_exit \/ start_if_needed \/ create_database \/ apply_keys
           \/ resolve_roles \/ connect_ledger \/ load_identity \/ start_interest
           \/ choose_shard \/ guard_core_author \/ choose_realtime \/ build_state
           \/ spawn_workers \/ bind_and_mark_running
Connections == \E c \in Conn : \/ Accept(c) \/ HttpRequest(c) \/ RespondHttp(c) \/ Disconnect(c)
                               \/ Upgrade(c) \/ socket_session(c) \/ DropSession(c)
Wind == \/ StopAccepting \/ enable \/ sessions_closed \/ DrainTimeout \/ TickEnds
        \/ TickBegins \/ WorkerStops \/ AwaitWorker \/ StopDatabase \/ Return
        \/ force_stop \/ Vanish
Signalled == FirstSignal \/ SecondSignal \/ DeadlinePassed
LifecycleNext == StartUp \/ Connections \/ Wind \/ Signalled \/ LifecycleTick
LifecycleSpec == LifecycleInit /\ [][LifecycleNext]_lifecycleVars

---------------------------------------------------------------------------

\* shutdown.rs sessions_closed and Drop for SocketSession: a drain parked on
\* the notification always has a session left to wake it; the last session
\* cannot end unnoticed between the count being read and the wait.
WaiterNotForgotten == waiter = "parked" => Sessions # {}

-----------------------------------------------------------------------------
(* First-boot key resolution (node_keys.rs): every start reads the keys its *)
(* environment leaves unset from <data_dir>/keys, generating the missing     *)
(* ones.  Several starts may share the directory and any start may crash.    *)
(* A generated key is the start that generated it and its attempt.           *)
CONSTANTS Start,          \* the starts of nodes on one data directory
          KEYS,           \* the key variables
          AUTHORING_KEYS, \* those a replica never holds
          Setups,         \* Start -> [env: keys given by the environment, replica, remote]
          SigningKey,     \* AVALON_SETTLEMENT_SIGNING_KEY
          MaxCrashes
ASSUME KeysAssumption == SigningKey \in KEYS
VARIABLES file, start, crashes
keyVars == <<file, start, crashes>>

Absent == [by |-> "none", try |-> 0]
Partial == [by |-> "partial", try |-> 0]
Value(s, n) == [by |-> s, try |-> n]
FreshStart(n) == [at |-> "read", todo |-> KEYS, key |-> "none", env |-> [k \in KEYS |-> Absent],
             shard |-> Absent, try |-> n]

KeysInit == /\ file = [k \in KEYS |-> Absent]
            /\ start = [s \in Start |-> FreshStart(1)]
            /\ crashes = 0

\* The keys this start resolves from the directory; the others are the
\* environment's, or belong to an author.
Skipped(s, k) == \/ k \in Setups[s].env
                 \/ Setups[s].replica /\ k \in AUTHORING_KEYS

Keep(s, k, v) == start' = [start EXCEPT ![s].at = "read", ![s].key = "none",
                                        ![s].todo = @ \ {k}, ![s].env[k] = v]

Skip(s, k) == /\ start[s].at = "read" /\ k \in start[s].todo /\ Skipped(s, k)
              /\ start' = [start EXCEPT ![s].todo = @ \ {k}]
              /\ UNCHANGED <<file, crashes>>

\* A key already there is loaded; a damaged one is refused, never replaced.
read_key(s, k) ==
    /\ start[s].at = "read" /\ k \in start[s].todo /\ ~Skipped(s, k)
    /\ IF file[k] = Partial THEN start' = [start EXCEPT ![s].at = "refused"]
       ELSE IF file[k] # Absent THEN Keep(s, k, file[k])
       ELSE start' = [start EXCEPT ![s].at = "write", ![s].key = k]
    /\ UNCHANGED <<file, crashes>>

\* The candidate goes to a private temporary file first.
WriteTemp(s) ==
    /\ start[s].at = "write"
    /\ start' = [start EXCEPT ![s].at = "link"]
    /\ UNCHANGED <<file, crashes>>

\* ... and is linked into place unless another start was first, in which
\* case the loop reads again.
write_newUnread(s) ==
    LET k == start[s].key IN
    /\ start[s].at = "link"
    /\ file' = [file EXCEPT ![k] = IF @ = Absent THEN Value(s, start[s].try) ELSE @]
    /\ Keep(s, k, Value(s, start[s].try))
    /\ UNCHANGED crashes

write_new(s) ==
    LET k == start[s].key IN
    /\ start[s].at = "link"
    /\ IF file[k] = Absent
       THEN file' = [file EXCEPT ![k] = Value(s, start[s].try)]
            /\ Keep(s, k, Value(s, start[s].try))
       ELSE file' = file /\ start' = [start EXCEPT ![s].at = "read", ![s].key = "none"]
    /\ UNCHANGED crashes

\* The variables are set; a shard id is derived from a settlement key the
\* directory holds when nothing else says what this node authors.
resolve(s) ==
    /\ start[s].at = "read" /\ start[s].todo = {}
    /\ start' = [start EXCEPT ![s].at = "applied",
                   ![s].shard = IF Setups[s].replica \/ Setups[s].remote THEN Absent
                                ELSE start[s].env[SigningKey]]
    /\ UNCHANGED <<file, crashes>>

\* A crash or a restart, at any point.
Restart(s) ==
    /\ crashes < MaxCrashes /\ crashes' = crashes + 1
    /\ start' = [start EXCEPT ![s] = FreshStart(start[s].try + 1)]
    /\ UNCHANGED file

KeysNext == \E s \in Start : \/ \E k \in KEYS : Skip(s, k) \/ read_key(s, k)
                             \/ WriteTemp(s) \/ write_new(s) \/ resolve(s) \/ Restart(s)
KeysSpec == KeysInit /\ [][KeysNext]_keyVars

---------------------------------------------------------------------------
\* node_keys.rs write_new: starts that share a directory end up with the same
\* keys, and with the shard those keys certify, whatever they interleave.
StartsShareKeys ==
    \A s \in Start : start[s].at = "applied" =>
        /\ \A k \in KEYS : start[s].env[k] = IF Skipped(s, k) THEN Absent ELSE file[k]
        /\ start[s].shard \in {Absent, file[SigningKey]}

\* node_keys.rs write_new: "a crash never leaves a partial key", so no later
\* start is refused over a damaged file.
NoPartialKey == \A s \in Start : start[s].at # "refused"

\* node_keys.rs write_new: a key once in place is never replaced, over any
\* number of crashes and restarts.
KeysStay == [][\A k \in KEYS : file[k] \notin {Absent, Partial} => file'[k] = file[k]]_keyVars

============================================================================
