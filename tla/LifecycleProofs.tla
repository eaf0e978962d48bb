---- MODULE LifecycleProofs ----
(* What holds of one node's process for every value of the constants: its     *)
(* start-up, serving and shutdown, and the keys its starts agree on.  Each    *)
(* part gives the inductive invariant, the lemma that each action preserves   *)
(* it, and the theorems that follow.                                          *)
EXTENDS Lifecycle, TLAPS

-----------------------------------------------------------------------------
(* Start-up, serving and shutdown (Lifecycle).                                 *)

BootStages == {"hook", "database", "create", "keys", "roles", "ledger", "identity", "interest",
               "shard", "guard", "realtime", "state", "workers", "bind"}
ServingStages == {"serve", "drain", "worker", "stop", "returned"}
ConnStates == {"none", "open", "busy", "upgraded", "session", "closed", "cut"}

(* shutdown.rs drain_deadline: the deadline leaves room for both waits at     *)
(* their full length; it ends only a process whose runtime was starved.       *)
GracefulInTime == exit = "deadline" => stalls > 0

(* bundled_main.rs and bundled_postgres.rs: however the process ends, no      *)
(* database process started before the exit hook looked is left running.      *)
StartedIsStopped == gone => db # "up"

(* run.rs and replica.rs: wherever a request enqueued an event, a worker is   *)
(* there to settle it.                                                        *)
EnqueuedIsDrained == outboxRows # {} => outbox # "none"

LifecycleTypes ==
    /\ main \in BootStages \cup ServingStages /\ phase \in {"starting", "running", "stopping"}
    /\ conn \in [Conn -> ConnStates]
    /\ requested \in BOOLEAN /\ hook \in BOOLEAN /\ scanned \in BOOLEAN /\ gone \in BOOLEAN
    /\ age \in Nat /\ spent \in Nat /\ stalls \in Nat /\ spent <= Timeout /\ spent <= age
PhaseInv ==
    /\ phase = "starting" <=> main \in BootStages
    /\ phase = "stopping" <=> main \in {"stop", "returned"}
    /\ requested => phase # "starting"
    /\ main \in ServingStages \ {"serve"} => requested
    /\ \A c \in Conn : conn[c] # "none" => main \in ServingStages
TimeInv ==
    /\ ~ requested => age = 0
    /\ stalls = 0 => /\ main = "serve" => age = 0
                     /\ main = "drain" => age <= spent
                     /\ main = "worker" => age <= Timeout + spent
    /\ GracefulInTime
HookInv ==
    /\ main = "database" \/ db # "off" => hook
    /\ scanned => db # "up"
    /\ gone => scanned
QueueInv ==
    /\ main \in ServingStages \cup {"bind"} /\ MayEnqueue => outbox # "none"
    /\ EnqueuedIsDrained
LifecycleInv == LifecycleTypes /\ PhaseInv /\ TimeInv /\ HookInv /\ QueueInv /\ WaiterNotForgotten

(* The stages of start-up follow one another up to serving.                   *)
LEMMA AfterStage ==
    ASSUME NEW s \in BootStages
    PROVE  /\ After(s) \in BootStages \cup {"serve"}
           /\ After(s) = "serve" <=> s = "bind"
           /\ After(s) = "bind" => s = "workers"
           /\ After(s) # "hook" /\ (After(s) = "database" => s = "hook")
<1> DEFINE i == CHOOSE j \in 1..Len(Boot) : Boot[j] = s
<1>1. Len(Boot) = 14
  BY DEF Boot
<1>2. \E j \in 1..14 : Boot[j] = s
  BY DEF Boot, BootStages
<1>3. i \in 1..14 /\ Boot[i] = s
  BY <1>1, <1>2
<1>4. After(s) = IF i = 14 THEN "serve" ELSE Boot[i + 1]
  BY <1>1 DEF After
<1> HIDE DEF i
<1> QED BY <1>3, <1>4 DEF Boot, BootStages

LEMMA LifecycleInitInv == LifecycleInit => LifecycleInv
<1> SUFFICES ASSUME LifecycleInit PROVE LifecycleInv
  OBVIOUS
<1>1. main \in {"hook", "keys"} /\ conn = [c \in Conn |-> "none"]
  BY DEF LifecycleInit
<1>2. LifecycleTypes
  <2>1. conn \in [Conn -> ConnStates] /\ 0 <= Timeout
    BY <1>1, LifecycleAssumption DEF ConnStates
  <2>2. requested \in BOOLEAN /\ hook \in BOOLEAN /\ scanned \in BOOLEAN /\ gone \in BOOLEAN
    BY DEF LifecycleInit
  <2>3. phase = "starting" /\ age = 0 /\ spent = 0 /\ stalls = 0
    BY DEF LifecycleInit
  <2> QED BY <1>1, <2>1, <2>2, <2>3 DEF LifecycleTypes, BootStages
<1>3. PhaseInv
  BY <1>1 DEF LifecycleInit, PhaseInv, BootStages, ServingStages
<1>4. TimeInv /\ HookInv /\ QueueInv /\ WaiterNotForgotten
  BY <1>1 DEF LifecycleInit, TimeInv, HookInv, QueueInv, WaiterNotForgotten, GracefulInTime,
              EnqueuedIsDrained, ServingStages
<1> QED BY <1>2, <1>3, <1>4 DEF LifecycleInv

(* A step of start-up leaves the clocks, the connections and the drain alone. *)
BootFrame == UNCHANGED <<config, requested, age, spent, scanned, gone, conn, waiter, outboxRows, stalls>>

LEMMA BootStep ==
    ASSUME LifecycleInv, NEW s \in BootStages, Boots(s), BootFrame
    PROVE  /\ main = s /\ phase = "starting" /\ ~ requested /\ age = 0
           /\ main' \in {s, After(s)} /\ After(s) \in BootStages \cup {"serve"} /\ main' \in BootStages \cup {"serve"}
           /\ (\A c \in Conn : conn[c] = "none")
           /\ phase' = (IF s = "bind" /\ main' # main THEN "running" ELSE phase)
                 => (hook' \in BOOLEAN => LifecycleTypes') /\ PhaseInv'
           /\ TimeInv' /\ WaiterNotForgotten'
<1>1. /\ main = s /\ main' \in {s, After(s)} /\ (exit' = exit \/ exit' = "refused")
  BY DEF Boots
<1>2. /\ phase = "starting" /\ ~ requested /\ age = 0 /\ \A c \in Conn : conn[c] = "none"
  BY <1>1 DEF LifecycleInv, PhaseInv, TimeInv, ServingStages, BootStages
<1>3. /\ After(s) \in BootStages \cup {"serve"} /\ (After(s) = "serve" <=> s = "bind")
  BY AfterStage
<1>4. ASSUME phase' = IF s = "bind" /\ main' # main THEN "running" ELSE phase
      PROVE  (hook' \in BOOLEAN => LifecycleTypes') /\ PhaseInv'
  <2>1. hook' \in BOOLEAN => LifecycleTypes'
    BY <1>1, <1>2, <1>3, <1>4 DEF LifecycleInv, LifecycleTypes, BootFrame, ServingStages
  <2>2. PhaseInv'
    BY <1>1, <1>2, <1>3, <1>4 DEF PhaseInv, BootFrame, ServingStages, BootStages
  <2> QED BY <2>1, <2>2
<1>5. TimeInv'
  BY <1>1, <1>2, <1>3 DEF LifecycleInv, TimeInv, GracefulInTime, BootFrame, BootStages
<1>6. WaiterNotForgotten'
  BY DEF LifecycleInv, WaiterNotForgotten, Sessions, BootFrame
<1> QED BY <1>1, <1>2, <1>3, <1>4, <1>5, <1>6

LEMMA HookStep == ASSUME LifecycleInv, force_stop_on_exit PROVE LifecycleInv'
<1>1. "hook" \in BootStages /\ "database" \in BootStages
  BY DEF BootStages
<1>2. LifecycleTypes'
  BY <1>1 DEF LifecycleInv, LifecycleTypes, force_stop_on_exit
<1>3. PhaseInv'
  BY <1>1 DEF LifecycleInv, PhaseInv, force_stop_on_exit, ServingStages
<1>4. TimeInv' /\ HookInv' /\ WaiterNotForgotten'
  BY DEF LifecycleInv, TimeInv, GracefulInTime, HookInv, WaiterNotForgotten, Sessions, force_stop_on_exit
<1>5. QueueInv'
  BY DEF LifecycleInv, QueueInv, EnqueuedIsDrained, ServingStages, force_stop_on_exit
<1> QED BY <1>2, <1>3, <1>4, <1>5 DEF LifecycleInv

LEMMA DatabaseStep == ASSUME LifecycleInv, start_if_needed PROVE LifecycleInv'
<1>1. "database" \in BootStages /\ Boots("database") /\ BootFrame /\ UNCHANGED <<phase, hook, outbox>>
  BY DEF BootStages, start_if_needed, BootFrame
<1>2. main = "database" /\ main' \in {"database", After("database")} /\ TimeInv' /\ WaiterNotForgotten'
  BY <1>1, BootStep
<1>3. LifecycleTypes' /\ PhaseInv'
  <2>1. hook' \in BOOLEAN
    BY <1>1 DEF LifecycleInv, LifecycleTypes
  <2> QED BY <1>1, <2>1, BootStep
<1>4. HookInv'
  BY <1>1, <1>2 DEF LifecycleInv, HookInv, start_if_needed
<1>5. main' \notin ServingStages \cup {"bind"}
  <2>1. After("database") \in BootStages \cup {"serve"} /\ After("database") # "serve" /\ After("database") # "bind"
    BY <1>1, AfterStage
  <2> QED BY <1>2, <2>1 DEF BootStages, ServingStages
<1>6. QueueInv'
  BY <1>1, <1>5 DEF LifecycleInv, QueueInv, EnqueuedIsDrained, BootFrame
<1> QED BY <1>2, <1>3, <1>4, <1>6 DEF LifecycleInv

LEMMA QuietStep ==
    ASSUME LifecycleInv, NEW s \in BootStages \ {"hook", "database", "workers", "bind"}, Quietly(s)
    PROVE  LifecycleInv'
<1>1. Boots(s) /\ BootFrame /\ UNCHANGED <<phase, hook, outbox, db>>
  BY DEF Quietly, BootFrame
<1>2. main = s /\ main' \in {s, After(s)} /\ TimeInv' /\ WaiterNotForgotten'
  BY <1>1, BootStep
<1>3. LifecycleTypes' /\ PhaseInv'
  <2>1. hook' \in BOOLEAN
    BY <1>1 DEF LifecycleInv, LifecycleTypes
  <2> QED BY <1>1, <2>1, BootStep
<1>4. After(s) \in BootStages /\ After(s) # "bind" /\ After(s) # "database"
  BY AfterStage
<1>5. HookInv'
  BY <1>1, <1>2, <1>4 DEF LifecycleInv, HookInv, BootFrame
<1>6. main' \notin ServingStages \cup {"bind"}
  BY <1>2, <1>4 DEF BootStages, ServingStages
<1>7. QueueInv'
  BY <1>1, <1>6 DEF LifecycleInv, QueueInv, EnqueuedIsDrained, BootFrame
<1> QED BY <1>2, <1>3, <1>5, <1>7 DEF LifecycleInv

LEMMA WorkersStep == ASSUME LifecycleInv, spawn_workers PROVE LifecycleInv'
<1>1. "workers" \in BootStages /\ Boots("workers") /\ BootFrame /\ UNCHANGED <<phase, hook, db>>
  BY DEF BootStages, spawn_workers, BootFrame
<1>2. main = "workers" /\ main' \in {"workers", After("workers")} /\ TimeInv' /\ WaiterNotForgotten'
  BY <1>1, BootStep
<1>3. LifecycleTypes' /\ PhaseInv'
  <2>1. hook' \in BOOLEAN
    BY <1>1 DEF LifecycleInv, LifecycleTypes
  <2> QED BY <1>1, <2>1, BootStep
<1>4. After("workers") \in BootStages /\ After("workers") # "database"
  BY <1>1, AfterStage
<1>5. HookInv'
  BY <1>1, <1>2, <1>4 DEF LifecycleInv, HookInv, BootFrame
<1>6. main' \in ServingStages \cup {"bind"} => main' # main
  BY <1>2 DEF ServingStages
<1>7. QueueInv'
  BY <1>1, <1>6 DEF LifecycleInv, QueueInv, EnqueuedIsDrained, BootFrame, spawn_workers, MayEnqueue,
                    gateway_enabled, is_settlement_only
<1> QED BY <1>2, <1>3, <1>5, <1>7 DEF LifecycleInv

LEMMA BindStep == ASSUME LifecycleInv, bind_and_mark_running PROVE LifecycleInv'
<1>1. "bind" \in BootStages /\ Boots("bind") /\ BootFrame /\ UNCHANGED <<hook, db, outbox>>
      /\ phase' = IF main' # main THEN "running" ELSE phase
  BY DEF BootStages, bind_and_mark_running, BootFrame
<1>2. main = "bind" /\ main' \in {"bind", After("bind")} /\ TimeInv' /\ WaiterNotForgotten'
  BY <1>1, BootStep
<1>3. LifecycleTypes' /\ PhaseInv'
  <2>1. hook' \in BOOLEAN
    BY <1>1 DEF LifecycleInv, LifecycleTypes
  <2> QED BY <1>1, <2>1, BootStep
<1>4. After("bind") = "serve"
  BY <1>1, AfterStage
<1>5. HookInv'
  BY <1>1, <1>2, <1>4 DEF LifecycleInv, HookInv, BootFrame
<1>6. QueueInv'
  BY <1>1, <1>2 DEF LifecycleInv, QueueInv, EnqueuedIsDrained, BootFrame, MayEnqueue,
                    gateway_enabled, is_settlement_only
<1> QED BY <1>2, <1>3, <1>5, <1>6 DEF LifecycleInv

LEMMA SignalStep == ASSUME LifecycleInv, Signalled PROVE LifecycleInv'
<1>1. UNCHANGED <<config, main, phase, age, spent, scanned, gone, conn, waiter, outbox, outboxRows, db, hook, stalls>>
  BY DEF Signalled, FirstSignal, SecondSignal, DeadlinePassed
<1>2. /\ requested' \in BOOLEAN /\ (requested' => phase # "starting") /\ (requested => requested')
  <2>1. requested \in BOOLEAN /\ (requested => phase # "starting")
    BY DEF LifecycleInv, LifecycleTypes, PhaseInv
  <2>2. CASE requested' = requested
    BY <2>1, <2>2
  <2>3. CASE requested' = TRUE /\ phase # "starting"
    BY <2>3
  <2> QED BY <2>2, <2>3 DEF Signalled, FirstSignal, SecondSignal, DeadlinePassed
<1>3. LifecycleTypes' /\ PhaseInv'
  BY <1>1, <1>2 DEF LifecycleInv, LifecycleTypes, PhaseInv
<1>4. TimeInv'
  <2>1. CASE FirstSignal \/ SecondSignal
    BY <1>1, <1>2, <2>1 DEF LifecycleInv, TimeInv, GracefulInTime, FirstSignal, SecondSignal, Leave
  <2>2. CASE DeadlinePassed
    <3>1. ASSUME phase # "stopping", age = drain_deadline PROVE stalls # 0
      <4>1. main \in {"serve", "drain", "worker"} \/ age = 0
        BY <3>1 DEF LifecycleInv, LifecycleTypes, PhaseInv, TimeInv, ServingStages
      <4>2. Timeout \in Nat /\ age = 2 * Timeout + 1 /\ spent \in Nat /\ spent <= Timeout
        BY <3>1, LifecycleAssumption DEF LifecycleInv, LifecycleTypes, drain_deadline
      <4>3. SUFFICES ASSUME stalls = 0 PROVE FALSE
        OBVIOUS
      <4>4. /\ main = "serve" => age = 0
            /\ main = "drain" => age <= spent
            /\ main = "worker" => age <= Timeout + spent
        BY <4>3 DEF LifecycleInv, TimeInv
      <4> QED BY <4>1, <4>2, <4>4
    <3>2. exit' = exit \/ stalls # 0
      BY <2>2, <3>1 DEF DeadlinePassed
    <3>3. requested' = requested /\ stalls \in Nat
      BY <2>2 DEF DeadlinePassed, LifecycleInv, LifecycleTypes
    <3> QED BY <1>1, <3>2, <3>3 DEF LifecycleInv, TimeInv, GracefulInTime
  <2> QED BY <2>1, <2>2 DEF Signalled
<1>5. HookInv' /\ WaiterNotForgotten'
  BY <1>1 DEF LifecycleInv, HookInv, WaiterNotForgotten, Sessions
<1>6. QueueInv'
  BY <1>1 DEF LifecycleInv, QueueInv, EnqueuedIsDrained, MayEnqueue, gateway_enabled, is_settlement_only
<1> QED BY <1>3, <1>4, <1>5, <1>6 DEF LifecycleInv

(* A connection that changes: what is left to show is the waiter's and the    *)
(* queue's part.                                                              *)
LEMMA ChangeStep ==
    ASSUME LifecycleInv, NEW c \in Conn, NEW from, NEW to \in ConnStates, Change(c, from, to),
           from # "none" \/ main = "serve"
    PROVE  /\ LifecycleTypes' /\ PhaseInv' /\ TimeInv' /\ HookInv'
           /\ conn[c] = from /\ conn'[c] = to /\ (\A d \in Conn : d # c => conn'[d] = conn[d])
           /\ main \in ServingStages
           /\ UNCHANGED <<config, main, outbox>>
<1>1. /\ conn[c] = from /\ conn' = [conn EXCEPT ![c] = to] /\ conn \in [Conn -> ConnStates]
      /\ UNCHANGED <<config, main, phase, requested, handler, age, spent, exit, scanned, gone, outbox, db, hook, stalls>>
  BY DEF Change, LifecycleInv, LifecycleTypes
<1>2. conn' \in [Conn -> ConnStates] /\ conn'[c] = to /\ \A d \in Conn : d # c => conn'[d] = conn[d]
  BY <1>1
<1>3. main \in ServingStages
  BY <1>1 DEF LifecycleInv, PhaseInv, ServingStages
<1>4. LifecycleTypes' /\ PhaseInv'
  BY <1>1, <1>2, <1>3 DEF LifecycleInv, LifecycleTypes, PhaseInv
<1>5. TimeInv' /\ HookInv'
  BY <1>1 DEF LifecycleInv, TimeInv, GracefulInTime, HookInv
<1> QED BY <1>1, <1>2, <1>3, <1>4, <1>5

LEMMA ConnectionStep == ASSUME LifecycleInv, Connections PROVE LifecycleInv'
<1>1. PICK c \in Conn : \/ Accept(c) \/ HttpRequest(c) \/ RespondHttp(c) \/ Disconnect(c)
                        \/ Upgrade(c) \/ socket_session(c) \/ DropSession(c)
  BY DEF Connections
<1>2. \A x \in {"none", "open", "busy", "upgraded", "session", "closed", "cut"} : x \in ConnStates
  BY DEF ConnStates
<1>3. ASSUME NEW from, NEW to \in ConnStates, Change(c, from, to), from # "session",
             from # "none" \/ main = "serve", waiter' = waiter, outboxRows' = outboxRows
      PROVE  LifecycleInv'
  <2>1. /\ LifecycleTypes' /\ PhaseInv' /\ TimeInv' /\ HookInv' /\ UNCHANGED <<config, main, outbox>>
        /\ conn[c] = from /\ (\A d \in Conn : d # c => conn'[d] = conn[d])
    BY <1>3, ChangeStep
  <2>2. Sessions \subseteq Sessions'
    BY <1>3, <2>1 DEF Sessions
  <2>3. WaiterNotForgotten'
    BY <1>3, <2>2 DEF LifecycleInv, WaiterNotForgotten
  <2>4. QueueInv'
    BY <1>3, <2>1 DEF LifecycleInv, QueueInv, EnqueuedIsDrained, MayEnqueue, gateway_enabled, is_settlement_only
  <2> QED BY <2>1, <2>3, <2>4 DEF LifecycleInv
<1>4. CASE Accept(c)
  BY <1>2, <1>3, <1>4 DEF Accept
<1>5. CASE HttpRequest(c)
  BY <1>2, <1>3, <1>5 DEF HttpRequest
<1>6. CASE RespondHttp(c)
  <2>1. PICK to \in ConnStates : Change(c, "busy", to)
    BY <1>2, <1>6 DEF RespondHttp
  <2>2. /\ LifecycleTypes' /\ PhaseInv' /\ TimeInv' /\ HookInv' /\ UNCHANGED <<config, main, outbox>>
        /\ conn[c] = "busy" /\ (\A d \in Conn : d # c => conn'[d] = conn[d]) /\ main \in ServingStages
    BY <2>1, ChangeStep
  <2>3. Sessions \subseteq Sessions' /\ waiter' = waiter
    BY <1>6, <2>2 DEF Sessions, RespondHttp
  <2>4. WaiterNotForgotten'
    BY <2>3 DEF LifecycleInv, WaiterNotForgotten
  <2>5. outboxRows' = outboxRows \/ MayEnqueue
    BY <1>6 DEF RespondHttp
  <2>6. QueueInv'
    BY <2>2, <2>5 DEF LifecycleInv, QueueInv, EnqueuedIsDrained, MayEnqueue, gateway_enabled, is_settlement_only
  <2> QED BY <2>2, <2>4, <2>6 DEF LifecycleInv
<1>7. CASE Disconnect(c)
  BY <1>2, <1>3, <1>7 DEF Disconnect
<1>8. CASE Upgrade(c)
  BY <1>2, <1>3, <1>8 DEF Upgrade
<1>9. CASE socket_session(c)
  BY <1>2, <1>3, <1>9 DEF socket_session
<1>10. CASE DropSession(c)
  <2>1. /\ LifecycleTypes' /\ PhaseInv' /\ TimeInv' /\ HookInv' /\ UNCHANGED <<config, main, outbox>>
        /\ conn[c] = "session" /\ conn'[c] = "closed" /\ (\A d \in Conn : d # c => conn'[d] = conn[d])
    BY <1>2, <1>10, ChangeStep DEF DropSession
  <2>2. Sessions' = Sessions \ {c} /\ c \in Sessions
    BY <2>1 DEF Sessions
  <2>3. WaiterNotForgotten'
    BY <1>10, <2>2 DEF LifecycleInv, WaiterNotForgotten, DropSession
  <2>4. QueueInv'
    BY <1>10, <2>1 DEF LifecycleInv, QueueInv, EnqueuedIsDrained, MayEnqueue, gateway_enabled,
                       is_settlement_only, DropSession
  <2> QED BY <2>1, <2>3, <2>4 DEF LifecycleInv
<1> QED BY <1>1, <1>4, <1>5, <1>6, <1>7, <1>8, <1>9, <1>10

LEMMA DrainStep ==
    ASSUME LifecycleInv, StopAccepting \/ enable \/ sessions_closed \/ DrainTimeout PROVE LifecycleInv'
<1>1. CASE StopAccepting
  <2>1. main = "serve" /\ main' = "drain" /\ spent' = 0 /\ requested /\ UNCHANGED others
    BY <1>1 DEF StopAccepting, Moves
  <2>2. LifecycleTypes' /\ PhaseInv'
    BY <2>1, LifecycleAssumption DEF LifecycleInv, LifecycleTypes, PhaseInv, others, ServingStages, BootStages
  <2>3. TimeInv'
    BY <2>1 DEF LifecycleInv, TimeInv, GracefulInTime, others
  <2>4. HookInv' /\ WaiterNotForgotten'
    BY <2>1 DEF LifecycleInv, HookInv, WaiterNotForgotten, Sessions, others
  <2>5. QueueInv'
    BY <2>1 DEF LifecycleInv, QueueInv, EnqueuedIsDrained, MayEnqueue, gateway_enabled, is_settlement_only, others, ServingStages
  <2> QED BY <2>2, <2>3, <2>4, <2>5 DEF LifecycleInv
<1>2. CASE enable
  <2>1. waiter' = "enabled" /\ UNCHANGED <<config, main, phase, requested, handler, age, spent, exit, scanned,
                         gone, conn, outbox, outboxRows, db, hook, stalls>>
    BY <1>2 DEF enable
  <2>2. LifecycleTypes' /\ PhaseInv'
    BY <2>1 DEF LifecycleInv, LifecycleTypes, PhaseInv
  <2>3. TimeInv' /\ HookInv' /\ WaiterNotForgotten'
    BY <2>1 DEF LifecycleInv, TimeInv, GracefulInTime, HookInv, WaiterNotForgotten
  <2>5. QueueInv'
    BY <2>1 DEF LifecycleInv, QueueInv, EnqueuedIsDrained, MayEnqueue, gateway_enabled, is_settlement_only
  <2> QED BY <2>2, <2>3, <2>5 DEF LifecycleInv
<1>3. CASE sessions_closed
  <2>1. /\ main = "drain" /\ UNCHANGED <<config, phase, requested, handler, age, exit, scanned, gone, conn,
                                         outbox, outboxRows, db, hook, stalls>>
        /\ \/ main' = "worker" /\ spent' = 0 /\ waiter' = "no"
           \/ Sessions # {} /\ main' = main /\ spent' = spent /\ waiter' = "parked"
    BY <1>3 DEF sessions_closed
  <2>2. requested /\ phase \notin {"starting", "stopping"}
    BY <2>1 DEF LifecycleInv, PhaseInv, ServingStages, BootStages
  <2>3. LifecycleTypes' /\ PhaseInv'
    BY <2>1, <2>2, LifecycleAssumption DEF LifecycleInv, LifecycleTypes, PhaseInv, ServingStages, BootStages
  <2>4. TimeInv'
    <3>1. spent \in Nat /\ spent <= Timeout /\ age \in Nat /\ Timeout \in Nat
      BY LifecycleAssumption DEF LifecycleInv, LifecycleTypes
    <3> QED BY <2>1, <3>1 DEF LifecycleInv, TimeInv, GracefulInTime
  <2>5. HookInv' /\ WaiterNotForgotten'
    BY <2>1 DEF LifecycleInv, HookInv, WaiterNotForgotten, Sessions
  <2>6. QueueInv'
    BY <2>1 DEF LifecycleInv, QueueInv, EnqueuedIsDrained, MayEnqueue, gateway_enabled, is_settlement_only, ServingStages
  <2> QED BY <2>3, <2>4, <2>5, <2>6 DEF LifecycleInv
<1>4. CASE DrainTimeout
  <2>1. /\ main = "drain" /\ main' = "worker" /\ spent' = 0 /\ waiter' = "no"
        /\ conn' = [c \in Conn |-> IF c \in Tracked THEN "cut" ELSE conn[c]]
        /\ UNCHANGED <<config, phase, requested, handler, age, exit, scanned, gone, outbox, outboxRows,
                   db, hook, stalls>>
    BY <1>4 DEF DrainTimeout, Moves
  <2>2. requested /\ phase \notin {"starting", "stopping"}
    BY <2>1 DEF LifecycleInv, PhaseInv, ServingStages, BootStages
  <2>3. conn' \in [Conn -> ConnStates]
    BY <2>1 DEF LifecycleInv, LifecycleTypes, ConnStates
  <2>4. LifecycleTypes' /\ PhaseInv'
    BY <2>1, <2>2, <2>3, LifecycleAssumption DEF LifecycleInv, LifecycleTypes, PhaseInv, ServingStages, BootStages
  <2>5. TimeInv'
    <3>1. spent \in Nat /\ spent <= Timeout /\ age \in Nat /\ Timeout \in Nat
      BY LifecycleAssumption DEF LifecycleInv, LifecycleTypes
    <3> QED BY <2>1, <3>1 DEF LifecycleInv, TimeInv, GracefulInTime
  <2>6. HookInv' /\ WaiterNotForgotten'
    BY <2>1 DEF LifecycleInv, HookInv, WaiterNotForgotten
  <2>7. QueueInv'
    BY <2>1 DEF LifecycleInv, QueueInv, EnqueuedIsDrained, MayEnqueue, gateway_enabled, is_settlement_only, ServingStages
  <2> QED BY <2>4, <2>5, <2>6, <2>7 DEF LifecycleInv
<1> QED BY <1>1, <1>2, <1>3, <1>4

LEMMA WorkerStep == ASSUME LifecycleInv, TickEnds \/ TickBegins \/ WorkerStops PROVE LifecycleInv'
<1>1. /\ outbox \in {"tick", "idle"} /\ outbox' # "none" /\ (outboxRows' = outboxRows \/ outboxRows' = {})
      /\ UNCHANGED <<config, main, phase, requested, handler, age, spent, exit, scanned, gone, conn, waiter, db, hook, stalls>>
  BY DEF TickEnds, TickBegins, WorkerStops
<1>2. LifecycleTypes' /\ PhaseInv'
  BY <1>1 DEF LifecycleInv, LifecycleTypes, PhaseInv
<1>3. TimeInv' /\ HookInv' /\ WaiterNotForgotten'
  BY <1>1 DEF LifecycleInv, TimeInv, GracefulInTime, HookInv, WaiterNotForgotten, Sessions
<1>4. QueueInv'
  BY <1>1 DEF QueueInv, EnqueuedIsDrained
<1> QED BY <1>2, <1>3, <1>4 DEF LifecycleInv

LEMMA StopStep ==
    ASSUME LifecycleInv, AwaitWorker \/ StopDatabase \/ Return \/ force_stop \/ Vanish PROVE LifecycleInv'
<1>1. UNCHANGED <<config, requested, age, conn, waiter, outbox, outboxRows, hook, stalls>>
  BY DEF AwaitWorker, StopDatabase, Return, force_stop, Vanish
<1>2. /\ \/ UNCHANGED <<main, phase, spent>>
         \/ main = "worker" /\ main' = "stop" /\ phase' = "stopping" /\ spent' = 0
         \/ main = "stop" /\ main' = "returned" /\ phase' = phase /\ spent' = 0
      /\ exit' = exit \/ exit' = "graceful"
  BY DEF AwaitWorker, StopDatabase, Return, force_stop, Vanish, Moves, Leave
<1>3. scanned' \in BOOLEAN /\ gone' \in BOOLEAN
  BY DEF AwaitWorker, StopDatabase, Return, force_stop, Vanish, LifecycleInv, LifecycleTypes
<1>4. LifecycleTypes' /\ PhaseInv'
  <2>2. LifecycleTypes'
    BY <1>1, <1>2, <1>3, LifecycleAssumption DEF LifecycleInv, LifecycleTypes, ServingStages
  <2>3. PhaseInv'
    BY <1>1, <1>2 DEF LifecycleInv, PhaseInv, ServingStages, BootStages
  <2> QED BY <2>2, <2>3
<1>5. TimeInv'
  BY <1>1, <1>2 DEF LifecycleInv, TimeInv, GracefulInTime
<1>6. HookInv'
  <2>1. CASE AwaitWorker \/ StopDatabase \/ Return
    BY <2>1 DEF LifecycleInv, HookInv, AwaitWorker, StopDatabase, Return, Moves
  <2>2. CASE force_stop \/ Vanish
    BY <2>2 DEF LifecycleInv, HookInv, force_stop, Vanish
  <2> QED BY <2>1, <2>2
<1>7. WaiterNotForgotten'
  BY <1>1 DEF LifecycleInv, WaiterNotForgotten, Sessions
<1>8. QueueInv'
  BY <1>1, <1>2 DEF LifecycleInv, QueueInv, EnqueuedIsDrained, MayEnqueue, gateway_enabled, is_settlement_only, ServingStages
<1> QED BY <1>4, <1>5, <1>6, <1>7, <1>8 DEF LifecycleInv

LEMMA TimeStep == ASSUME LifecycleInv, LifecycleTick PROVE LifecycleInv'
<1>1. /\ UNCHANGED <<config, main, phase, requested, handler, exit, scanned, gone, conn, waiter, outbox, outboxRows, db, hook>>
      /\ requested /\ exit = "no" /\ age' = age + 1
      /\ spent' = IF main \in {"drain", "worker"} /\ spent < Timeout THEN spent + 1 ELSE spent
      /\ (stalls' = stalls /\ Waiting) \/ stalls' = stalls + 1
  BY DEF LifecycleTick
<1>2. age \in Nat /\ spent \in Nat /\ stalls \in Nat /\ Timeout \in Nat /\ spent <= Timeout /\ spent <= age
  BY LifecycleAssumption DEF LifecycleInv, LifecycleTypes
<1>3. LifecycleTypes' /\ PhaseInv'
  <2>1. spent' \in Nat /\ spent' <= Timeout /\ spent' <= age' /\ age' \in Nat /\ stalls' \in Nat
    BY <1>1, <1>2
  <2> QED BY <1>1, <2>1 DEF LifecycleInv, LifecycleTypes, PhaseInv
<1>4. stalls' = 0 => /\ main = "serve" => age' = 0
                     /\ main = "drain" => age' <= spent'
                     /\ main = "worker" => age' <= Timeout + spent'
  <2> SUFFICES ASSUME stalls' = 0 PROVE /\ main # "serve"
                                        /\ main = "drain" => age' <= spent'
                                        /\ main = "worker" => age' <= Timeout + spent'
    OBVIOUS
  <2>1. Waiting /\ stalls = 0
    BY <1>1, <1>2
  <2>2. main # "serve" /\ (main \in {"drain", "worker"} => spent < Timeout)
    BY <1>1, <2>1 DEF Waiting
  <2>3. /\ main = "drain" => age <= spent
        /\ main = "worker" => age <= Timeout + spent
    BY <2>1 DEF LifecycleInv, TimeInv
  <2> QED BY <1>1, <1>2, <2>2, <2>3
<1>5. TimeInv'
  BY <1>1, <1>4 DEF TimeInv, GracefulInTime
<1>6. HookInv' /\ WaiterNotForgotten'
  BY <1>1 DEF LifecycleInv, HookInv, WaiterNotForgotten, Sessions
<1>7. QueueInv'
  BY <1>1 DEF LifecycleInv, QueueInv, EnqueuedIsDrained, MayEnqueue, gateway_enabled, is_settlement_only
<1> QED BY <1>3, <1>5, <1>6, <1>7 DEF LifecycleInv

LEMMA LifecycleNextInv == LifecycleInv /\ [LifecycleNext]_lifecycleVars => LifecycleInv'
<1> SUFFICES ASSUME LifecycleInv, [LifecycleNext]_lifecycleVars PROVE LifecycleInv'
  OBVIOUS
<1>1. CASE UNCHANGED lifecycleVars
  BY <1>1 DEF lifecycleVars, LifecycleInv, LifecycleTypes, PhaseInv, TimeInv, GracefulInTime, HookInv, QueueInv,
              EnqueuedIsDrained, MayEnqueue, gateway_enabled, is_settlement_only, WaiterNotForgotten, Sessions
<1>2. CASE StartUp
  <2>1. CASE \E s \in BootStages \ {"hook", "database", "workers", "bind"} : Quietly(s)
    BY <2>1, QuietStep
  <2>2. CASE force_stop_on_exit \/ start_if_needed \/ spawn_workers \/ bind_and_mark_running
    BY <2>2, HookStep, DatabaseStep, WorkersStep, BindStep
  <2>3. create_database => Quietly("create")
    BY DEF create_database, Quietly
  <2> QED BY <1>2, <2>1, <2>2, <2>3 DEF StartUp, BootStages, apply_keys, resolve_roles, connect_ledger, load_identity,
             start_interest, choose_shard, guard_core_author, choose_realtime, build_state
<1>3. CASE Connections
  BY <1>3, ConnectionStep
<1>4. CASE Wind
  BY <1>4, DrainStep, WorkerStep, StopStep DEF Wind
<1>5. CASE Signalled
  BY <1>5, SignalStep
<1>6. CASE LifecycleTick
  BY <1>6, TimeStep
<1> QED BY <1>1, <1>2, <1>3, <1>4, <1>5, <1>6 DEF LifecycleNext

(* run.rs, serve.rs: the published phase follows the stage of the main        *)
(* task, the time a stop has taken is bounded by what its stages may use, the *)
(* shutdown hook covers an opened database, and queued work has a worker.     *)
THEOREM LifecycleInvariant == LifecycleSpec => []LifecycleInv
BY LifecycleInitInv, LifecycleNextInv, PTL DEF LifecycleSpec

(* A drain parked on the notification always has a session left to wake it    *)
(* (sessions_closed, Drop for SocketSession).                                 *)
THEOREM DrainIsWoken == LifecycleSpec => []WaiterNotForgotten
<1>1. LifecycleInv => WaiterNotForgotten
  BY DEF LifecycleInv
<1> QED BY <1>1, LifecycleInvariant, PTL

(* The deadline ends only a starved process, the exit leaves no database      *)
(* process it could have seen, and an enqueued event has a worker.            *)
THEOREM ExitIsOrderly == LifecycleSpec => [](GracefulInTime /\ StartedIsStopped /\ EnqueuedIsDrained)
<1>1. LifecycleInv => GracefulInTime /\ StartedIsStopped /\ EnqueuedIsDrained
  BY DEF LifecycleInv, TimeInv, HookInv, QueueInv, StartedIsStopped
<1> QED BY <1>1, LifecycleInvariant, PTL

(* serve.rs: a connection is cut only when the whole drain timeout has passed *)
(* since the stop was asked for.                                              *)
RequestsFinish == [][\A c \in Conn : conn'[c] = "cut" /\ conn[c] # "cut" => age >= Timeout]_lifecycleVars
THEOREM RequestsGetTheirTime == LifecycleSpec => RequestsFinish
<1>1. LifecycleInv /\ [LifecycleNext]_lifecycleVars
        => [\A c \in Conn : conn'[c] = "cut" /\ conn[c] # "cut" => age >= Timeout]_lifecycleVars
  <2> SUFFICES ASSUME LifecycleInv, LifecycleNext, NEW c \in Conn, conn'[c] = "cut", conn[c] # "cut"
               PROVE  age >= Timeout
    BY DEF lifecycleVars
  <2>1. age \in Nat /\ spent \in Nat /\ spent <= age /\ Timeout \in Nat
    BY LifecycleAssumption DEF LifecycleInv, LifecycleTypes
  <2>2. CASE DrainTimeout
    BY <2>1, <2>2 DEF DrainTimeout
  <2>3. ASSUME NEW d \in Conn, NEW from, NEW to, Change(d, from, to), to # "cut" PROVE FALSE
    BY <2>3 DEF Change, LifecycleInv, LifecycleTypes
  <2>4. CASE Connections
    BY <2>3, <2>4 DEF Connections, Accept, HttpRequest, RespondHttp, Disconnect, Upgrade, socket_session, DropSession
  <2>5. CASE UNCHANGED conn
    BY <2>5
  <2>6. StartUp \/ Signalled \/ LifecycleTick => UNCHANGED conn
    BY DEF StartUp, Signalled, LifecycleTick, force_stop_on_exit, start_if_needed, create_database, Quietly,
           apply_keys, resolve_roles, connect_ledger, load_identity, start_interest, choose_shard, guard_core_author,
           choose_realtime, build_state, spawn_workers, bind_and_mark_running, FirstSignal, SecondSignal, DeadlinePassed
  <2>7. Wind => DrainTimeout \/ UNCHANGED conn
    BY DEF Wind, StopAccepting, others, enable, sessions_closed, TickEnds, TickBegins, WorkerStops, AwaitWorker,
           StopDatabase, Return, force_stop, Vanish
  <2> QED BY <2>2, <2>4, <2>5, <2>6, <2>7 DEF LifecycleNext
<1> QED BY <1>1, LifecycleInvariant, PTL DEF LifecycleSpec, RequestsFinish

-----------------------------------------------------------------------------
(* The node's keys (Lifecycle): any number of starts, keys and crashes.       *)


Generated == [by : Start, try : Nat \ {0}]
Resolving == [at : {"read", "write", "link", "applied"}, todo : SUBSET KEYS,
              key : KEYS \cup {"none"}, env : [KEYS -> Generated \cup {Absent}],
              shard : Generated \cup {Absent}, try : Nat \ {0}]

\* A start in state r holds what the directory holds for the keys it is done
\* with, and nothing for the others.
HoldsFile(s, r, f) ==
    /\ \A k \in KEYS : r.env[k] = IF Skipped(s, k) \/ k \in r.todo THEN Absent ELSE f[k]
    /\ \A k \in KEYS : ~Skipped(s, k) /\ k \notin r.todo => f[k] # Absent
    /\ r.at \in {"write", "link"} => r.key \in r.todo /\ ~Skipped(s, r.key)
    /\ r.at = "applied" => r.todo = {}
    /\ r.shard \in {Absent, f[SigningKey]}

\* The directory holds whole keys only, and every start agrees with it.
KeysInv ==
    /\ file \in [KEYS -> Generated \cup {Absent}]
    /\ start \in [Start -> Resolving]
    /\ \A s \in Start : HoldsFile(s, start[s], file)

LEMMA KeysInvInit == KeysInit => KeysInv
<1> SUFFICES ASSUME KeysInit PROVE KeysInv
  OBVIOUS
<1>1. file \in [KEYS -> Generated \cup {Absent}]
  BY DEF KeysInit
<1>2. FreshStart(1) \in Resolving
  BY DEF FreshStart, Resolving
<1>3. start \in [Start -> Resolving]
  BY <1>2 DEF KeysInit
<1>4. ASSUME NEW s \in Start PROVE HoldsFile(s, FreshStart(1), file)
  BY KeysAssumption DEF KeysInit, HoldsFile, FreshStart
<1>5. ASSUME NEW s \in Start PROVE HoldsFile(s, start[s], file)
  BY <1>4 DEF KeysInit
<1> QED BY <1>1, <1>3, <1>5 DEF KeysInv

\* A start that keeps its keys and what is left to do holds what it held.
LEMMA HoldsSame ==
    ASSUME NEW s, NEW q, NEW r, NEW f, HoldsFile(s, q, f), r.env = q.env, r.todo = q.todo,
           r.shard \in {Absent, f[SigningKey]},
           r.at \in {"write", "link"} => r.key \in r.todo /\ ~Skipped(s, r.key),
           r.at = "applied" => r.todo = {}
    PROVE  HoldsFile(s, r, f)
BY DEF HoldsFile

LEMMA ShardHeld ==
    ASSUME NEW s, NEW r, NEW f, HoldsFile(s, r, f)
    PROVE  r.shard \in {Absent, f[SigningKey]}
BY DEF HoldsFile

\* A step of one start that leaves the directory alone.
LEMMA OneStartMoves ==
    ASSUME KeysInv, NEW s \in Start, NEW r \in Resolving, HoldsFile(s, r, file),
           start' = [start EXCEPT ![s] = r], file' = file
    PROVE  KeysInv'
<1>1. start' \in [Start -> Resolving]
  BY DEF KeysInv
<1>2. \A t \in Start : HoldsFile(t, start'[t], file)
  BY DEF KeysInv
<1>3. ASSUME NEW t \in Start PROVE HoldsFile(t, start[t], file)'
  BY <1>2
<1>4. file' \in [KEYS -> Generated \cup {Absent}]
  BY DEF KeysInv
<1> QED BY <1>1, <1>3, <1>4 DEF KeysInv

\* write_new links the first key of its name; every other start still has
\* that key to do, so what the others hold is unchanged.
LEMMA LinkKeepsInv ==
    ASSUME KeysInv, NEW s \in Start, start[s].at = "link", write_new(s),
           file[start[s].key] = Absent
    PROVE  KeysInv'
<1> DEFINE k == start[s].key
           v == Value(s, start[s].try)
           r == [start[s] EXCEPT !.at = "read", !.key = "none", !.todo = @ \ {k}, !.env[k] = v]
<1>1. start[s] \in Resolving /\ HoldsFile(s, start[s], file)
  BY DEF KeysInv
<1>2. k \in KEYS /\ k \in start[s].todo /\ ~Skipped(s, k)
  BY <1>1 DEF HoldsFile, Resolving
<1>3. v \in Generated /\ v # Absent
  BY <1>1 DEF Resolving, Value, Generated, Absent
<1>4. file' = [file EXCEPT ![k] = v] /\ start' = [start EXCEPT ![s] = r]
  BY DEF write_new, Keep
<1>5. r \in Resolving
  BY <1>1, <1>2, <1>3 DEF Resolving
<1>6. /\ r.at = "read" /\ r.todo = start[s].todo \ {k} /\ r.shard = start[s].shard
      /\ \A j \in KEYS : r.env[j] = IF j = k THEN v ELSE start[s].env[j]
  BY <1>1, <1>2 DEF Resolving
<1>7. \A j \in KEYS : file'[j] = IF j = k THEN v ELSE file[j]
  BY <1>4 DEF KeysInv
<1>8. \A t \in Start, j \in KEYS : Skipped(t, j)' = Skipped(t, j)
  BY DEF Skipped
<1>9. \A t \in Start : ~Skipped(t, k) => k \in start[t].todo
  BY <1>2 DEF KeysInv, HoldsFile
<1>10. \A t \in Start : start[t].shard \in {Absent, file'[SigningKey]}
  BY <1>7, KeysAssumption DEF KeysInv, HoldsFile
<1> HIDE DEF k, v, r
<1>11. file' \in [KEYS -> Generated \cup {Absent}] /\ start' \in [Start -> Resolving]
  BY <1>2, <1>3, <1>4, <1>5 DEF KeysInv
<1>12. ASSUME NEW t \in Start PROVE HoldsFile(t, start[t], file)' \/ t = s
  <2>1. SUFFICES ASSUME t # s PROVE HoldsFile(t, start[t], file)'
    OBVIOUS
  <2>2. start'[t] = start[t]
    BY <1>4, <2>1 DEF KeysInv
  <2>3. HoldsFile(t, start[t], file)
    BY DEF KeysInv
  <2> QED BY <2>2, <2>3, <1>3, <1>7, <1>8, <1>9, <1>10 DEF HoldsFile, Skipped
<1>13. HoldsFile(s, start[s], file)'
  <2>1. start'[s] = r
    BY <1>4 DEF KeysInv
  <2>2. \A j \in KEYS : r.env[j] = IF Skipped(s, j) \/ j \in r.todo THEN Absent ELSE file'[j]
    BY <1>1, <1>2, <1>6, <1>7 DEF HoldsFile
  <2>3. \A j \in KEYS : ~Skipped(s, j) /\ j \notin r.todo => file'[j] # Absent
    BY <1>1, <1>3, <1>6, <1>7 DEF HoldsFile
  <2> QED BY <2>1, <2>2, <2>3, <1>6, <1>8, <1>10 DEF HoldsFile, Skipped
<1> QED BY <1>11, <1>12, <1>13 DEF KeysInv

LEMMA KeysInvStep == KeysInv /\ [KeysNext]_keyVars => KeysInv'
<1> SUFFICES ASSUME KeysInv, [KeysNext]_keyVars PROVE KeysInv'
  OBVIOUS
<1>0. ASSUME NEW s \in Start PROVE start[s] \in Resolving /\ HoldsFile(s, start[s], file)
  BY DEF KeysInv
<1>1. ASSUME NEW s \in Start, NEW k \in KEYS, Skip(s, k) PROVE KeysInv'
  <2> DEFINE r == [start[s] EXCEPT !.todo = @ \ {k}]
  <2>1. r \in Resolving /\ HoldsFile(s, r, file)
    BY <1>0, <1>1 DEF Skip, Resolving, HoldsFile
  <2>2. start' = [start EXCEPT ![s] = r] /\ file' = file
    BY <1>1 DEF Skip
  <2> QED BY <2>1, <2>2, OneStartMoves
<1>2. ASSUME NEW s \in Start, NEW k \in KEYS, read_key(s, k) PROVE KeysInv'
  <2>1. file[k] # Partial /\ file[k] \in Generated \cup {Absent} /\ file' = file
    BY <1>2 DEF KeysInv, Partial, Absent, Generated, read_key
  <2>2. CASE file[k] # Absent
    <3> DEFINE r == [start[s] EXCEPT !.at = "read", !.key = "none",
                                     !.todo = @ \ {k}, !.env[k] = file[k]]
    <3>1. start' = [start EXCEPT ![s] = r]
      BY <1>2, <2>1, <2>2 DEF read_key, Keep
    <3>2. r \in Resolving
      BY <1>0, <2>1 DEF Resolving
    <3>3. HoldsFile(s, r, file)
      BY <1>0, <1>2, <2>2 DEF Resolving, HoldsFile, read_key
    <3> QED BY <2>1, <3>1, <3>2, <3>3, OneStartMoves
  <2>3. CASE file[k] = Absent
    <3> DEFINE r == [start[s] EXCEPT !.at = "write", !.key = k]
    <3>1. start' = [start EXCEPT ![s] = r]
      BY <1>2, <2>1, <2>3 DEF read_key
    <3>2. r \in Resolving
      BY <1>0 DEF Resolving
    <3>3. r.env = start[s].env /\ r.todo = start[s].todo /\ r.shard = start[s].shard /\ r.key = k
      BY <1>0 DEF Resolving
    <3>4. r.at = "write" /\ k \in start[s].todo /\ ~Skipped(s, k)
      BY <1>0, <1>2 DEF Resolving, read_key
    <3> HIDE DEF r
    <3>5. HoldsFile(s, r, file)
      BY <1>0, <3>3, <3>4, HoldsSame, ShardHeld
    <3> QED BY <2>1, <3>1, <3>2, <3>5, OneStartMoves
  <2> QED BY <2>2, <2>3
<1>3. ASSUME NEW s \in Start, WriteTemp(s) PROVE KeysInv'
  <2> DEFINE r == [start[s] EXCEPT !.at = "link"]
  <2>1. r \in Resolving /\ HoldsFile(s, r, file)
    BY <1>0, <1>3 DEF WriteTemp, Resolving, HoldsFile
  <2>2. start' = [start EXCEPT ![s] = r] /\ file' = file
    BY <1>3 DEF WriteTemp
  <2> QED BY <2>1, <2>2, OneStartMoves
<1>4. ASSUME NEW s \in Start, write_new(s) PROVE KeysInv'
  <2>1. CASE file[start[s].key] = Absent
    BY <1>4, <2>1, LinkKeepsInv DEF write_new
  <2>2. CASE file[start[s].key] # Absent
    <3> DEFINE r == [start[s] EXCEPT !.at = "read", !.key = "none"]
    <3>1. r \in Resolving
      BY <1>0 DEF Resolving
    <3>2. start' = [start EXCEPT ![s] = r] /\ file' = file
      BY <1>4, <2>2 DEF write_new
    <3>3. r.env = start[s].env /\ r.todo = start[s].todo /\ r.shard = start[s].shard /\ r.at = "read"
      BY <1>0 DEF Resolving
    <3> HIDE DEF r
    <3>4. HoldsFile(s, r, file)
      BY <1>0, <3>3, HoldsSame, ShardHeld
    <3> QED BY <3>1, <3>2, <3>4, OneStartMoves
  <2> QED BY <2>1, <2>2
<1>5. ASSUME NEW s \in Start, resolve(s) PROVE KeysInv'
  <2> DEFINE w == IF Setups[s].replica \/ Setups[s].remote THEN Absent
                  ELSE start[s].env[SigningKey]
             r == [start[s] EXCEPT !.at = "applied", !.shard = w]
  <2>1. w \in Generated \cup {Absent} /\ w \in {Absent, file[SigningKey]}
    BY <1>0, KeysAssumption DEF Resolving, HoldsFile
  <2>2. start' = [start EXCEPT ![s] = r] /\ file' = file /\ start[s].todo = {}
    BY <1>5 DEF resolve
  <2> HIDE DEF w
  <2>3. r \in Resolving
    BY <1>0, <2>1 DEF Resolving
  <2>4. r.env = start[s].env /\ r.todo = start[s].todo /\ r.shard = w /\ r.at = "applied"
    BY <1>0 DEF Resolving
  <2>5. HoldsFile(s, start[s], file)
    BY <1>0
  <2> HIDE DEF r
  <2>6. HoldsFile(s, r, file)
    BY <2>1, <2>2, <2>4, <2>5, HoldsSame
  <2> QED BY <2>2, <2>3, <2>6, OneStartMoves
<1>6. ASSUME NEW s \in Start, Restart(s) PROVE KeysInv'
  <2>1. FreshStart(start[s].try + 1) \in Resolving
    BY <1>0 DEF Resolving, FreshStart
  <2>2. HoldsFile(s, FreshStart(start[s].try + 1), file)
    BY DEF HoldsFile, FreshStart
  <2> QED BY <1>6, <2>1, <2>2, OneStartMoves DEF Restart
<1>7. CASE UNCHANGED keyVars
  <2>1. file' = file /\ start' = start
    BY <1>7 DEF keyVars
  <2>2. ASSUME NEW s \in Start PROVE HoldsFile(s, start[s], file)'
    BY <1>0, <2>1
  <2> QED BY <2>1, <2>2 DEF KeysInv
<1> QED BY <1>1, <1>2, <1>3, <1>4, <1>5, <1>6, <1>7 DEF KeysNext

LEMMA KeysInvAlways == KeysSpec => []KeysInv
BY KeysInvInit, KeysInvStep, PTL DEF KeysSpec

\* node_keys.rs resolve: whatever starts share a data directory, and whenever
\* they crash, all that get through hold the same keys.
THEOREM StartsAgreeOnKeys == KeysSpec => []StartsShareKeys
<1>1. KeysInv => StartsShareKeys
  BY DEF KeysInv, HoldsFile, StartsShareKeys
<1> QED BY <1>1, KeysInvAlways, PTL

\* node_keys.rs write_new: a crash at any point leaves no key half written, so
\* no start is ever refused over one.
THEOREM NoStartRefused == KeysSpec => []NoPartialKey
<1>1. KeysInv => NoPartialKey
  BY DEF KeysInv, Resolving, NoPartialKey
<1> QED BY <1>1, KeysInvAlways, PTL

\* node_keys.rs write_new: a key in place is never replaced.
THEOREM KeysNeverReplaced == KeysSpec => KeysStay
<1> DEFINE Kept == \A k \in KEYS : file[k] \notin {Absent, Partial} => file'[k] = file[k]
<1>1. KeysInv /\ [KeysNext]_keyVars => [Kept]_keyVars
  <2> SUFFICES ASSUME KeysInv, KeysNext PROVE Kept
    BY DEF keyVars
  <2>1. ASSUME NEW s \in Start, write_new(s) PROVE Kept
    BY <2>1 DEF write_new, KeysInv, Keep
  <2> QED BY <2>1 DEF KeysNext, Skip, read_key, WriteTemp, resolve, Restart
<1> QED BY <1>1, KeysInvAlways, PTL DEF KeysSpec, KeysStay
=============================================================================
