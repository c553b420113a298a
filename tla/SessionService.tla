---------------------------- MODULE SessionService ----------------------------
(***************************************************************************)
(* session_service.rs: the actor that owns the client's sessions, its      *)
(* callers, and for each session the carrier driver and the detached task  *)
(* that forwards the driver's events to the actor.                         *)
(*                                                                         *)
(*   callers --cmds--> actor --carrierCmds[s]--> driver s                  *)
(*   callers <-events- actor <-inbox-- forwarder s <-carrierEvents[s]-+    *)
(*                                                                         *)
(* All channels are bounded and every send waits for room.  What the actor *)
(* has still to do for the command or event in its hands is `plan', a      *)
(* sequence of steps, one for each of its awaits; an idle actor has an     *)
(* empty plan.  Carrier events of a session are "connected", "message" (on *)
(* a lane that carries hub messages, one of them), "raw" (on another       *)
(* lane), "error" and "disconnected".  The network behind the driver is    *)
(* free to produce MaxTraffic of them.                                     *)
(***************************************************************************)
EXTENDS Integers, Sequences, FiniteSets

CONSTANTS MaxSessions,        \* bound: sessions created
          MaxCalls,           \* bound: commands sent
          MaxTraffic,         \* bound: events the network causes
          CmdCapacity,        \* 256 in the code
          EventCapacity,      \* 4096 in the code
          InboxCapacity,      \* 2048 in the code
          CarrierCmdCapacity,   \* CMD_CAPACITY of a carrier, 256
          CarrierEventCapacity  \* EVENT_CAPACITY of a carrier, 512

ASSUME SessionServiceAssumption ==
    /\ {MaxSessions, MaxCalls, MaxTraffic} \subseteq Nat
    /\ {CmdCapacity, EventCapacity, InboxCapacity, CarrierCmdCapacity,
        CarrierEventCapacity} \subseteq Nat \ {0}

VARIABLES
    cmds,           \* SessionServiceMessages to the actor
    waiting,        \* callers that wait for an answer
    calls,          \* commands sent so far (for the bound)
    open,           \* some SessionServiceHandle exists
    events,         \* how many Events wait for the application
    plan,           \* what the actor has still to do
    actor,          \* "running" or "exited"
    created,        \* sessions.len(): sessions are 1 .. created
    live,           \* sessions whose slot is not empty
    readySent,      \* ready_events_sent
    inbox,          \* session_event channel: <<session, carrier event>>
    forwarder,      \* forwarder[s]: the task of session s, what it has in hand
    driver,         \* driver[s]: the carrier driver, the event it waits to send
    flag,           \* flag[s]: shutdown_flag
    carrierCmds,    \* carrierCmds[s]: CarrierCommands to the driver
    carrierEvents,  \* carrierEvents[s]: CarrierEvents from the driver
    traffic,        \* events the network caused (for the bound)
    seen            \* seen[s]: Ready, Disconnected: which the application got (ghost)

actorVars == <<plan, actor, created, live, readySent>>
appVars == <<cmds, waiting, calls, open, events>>
carrierVars == <<driver, flag, carrierCmds, carrierEvents, traffic>>
vars == <<appVars, actorVars, inbox, forwarder, carrierVars, seen>>

Sessions == 1 .. MaxSessions
CarrierEvents == {"connected", "message", "raw", "error", "disconnected"}

\* A step of the actor: emit an Event of session s, close the slot of s, hand
\* a message to the carrier of s, answer the caller, end.
Do(op, s, ev) == [op |-> op, s |-> s, ev |-> ev]
EmitStep(s, ev) == Do("emit", s, ev)
CloseStep(s) == Do("close", s, "none")

\* SessionServiceHandle::new.
Init ==
    /\ cmds = << >> /\ waiting = 0 /\ calls = 0 /\ open = TRUE /\ events = 0
    /\ plan = << >> /\ actor = "running" /\ created = 0
    /\ live = {} /\ readySent = {}
    /\ inbox = << >>
    /\ forwarder = [s \in Sessions |-> "none"]
    /\ driver = [s \in Sessions |-> "none"]
    /\ flag = [s \in Sessions |-> FALSE]
    /\ carrierCmds = [s \in Sessions |-> << >>]
    /\ carrierEvents = [s \in Sessions |-> << >>]
    /\ traffic = 0
    /\ seen = [s \in Sessions |-> {}]

-----------------------------------------------------------------------------
(* The callers and the handle.                                             *)

\* create_session, send_message, num_sessions, disconnect_all, shutdown wait
\* for an answer; try_send_message_detached does not and fails when the
\* channel is full.
Call(op, s, awaited) ==
    /\ open /\ actor = "running" /\ calls < MaxCalls
    /\ Len(cmds) < CmdCapacity
    /\ cmds' = Append(cmds, [op |-> op, s |-> s, awaited |-> awaited])
    /\ calls' = calls + 1
    /\ waiting' = IF awaited THEN waiting + 1 ELSE waiting
    /\ UNCHANGED <<open, events, actorVars, inbox, forwarder, carrierVars, seen>>

\* recv_event: a task of its own drains the events.
RecvEvent ==
    /\ open /\ events > 0
    /\ events' = events - 1
    /\ UNCHANGED <<cmds, waiting, calls, open, actorVars, inbox, forwarder, carrierVars,
                   seen>>

\* Drop of the last handle: a Shutdown nobody waits for, or else the channel
\* is closed.
DropHandle ==
    /\ open /\ waiting = 0
    /\ open' = FALSE
    /\ cmds' = IF Len(cmds) < CmdCapacity
               THEN Append(cmds, [op |-> "shutdown", s |-> 0, awaited |-> FALSE]) ELSE cmds
    /\ UNCHANGED <<waiting, calls, events, actorVars, inbox, forwarder, carrierVars, seen>>

-----------------------------------------------------------------------------
(* The actor: SessionServiceActor::run.                                    *)

\* handle_disconnect_all: close_session for each slot in order; it passes over
\* the empty ones.
CloseAll == [s \in 1 .. created |-> CloseStep(s)]

\* Mutant of CommandPlan: disconnect_all ends without an answer.
CommandPlanNoAnswer(c) ==
    LET answer == IF c.awaited THEN << Do("reply", 0, "none") >> ELSE << >>
    IN  CASE c.op = "create"     -> << Do("create", 0, "none") >> \o answer
          [] c.op = "send"       -> << Do("carrier", c.s, "none") >> \o answer
          [] c.op = "count"      -> answer
          [] c.op = "disconnect" -> CloseAll
          [] c.op = "shutdown"   -> CloseAll \o answer \o << Do("exit", 0, "none") >>

\* handle_message: what the command asks for, and the answer.
CommandPlan(c) ==
    LET answer == IF c.awaited THEN << Do("reply", 0, "none") >> ELSE << >>
    IN  CASE c.op = "create"     -> << Do("create", 0, "none") >> \o answer
          [] c.op = "send"       -> << Do("carrier", c.s, "none") >> \o answer
          [] c.op = "count"      -> answer
          [] c.op = "disconnect" -> CloseAll \o answer
          [] c.op = "shutdown"   -> CloseAll \o answer \o << Do("exit", 0, "none") >>

\* send_ready_if_needed.
ReadyIfNeeded(s) == IF s \in readySent THEN << >> ELSE << EmitStep(s, "ready") >>

\* Mutant of EventPlan: messages of closed sessions pass.
EventPlanNoLiveCheck(s, e) ==
    CASE e = "connected"    -> ReadyIfNeeded(s)
      [] e = "disconnected" -> << CloseStep(s) >>
      [] e = "error"        -> << EmitStep(s, "error") >>
      [] e = "message"      -> ReadyIfNeeded(s) \o << EmitStep(s, "received"), EmitStep(s, "typed") >>
      [] e = "raw"          -> ReadyIfNeeded(s) \o << EmitStep(s, "received") >>

\* handle_carrier_event.
EventPlan(s, e) ==
    CASE e = "connected"    -> ReadyIfNeeded(s)
      [] e = "disconnected" -> << CloseStep(s) >>
      [] e = "error"        -> << EmitStep(s, "error") >>
      [] e = "message" /\ s \in live ->
             ReadyIfNeeded(s) \o << EmitStep(s, "received"), EmitStep(s, "typed") >>
      [] e = "raw" /\ s \in live -> ReadyIfNeeded(s) \o << EmitStep(s, "received") >>
      [] e \in {"message", "raw"} /\ s \notin live -> << >>

\* The two sides of the select.
TakeCommand ==
    /\ actor = "running" /\ plan = << >> /\ cmds # << >>
    /\ plan' = CommandPlan(Head(cmds))
    /\ cmds' = Tail(cmds)
    /\ UNCHANGED <<waiting, calls, open, events, actor, created, live, readySent, inbox,
                   forwarder, carrierVars, seen>>

TakeCarrierEvent ==
    /\ actor = "running" /\ plan = << >> /\ inbox # << >>
    /\ plan' = EventPlan(Head(inbox)[1], Head(inbox)[2])
    /\ inbox' = Tail(inbox)
    /\ UNCHANGED <<appVars, actor, created, live, readySent, forwarder, carrierVars, seen>>

\* event_tx.send: waits for room; goes nowhere once the handles are gone.
\* After a Ready the session is marked, whatever became of the event.
Emit ==
    /\ plan # << >> /\ Head(plan).op = "emit"
    /\ LET s == Head(plan).s
           e == Head(plan).ev
       IN  /\ open => events < EventCapacity
           /\ events' = IF open THEN events + 1 ELSE events
           /\ seen' = IF open /\ e \in {"ready", "disconnected"}
                      THEN [seen EXCEPT ![s] = @ \cup {e}] ELSE seen
           /\ readySent' = IF e = "ready" THEN readySent \cup {s} ELSE readySent
    /\ plan' = Tail(plan)
    /\ UNCHANGED <<cmds, waiting, calls, open, actor, created, live, inbox, forwarder,
                   carrierVars>>

\* Mutant of DropCarriers: the flag is not set.
DropCarriersNoFlag(ss) ==
    /\ UNCHANGED flag
    /\ carrierCmds' = [s \in Sessions |->
          IF s \in ss /\ driver[s] # "exited" /\ Len(carrierCmds[s]) < CarrierCmdCapacity
          THEN Append(carrierCmds[s], "disconnect") ELSE carrierCmds[s]]

\* Drop of the carriers of the sessions ss: try_send a Disconnect, set the flag.
DropCarriers(ss) ==
    /\ flag' = [s \in Sessions |-> flag[s] \/ s \in ss]
    /\ carrierCmds' = [s \in Sessions |->
          IF s \in ss /\ driver[s] # "exited" /\ Len(carrierCmds[s]) < CarrierCmdCapacity
          THEN Append(carrierCmds[s], "disconnect") ELSE carrierCmds[s]]

\* close_session.
CloseSession ==
    /\ plan # << >> /\ Head(plan).op = "close"
    /\ LET s == Head(plan).s
       IN  \/ /\ s \in live
              /\ live' = live \ {s}
              /\ readySent' = readySent \ {s}
              /\ DropCarriers({s})
              /\ plan' = << EmitStep(s, "disconnected") >> \o Tail(plan)
           \/ /\ s \notin live
              /\ plan' = Tail(plan)
              /\ UNCHANGED <<live, readySent, flag, carrierCmds>>
    /\ UNCHANGED <<appVars, actor, created, inbox, forwarder, driver, carrierEvents,
                   traffic, seen>>

\* handle_create_session: join may fail, or the session gets a slot, a driver
\* and a forwarder.
Create ==
    /\ plan # << >> /\ Head(plan).op = "create"
    /\ plan' = Tail(plan)
    /\ \/ UNCHANGED <<created, live, driver, forwarder>>
       \/ /\ created < MaxSessions
          /\ created' = created + 1
          /\ live' = live \cup {created + 1}
          /\ driver' = [driver EXCEPT ![created + 1] = "idle"]
          /\ forwarder' = [forwarder EXCEPT ![created + 1] = "idle"]
    /\ UNCHANGED <<appVars, actor, readySent, inbox, flag, carrierCmds, carrierEvents,
                   traffic, seen>>

\* handle_send_message: an error if the session is closed or its driver gone;
\* otherwise wait for room in the carrier's command channel, then emit Sent.
SendToCarrier ==
    /\ plan # << >> /\ Head(plan).op = "carrier"
    /\ LET s == Head(plan).s
       IN  \/ /\ s \notin live \/ driver[s] = "exited"
              /\ plan' = Tail(plan)
              /\ UNCHANGED carrierCmds
           \/ /\ s \in live /\ driver[s] # "exited"
              /\ Len(carrierCmds[s]) < CarrierCmdCapacity
              /\ carrierCmds' = [carrierCmds EXCEPT ![s] = Append(@, "message")]
              /\ plan' = << EmitStep(s, "sent") >> \o Tail(plan)
    /\ UNCHANGED <<appVars, actor, created, live, readySent, inbox, forwarder, driver,
                   flag, carrierEvents, traffic, seen>>

\* respond_to.send: a channel of its own with room for the answer.
Reply ==
    /\ plan # << >> /\ Head(plan).op = "reply"
    /\ plan' = Tail(plan)
    /\ waiting' = waiting - 1
    /\ UNCHANGED <<cmds, calls, open, events, actor, created, live, readySent, inbox,
                   forwarder, carrierVars, seen>>

\* run returns after a Shutdown, or when the command channel is closed and
\* empty; the sessions still there are dropped.
ExitActor ==
    /\ actor = "running"
    /\ \/ plan # << >> /\ Head(plan).op = "exit"
       \/ plan = << >> /\ ~open /\ cmds = << >>
    /\ actor' = "exited"
    /\ plan' = << >>
    /\ live' = {}
    /\ DropCarriers(live)
    /\ UNCHANGED <<appVars, created, readySent, inbox, forwarder, driver, carrierEvents,
                   traffic, seen>>

-----------------------------------------------------------------------------
(* A session's carrier driver and forwarder.                               *)

\* The head of the driver's loop, after a turn.
NextTurn(s) == IF flag[s] THEN "exited" ELSE "idle"

\* The network makes the driver of session s emit e: it waits until there is
\* room and does nothing else meanwhile.  One datagram a turn.
Traffic(s, e) ==
    /\ driver[s] = "idle" /\ traffic < MaxTraffic
    /\ traffic' = traffic + 1
    /\ driver' = [driver EXCEPT ![s] = e]
    /\ UNCHANGED <<appVars, actorVars, inbox, forwarder, flag, carrierCmds, carrierEvents,
                   seen>>

\* The event enters the channel, or goes nowhere when the forwarder is gone.
\* A Disconnected is the driver's last word; so is an Error of the transport.
DriverEmit(s) ==
    /\ driver[s] \in CarrierEvents
    /\ LET e == driver[s]
       IN  /\ forwarder[s] # "gone" => Len(carrierEvents[s]) < CarrierEventCapacity
           /\ carrierEvents' = IF forwarder[s] = "gone" THEN carrierEvents
                               ELSE [carrierEvents EXCEPT ![s] = Append(@, e)]
           /\ \/ e \in {"disconnected", "error"} /\ driver' = [driver EXCEPT ![s] = "exited"]
              \/ e # "disconnected" /\ driver' = [driver EXCEPT ![s] = NextTurn(s)]
    /\ UNCHANGED <<appVars, actorVars, inbox, forwarder, flag, carrierCmds, traffic, seen>>

\* A command: a message leaves for the network, a Disconnect ends the driver.
DriverCommand(s) ==
    /\ driver[s] = "idle" /\ carrierCmds[s] # << >>
    /\ carrierCmds' = [carrierCmds EXCEPT ![s] = Tail(@)]
    /\ driver' = [driver EXCEPT ![s] = IF Head(carrierCmds[s]) = "disconnect"
                                       THEN "disconnected" ELSE NextTurn(s)]
    /\ UNCHANGED <<appVars, actorVars, inbox, forwarder, flag, carrierEvents, traffic, seen>>

\* A timer ends the wait of a driver whose flag is set.
DriverExit(s) ==
    /\ driver[s] = "idle" /\ flag[s]
    /\ driver' = [driver EXCEPT ![s] = "exited"]
    /\ UNCHANGED <<appVars, actorVars, inbox, forwarder, flag, carrierCmds, carrierEvents,
                   traffic, seen>>

\* Mutant of ForwarderTake: a closed channel just ends the task.
ForwarderTakeSilent(s) ==
    /\ forwarder[s] = "idle"
    /\ \/ /\ carrierEvents[s] # << >>
          /\ forwarder' = [forwarder EXCEPT ![s] = Head(carrierEvents[s])]
          /\ carrierEvents' = [carrierEvents EXCEPT ![s] = Tail(@)]
       \/ /\ carrierEvents[s] = << >> /\ driver[s] = "exited"
          /\ forwarder' = [forwarder EXCEPT ![s] = "gone"]
          /\ UNCHANGED carrierEvents
    /\ UNCHANGED <<appVars, actorVars, inbox, driver, flag, carrierCmds, traffic, seen>>

\* The forwarder takes the next event, or makes up a Disconnected when the
\* driver is gone and everything was taken.
ForwarderTake(s) ==
    /\ forwarder[s] = "idle"
    /\ \/ /\ carrierEvents[s] # << >>
          /\ forwarder' = [forwarder EXCEPT ![s] = Head(carrierEvents[s])]
          /\ carrierEvents' = [carrierEvents EXCEPT ![s] = Tail(@)]
       \/ /\ carrierEvents[s] = << >> /\ driver[s] = "exited"
          /\ forwarder' = [forwarder EXCEPT ![s] = "last"]
          /\ UNCHANGED carrierEvents
    /\ UNCHANGED <<appVars, actorVars, inbox, driver, flag, carrierCmds, traffic, seen>>

\* It waits for room in the actor's inbox; without an actor it ends.
ForwarderPut(s) ==
    /\ forwarder[s] \in CarrierEvents \cup {"last"}
    /\ \/ /\ actor = "running" /\ Len(inbox) < InboxCapacity
          /\ inbox' = Append(inbox, <<s, IF forwarder[s] = "last" THEN "disconnected"
                                         ELSE forwarder[s]>>)
          /\ forwarder' = [forwarder EXCEPT ![s] = IF @ = "last" THEN "gone" ELSE "idle"]
       \/ /\ actor = "exited"
          /\ forwarder' = [forwarder EXCEPT ![s] = "gone"]
          /\ UNCHANGED inbox
    /\ UNCHANGED <<appVars, actorVars, carrierVars, seen>>

-----------------------------------------------------------------------------
ActorStep ==
    \/ TakeCommand \/ TakeCarrierEvent \/ Emit \/ CloseSession \/ Create
    \/ SendToCarrier \/ Reply \/ ExitActor

DriverStep(s) == DriverEmit(s) \/ DriverCommand(s) \/ DriverExit(s)
ForwarderStep(s) == ForwarderTake(s) \/ ForwarderPut(s)

Next ==
    \/ \E op \in {"create", "count", "disconnect", "shutdown"} : Call(op, 0, TRUE)
    \/ \E s \in 1 .. created, awaited \in BOOLEAN : Call("send", s, awaited)
    \/ RecvEvent \/ DropHandle
    \/ TakeCommand \/ TakeCarrierEvent \/ Emit \/ CloseSession \/ Create
    \/ SendToCarrier \/ Reply \/ ExitActor
    \/ \E s \in Sessions :
          \/ \E e \in CarrierEvents : Traffic(s, e)
          \/ DriverEmit(s) \/ DriverCommand(s) \/ DriverExit(s)
          \/ ForwarderTake(s) \/ ForwarderPut(s)

Spec == Init /\ [][Next]_vars

\* The actor, the drivers and the forwarders are tasks of an executor, and the
\* application drains its events.  Nobody has to call, and the network need
\* not send.
FairSpec ==
    /\ Spec
    /\ WF_vars(RecvEvent) /\ WF_vars(ActorStep)
    /\ \A s \in Sessions : WF_vars(DriverStep(s)) /\ WF_vars(ForwarderStep(s))

-----------------------------------------------------------------------------
\* What the application hears of one session: data only between its Ready and
\* its Disconnected, Disconnected at most once, and after it nothing but the
\* Ready of a Connected that was under way when the session was closed.
SessionOrder ==
    [][Emit /\ open =>
          LET before == seen[Head(plan).s]
              e == Head(plan).ev
          IN  /\ e \in {"received", "typed"} => before = {"ready"}
              /\ e \in {"sent", "disconnected"} => "disconnected" \notin before
              /\ e = "ready" => before # {"ready"}]_vars

\* A session whose carrier is gone is closed in the end.
LostSessionCloses == \A s \in Sessions : (driver[s] = "exited") ~> (s \notin live)

\* The channels are "bounded so a slow drain backpressures": a full channel
\* makes its sender wait for someone who goes on.  So the actor never waits
\* for the driver of a session that waits for a forwarder that waits for the
\* actor.
NoWaitCycle ==
    \A s \in Sessions :
        ~ /\ plan # << >> /\ Head(plan).op = "carrier" /\ Head(plan).s = s
          /\ Len(carrierCmds[s]) = CarrierCmdCapacity
          /\ driver[s] \in CarrierEvents /\ Len(carrierEvents[s]) = CarrierEventCapacity
          /\ forwarder[s] \in CarrierEvents /\ Len(inbox) = InboxCapacity

\* A caller is answered unless the service ends first.
CallersAnswered == (waiting > 0) ~> (waiting = 0 \/ actor = "exited")

\* Once the actor has ended no task of a session is left.
TasksEnd ==
    \A s \in Sessions :
        (actor = "exited") ~> (/\ driver[s] \in {"none", "exited"}
                               /\ forwarder[s] \in {"none", "gone"})
===============================================================================
