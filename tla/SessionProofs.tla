---------------------------- MODULE SessionProofs ----------------------------
(***************************************************************************)
(* Proofs about SessionService, for every number of sessions and calls and *)
(* every capacity: what the application hears of a session comes in order. *)
(***************************************************************************)
EXTENDS SessionService, SequenceTheorems, TLAPS

-----------------------------------------------------------------------------
(* The inductive invariant.                                                *)

EventKinds == {"ready", "received", "typed", "sent", "error", "disconnected"}
Ops == {"emit", "close", "create", "carrier", "reply", "exit"}
Slots == 0 .. MaxSessions
Steps == [op : Ops, s : Slots, ev : EventKinds \cup {"none"}]
CommandOps == {"create", "send", "count", "disconnect", "shutdown"}
Commands == [op : CommandOps, s : Slots, awaited : BOOLEAN]

Types ==
    /\ open \in BOOLEAN /\ actor \in {"running", "exited"}
    /\ created \in Slots /\ live \subseteq 1 .. created /\ readySent \subseteq Sessions
    /\ cmds \in Seq(Commands)
    /\ plan \in Seq(Steps)
    /\ inbox \in Seq((1 .. created) \X CarrierEvents)
    /\ forwarder \in [Sessions -> CarrierEvents \cup {"none", "idle", "last", "gone"}]
    /\ driver \in [Sessions -> CarrierEvents \cup {"none", "idle", "exited"}]
    /\ carrierEvents \in [Sessions -> Seq(CarrierEvents)]
    /\ seen \in [Sessions -> SUBSET {"ready", "disconnected"}]

\* A slot that was not handed out has no forwarder, and nothing was heard of it.
FreshInv ==
    \A s \in Sessions : s > created => forwarder[s] = "none" /\ seen[s] = {}

\* The events of one plan belong together: what follows an event is data of
\* the same session, which is open, and comes after its Ready or after data.
PlanInv ==
    \A k \in 2 .. Len(plan) : plan[k].op = "emit" =>
        /\ plan[k].ev \in {"received", "typed"} /\ plan[k].s \in live
        /\ \A j \in 1 .. k - 1 :
              /\ plan[j].op = "emit" /\ plan[j].s = plan[k].s
              /\ plan[j].ev \in {"ready", "received", "typed"}

\* The event about to be emitted: data and Sent are of an open session, data
\* of one that is marked, Ready of one that is not, Disconnected of one that
\* is closed and was not reported closed.
HeadInv ==
    plan # << >> /\ plan[1].op = "emit" =>
        /\ plan[1].s \in 1 .. created
        /\ plan[1].ev \in {"received", "typed"} => plan[1].s \in live \cap readySent
        /\ plan[1].ev = "ready" => plan[1].s \notin readySent
        /\ plan[1].ev = "sent" => plan[1].s \in live
        /\ plan[1].ev = "disconnected" =>
              plan[1].s \notin live /\ "disconnected" \notin seen[plan[1].s]

Reporting(s) == plan # << >> /\ plan[1] = EmitStep(s, "disconnected")

\* What the application heard agrees with the actor's books: an open session
\* was not reported closed; a marked one was reported ready; one that was
\* reported ready is marked until it is reported closed.
SeenInv ==
    /\ \A s \in live : "disconnected" \notin seen[s]
    /\ open => \A s \in readySent : "ready" \in seen[s]
    /\ open => \A s \in Sessions : "ready" \in seen[s] =>
          s \in readySent \/ "disconnected" \in seen[s] \/ Reporting(s)

IndInv == Types /\ FreshInv /\ PlanInv /\ HeadInv /\ SeenInv

-----------------------------------------------------------------------------
(* Plans.                                                                  *)

LEMMA ConstantFacts == MaxSessions \in Nat
BY SessionServiceAssumption

LEMMA InitInv == Init => IndInv
<1> SUFFICES ASSUME Init PROVE IndInv
  OBVIOUS
<1>1. /\ \A S : << >> \in Seq(S)
      /\ Len(<< >>) = 0
  BY EmptySeq
<1>2. /\ 0 \in Slots
      /\ 2 .. 0 = {}
  BY ConstantFacts DEF Slots
<1>3. Types
  BY <1>1, <1>2 DEF Init, Types
<1> QED
  BY <1>1, <1>2, <1>3 DEF Init, IndInv, FreshInv, PlanInv, HeadInv, SeenInv

\* The first step of a plan and the rest of it.
LEMMA TailFacts ==
    ASSUME Types, plan # << >>
    PROVE  /\ Head(plan) = plan[1] /\ plan[1] \in Steps /\ Len(plan) \in Nat \ {0}
           /\ Tail(plan) \in Seq(Steps) /\ Len(Tail(plan)) = Len(plan) - 1
           /\ \A i \in 1 .. Len(Tail(plan)) : Tail(plan)[i] = plan[i + 1]
<1>1. plan \in Seq(Steps)
  BY DEF Types
<1>2. Len(plan) \in Nat \ {0}
  BY <1>1, EmptySeq
<1>3. Head(plan) \in Steps /\ Tail(plan) \in Seq(Steps) /\ Len(Tail(plan)) = Len(plan) - 1
      /\ \A i \in 1 .. Len(Tail(plan)) : Tail(plan)[i] = plan[i + 1]
  BY <1>1, HeadTailProperties
<1>4. Head(plan) = plan[1]
  BY <1>1
<1> QED BY <1>2, <1>3, <1>4

\* A plan that does not start with an event has none.
LEMMA NoEvents ==
    ASSUME Types, PlanInv, plan # << >>, plan[1].op # "emit"
    PROVE  \A k \in 1 .. Len(plan) : plan[k].op # "emit"
<1>1. Len(plan) \in Nat \ {0}
  BY TailFacts
<1>2. SUFFICES ASSUME NEW k \in 1 .. Len(plan), plan[k].op = "emit" PROVE FALSE
  OBVIOUS
<1>3. k \in 2 .. Len(plan) /\ 1 \in 1 .. k - 1
  BY <1>1, <1>2
<1> QED BY <1>2, <1>3 DEF PlanInv

LEMMA TailNoEvents ==
    ASSUME Types, PlanInv, plan # << >>, plan[1].op # "emit"
    PROVE  \A k \in 1 .. Len(Tail(plan)) : Tail(plan)[k].op # "emit"
<1>1. SUFFICES ASSUME NEW k \in 1 .. Len(Tail(plan)) PROVE Tail(plan)[k].op # "emit"
  OBVIOUS
<1>2. k + 1 \in 1 .. Len(plan)
  BY TailFacts
<1> QED BY <1>2, TailFacts, NoEvents

\* One event in front of a plan without any.
LEMMA OneEvent ==
    ASSUME NEW e \in Steps, NEW p \in Seq(Steps),
           \A k \in 1 .. Len(p) : p[k].op # "emit"
    PROVE  /\ << e >> \o p \in Seq(Steps) /\ << e >> \o p # << >>
           /\ (<< e >> \o p)[1] = e
           /\ \A k \in 2 .. Len(<< e >> \o p) : (<< e >> \o p)[k].op # "emit"
<1>1. << e >> \in Seq(Steps) /\ Len(<< e >>) = 1 /\ << e >>[1] = e /\ Len(p) \in Nat
  OBVIOUS
<1>2. /\ << e >> \o p \in Seq(Steps) /\ Len(<< e >> \o p) = 1 + Len(p)
      /\ \A i \in 1 .. 1 + Len(p) : (<< e >> \o p)[i] = IF i <= 1 THEN << e >>[i] ELSE p[i - 1]
  BY <1>1, ConcatProperties
<1>3. << e >> \o p # << >>
  BY <1>1, <1>2, EmptySeq
<1>4. (<< e >> \o p)[1] = e
  BY <1>1, <1>2
<1>5. ASSUME NEW k \in 2 .. Len(<< e >> \o p) PROVE (<< e >> \o p)[k].op # "emit"
  <2>1. k \in 1 .. 1 + Len(p) /\ ~(k <= 1) /\ k - 1 \in 1 .. Len(p)
    BY <1>1, <1>2
  <2> QED BY <2>1, <1>2
<1> QED BY <1>2, <1>3, <1>4, <1>5

\* Two plans without events, one after the other.
LEMMA ConcatNoEvents ==
    ASSUME NEW p \in Seq(Steps), NEW q \in Seq(Steps),
           \A k \in 1 .. Len(p) : p[k].op # "emit",
           \A k \in 1 .. Len(q) : q[k].op # "emit"
    PROVE  /\ p \o q \in Seq(Steps)
           /\ \A k \in 1 .. Len(p \o q) : (p \o q)[k].op # "emit"
<1>1. Len(p) \in Nat /\ Len(q) \in Nat
  OBVIOUS
<1>2. /\ p \o q \in Seq(Steps) /\ Len(p \o q) = Len(p) + Len(q)
      /\ \A i \in 1 .. Len(p) + Len(q) : (p \o q)[i] = IF i <= Len(p) THEN p[i]
                                                       ELSE q[i - Len(p)]
  BY ConcatProperties
<1>3. ASSUME NEW k \in 1 .. Len(p \o q) PROVE (p \o q)[k].op # "emit"
  <2>1. CASE k <= Len(p)
    <3>1. k \in 1 .. Len(p) /\ k \in 1 .. Len(p) + Len(q)
      BY <1>1, <1>2, <2>1
    <3> QED BY <3>1, <2>1, <1>2
  <2>2. CASE ~(k <= Len(p))
    <3>1. k - Len(p) \in 1 .. Len(q) /\ k \in 1 .. Len(p) + Len(q)
      BY <1>1, <1>2, <2>2
    <3> QED BY <3>1, <2>2, <1>2
  <2> QED BY <2>1, <2>2
<1> QED BY <1>2, <1>3

\* handle_message plans no event: those of a close or a send come when it is
\* taken up.
LEMMA CommandPlanFacts ==
    ASSUME Types, NEW c \in Commands
    PROVE  /\ CommandPlan(c) \in Seq(Steps)
           /\ \A k \in 1 .. Len(CommandPlan(c)) : CommandPlan(c)[k].op # "emit"
<1> DEFINE Quiet == {p \in Seq(Steps) : \A k \in 1 .. Len(p) : p[k].op # "emit"}
<1>1. \A p, q \in Quiet : p \o q \in Quiet
  BY ConcatNoEvents
<1>2. ASSUME NEW d \in Steps, d.op # "emit" PROVE << d >> \in Quiet
  <2>1. << d >> \in Seq(Steps) /\ Len(<< d >>) = 1 /\ << d >>[1] = d
    OBVIOUS
  <2> QED BY <2>1, <1>2
<1>3. << >> \in Quiet
  BY EmptySeq
<1>4. Do("reply", 0, "none") \in Steps /\ Do("create", 0, "none") \in Steps
      /\ Do("exit", 0, "none") \in Steps /\ Do("carrier", c.s, "none") \in Steps
  BY ConstantFacts DEF Do, Steps, Ops, Slots, Commands
<1>5. << Do("reply", 0, "none") >> \in Quiet /\ << Do("create", 0, "none") >> \in Quiet
      /\ << Do("exit", 0, "none") >> \in Quiet /\ << Do("carrier", c.s, "none") >> \in Quiet
  BY <1>2, <1>4 DEF Do
<1>6. CloseAll \in Quiet
  <2>1. created \in Nat /\ \A s \in 1 .. created : CloseStep(s) \in Steps
                                                 /\ CloseStep(s).op # "emit"
    BY ConstantFacts DEF Types, Slots, CloseStep, Do, Steps, Ops
  <2>2. CloseAll \in Seq(Steps) /\ Len(CloseAll) = created
    BY <2>1 DEF CloseAll
  <2> QED BY <2>1, <2>2 DEF CloseAll
<1> HIDE DEF Quiet
<1> DEFINE answer == IF c.awaited THEN << Do("reply", 0, "none") >> ELSE << >>
<1>7. answer \in Quiet
  BY <1>3, <1>5
<1> HIDE DEF answer
<1>8. CommandPlan(c) =
          CASE c.op = "create"     -> << Do("create", 0, "none") >> \o answer
            [] c.op = "send"       -> << Do("carrier", c.s, "none") >> \o answer
            [] c.op = "count"      -> answer
            [] c.op = "disconnect" -> CloseAll \o answer
            [] c.op = "shutdown"   -> CloseAll \o answer \o << Do("exit", 0, "none") >>
  BY DEF CommandPlan, answer
<1>9. c.op \in {"create", "send", "count", "disconnect", "shutdown"}
  BY DEF Commands, CommandOps
<1>10. CommandPlan(c) \in Quiet
  <2>1. << Do("create", 0, "none") >> \o answer \in Quiet
    BY <1>1, <1>5, <1>7
  <2>2. << Do("carrier", c.s, "none") >> \o answer \in Quiet
    BY <1>1, <1>5, <1>7
  <2>3. CloseAll \o answer \in Quiet
    BY <1>1, <1>6, <1>7
  <2>4. CloseAll \o answer \o << Do("exit", 0, "none") >> \in Quiet
    BY <1>1, <1>5, <2>3
  <2> QED BY <1>7, <1>8, <1>9, <2>1, <2>2, <2>3, <2>4
<1> QED BY <1>10 DEF Quiet

LEMMA ConcatOne ==
    ASSUME NEW a, NEW b, NEW c
    PROVE  << a >> \o << b >> = << a, b >> /\ << a >> \o << b, c >> = << a, b, c >>
<1> DEFINE S == {a, b, c}
           p == << a >>
           q == << b >>
           r == << b, c >>
<1>1. /\ p \in Seq(S) /\ Len(p) = 1 /\ p[1] = a /\ q \in Seq(S) /\ Len(q) = 1 /\ q[1] = b
      /\ r \in Seq(S) /\ Len(r) = 2 /\ r[1] = b /\ r[2] = c
  OBVIOUS
<1> HIDE DEF S, p, q, r
<1>2. /\ p \o q \in Seq(S) /\ Len(p \o q) = Len(p) + Len(q)
      /\ \A i \in 1 .. Len(p) + Len(q) : (p \o q)[i] = IF i <= Len(p) THEN p[i]
                                                       ELSE q[i - Len(p)]
  BY <1>1, ConcatProperties
<1>3. /\ p \o r \in Seq(S) /\ Len(p \o r) = Len(p) + Len(r)
      /\ \A i \in 1 .. Len(p) + Len(r) : (p \o r)[i] = IF i <= Len(p) THEN p[i]
                                                       ELSE r[i - Len(p)]
  BY <1>1, ConcatProperties
<1>4. (p \o q)[1] = a /\ (p \o q)[2] = b
  BY <1>1, <1>2
<1>5. (p \o r)[1] = a /\ (p \o r)[2] = b /\ (p \o r)[3] = c
  BY <1>1, <1>3
<1>6. p \o q = << a, b >>
  <2>1. << a, b >> \in Seq(S) /\ Len(<< a, b >>) = 2 /\ << a, b >>[1] = a /\ << a, b >>[2] = b
    BY DEF S
  <2>2. Len(p \o q) = Len(<< a, b >>) /\ \A i \in 1 .. Len(p \o q) : (p \o q)[i] = << a, b >>[i]
    <3>1. Len(p \o q) = 2 /\ \A i \in 1 .. 2 : i = 1 \/ i = 2
      BY <1>1, <1>2
    <3> QED BY <1>4, <2>1, <3>1
  <2> QED BY <1>2, <2>1, <2>2, SeqEqual
<1>7. p \o r = << a, b, c >>
  <2>1. << a, b, c >> \in Seq(S) /\ Len(<< a, b, c >>) = 3 /\ << a, b, c >>[1] = a
        /\ << a, b, c >>[2] = b /\ << a, b, c >>[3] = c
    BY DEF S
  <2>2. Len(p \o r) = Len(<< a, b, c >>)
        /\ \A i \in 1 .. Len(p \o r) : (p \o r)[i] = << a, b, c >>[i]
    <3>1. Len(p \o r) = 3 /\ \A i \in 1 .. 3 : i = 1 \/ i = 2 \/ i = 3
      BY <1>1, <1>3
    <3> QED BY <1>5, <2>1, <3>1
  <2> QED BY <1>3, <2>1, <2>2, SeqEqual
<1> QED BY <1>6, <1>7 DEF p, q, r

\* handle_carrier_event: the shapes a plan for a carrier event takes.
LEMMA EventPlanFacts ==
    ASSUME NEW s \in 1 .. created, NEW e \in CarrierEvents
    PROVE  \/ EventPlan(s, e) = << >>
           \/ EventPlan(s, e) = << CloseStep(s) >>
           \/ EventPlan(s, e) = << EmitStep(s, "error") >>
           \/ /\ s \notin readySent
              /\ EventPlan(s, e) = << EmitStep(s, "ready") >>
           \/ /\ s \in live /\ s \in readySent
              /\ \/ EventPlan(s, e) = << EmitStep(s, "received") >>
                 \/ EventPlan(s, e) = << EmitStep(s, "received"), EmitStep(s, "typed") >>
           \/ /\ s \in live /\ s \notin readySent
              /\ \/ EventPlan(s, e) = << EmitStep(s, "ready"), EmitStep(s, "received") >>
                 \/ EventPlan(s, e) = << EmitStep(s, "ready"), EmitStep(s, "received"),
                                         EmitStep(s, "typed") >>
<1> DEFINE r == EmitStep(s, "ready")
           d == EmitStep(s, "received")
           t == EmitStep(s, "typed")
<1>1. << >> \o << d >> = << d >> /\ << >> \o << d, t >> = << d, t >>
      /\ << r >> \o << d >> = << r, d >> /\ << r >> \o << d, t >> = << r, d, t >>
  BY ConcatOne, ConcatEmptySeq
<1> HIDE DEF r, d, t
<1>2. EventPlan(s, e) =
          CASE e = "connected"    -> ReadyIfNeeded(s)
            [] e = "disconnected" -> << CloseStep(s) >>
            [] e = "error"        -> << EmitStep(s, "error") >>
            [] e = "message" /\ s \in live -> ReadyIfNeeded(s) \o << d, t >>
            [] e = "raw" /\ s \in live     -> ReadyIfNeeded(s) \o << d >>
            [] e \in {"message", "raw"} /\ s \notin live -> << >>
  BY DEF EventPlan, d, t
<1>3. ReadyIfNeeded(s) = IF s \in readySent THEN << >> ELSE << r >>
  BY DEF ReadyIfNeeded, r
<1>4. CASE e = "connected"
  BY <1>2, <1>3, <1>4 DEF r
<1>5. CASE e = "disconnected"
  BY <1>2, <1>5
<1>6. CASE e = "error"
  BY <1>2, <1>6
<1>7. CASE e \in {"message", "raw"} /\ s \notin live
  BY <1>2, <1>7
<1>8. CASE e = "message" /\ s \in live
  <2>1. EventPlan(s, e) = ReadyIfNeeded(s) \o << d, t >>
    BY <1>2, <1>8
  <2> QED BY <1>1, <1>3, <1>8, <2>1 DEF r, d, t
<1>9. CASE e = "raw" /\ s \in live
  <2>1. EventPlan(s, e) = ReadyIfNeeded(s) \o << d >>
    BY <1>2, <1>9
  <2> QED BY <1>1, <1>3, <1>9, <2>1 DEF r, d, t
<1> QED BY <1>4, <1>5, <1>6, <1>7, <1>8, <1>9 DEF CarrierEvents

-----------------------------------------------------------------------------
(* The steps.                                                              *)

\* What a step that leaves the books and the plan alone has to keep.
LEMMA Frame ==
    ASSUME IndInv, Types', FreshInv', open' => open,
           UNCHANGED <<plan, live, readySent, created, seen>>
    PROVE  IndInv'
<1>1. PlanInv'
  BY DEF IndInv, PlanInv
<1>2. HeadInv'
  BY DEF IndInv, HeadInv
<1>3. SeenInv'
  BY DEF IndInv, SeenInv, Reporting, EmitStep, Do
<1> QED BY <1>1, <1>2, <1>3 DEF IndInv

\* A plan without events.
LEMMA QuietPlan ==
    ASSUME plan' \in Seq(Steps), \A k \in 1 .. Len(plan') : plan'[k].op # "emit"
    PROVE  PlanInv' /\ HeadInv' /\ \A s : ~Reporting(s)'
<1>1. Len(plan') \in Nat
  OBVIOUS
<1>2. \A k \in 2 .. Len(plan') : plan'[k].op # "emit"
  BY <1>1
<1>3. plan' # << >> => 1 \in 1 .. Len(plan')
  BY EmptySeq, <1>1
<1>4. PlanInv'
  BY <1>2 DEF PlanInv
<1>5. HeadInv'
  BY <1>3 DEF HeadInv
<1>6. \A s : ~Reporting(s)'
  BY <1>3 DEF Reporting, EmitStep, Do
<1> QED BY <1>4, <1>5, <1>6

LEMMA CallInv ==
    ASSUME IndInv, NEW op \in CommandOps, NEW s \in Slots, NEW a \in BOOLEAN, Call(op, s, a)
    PROVE  IndInv'
<1>1. [op |-> op, s |-> s, awaited |-> a] \in Commands
  BY DEF Commands, CommandOps
<1>2. cmds' \in Seq(Commands)
  BY <1>1, AppendProperties DEF Call, IndInv, Types
<1>3. UNCHANGED <<open, plan, actor, created, live, readySent, inbox, forwarder, driver,
                  carrierEvents, seen>>
  BY DEF Call, actorVars, carrierVars
<1>4. Types'
  BY <1>2, <1>3 DEF IndInv, Types
<1>5. FreshInv'
  BY <1>3 DEF IndInv, FreshInv
<1> QED BY <1>3, <1>4, <1>5, Frame

LEMMA RecvEventInv == ASSUME IndInv, RecvEvent PROVE IndInv'
<1>1. UNCHANGED <<open, cmds, plan, actor, created, live, readySent, inbox, forwarder, driver,
                  carrierEvents, seen>>
  BY DEF RecvEvent, actorVars, carrierVars
<1>2. Types'
  BY <1>1 DEF IndInv, Types
<1>3. FreshInv'
  BY <1>1 DEF IndInv, FreshInv
<1> QED BY <1>1, <1>2, <1>3, Frame

LEMMA DropHandleInv == ASSUME IndInv, DropHandle PROVE IndInv'
<1>1. UNCHANGED <<plan, actor, created, live, readySent, inbox, forwarder, driver,
                  carrierEvents, seen>> /\ open' = FALSE
  BY DEF DropHandle, actorVars, carrierVars
<1>2. [op |-> "shutdown", s |-> 0, awaited |-> FALSE] \in Commands
  BY ConstantFacts DEF Commands, CommandOps, Slots
<1>3. cmds' \in Seq(Commands)
  BY <1>2, AppendProperties DEF DropHandle, IndInv, Types
<1>4. Types'
  BY <1>1, <1>3 DEF IndInv, Types
<1>5. FreshInv'
  BY <1>1 DEF IndInv, FreshInv
<1> QED BY <1>1, <1>4, <1>5, Frame

LEMMA TakeCommandInv == ASSUME IndInv, TakeCommand PROVE IndInv'
<1>1. UNCHANGED <<open, actor, created, live, readySent, inbox, forwarder, driver,
                  carrierEvents, seen>> /\ plan = << >>
  BY DEF TakeCommand, carrierVars
<1>2. Head(cmds) \in Commands /\ cmds' \in Seq(Commands)
  BY HeadTailProperties DEF TakeCommand, IndInv, Types
<1>3. /\ plan' \in Seq(Steps)
      /\ \A k \in 1 .. Len(plan') : plan'[k].op # "emit"
  BY <1>2, CommandPlanFacts DEF TakeCommand, IndInv
<1>4. Types'
  BY <1>1, <1>2, <1>3 DEF IndInv, Types
<1>5. FreshInv'
  BY <1>1 DEF IndInv, FreshInv
<1>6. SeenInv'
  BY <1>1 DEF IndInv, SeenInv, Reporting
<1> QED BY <1>3, <1>4, <1>5, <1>6, QuietPlan DEF IndInv

LEMMA TakeCarrierEventInv == ASSUME IndInv, TakeCarrierEvent PROVE IndInv'
<1>1. UNCHANGED <<open, cmds, actor, created, live, readySent, forwarder, driver,
                  carrierEvents, seen>> /\ plan = << >>
  BY DEF TakeCarrierEvent, carrierVars, appVars
<1>2. Head(inbox) \in (1 .. created) \X CarrierEvents
      /\ inbox' \in Seq((1 .. created) \X CarrierEvents)
  BY HeadTailProperties DEF TakeCarrierEvent, IndInv, Types
<1>3. PICK s \in 1 .. created, e \in CarrierEvents : plan' = EventPlan(s, e)
  BY <1>2 DEF TakeCarrierEvent
<1>4. s \in Slots /\ s \in Sessions /\ live \subseteq 1 .. created
  BY ConstantFacts DEF IndInv, Types, Slots, Sessions
<1>5. /\ CloseStep(s) \in Steps /\ CloseStep(s).op # "emit"
      /\ \A v \in EventKinds : EmitStep(s, v) \in Steps /\ EmitStep(s, v).op = "emit"
                            /\ EmitStep(s, v).s = s /\ EmitStep(s, v).ev = v
  BY <1>4 DEF CloseStep, EmitStep, Do, Steps, Ops
<1> DEFINE r == EmitStep(s, "ready")
           d == EmitStep(s, "received")
           t == EmitStep(s, "typed")
           x == EmitStep(s, "error")
           c == CloseStep(s)
<1>6. {r, d, t, x, c} \subseteq Steps /\ c.op # "emit" /\ r.op = "emit" /\ d.op = "emit"
      /\ t.op = "emit" /\ x.op = "emit" /\ r.s = s /\ d.s = s /\ t.s = s /\ x.s = s
      /\ r.ev = "ready" /\ d.ev = "received" /\ t.ev = "typed" /\ x.ev = "error"
  BY <1>5 DEF EventKinds
<1>7. \/ plan' = << >> \/ plan' = << c >> \/ plan' = << x >>
      \/ s \notin readySent /\ plan' = << r >>
      \/ s \in live /\ s \in readySent /\ (plan' = << d >> \/ plan' = << d, t >>)
      \/ s \in live /\ s \notin readySent /\ (plan' = << r, d >> \/ plan' = << r, d, t >>)
  BY <1>3, EventPlanFacts
<1> HIDE DEF r, d, t, x, c
<1>8. plan' \in Seq(Steps)
  <2>1. << >> \in Seq(Steps) /\ << c >> \in Seq(Steps) /\ << x >> \in Seq(Steps)
        /\ << r >> \in Seq(Steps) /\ << d >> \in Seq(Steps)
    BY <1>6
  <2>2. << d, t >> \in Seq(Steps) /\ << r, d >> \in Seq(Steps) /\ << r, d, t >> \in Seq(Steps)
    BY <1>6
  <2> QED BY <1>7, <2>1, <2>2
<1>9. Types'
  BY <1>1, <1>2, <1>8 DEF IndInv, Types
<1>10. FreshInv'
  BY <1>1 DEF IndInv, FreshInv
<1>11. SeenInv'
  BY <1>1 DEF IndInv, SeenInv, Reporting
<1>12. PlanInv'
  <2>1. CASE plan' \in {<< >>, << c >>, << x >>, << r >>, << d >>}
    <3>1. Len(<< >>) = 0 /\ Len(<< c >>) = 1 /\ Len(<< x >>) = 1 /\ Len(<< r >>) = 1
          /\ Len(<< d >>) = 1
      OBVIOUS
    <3>2. Len(plan') \in {0, 1}
      BY <2>1, <3>1
    <3>3. PICK n : n = Len(plan')
      OBVIOUS
    <3>4. \A m \in {0, 1} : 2 .. m = {}
      OBVIOUS
    <3>5. 2 .. n = {}
      BY <3>2, <3>3, <3>4
    <3> QED BY <3>3, <3>5 DEF PlanInv
  <2>2. CASE s \in live /\ plan' \in {<< d, t >>, << r, d >>}
    <3>1. Len(plan') = 2 /\ \A k \in 2 .. 2 : k = 2 /\ 1 .. k - 1 = {1}
      BY <2>2
    <3>2. plan'[1] \in {d, r} /\ plan'[2] \in {d, t}
      BY <2>2
    <3> QED BY <1>1, <1>6, <2>2, <3>1, <3>2 DEF PlanInv
  <2>3. CASE s \in live /\ plan' = << r, d, t >>
    <3>1. Len(plan') = 3 /\ plan'[1] = r /\ plan'[2] = d /\ plan'[3] = t
      BY <2>3
    <3>2. \A k \in 2 .. 3 : plan'[k] \in {d, t} /\ \A j \in 1 .. k - 1 : plan'[j] \in {r, d}
      BY <3>1
    <3> QED BY <1>1, <1>6, <2>3, <3>1, <3>2 DEF PlanInv
  <2> QED BY <1>7, <2>1, <2>2, <2>3
<1>13. HeadInv'
  <2>1. CASE plan' = << >> \/ plan' = << c >>
    <3>1. plan' # << >> => plan'[1] = c
      BY <2>1
    <3> QED BY <1>6, <3>1 DEF HeadInv
  <2>2. CASE plan' = << x >>
    <3>1. plan'[1] = x
      BY <2>2
    <3> QED BY <1>1, <1>6, <3>1 DEF HeadInv
  <2>3. CASE s \notin readySent /\ plan' \in {<< r >>, << r, d >>, << r, d, t >>}
    <3>1. plan'[1] = r
      BY <2>3
    <3> QED BY <1>1, <1>6, <2>3, <3>1 DEF HeadInv
  <2>4. CASE s \in live /\ s \in readySent /\ plan' \in {<< d >>, << d, t >>}
    <3>1. plan'[1] = d
      BY <2>4
    <3> QED BY <1>1, <1>6, <2>4, <3>1 DEF HeadInv
  <2> QED BY <1>7, <2>1, <2>2, <2>3, <2>4
<1> QED BY <1>9, <1>10, <1>11, <1>12, <1>13 DEF IndInv

LEMMA EmitInv == ASSUME IndInv, Emit PROVE IndInv'
<1>1. UNCHANGED <<open, cmds, actor, created, live, inbox, forwarder, driver, carrierEvents>>
      /\ plan # << >> /\ plan' = Tail(plan) /\ Types
  BY DEF Emit, carrierVars, IndInv
<1> DEFINE q == plan[1].s
           e == plan[1].ev
<1>2. /\ plan[1].op = "emit" /\ Head(plan) = plan[1] /\ plan[1] \in Steps
      /\ q \in 1 .. created /\ q \in Sessions /\ e \in EventKinds \cup {"none"}
  <2>1. Head(plan) = plan[1] /\ plan[1] \in Steps
    BY <1>1, TailFacts
  <2>2. plan[1].op = "emit"
    BY <2>1 DEF Emit
  <2>3. q \in 1 .. created
    BY <1>1, <2>2 DEF IndInv, HeadInv
  <2>4. q \in Sessions
    BY <1>1, <2>3, ConstantFacts DEF Types, Slots, Sessions
  <2> QED BY <2>1, <2>2, <2>3, <2>4 DEF Steps
<1>3. /\ seen' = IF open /\ e \in {"ready", "disconnected"}
                 THEN [seen EXCEPT ![q] = @ \cup {e}] ELSE seen
      /\ readySent' = IF e = "ready" THEN readySent \cup {q} ELSE readySent
  BY <1>2 DEF Emit
<1>4. /\ seen' \in [Sessions -> SUBSET {"ready", "disconnected"}]
      /\ readySent' \subseteq Sessions
      /\ \A s \in Sessions : s # q => seen'[s] = seen[s]
      /\ ~(open /\ e \in {"ready", "disconnected"}) => seen'[q] = seen[q]
      /\ open /\ e \in {"ready", "disconnected"} => seen'[q] = seen[q] \cup {e}
  BY <1>1, <1>2, <1>3 DEF Types
<1>5. plan' \in Seq(Steps) /\ Len(plan') = Len(plan) - 1 /\ Len(plan) \in Nat \ {0}
      /\ \A i \in 1 .. Len(plan') : plan'[i] = plan[i + 1]
  BY <1>1, TailFacts
<1> HIDE DEF q, e
<1>6. Types'
  BY <1>1, <1>4, <1>5 DEF Types
<1>7. FreshInv'
  <2>1. \A s \in Sessions : s > created => s # q
    BY <1>1, <1>2 DEF Types, Slots, Sessions
  <2> QED BY <1>1, <1>4, <2>1 DEF IndInv, FreshInv
<1>8. ASSUME NEW k \in 1 .. Len(plan'), plan'[k].op = "emit"
      PROVE  /\ plan'[k].ev \in {"received", "typed"} /\ plan'[k].s \in live
             /\ plan'[k].s = q /\ e \in {"ready", "received", "typed"}
             /\ \A j \in 1 .. k - 1 :
                   /\ plan'[j].op = "emit" /\ plan'[j].s = plan'[k].s
                   /\ plan'[j].ev \in {"ready", "received", "typed"}
  <2>1. k + 1 \in 2 .. Len(plan) /\ 1 \in 1 .. (k + 1) - 1
        /\ \A j \in 1 .. k - 1 : j + 1 \in 1 .. (k + 1) - 1 /\ j \in 1 .. Len(plan')
    BY <1>5
  <2>2. plan'[k] = plan[k + 1] /\ \A j \in 1 .. k - 1 : plan'[j] = plan[j + 1]
    BY <1>5, <2>1
  <2>3. /\ plan[k + 1].ev \in {"received", "typed"} /\ plan[k + 1].s \in live
        /\ \A j \in 1 .. (k + 1) - 1 :
              /\ plan[j].op = "emit" /\ plan[j].s = plan[k + 1].s
              /\ plan[j].ev \in {"ready", "received", "typed"}
    BY <1>8, <2>1, <2>2 DEF IndInv, PlanInv
  <2>4. plan[1].s = plan[k + 1].s /\ plan[1].ev \in {"ready", "received", "typed"}
    BY <2>1, <2>3
  <2>5. ASSUME NEW j \in 1 .. k - 1
        PROVE  /\ plan'[j].op = "emit" /\ plan'[j].s = plan'[k].s
               /\ plan'[j].ev \in {"ready", "received", "typed"}
    <3>1. j + 1 \in 1 .. (k + 1) - 1 /\ plan'[j] = plan[j + 1]
      BY <2>1, <2>2
    <3> QED BY <2>2, <2>3, <3>1
  <2>6. q = plan[1].s /\ e = plan[1].ev
    BY DEF q, e
  <2> QED BY <2>2, <2>3, <2>4, <2>5, <2>6
<1>9. PlanInv'
  <2>1. \A k \in 2 .. Len(plan') : k \in 1 .. Len(plan')
    BY <1>5
  <2> QED BY <1>1, <1>8, <2>1 DEF PlanInv
<1>10. HeadInv'
  <2> SUFFICES ASSUME plan' # << >>, plan'[1].op = "emit"
               PROVE  plan'[1].s \in live /\ plan'[1].s \in readySent'
                      /\ plan'[1].ev \in {"received", "typed"} /\ plan'[1].s \in 1 .. created
    BY <1>1 DEF HeadInv
  <2>1. 1 \in 1 .. Len(plan')
    BY <1>5, EmptySeq
  <2>2. plan'[1].ev \in {"received", "typed"} /\ plan'[1].s \in live /\ plan'[1].s = q
        /\ e \in {"ready", "received", "typed"}
    BY <1>8, <2>1
  <2>3. q \in readySent'
    <3>1. CASE e = "ready"
      BY <1>3, <3>1
    <3>2. CASE e \in {"received", "typed"}
      BY <1>1, <1>2, <1>3, <3>2 DEF IndInv, HeadInv, q, e
    <3> QED BY <2>2, <3>1, <3>2
  <2> QED BY <1>1, <1>2, <2>2, <2>3
<1>11. /\ e = "ready" => q \notin readySent
       /\ e = "disconnected" => q \notin live
  BY <1>1, <1>2 DEF IndInv, HeadInv, q, e
<1>12. \A s \in live' : "disconnected" \notin seen'[s]
  <2>1. live \subseteq Sessions
    BY <1>1, ConstantFacts DEF Types, Slots, Sessions
  <2> QED BY <1>1, <1>4, <1>11, <2>1 DEF IndInv, SeenInv
<1>13. open' => \A s \in readySent' : "ready" \in seen'[s]
  BY <1>1, <1>3, <1>4 DEF IndInv, SeenInv, Types
<1>14. open' => \A s \in Sessions : "ready" \in seen'[s] =>
          s \in readySent' \/ "disconnected" \in seen'[s] \/ Reporting(s)'
  <2> SUFFICES ASSUME open, NEW s \in Sessions, "ready" \in seen'[s]
               PROVE  s \in readySent' \/ "disconnected" \in seen'[s]
    BY <1>1
  <2>1. CASE s = q /\ e = "ready"
    BY <1>3, <2>1
  <2>2. CASE s = q /\ e = "disconnected"
    BY <1>4, <2>2
  <2>3. CASE ~(s = q /\ e \in {"ready", "disconnected"})
    <3>1. seen'[s] = seen[s]
      BY <1>4, <2>3
    <3>2. ~Reporting(s)
      BY <2>3 DEF Reporting, EmitStep, Do, q, e
    <3>3. s \in readySent \/ "disconnected" \in seen[s]
      BY <3>1, <3>2 DEF IndInv, SeenInv
    <3>4. readySent \subseteq readySent'
      BY <1>3
    <3> QED BY <3>1, <3>3, <3>4
  <2> QED BY <2>1, <2>2, <2>3
<1>15. SeenInv'
  BY <1>12, <1>13, <1>14 DEF SeenInv
<1> QED BY <1>6, <1>7, <1>9, <1>10, <1>15 DEF IndInv

LEMMA CloseSessionInv == ASSUME IndInv, CloseSession PROVE IndInv'
<1>1. UNCHANGED <<open, cmds, actor, created, inbox, forwarder, driver, carrierEvents, seen>>
      /\ plan # << >> /\ Types /\ PlanInv
  BY DEF CloseSession, appVars, IndInv
<1>2. Head(plan) = plan[1] /\ plan[1] \in Steps /\ Tail(plan) \in Seq(Steps)
  BY <1>1, TailFacts
<1>3. plan[1].op = "close"
  BY <1>2 DEF CloseSession
<1>4. \A k \in 1 .. Len(Tail(plan)) : Tail(plan)[k].op # "emit"
  BY <1>1, <1>3, TailNoEvents
<1>5. \A s : ~Reporting(s)
  BY <1>3 DEF Reporting, EmitStep, Do
<1>6. FreshInv'
  BY <1>1 DEF IndInv, FreshInv
<1>7. PICK s : s = plan[1].s
  OBVIOUS
<1>8. CASE s \in live
  <2>1. /\ live' = live \ {s} /\ readySent' = readySent \ {s}
        /\ plan' = << EmitStep(s, "disconnected") >> \o Tail(plan)
    BY <1>2, <1>7, <1>8 DEF CloseSession
  <2>2. s \in 1 .. created /\ s \in Slots /\ s \in Sessions
    BY <1>1, <1>8, ConstantFacts DEF Types, Slots, Sessions
  <2>3. /\ EmitStep(s, "disconnected") \in Steps
        /\ EmitStep(s, "disconnected").op = "emit"
        /\ EmitStep(s, "disconnected").s = s
        /\ EmitStep(s, "disconnected").ev = "disconnected"
    BY <2>2 DEF EmitStep, Do, Steps, Ops, EventKinds
  <2>4. /\ plan' \in Seq(Steps) /\ plan' # << >>
        /\ plan'[1] = EmitStep(s, "disconnected")
        /\ \A k \in 2 .. Len(plan') : plan'[k].op # "emit"
    BY ZenonT(60), <1>2, <1>4, <2>1, <2>3, OneEvent
  <2>5. Types'
    BY <1>1, <2>1, <2>4 DEF Types
  <2>6. PlanInv'
    BY <2>4 DEF PlanInv
  <2>7. HeadInv'
    <3>1. s \notin live' /\ "disconnected" \notin seen'[s] /\ s \in 1 .. created'
      BY <1>1, <1>8, <2>1, <2>2 DEF IndInv, SeenInv
    <3> QED BY <2>3, <2>4, <3>1 DEF HeadInv
  <2>8. SeenInv'
    <3>1. Reporting(s)'
      BY <2>4 DEF Reporting, EmitStep, Do
    <3>2. \A t \in live' : "disconnected" \notin seen'[t]
      BY <1>1, <2>1 DEF IndInv, SeenInv
    <3>3. open' => \A t \in readySent' : "ready" \in seen'[t]
      BY <1>1, <2>1 DEF IndInv, SeenInv
    <3>4. ASSUME open', NEW t \in Sessions, "ready" \in seen'[t]
          PROVE  t \in readySent' \/ "disconnected" \in seen'[t] \/ Reporting(t)'
      <4>1. t \in readySent \/ "disconnected" \in seen[t]
        BY <1>1, <1>5, <3>4 DEF IndInv, SeenInv
      <4>2. CASE t = s
        BY <3>1, <4>2
      <4>3. CASE t # s
        BY <1>1, <2>1, <4>1, <4>3
      <4> QED BY <4>2, <4>3
    <3> QED BY <3>2, <3>3, <3>4 DEF SeenInv
  <2> QED BY <1>6, <2>5, <2>6, <2>7, <2>8 DEF IndInv
<1>9. CASE s \notin live
  <2>1. plan' = Tail(plan) /\ UNCHANGED <<live, readySent>>
    BY <1>2, <1>7, <1>9 DEF CloseSession
  <2>2. Types'
    BY <1>1, <1>2, <2>1 DEF Types
  <2>3. PlanInv' /\ HeadInv'
    BY <1>2, <1>4, <2>1, QuietPlan
  <2>4. SeenInv'
    BY <1>1, <1>5, <2>1 DEF IndInv, SeenInv
  <2> QED BY <1>6, <2>2, <2>3, <2>4 DEF IndInv
<1> QED BY <1>8, <1>9

LEMMA CreateInv == ASSUME IndInv, Create PROVE IndInv'
<1>1. UNCHANGED <<open, cmds, actor, readySent, inbox, carrierEvents, seen>>
      /\ plan # << >> /\ plan' = Tail(plan) /\ Types /\ PlanInv
  BY DEF Create, appVars, IndInv
<1>2. Head(plan) = plan[1] /\ plan' \in Seq(Steps)
  BY <1>1, TailFacts
<1>3. plan[1].op = "create"
  BY <1>2 DEF Create
<1>4. \A k \in 1 .. Len(plan') : plan'[k].op # "emit"
  BY <1>1, <1>3, TailNoEvents
<1>5. \A s : ~Reporting(s)
  BY <1>3 DEF Reporting, EmitStep, Do
<1>6. PlanInv' /\ HeadInv'
  BY <1>2, <1>4, QuietPlan
<1>7. CASE UNCHANGED <<created, live, driver, forwarder>>
  <2>1. Types'
    BY <1>1, <1>2, <1>7 DEF Types
  <2>2. FreshInv'
    BY <1>1, <1>7 DEF IndInv, FreshInv
  <2>3. SeenInv'
    BY <1>1, <1>5, <1>7 DEF IndInv, SeenInv
  <2> QED BY <1>6, <2>1, <2>2, <2>3 DEF IndInv
<1>8. CASE /\ created < MaxSessions
           /\ created' = created + 1
           /\ live' = live \cup {created + 1}
           /\ driver' = [driver EXCEPT ![created + 1] = "idle"]
           /\ forwarder' = [forwarder EXCEPT ![created + 1] = "idle"]
  <2>1. created \in Nat /\ created' \in Slots /\ created + 1 \in Sessions
        /\ 1 .. created \subseteq 1 .. created'
    BY <1>1, <1>8, ConstantFacts DEF Types, Slots, Sessions
  <2>2. live' \subseteq 1 .. created'
    BY <1>1, <1>8, <2>1 DEF Types
  <2>3. inbox' \in Seq((1 .. created') \X CarrierEvents)
    <3>1. \A x \in (1 .. created) \X CarrierEvents : x \in (1 .. created') \X CarrierEvents
      BY <2>1
    <3>2. inbox \in Seq((1 .. created) \X CarrierEvents)
      BY <1>1 DEF Types
    <3> DEFINE A == (1 .. created) \X CarrierEvents
               B == (1 .. created') \X CarrierEvents
    <3>3. A \subseteq B /\ inbox \in Seq(A)
      BY <3>1, <3>2
    <3> HIDE DEF A, B
    <3>4. inbox \in Seq(B)
      BY <3>3
    <3> QED BY <1>1, <3>4 DEF B
  <2>4. forwarder' \in [Sessions -> CarrierEvents \cup {"none", "idle", "last", "gone"}]
        /\ driver' \in [Sessions -> CarrierEvents \cup {"none", "idle", "exited"}]
    BY <1>1, <1>8, <2>1 DEF Types
  <2>5. Types'
    BY <1>1, <1>2, <2>1, <2>2, <2>3, <2>4 DEF Types
  <2>6. FreshInv'
    <3> SUFFICES ASSUME NEW s \in Sessions, s > created'
                 PROVE  forwarder'[s] = "none" /\ seen'[s] = {}
      BY DEF FreshInv
    <3>1. s > created /\ s # created + 1
      BY <1>8, <2>1 DEF Sessions
    <3>2. forwarder'[s] = forwarder[s]
      BY <1>1, <1>8, <3>1 DEF Types
    <3> QED BY <1>1, <3>1, <3>2 DEF IndInv, FreshInv
  <2>7. seen[created + 1] = {}
    <3>1. created + 1 > created
      BY <2>1
    <3> QED BY <2>1, <3>1 DEF IndInv, FreshInv
  <2>8. SeenInv'
    BY <1>1, <1>5, <1>8, <2>7 DEF IndInv, SeenInv
  <2> QED BY <1>6, <2>5, <2>6, <2>8 DEF IndInv
<1> QED BY <1>7, <1>8 DEF Create

LEMMA SendToCarrierInv == ASSUME IndInv, SendToCarrier PROVE IndInv'
<1>1. UNCHANGED <<open, cmds, actor, created, live, readySent, inbox, forwarder, driver,
                  carrierEvents, seen>>
      /\ plan # << >> /\ Types /\ PlanInv
  BY DEF SendToCarrier, appVars, IndInv
<1>2. Head(plan) = plan[1] /\ plan[1] \in Steps /\ Tail(plan) \in Seq(Steps)
  BY <1>1, TailFacts
<1>3. plan[1].op = "carrier"
  BY <1>2 DEF SendToCarrier
<1>4. \A k \in 1 .. Len(Tail(plan)) : Tail(plan)[k].op # "emit"
  BY <1>1, <1>3, TailNoEvents
<1>5. \A s : ~Reporting(s)
  BY <1>3 DEF Reporting, EmitStep, Do
<1>6. FreshInv'
  BY <1>1 DEF IndInv, FreshInv
<1>7. SeenInv'
  BY <1>1, <1>5 DEF IndInv, SeenInv
<1>8. PICK s : s = plan[1].s
  OBVIOUS
<1>9. CASE plan' = Tail(plan)
  <2>1. Types'
    BY <1>1, <1>2, <1>9 DEF Types
  <2>2. PlanInv' /\ HeadInv'
    BY <1>2, <1>4, <1>9, QuietPlan
  <2> QED BY <1>6, <1>7, <2>1, <2>2 DEF IndInv
<1>10. CASE s \in live /\ plan' = << EmitStep(s, "sent") >> \o Tail(plan)
  <2>1. s \in 1 .. created /\ s \in Slots
    BY <1>1, <1>10, ConstantFacts DEF Types, Slots
  <2>2. /\ EmitStep(s, "sent") \in Steps
        /\ EmitStep(s, "sent").op = "emit"
        /\ EmitStep(s, "sent").s = s
        /\ EmitStep(s, "sent").ev = "sent"
    BY <2>1 DEF EmitStep, Do, Steps, Ops, EventKinds
  <2>3. /\ plan' \in Seq(Steps) /\ plan' # << >>
        /\ plan'[1] = EmitStep(s, "sent")
        /\ \A k \in 2 .. Len(plan') : plan'[k].op # "emit"
    BY <1>2, <1>4, <1>10, <2>2, OneEvent
  <2>4. Types'
    BY <1>1, <2>3 DEF Types
  <2>5. PlanInv'
    BY <2>3 DEF PlanInv
  <2>6. HeadInv'
    BY <1>1, <1>10, <2>1, <2>2, <2>3 DEF HeadInv
  <2> QED BY <1>6, <1>7, <2>4, <2>5, <2>6 DEF IndInv
<1> QED BY <1>2, <1>8, <1>9, <1>10 DEF SendToCarrier

LEMMA ReplyInv == ASSUME IndInv, Reply PROVE IndInv'
<1>1. UNCHANGED <<open, cmds, actor, created, live, readySent, inbox, forwarder, driver,
                  carrierEvents, seen>>
      /\ plan # << >> /\ plan' = Tail(plan) /\ Types /\ PlanInv
  BY DEF Reply, carrierVars, IndInv
<1>2. Head(plan) = plan[1] /\ plan' \in Seq(Steps)
  BY <1>1, TailFacts
<1>3. plan[1].op = "reply"
  BY <1>2 DEF Reply
<1>4. \A k \in 1 .. Len(plan') : plan'[k].op # "emit"
  BY <1>1, <1>3, TailNoEvents
<1>5. Types'
  BY <1>1, <1>2 DEF Types
<1>6. FreshInv'
  BY <1>1 DEF IndInv, FreshInv
<1>7. SeenInv'
  BY <1>1, <1>3 DEF IndInv, SeenInv, Reporting, EmitStep, Do
<1> QED BY <1>2, <1>4, <1>5, <1>6, <1>7, QuietPlan DEF IndInv

LEMMA ExitActorInv == ASSUME IndInv, ExitActor PROVE IndInv'
<1>1. UNCHANGED <<open, cmds, created, readySent, inbox, forwarder, driver, carrierEvents, seen>>
      /\ plan' = << >> /\ live' = {} /\ actor' = "exited" /\ Types
  BY DEF ExitActor, appVars, IndInv
<1>2. \A s : ~Reporting(s)
  <2>1. CASE plan = << >>
    BY <2>1 DEF Reporting
  <2>2. CASE plan # << >>
    <3>1. plan[1].op = "exit"
      BY <1>1, <2>2, TailFacts DEF ExitActor
    <3> QED BY <3>1 DEF Reporting, EmitStep, Do
  <2> QED BY <2>1, <2>2
<1>3. plan' \in Seq(Steps) /\ Len(plan') = 0 /\ 1 .. 0 = {}
  BY <1>1, EmptySeq
<1>4. Types'
  BY <1>1, <1>3 DEF Types
<1>5. FreshInv'
  BY <1>1 DEF IndInv, FreshInv
<1>6. SeenInv'
  BY <1>1, <1>2 DEF IndInv, SeenInv
<1> QED BY <1>3, <1>4, <1>5, <1>6, QuietPlan DEF IndInv

\* The driver's steps only touch what it waits to send.
LEMMA DriverInv ==
    ASSUME IndInv, NEW s \in Sessions,
           \/ \E e \in CarrierEvents : Traffic(s, e)
           \/ DriverEmit(s) \/ DriverCommand(s) \/ DriverExit(s)
    PROVE  IndInv'
<1>1. UNCHANGED <<open, cmds, plan, actor, created, live, readySent, inbox, forwarder, seen>>
  BY DEF Traffic, DriverEmit, DriverCommand, DriverExit, appVars, actorVars
<1>2. PICK v \in CarrierEvents \cup {"none", "idle", "exited"} : driver' = [driver EXCEPT ![s] = v]
  BY DEF Traffic, DriverEmit, DriverCommand, DriverExit, NextTurn, CarrierEvents
<1>3. driver' \in [Sessions -> CarrierEvents \cup {"none", "idle", "exited"}]
  BY <1>2 DEF IndInv, Types
<1>4. carrierEvents' \in [Sessions -> Seq(CarrierEvents)]
  <2>0. carrierEvents \in [Sessions -> Seq(CarrierEvents)]
    BY DEF IndInv, Types
  <2>1. CASE DriverEmit(s)
    <3>1. driver[s] \in CarrierEvents
      BY <2>1 DEF DriverEmit
    <3>2. Append(carrierEvents[s], driver[s]) \in Seq(CarrierEvents)
      BY <2>0, <3>1, AppendProperties
    <3>3. \/ carrierEvents' = carrierEvents
          \/ carrierEvents' = [carrierEvents EXCEPT ![s] = Append(carrierEvents[s], driver[s])]
      BY <2>1 DEF DriverEmit
    <3> QED BY <2>0, <3>2, <3>3
  <2>2. CASE ~DriverEmit(s)
    BY <2>0, <2>2 DEF Traffic, DriverCommand, DriverExit
  <2> QED BY <2>1, <2>2
<1>5. Types'
  BY <1>1, <1>3, <1>4 DEF IndInv, Types
<1>6. FreshInv'
  BY <1>1 DEF IndInv, FreshInv
<1> QED BY <1>1, <1>5, <1>6, Frame

LEMMA ForwarderTakeInv ==
    ASSUME IndInv, NEW s \in Sessions, ForwarderTake(s) PROVE IndInv'
<1>1. UNCHANGED <<open, cmds, plan, actor, created, live, readySent, inbox, driver, seen>>
      /\ forwarder[s] = "idle"
  BY DEF ForwarderTake, appVars, actorVars
<1>2. carrierEvents \in [Sessions -> Seq(CarrierEvents)]
  BY DEF IndInv, Types
<1>3. carrierEvents[s] # << >> => Head(carrierEvents[s]) \in CarrierEvents
                               /\ Tail(carrierEvents[s]) \in Seq(CarrierEvents)
  BY <1>2, HeadTailProperties
<1>4. PICK v \in CarrierEvents \cup {"last"} : forwarder' = [forwarder EXCEPT ![s] = v]
  BY <1>3 DEF ForwarderTake
<1>5. carrierEvents' \in [Sessions -> Seq(CarrierEvents)]
  <2>1. \/ carrierEvents' = carrierEvents
        \/ /\ carrierEvents[s] # << >>
           /\ carrierEvents' = [carrierEvents EXCEPT ![s] = Tail(carrierEvents[s])]
    BY DEF ForwarderTake
  <2> QED BY <1>2, <1>3, <2>1
<1>6. Types'
  BY <1>1, <1>4, <1>5 DEF IndInv, Types
<1>7. FreshInv'
  BY <1>1, <1>4 DEF IndInv, FreshInv, Types
<1> QED BY <1>1, <1>6, <1>7, Frame

LEMMA ForwarderPutInv ==
    ASSUME IndInv, NEW s \in Sessions, ForwarderPut(s) PROVE IndInv'
<1>1. UNCHANGED <<open, cmds, plan, actor, created, live, readySent, driver, carrierEvents, seen>>
      /\ forwarder[s] \in CarrierEvents \cup {"last"}
  BY DEF ForwarderPut, appVars, actorVars, carrierVars
<1>2. s \in 1 .. created
  <2>1. forwarder[s] # "none"
    BY <1>1 DEF CarrierEvents
  <2> QED BY <2>1, ConstantFacts DEF IndInv, FreshInv, Types, Slots, Sessions
<1>3. PICK v \in {"idle", "gone"} : forwarder' = [forwarder EXCEPT ![s] = v]
  BY DEF ForwarderPut
<1>4. inbox' \in Seq((1 .. created) \X CarrierEvents)
  <2> DEFINE x == <<s, IF forwarder[s] = "last" THEN "disconnected" ELSE forwarder[s]>>
  <2>1. x \in (1 .. created) \X CarrierEvents
    BY <1>1, <1>2 DEF CarrierEvents
  <2>2. inbox' = inbox \/ inbox' = Append(inbox, x)
    BY DEF ForwarderPut
  <2>3. inbox \in Seq((1 .. created) \X CarrierEvents)
    BY DEF IndInv, Types
  <2> HIDE DEF x
  <2>4. PICK T : T = (1 .. created) \X CarrierEvents
    OBVIOUS
  <2>5. Append(inbox, x) \in Seq(T)
    BY <2>1, <2>3, <2>4, AppendProperties
  <2> QED BY <2>2, <2>3, <2>4, <2>5
<1>5. Types'
  BY <1>1, <1>3, <1>4 DEF IndInv, Types
<1>6. FreshInv'
  <2>1. \A t \in Sessions : t > created => t # s
    BY <1>2 DEF IndInv, Types, Slots, Sessions
  <2> QED BY <1>1, <1>3, <2>1 DEF IndInv, FreshInv, Types
<1> QED BY <1>1, <1>5, <1>6, Frame

LEMMA NextInv == IndInv /\ [Next]_vars => IndInv'
<1> SUFFICES ASSUME IndInv, [Next]_vars PROVE IndInv'
  OBVIOUS
<1>1. ASSUME NEW op \in {"create", "count", "disconnect", "shutdown"}, Call(op, 0, TRUE)
      PROVE  IndInv'
  <2>1. 0 \in Slots /\ op \in CommandOps /\ TRUE \in BOOLEAN
    BY ConstantFacts DEF Slots, CommandOps
  <2> QED BY <1>1, <2>1, CallInv
<1>2. ASSUME NEW s \in 1 .. created, NEW awaited \in BOOLEAN, Call("send", s, awaited)
      PROVE  IndInv'
  <2>1. s \in Slots /\ "send" \in CommandOps
    BY ConstantFacts DEF IndInv, Types, Slots, CommandOps
  <2> QED BY <1>2, <2>1, CallInv
<1>3. CASE UNCHANGED vars
  <2>1. UNCHANGED <<open, cmds, plan, actor, created, live, readySent, inbox, forwarder, driver,
                    carrierEvents, seen>>
    BY <1>3 DEF vars, appVars, actorVars, carrierVars
  <2>2. Types'
    BY <2>1 DEF IndInv, Types
  <2>3. FreshInv'
    BY <2>1 DEF IndInv, FreshInv
  <2> QED BY <2>1, <2>2, <2>3, Frame
<1> QED
  BY <1>1, <1>2, <1>3, RecvEventInv, DropHandleInv, TakeCommandInv, TakeCarrierEventInv,
     EmitInv, CloseSessionInv, CreateInv, SendToCarrierInv, ReplyInv, ExitActorInv,
     DriverInv, ForwarderTakeInv, ForwarderPutInv DEF Next

-----------------------------------------------------------------------------
(* The theorems.                                                           *)

\* The invariant holds in every reachable state of the service.
THEOREM Invariance == Spec => []IndInv
<1>1. Init => IndInv
  BY InitInv
<1>2. IndInv /\ [Next]_vars => IndInv'
  BY NextInv
<1> QED BY <1>1, <1>2, PTL DEF Spec

\* handle_carrier_event, close_session and handle_send_message, whatever the
\* order in which commands and carrier events reach the actor: data of a
\* session comes after its Ready and before its Disconnected, Disconnected
\* comes once, Sent not after it, and Ready a second time only after it.
THEOREM EventsInOrder == Spec => SessionOrder
<1>1. ASSUME IndInv, Emit, open
      PROVE  LET before == seen[Head(plan).s]
                 e == Head(plan).ev
             IN  /\ e \in {"received", "typed"} => before = {"ready"}
                 /\ e \in {"sent", "disconnected"} => "disconnected" \notin before
                 /\ e = "ready" => before # {"ready"}
  <2>1. plan # << >> /\ Types /\ HeadInv /\ SeenInv
    BY <1>1 DEF IndInv, Emit
  <2>2. Head(plan) = plan[1] /\ plan[1].op = "emit"
    BY <1>1, <2>1, TailFacts DEF Emit
  <2>3. plan[1].s \in Sessions
    BY <2>1, <2>2, ConstantFacts DEF HeadInv, Types, Slots, Sessions
  <2> DEFINE s == plan[1].s
             e == plan[1].ev
  <2>4. e \in {"received", "typed"} => seen[s] = {"ready"}
    <3> SUFFICES ASSUME e \in {"received", "typed"} PROVE seen[s] = {"ready"}
      OBVIOUS
    <3>1. s \in live /\ s \in readySent
      BY <2>1, <2>2 DEF HeadInv
    <3>2. "ready" \in seen[s] /\ "disconnected" \notin seen[s]
      BY <1>1, <2>1, <3>1 DEF SeenInv
    <3>3. seen[s] \subseteq {"ready", "disconnected"}
      BY <2>1, <2>3 DEF Types
    <3> QED BY <3>2, <3>3
  <2>5. e \in {"sent", "disconnected"} => "disconnected" \notin seen[s]
    BY <2>1, <2>2 DEF HeadInv, SeenInv
  <2>6. e = "ready" => seen[s] # {"ready"}
    <3> SUFFICES ASSUME e = "ready", seen[s] = {"ready"} PROVE FALSE
      OBVIOUS
    <3>1. s \notin readySent
      BY <2>1, <2>2 DEF HeadInv
    <3>2. ~Reporting(s)
      BY DEF Reporting, EmitStep, Do
    <3> QED BY <1>1, <2>1, <2>3, <3>1, <3>2 DEF SeenInv
  <2> QED BY <2>2, <2>4, <2>5, <2>6
<1>2. IndInv =>
        (Emit /\ open =>
          LET before == seen[Head(plan).s]
              e == Head(plan).ev
          IN  /\ e \in {"received", "typed"} => before = {"ready"}
              /\ e \in {"sent", "disconnected"} => "disconnected" \notin before
              /\ e = "ready" => before # {"ready"})
  BY <1>1
<1> QED BY <1>2, Invariance, PTL DEF SessionOrder

===============================================================================
