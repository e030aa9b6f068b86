-------------------------------- MODULE Flows --------------------------------
(***************************************************************************)
(* The flow engine of crates/irori-flows (engine.rs) as the Automations     *)
(* extension drives it (extensions/automations/src/lib.rs).                 *)
(*                                                                         *)
(* A flow is a graph: triggers, and nodes joined by wires.  A trigger that  *)
(* fires becomes a run if the flow's mode lets it; a run moves tokens along *)
(* the wires until none is left.  The engine does no I/O and is sequential: *)
(* every operation changes some state and then drives whatever is ready.    *)
(* One action here is one operation of the engine, or one round of drive.   *)
(*                                                                         *)
(* Durations and moments are small numbers.  Conditions, expressions and    *)
(* levels are sets of values one entity may have.  Step records, notes and  *)
(* near misses, which nothing reads back, are left out.                     *)
(***************************************************************************)
EXTENDS Integers, FiniteSets, SequencesExt

CONSTANTS
    Flow,           \* ids of flows
    Definition,     \* the definitions a flow may be given, each [mode, max, nodes, wires]
    Entity,         \* entities of the home
    Happening,      \* those whose every report counts (a button's presses)
    Val,            \* values an entity may have
    Null,           \* not knowing the value
    State,          \* states an entity may be in: [val, available]
    Zone,           \* places the home may be in: offsets of the local clock
    None,           \* nothing: no definition, no place, no moment
    MAX_STEPS,      \* steps a run may take
    MaxInputs,      \* bound: firings, changes and edits the engine is given
    MaxLate         \* bound: by how much the clock is looked at late

ASSUME FlowsAssumption ==
    /\ {MAX_STEPS, MaxInputs, MaxLate} \subseteq Nat
    /\ Happening \subseteq Entity
    /\ Null \notin Val /\ None \notin Definition
    /\ State \subseteq [val : Val \cup {Null}, available : BOOLEAN]

VARIABLES
    eng,        \* the engine: flows, runs, ready, timers, states, place
    drv,        \* where drive and advance are: [phase, idle, at, advancing]
    home,       \* the home as it really is
    now,        \* the clock
    calls,      \* service calls made whose answer is still to come
    inputs,     \* how much was asked so far (bounds the model)
    away,       \* history: when each entity was last outside a set of values
    blind       \* history: entities whose changes the engine missed

vars == <<eng, drv, home, now, calls, inputs, away, blind>>

-----------------------------------------------------------------------------
(* Definitions: graphs                                                      *)

Without(f, x) == [y \in DOMAIN f \ {x} |-> f[y]]

NodesOf(d, type) == {n \in DOMAIN d.nodes : d.nodes[n].type = type}

\* The wires leaving node n by port p, and those into n, in the order of the flow.
WiresFrom(d, n, p) ==
    SelectSeq([i \in DOMAIN d.wires |-> i],
              LAMBDA i : d.wires[i].from = n /\ d.wires[i].port = p)

WiresInto(d, n) == {i \in DOMAIN d.wires : d.wires[i].to = n}

-----------------------------------------------------------------------------
(* The engine's parts, as functions from an engine to the next one          *)

\* timers is ordered by moment, then by when it was set.
Schedule(E, at, kind, of, n) ==
    LET before == SelectSeq(E.timers, LAMBDA x : x.at <= at)
        after  == SelectSeq(E.timers, LAMBDA x : x.at > at)
    IN  [E EXCEPT !.timers =
            Append(before, [at |-> at, kind |-> kind, of |-> of, n |-> n]) \o after]

\* One new token per wire from the port; without a wire the path ends.
Leave(E, r, n, p) ==
    LET run  == E.runs[r]
        ws   == WiresFrom(run.def, n, p)
        new  == run.next .. run.next + Len(ws) - 1
    IN  [E EXCEPT
          !.runs[r].tokens = @ @@ [k \in new |->
              [node  |-> run.def.wires[ws[k - run.next + 1]].to,
               via   |-> ws[k - run.next + 1],
               doing |-> "ready", until |-> None, holding |-> None]],
          !.runs[r].next = @ + Len(ws),
          !.ready = @ \o [i \in DOMAIN ws |-> <<r, run.next + i - 1>>]]

EndToken(E, r, k) == [E EXCEPT !.runs[r].tokens = Without(@, k)]

Pass(E, r, k, p) == Leave(EndToken(E, r, k), r, E.runs[r].tokens[k].node, p)

StartRun(E, f, n) ==
    LET r == E.nextRun
        d == E.flows[f].def
        run == [flow |-> f, def |-> d, tokens |-> <<>>, next |-> 1, steps |-> 1,
                joins |-> [j \in NodesOf(d, "join") |->
                              [arrived |-> <<>>, passed |-> FALSE, deadline |-> None,
                               sent |-> 0]]]
    IN  Leave([E EXCEPT !.runs = @ @@ (r :> run), !.nextRun = @ + 1], r, n, "out")

\* Mutant: the end of a run gives no queued firing its turn.
FinishMutant(E, r, flowGoing) ==
    [E EXCEPT !.runs = Without(@, r), !.ready = SelectSeq(@, LAMBDA x : x[1] # r)]

\* Ends a run. The next queued firing gets its turn unless the flow itself is going.
Finish(E, r, flowGoing) ==
    LET f  == E.runs[r].flow
        E1 == [E EXCEPT !.runs = Without(@, r),
                        !.ready = SelectSeq(@, LAMBDA x : x[1] # r)]
    IN  IF flowGoing \/ E1.flows[f].queue = <<>> THEN E1
        ELSE StartRun([E1 EXCEPT !.flows[f].queue = Tail(@)], f, Head(E1.flows[f].queue))

RunsOf(E, f) == {r \in DOMAIN E.runs : E.runs[r].flow = f}

InOrder(S) == SetToSortSeq(S, LAMBDA a, b : a < b)

FinishAll(E, rs, flowGoing) ==
    FoldLeft(LAMBDA e, r : Finish(e, r, flowGoing), E, InOrder(rs))

\* A trigger fired: the mode decides whether it becomes a run.
FireNow(E, f, n) ==
    LET d       == E.flows[f].def
        running == RunsOf(E, f)
    IN  CASE d.mode = "single" /\ running # {} -> E
          [] d.mode = "restart" -> StartRun(FinishAll(E, running, FALSE), f, n)
          [] d.mode = "queued" /\ running # {} ->
                IF Len(E.flows[f].queue) < d.max
                THEN [E EXCEPT !.flows[f].queue = Append(@, n)]
                ELSE E
          [] d.mode = "parallel" /\ Cardinality(running) >= d.max -> E
          [] OTHER -> StartRun(E, f, n)

-----------------------------------------------------------------------------
(* Triggers                                                                 *)

Armed(E) == {f \in Flow : E.flows[f].def # None /\ E.flows[f].enabled}

\* <<flow, node>> of the armed triggers of a kind, in order.
Triggers(E, kind) ==
    UNION {{<<f, n>> : n \in {m \in NodesOf(E.flows[f].def, "trigger") :
                                 E.flows[f].def.nodes[m].trigger = kind}} : f \in Armed(E)}

TriggerSeq(S) == SetToSortSeq(S, LAMBDA a, b : a[1] < b[1] \/ (a[1] = b[1] /\ a[2] < b[2]))

CancelHold(E, f, n) == [E EXCEPT !.flows[f].holds = Without(@, n)]

\* Mutant: becoming unavailable leaves a hold counting.
StateTriggerMutant(E, f, n, old, new, moved, t) ==
    LET tr == E.flows[f].def.nodes[n]
    IN  IF ~new.available \/ old.val = new.val THEN E
        ELSE IF new.val \notin tr.to THEN CancelHold(E, f, n)
        ELSE IF tr.hold = None THEN FireNow(E, f, n)
        ELSE Schedule([E EXCEPT !.flows[f].holds = (n :> t + tr.hold) @@ @],
                      t + tr.hold, "hold", f, n)

\* A set that is all of Val stands for a from or a to that was left out.
StateTrigger(E, f, n, old, new, moved, t) ==
    LET tr   == E.flows[f].def.nodes[n]
        from == IF tr.level THEN old.val \notin tr.to ELSE tr.from = Val \/ old.val \in tr.from
        to   == new.val \in tr.to
    IN  CASE ~new.available \/ new.val = Null -> CancelHold(E, f, n)
          [] tr.entity \in Happening /\ ~moved -> E
          [] tr.entity \notin Happening /\ old.val = new.val -> E
          [] tr.level /\ to /\ ~from -> E
          [] from /\ to /\ tr.hold # None ->
                Schedule([E EXCEPT !.flows[f].holds = (n :> t + tr.hold) @@ @],
                         t + tr.hold, "hold", f, n)
          [] from /\ to -> FireNow(E, f, n)
          [] ~tr.level /\ to /\ ~(tr.from # Val /\ tr.to = Val /\ new.val \in tr.from) -> E
          [] OTHER -> CancelHold(E, f, n)

\* The next moment of a time trigger strictly after t, by the clock at the place.
NextMoment(zone, tr, t) ==
    CHOOSE m \in t + 1 .. t + tr.every : (m + zone) % tr.every = 0

\* Mutant: clocks are wound without taking the old ones off.
WindClocksTwice(E, t) ==
    IF E.place = None THEN E
    ELSE FoldLeft(LAMBDA e, x :
             Schedule(e, NextMoment(E.place, E.flows[x[1]].def.nodes[x[2]], t),
                      "clock", x[1], x[2]),
             E, TriggerSeq(Triggers(E, "time")))

\* Mutant: taking the clocks off takes every other timer along.
WindClocksOnly(E, t) ==
    IF E.place = None THEN E
    ELSE FoldLeft(LAMBDA e, x :
             Schedule(e, NextMoment(E.place, E.flows[x[1]].def.nodes[x[2]], t),
                      "clock", x[1], x[2]),
             [E EXCEPT !.timers = <<>>], TriggerSeq(Triggers(E, "time")))

WindClocks(E, t) ==
    LET E1 == [E EXCEPT !.timers = SelectSeq(@, LAMBDA x : x.kind # "clock")]
    IN  IF E.place = None THEN E1
        ELSE FoldLeft(LAMBDA e, x :
                 Schedule(e, NextMoment(E.place, E.flows[x[1]].def.nodes[x[2]], t),
                          "clock", x[1], x[2]),
                 E1, TriggerSeq(Triggers(E, "time")))

-----------------------------------------------------------------------------
(* Nodes                                                                    *)

\* A condition on an entity; one that isn't available is never matched.
Holds(E, c) == E.states[c.entity].available /\ E.states[c.entity].val \in c.is

CheckWait(E, r, k, t) ==
    LET token == E.runs[r].tokens[k]
        wait  == E.runs[r].def.nodes[token.node]
        since == IF token.holding = None THEN t ELSE token.holding
        held  == [E EXCEPT !.runs[r].tokens[k].holding = since]
    IN  CASE ~Holds(E, wait) -> [E EXCEPT !.runs[r].tokens[k].holding = None]
          [] wait.hold = None \/ since + wait.hold <= t -> Pass(E, r, k, "matched")
          [] token.holding # None -> held
          [] OTHER -> Schedule(held, since + wait.hold, "token", r, k)

\* Every token waiting in the runs, looked at again. Of these tokens none follows another.
CheckWaits(E, es, t) ==
    LET waiting(r) == {k \in DOMAIN E.runs[r].tokens :
                          /\ E.runs[r].tokens[k].doing = "wait"
                          /\ E.runs[r].def.nodes[E.runs[r].tokens[k].node].entity \in es}
    IN  FoldLeft(LAMBDA e, x : CheckWait(e, x[1], x[2], t), E,
                 TriggerSeq(UNION {{<<r, k>> : k \in waiting(r)} : r \in DOMAIN E.runs}))

\* A join lets one token through; the others recorded there end.
CompleteJoin(E, r, k, n, port) ==
    LET parked == {E.runs[r].joins[n].arrived[w] : w \in DOMAIN E.runs[r].joins[n].arrived}
        merged == [E EXCEPT
            !.runs[r].joins[n].passed = TRUE, !.runs[r].joins[n].deadline = None,
            !.runs[r].joins[n].sent = @ + 1,
            !.runs[r].tokens = [x \in DOMAIN @ \ (parked \ {k}) |-> @[x]]]
    IN  Pass(merged, r, k, port)

\* Mutant: a path that comes late is parked or lets the join pass again.
ArriveMutant(E, r, k, t) ==
    LET n    == E.runs[r].tokens[k].node
        here == [E EXCEPT !.runs[r].joins[n].arrived = (E.runs[r].tokens[k].via :> k) @@ @]
    IN  IF WiresInto(E.runs[r].def, n) \subseteq DOMAIN here.runs[r].joins[n].arrived
        THEN CompleteJoin(here, r, k, n, "out")
        ELSE Schedule([here EXCEPT !.runs[r].tokens[k].doing = "joined",
                                   !.runs[r].joins[n].deadline = t + 2], t + 2, "join", r, n)

Arrive(E, r, k, t) ==
    LET token == E.runs[r].tokens[k]
        n     == token.node
        node  == E.runs[r].def.nodes[n]
        join  == E.runs[r].joins[n]
        here  == [E EXCEPT !.runs[r].joins[n].arrived = (token.via :> k) @@ @]
        timed == IF join.arrived # <<>> \/ node.timeout = None THEN here
                 ELSE Schedule([here EXCEPT !.runs[r].joins[n].deadline = t + node.timeout],
                               t + node.timeout, "join", r, n)
    IN  CASE join.passed -> EndToken(E, r, k)
          [] ~join.passed /\ node.mode = "first" ->
                Pass([E EXCEPT !.runs[r].joins[n].passed = TRUE,
                               !.runs[r].joins[n].sent = @ + 1], r, k, "out")
          [] OTHER ->
                IF WiresInto(E.runs[r].def, n)
                       \subseteq DOMAIN timed.runs[r].joins[n].arrived
                THEN CompleteJoin(timed, r, k, n, "out")
                ELSE [timed EXCEPT !.runs[r].tokens[k].doing = "joined"]

\* The token that came in on the last wire goes on for the rest.
LastHere(join) ==
    join.arrived[CHOOSE w \in DOMAIN join.arrived : \A v \in DOMAIN join.arrived : v <= w]

\* Mutant: joins wait for their timeout, whoever is left to come.
GiveUpJoinsMutant(E, r) == E

GiveUpJoins(E, r) ==
    LET joins == E.runs[r].joins
        stuck == {n \in DOMAIN joins : ~joins[n].passed /\ joins[n].arrived # <<>>}
    IN  FoldLeft(LAMBDA e, n : CompleteJoin(e, r, LastHere(joins[n]), n, "timeout"),
                 E, InOrder(stuck))

\* Mutant: a failed call without an error wire leaves its token calling.
CallFailedMutant(E, r, k) == E

\* The error port if anything is wired there, else the path ends.
CallFailed(E, r, k) ==
    IF WiresFrom(E.runs[r].def, E.runs[r].tokens[k].node, "error") # <<>>
    THEN Pass(E, r, k, "error")
    ELSE EndToken(E, r, k)

\* The ports of a switch; the code has sixteen.
CasePort == <<"case_1", "case_2">>

\* What node makes of the token that has just come in (step, once the step is opened).
RunNode(E, r, k, t) ==
    LET node   == E.runs[r].def.nodes[E.runs[r].tokens[k].node]
        timed(doing, until) ==
            Schedule([E EXCEPT !.runs[r].tokens[k].doing = doing,
                               !.runs[r].tokens[k].until = until], until, "token", r, k)
        chosen == {i \in DOMAIN node.cases : Holds(E, node.cases[i])}
    IN  CASE node.type = "trigger" -> Pass(E, r, k, "out")
          [] node.type = "gate" -> Pass(E, r, k, IF Holds(E, node) THEN "yes" ELSE "no")
          [] node.type = "switch" ->
                Pass(E, r, k, IF chosen = {} THEN "else"
                              ELSE CasePort[CHOOSE i \in chosen : \A j \in chosen : i <= j])
          [] node.type = "call" ->
                IF Holds(E, node) THEN [E EXCEPT !.runs[r].tokens[k].doing = "call"]
                ELSE CallFailed(E, r, k)
          [] node.type = "set" ->
                IF Holds(E, node) THEN Pass(E, r, k, "out") ELSE EndToken(E, r, k)
          [] node.type = "delay" -> timed("delay", t + node.hold)
          [] node.type = "wait" -> CheckWait(timed("wait", t + node.timeout), r, k, t)
          [] node.type = "join" -> Arrive(E, r, k, t)
          [] node.type = "stop" -> [E EXCEPT !.runs[r].tokens = <<>>]

\* Mutant: steps are not counted against the limit.
StepTokenMutant(E, r, k, t) ==
    IF \/ r \notin DOMAIN E.runs
       \/ k \notin DOMAIN E.runs[r].tokens
       \/ E.runs[r].tokens[k].doing # "ready"
    THEN E
    ELSE RunNode([E EXCEPT !.runs[r].steps = @ + 1], r, k, t)

StepToken(E, r, k, t) ==
    IF \/ r \notin DOMAIN E.runs
       \/ k \notin DOMAIN E.runs[r].tokens
       \/ E.runs[r].tokens[k].doing # "ready"
    THEN E
    ELSE IF E.runs[r].steps >= MAX_STEPS THEN [E EXCEPT !.runs[r].tokens = <<>>]
    ELSE RunNode([E EXCEPT !.runs[r].steps = @ + 1], r, k, t)

-----------------------------------------------------------------------------
(* Timers                                                                   *)

Ring(E, x, t) ==
    CASE x.kind = "clock" ->
           IF E.place = None \/ <<x.of, x.n>> \notin Triggers(E, "time") THEN E
           ELSE FireNow(Schedule(E, NextMoment(E.place, E.flows[x.of].def.nodes[x.n], t),
                                 "clock", x.of, x.n), x.of, x.n)
      [] x.kind = "hold" ->
           IF /\ x.n \in DOMAIN E.flows[x.of].holds
              /\ E.flows[x.of].holds[x.n] <= t
           THEN FireNow(CancelHold(E, x.of, x.n), x.of, x.n)
           ELSE E
      [] x.kind = "token" ->
           IF x.of \notin DOMAIN E.runs \/ x.n \notin DOMAIN E.runs[x.of].tokens THEN E
           ELSE LET token == E.runs[x.of].tokens[x.n]
                IN  CASE token.doing = "delay" /\ token.until <= t -> Pass(E, x.of, x.n, "out")
                      [] token.doing = "wait" /\ token.until <= t ->
                            Pass(E, x.of, x.n, "timeout")
                      [] token.doing = "wait" /\ token.until > t -> CheckWait(E, x.of, x.n, t)
                      [] OTHER -> E
      [] x.kind = "join" ->
           IF x.of \notin DOMAIN E.runs THEN E
           ELSE LET join == E.runs[x.of].joins[x.n]
                IN  IF ~join.passed /\ join.deadline # None /\ join.deadline <= t
                    THEN CompleteJoin(E, x.of, LastHere(join), x.n, "timeout")
                    ELSE E

-----------------------------------------------------------------------------
(* The engine at work: drive and advance                                    *)

Rest == drv.phase = "rest"

\* The calls a step of drive sent off: tokens that have just begun one.
Calling(E) == UNION {{<<r, k>> : k \in {x \in DOMAIN E.runs[r].tokens :
                                    E.runs[r].tokens[x].doing = "call"}} : r \in DOMAIN E.runs}

\* An operation has changed the engine; now it is driven, as of moment t.
Drive(E, t) ==
    /\ eng' = E
    /\ drv' = [drv EXCEPT !.phase = "drain", !.at = t]

Drain ==
    /\ drv.phase = "drain"
    /\ eng.ready # <<>>
    /\ LET x == Head(eng.ready)
           E == StepToken([eng EXCEPT !.ready = Tail(@)], x[1], x[2], drv.at)
       IN  /\ eng' = E
           /\ calls' = calls \cup (Calling(E) \ Calling(eng))
    /\ UNCHANGED <<drv, home, now, inputs, away, blind>>

\* Nothing is ready: the runs with no token left, or only parked ones, are picked.
Drained ==
    /\ drv.phase = "drain"
    /\ eng.ready = <<>>
    /\ LET idle == {r \in DOMAIN eng.runs : \A k \in DOMAIN eng.runs[r].tokens :
                        eng.runs[r].tokens[k].doing = "joined"}
       IN  drv' = [drv EXCEPT !.phase = "settle", !.idle = InOrder(idle)]
    /\ UNCHANGED <<eng, home, now, calls, inputs, away, blind>>

\* One of them: its joins give up, and it is finished if nothing is left of it.
Settle ==
    /\ drv.phase = "settle"
    /\ drv.idle # <<>>
    /\ LET r == Head(drv.idle)
           E == IF eng.runs[r].tokens = <<>> THEN eng ELSE GiveUpJoins(eng, r)
       IN  eng' = IF \/ eng.runs[r].tokens = <<>>
                     \/ E.runs[r].tokens = <<>> /\ E.ready = <<>>
                  THEN Finish(E, r, FALSE)
                  ELSE E
    /\ drv' = [drv EXCEPT !.idle = Tail(@)]
    /\ UNCHANGED <<home, now, calls, inputs, away, blind>>

Driven ==
    /\ drv.phase = "settle"
    /\ drv.idle = <<>>
    /\ drv' = [drv EXCEPT !.phase = IF eng.ready # <<>> THEN "drain"
                                    ELSE IF drv.advancing THEN "advance" ELSE "rest"]
    /\ UNCHANGED <<eng, home, now, calls, inputs, away, blind>>

TimerDue == eng.timers # <<>> /\ Head(eng.timers).at <= now

\* A timer inside a run rings as of when it was due, a time of day as of now.
RingDue ==
    /\ drv.phase = "advance"
    /\ TimerDue
    /\ LET x == Head(eng.timers)
           t == IF x.kind = "clock" THEN now ELSE x.at
       IN  /\ Drive(Ring([eng EXCEPT !.timers = Tail(@)], x, t), t)
           /\ inputs' = IF x.kind = "clock" THEN inputs + 1 ELSE inputs
    /\ UNCHANGED <<home, now, calls, away, blind>>

Advanced ==
    /\ drv.phase = "advance"
    /\ ~TimerDue
    /\ drv' = [drv EXCEPT !.phase = "rest", !.advancing = FALSE]
    /\ UNCHANGED <<eng, home, now, calls, inputs, away, blind>>

Working == Drain \/ Drained \/ Settle \/ Driven \/ RingDue \/ Advanced

-----------------------------------------------------------------------------
(* What the extension asks of it                                            *)

\* The driver's sleep is over: advance.
Advance ==
    /\ Rest /\ TimerDue
    /\ drv' = [drv EXCEPT !.phase = "advance", !.advancing = TRUE]
    /\ UNCHANGED <<eng, home, now, calls, inputs, away, blind>>

Input == Rest /\ inputs < MaxInputs /\ inputs' = inputs + 1

\* A trigger fired by hand.
Fire(f, n) ==
    /\ Input
    /\ Drive(FireNow(eng, f, n), now)
    /\ UNCHANGED <<home, now, calls, away, blind>>

Cancel(r) ==
    /\ Rest
    /\ r \in DOMAIN eng.runs
    /\ Drive(Finish(eng, r, FALSE), now)
    /\ UNCHANGED <<home, now, calls, inputs, away, blind>>

Missing(s, is) == ~s.available \/ s.val \notin is

\* away, once entity e goes from what it was to s.
AwayNow(e, s) ==
    [x \in DOMAIN away |-> IF x[1] = e /\ (Missing(home[e], x[2]) \/ Missing(s, x[2]))
                           THEN now ELSE away[x]]

\* An entity changed and the engine hears of it.
StateChanged(e, s, moved) ==
    /\ Input
    /\ s # home[e] \/ moved
    /\ moved => e \in Happening
    /\ home' = [home EXCEPT ![e] = s]
    /\ away' = AwayNow(e, s)
    /\ LET E == [eng EXCEPT !.states[e] = s]
           watching == {x \in Triggers(E, "state") : E.flows[x[1]].def.nodes[x[2]].entity = e}
           fired == FoldLeft(LAMBDA acc, x :
                        StateTrigger(acc, x[1], x[2], home[e], s, moved, now),
                        E, TriggerSeq(watching))
       IN  Drive(CheckWaits(fired, {e}, now), now)
    /\ UNCHANGED <<now, calls, blind>>

\* An entity changed and the engine was too far behind to be told.
Miss(e, s) ==
    /\ Input
    /\ s # home[e]
    /\ home' = [home EXCEPT ![e] = s]
    /\ away' = AwayNow(e, s)
    /\ blind' = blind \cup {e}
    /\ UNCHANGED <<eng, drv, now, calls>>

\* It is told that it missed something, and reads the states again.
Resync ==
    /\ Rest
    /\ eng.states # home
    /\ Drive(CheckWaits([eng EXCEPT !.states = home], Entity, now), now)
    /\ UNCHANGED <<home, now, calls, inputs, away, blind>>

\* How a call went. The call of a run that is gone is answered to nobody.
CallFinished(c, ok) ==
    /\ Rest
    /\ c \in calls
    /\ calls' = calls \ {c}
    /\ IF c \notin Calling(eng) THEN UNCHANGED <<eng, drv>>
       ELSE Drive(IF ok THEN Pass(eng, c[1], c[2], "out") ELSE CallFailed(eng, c[1], c[2]), now)
    /\ UNCHANGED <<home, now, inputs, away, blind>>

\* Mutant: a flow that is on stays as it is, edited or not.
SetFlowsMutant(f, d, enabled) ==
    /\ Input /\ ~TimerDue
    /\ LET E == IF enabled THEN eng ELSE FinishAll(eng, RunsOf(eng, f), TRUE)
       IN  eng' = WindClocks([E EXCEPT !.flows[f] =
                      [def |-> d, enabled |-> enabled, holds |-> <<>>, queue |-> <<>>]], now)
    /\ UNCHANGED <<drv, home, now, calls, away, blind>>

\* A flow is saved, turned on or off, or removed; whatever is due rings first.
SetFlows(f, d, enabled) ==
    /\ Input /\ ~TimerDue
    /\ LET old  == eng.flows[f]
           kept == old.def = d /\ old.enabled /\ enabled
           E    == IF kept THEN eng ELSE FinishAll(eng, RunsOf(eng, f), TRUE)
       IN  eng' = WindClocks([E EXCEPT !.flows[f] =
                      [def |-> d, enabled |-> enabled,
                       holds |-> IF kept THEN old.holds ELSE <<>>,
                       queue |-> IF kept THEN old.queue ELSE <<>>]], now)
    /\ UNCHANGED <<drv, home, now, calls, away, blind>>

\* The home's place was said or changed; whatever was due at the old one rings first.
SetPlace(zone) ==
    /\ Input /\ ~TimerDue
    /\ zone # eng.place
    /\ eng' = WindClocks([eng EXCEPT !.place = zone], now)
    /\ UNCHANGED <<drv, home, now, calls, away, blind>>

\* The core said stop: every run is cut short and the extension ends.
Shutdown ==
    /\ Rest
    /\ eng' = FinishAll(eng, DOMAIN eng.runs, TRUE)
    /\ drv' = [drv EXCEPT !.phase = "gone"]
    /\ UNCHANGED <<home, now, calls, inputs, away, blind>>

\* Time goes on, as long as something is waited for.
Tick ==
    /\ Rest
    /\ eng.timers # <<>>
    /\ now < Head(eng.timers).at + MaxLate
    /\ inputs < MaxInputs \/ \E i \in DOMAIN eng.timers : eng.timers[i].kind # "clock"
    /\ now' = now + 1
    /\ UNCHANGED <<eng, drv, home, calls, inputs, away, blind>>

-----------------------------------------------------------------------------
\* The sets of values some trigger with a hold watches for, with their entity.
Watched ==
    UNION {{<<d.nodes[n].entity, d.nodes[n].to>> :
               n \in {m \in NodesOf(d, "trigger") :
                         d.nodes[m].trigger = "state" /\ d.nodes[m].hold # None}} :
           d \in Definition}

Init ==
    /\ \E d \in [Flow -> Definition], h \in [Entity -> State] :
          /\ home = h
          /\ LET loaded == [flows |-> [f \in Flow |-> [def |-> d[f], enabled |-> TRUE,
                                                       holds |-> <<>>, queue |-> <<>>]],
                            runs |-> <<>>, ready |-> <<>>, timers |-> <<>>,
                            states |-> h, place |-> None, nextRun |-> 1]
             IN  eng = FoldLeft(LAMBDA e, x : FireNow(e, x[1], x[2]), loaded,
                                TriggerSeq(Triggers(loaded, "startup")))
    /\ drv = [phase |-> "drain", idle |-> <<>>, at |-> 0, advancing |-> FALSE]
    /\ now = 0 /\ calls = {} /\ inputs = 0 /\ blind = {}
    /\ away = [x \in Watched |-> 0]

Next ==
    \/ Working
    \/ Advance
    \/ \E f \in Armed(eng) : \E n \in NodesOf(eng.flows[f].def, "trigger") : Fire(f, n)
    \/ \E r \in DOMAIN eng.runs : Cancel(r)
    \/ \E e \in Entity, s \in State, moved \in BOOLEAN : StateChanged(e, s, moved)
    \/ \E e \in Entity, s \in State : Miss(e, s)
    \/ Resync
    \/ \E c \in calls, ok \in BOOLEAN : CallFinished(c, ok)
    \/ \E f \in Flow, d \in Definition : SetFlows(f, d, TRUE)
    \/ \E f \in Flow : SetFlows(f, eng.flows[f].def, FALSE) \/ SetFlows(f, None, FALSE)
    \/ \E zone \in Zone : SetPlace(zone)
    \/ Tick
    \/ Shutdown

Spec == Init /\ [][Next]_vars

\* The driver's loop runs on, the clock goes on and the core answers its calls.
FairSpec ==
    /\ Spec
    /\ WF_vars(Working) /\ WF_vars(Advance) /\ WF_vars(Tick)
    /\ WF_vars(\E c \in calls, ok \in BOOLEAN : CallFinished(c, ok))

-----------------------------------------------------------------------------
(* Properties                                                               *)

Moment == Nat \cup {None}

Token == [node : Nat, via : Nat, doing : {"ready", "delay", "wait", "call", "joined"},
          until : Moment, holding : Moment]

\* What every part of the engine holds: nodes are those of the definition, tokens were
\* handed out, only ready tokens and tokens of going runs are in line.
TypeOK ==
    /\ \A f \in Flow : /\ eng.flows[f].def \in Definition \cup {None}
                        /\ \A n \in DOMAIN eng.flows[f].holds : eng.flows[f].holds[n] \in Nat
    /\ \A r \in DOMAIN eng.runs :
          /\ r < eng.nextRun
          /\ eng.runs[r].steps \in 1 .. MAX_STEPS
          /\ \A k \in DOMAIN eng.runs[r].tokens :
                k < eng.runs[r].next /\ eng.runs[r].tokens[k] \in Token
    /\ \A i \in DOMAIN eng.ready : eng.ready[i][1] \in DOMAIN eng.runs
    /\ eng.states \in [Entity -> State] /\ home \in [Entity -> State]
    /\ drv.phase \in {"rest", "drain", "settle", "advance", "gone"}

\* At rest a flow's mode holds (fire_now): one run at most unless it is parallel, at most
\* max of those, at most max firings waiting, and none waits unless a run is going whose
\* end gives it its turn, however that run ends.
ModeKept ==
    Rest => \A f \in Armed(eng) :
        LET d == eng.flows[f].def
            going == Cardinality(RunsOf(eng, f))
            waiting == Len(eng.flows[f].queue)
        IN  /\ going <= IF d.mode = "parallel" THEN d.max ELSE 1
            /\ waiting <= IF d.mode = "queued" THEN d.max ELSE 0
            /\ waiting > 0 => going > 0

\* A run goes only while its flow is on and as it was when the run started: an edit, a
\* switch off or a removal (set_flows) leaves nothing of it going.
RunsCurrent ==
    Rest => \A r \in DOMAIN eng.runs :
        /\ eng.runs[r].flow \in Armed(eng)
        /\ eng.runs[r].def = eng.flows[eng.runs[r].flow].def

\* At rest every run has a token that is not parked at a join: something will still
\* happen to it (drive, give_up_joins).
SomethingLeft ==
    Rest => \A r \in DOMAIN eng.runs :
        \E k \in DOMAIN eng.runs[r].tokens : eng.runs[r].tokens[k].doing # "joined"

\* A join sends a run on once, whether its paths all came, it timed out or it gave up
\* (arrive, complete_join).
JoinOnce ==
    \A r \in DOMAIN eng.runs : \A n \in DOMAIN eng.runs[r].joins :
        eng.runs[r].joins[n].sent <= 1

Set(kind, of, n, at) ==
    \E i \in DOMAIN eng.timers :
        eng.timers[i] = [at |-> at, kind |-> kind, of |-> of, n |-> n]

\* Whatever waits for a moment has its timer: a delay, a wait's timeout and the end of
\* its for, a join's deadline, a trigger's for. Without it a path would wait for ever.
EveryWaitTimed ==
    Rest =>
    /\ \A r \in DOMAIN eng.runs :
         /\ \A k \in DOMAIN eng.runs[r].tokens :
              LET token == eng.runs[r].tokens[k]
                  node == eng.runs[r].def.nodes[token.node]
              IN  /\ token.doing \in {"delay", "wait"} => Set("token", r, k, token.until)
                  /\ token.holding # None => Set("token", r, k, token.holding + node.hold)
         /\ \A n \in DOMAIN eng.runs[r].joins :
              LET join == eng.runs[r].joins[n]
              IN  ~join.passed /\ join.arrived # <<>> => Set("join", r, n, join.deadline)
    /\ \A f \in Flow : \A n \in DOMAIN eng.flows[f].holds :
         Set("hold", f, n, eng.flows[f].holds[n])

\* Each armed time trigger is on the clock exactly once while the home's place is known,
\* through firings, edits and changes of place (wind_clocks, timer).
ClocksWound ==
    Rest => \A f \in Flow, d \in Definition : \A n \in DOMAIN d.nodes :
        Cardinality({i \in DOMAIN eng.timers :
                        /\ eng.timers[i].kind = "clock"
                        /\ eng.timers[i].of = f /\ eng.timers[i].n = n})
            = IF eng.place # None /\ <<f, n>> \in Triggers(eng, "time") THEN 1 ELSE 0

\* Whether the entity is where the trigger wants it.
StillThere(tr) == ~Missing(home[tr.entity], tr.to)

\* The for of a trigger counts only while the entity has really been where the trigger
\* wants it, for the whole of the time counted, unless the engine missed a change of it
\* (state_trigger, cancel_hold).
HoldTrue ==
    Rest => \A f \in Armed(eng) : \A n \in DOMAIN eng.flows[f].holds :
        LET tr == eng.flows[f].def.nodes[n]
        IN  tr.entity \notin blind =>
                StillThere(tr) /\ away[<<tr.entity, tr.to>>] + tr.hold <= eng.flows[f].holds[n]

\* Once the engine knows the home as it is, a resync after missed changes included, no for
\* goes on counting for an entity that isn't where the trigger wants it: flows.md has it
\* reset as soon as the value leaves what `to` wants.
HoldReset ==
    Rest /\ eng.states = home => \A f \in Armed(eng) : \A n \in DOMAIN eng.flows[f].holds :
        StillThere(eng.flows[f].def.nodes[n])

\* Every run ends (drive, advance): no delay, wait, join or call keeps it for ever.
RunsEnd == \A r \in 1 .. MaxInputs : r \in DOMAIN eng.runs ~> r \notin DOMAIN eng.runs

\* No run outlives the flow it belongs to, as it was when the run started
\* (set_flows), and whatever is in line, waiting or armed belongs to a run or a
\* definition there is.
FlowsOK == TypeOK /\ RunsCurrent

\* Timers are what waits for them (timer, wind_clocks, state_trigger): whatever
\* waits for a moment has its timer, each armed time trigger is on the clock once,
\* and the for of a trigger counts only while its entity is where it should be.
TimersTrue == EveryWaitTimed /\ ClocksWound /\ HoldTrue
=============================================================================
