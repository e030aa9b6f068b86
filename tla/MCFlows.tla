------------------------------ MODULE MCFlows ------------------------------
(* Small instances of Flows: flows with one of each kind of node.            *)
EXTENDS Flows

W(from, port, to) == [from |-> from, port |-> port, to |-> to]
TriggerAt(kind) == [type |-> "trigger", trigger |-> kind]
StateTriggerOf(e, to, hold) ==
    [type |-> "trigger", trigger |-> "state", entity |-> e, from |-> Val, to |-> to,
     level |-> FALSE, hold |-> hold]

\* Two paths from each trigger, a call and a delay, that meet again at a join; the wait
\* after it is for the light to go off.
Forked == [mode |-> "queued", max |-> 1,
    nodes |-> <<StateTriggerOf("light", {"on"}, 2),
                [type |-> "call", entity |-> "light", is |-> {"on", "off"}],
                [type |-> "delay", hold |-> 1],
                [type |-> "join", mode |-> "all", timeout |-> 2],
                [type |-> "wait", entity |-> "light", is |-> {"off"}, hold |-> 1, timeout |-> 2]>>,
    wires |-> <<W(1, "out", 2), W(1, "out", 3), W(2, "out", 4), W(3, "out", 4),
                W(4, "out", 5), W(4, "timeout", 5)>>]

\* A time trigger, twice at once: a gate to a stop or to a join, a delay to the same join.
Timed == [mode |-> "parallel", max |-> 2,
    nodes |-> <<TriggerAt("time") @@ [every |-> 3],
                [type |-> "gate", entity |-> "light", is |-> {"on"}],
                [type |-> "delay", hold |-> 1],
                [type |-> "join", mode |-> "first", timeout |-> None],
                [type |-> "stop"],
                [type |-> "set", entity |-> "light", is |-> {"on", "off"}]>>,
    wires |-> <<W(1, "out", 2), W(1, "out", 3), W(2, "yes", 5), W(2, "no", 4),
                W(3, "out", 4), W(4, "out", 6)>>]

\* The last change wins: a switch to a call that may fail into a delay, or to a wait.
Restarted == [mode |-> "restart", max |-> 1,
    nodes |-> <<[StateTriggerOf("light", {"on"}, None) EXCEPT !.level = TRUE],
                [type |-> "switch", cases |-> <<[entity |-> "light", is |-> {"on"}]>>],
                [type |-> "call", entity |-> "light", is |-> {"on", "off"}],
                [type |-> "delay", hold |-> 1],
                [type |-> "wait", entity |-> "light", is |-> {"on"}, hold |-> None,
                 timeout |-> 1]>>,
    wires |-> <<W(1, "out", 2), W(2, "case_1", 3), W(3, "error", 4), W(2, "else", 5)>>]

\* Starts by itself and takes more steps than a run may: paths that multiply.
Spread == [mode |-> "single", max |-> 1,
    nodes |-> <<TriggerAt("startup")>> \o
              [i \in 1 .. 3 |-> [type |-> "gate", entity |-> "light", is |-> {"on"}]] \o
              <<[type |-> "delay", hold |-> 1]>>,
    wires |-> <<W(1, "out", 2), W(1, "out", 3), W(2, "yes", 4), W(2, "no", 4), W(3, "yes", 4),
                W(4, "yes", 5), W(4, "no", 5), W(1, "out", 5)>>]

\* Two paths come to the join on one wire, through a gate that runs for each of them; the
\* third comes later.
Shared == [mode |-> "single", max |-> 1,
    nodes |-> <<TriggerAt("startup"),
                [type |-> "gate", entity |-> "light", is |-> {"on"}],
                [type |-> "gate", entity |-> "light", is |-> {"on"}],
                [type |-> "join", mode |-> "all", timeout |-> 3],
                [type |-> "delay", hold |-> 1]>>,
    wires |-> <<W(1, "out", 2), W(1, "out", 3), W(1, "out", 5), W(2, "yes", 3), W(3, "yes", 4),
                W(5, "out", 4)>>]

\* On, off, and out of reach with the value it last had.
OnOffAway == [val : {"on", "off"}, available : {TRUE}] \cup
             [val : {"on"}, available : {FALSE}]

AllKinds == {Forked, Timed, Restarted, Spread}
JustShared == {Shared}
JustForked == {Forked}
============================================================================
