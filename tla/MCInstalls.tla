----------------------------- MODULE MCInstalls -----------------------------
(* Small instances of Installs: one protocol whose devices share a line.     *)
EXTENDS Installs, TLC

OneProtocol == [e \in Entity |-> CHOOSE p \in Protocol : TRUE]

Symmetry == Permutations(Task) \cup Permutations(Entity)

\* The state without the history variables, which no guard reads.
WithoutHistory ==
    <<upd, skips, running, waiting, watchers, busy, inputs,
      [t \in Task |-> [th[t] EXCEPT !.turn = 0, !.evturn = 0]]>>
=============================================================================
