----------------------------- MODULE MCRouting ------------------------------
(* Routing.tla on a small instance.                                        *)
EXTENDS Routing

\* a, b and c form the first tier, d the second; b and c have one priority; the
\* route of m3 names a channel that is not enabled
MCListed == <<"a", "b", "c", "d">>
MCPriority == [a |-> 1, b |-> 2, c |-> 2, d |-> 1]
MCWeight == [a |-> 2, b |-> 1, c |-> 1, d |-> 2]
MCSupplies == [m1 |-> {"a", "b", "d"}, m2 |-> {"a", "b", "c"}, m3 |-> {"b", "d"}]
MCRoutes == [m1 |-> <<>>, m2 |-> <<>>, m3 |-> <<"d", "gone", "b">>]

Ask(m, a, l) == [model |-> m, agent |-> a, long |-> l]
Conf(st, sticky, aff, tiered, max) ==
  [strategy |-> st, sticky |-> sticky, sessionAffinity |-> aff, tiered |-> tiered, maxAttempts |-> max]
Scene(confs, traffic, faulty, picky, n) ==
  [confs |-> confs, traffic |-> traffic, faulty |-> faulty, picky |-> picky, reloads |-> n]

MCScenes ==
  { \* accounts: two pools that share b, which comes and goes
    Scene({Conf("weighted", FALSE, FALSE, TRUE, 8)},
          {Ask("m1", None, FALSE), Ask("m2", None, FALSE)}, {"b"}, {}, 0),
    \* turns: a list cut to one
    Scene({Conf("round-robin", FALSE, FALSE, TRUE, 1)}, {Ask("m1", None, FALSE)}, {"a", "d"}, {}, 0),
    \* pins, switched by a reload from one strategy to the other
    Scene({Conf("priority", TRUE, FALSE, FALSE, 8), Conf("round-robin", TRUE, TRUE, TRUE, 8)},
          {Ask("m1", "x", FALSE), Ask("m2", "x", FALSE)}, {"b"}, {}, 1),
    Scene({Conf("priority", TRUE, TRUE, FALSE, 2)},
          {Ask("m1", "x", FALSE), Ask("m2", "x", FALSE)}, {"a", "d"}, {}, 0),
    \* blacklists, long prompts and an explicit route
    Scene({Conf("least-loaded", FALSE, TRUE, FALSE, 8)},
          {Ask("m1", "x", FALSE), Ask("m2", None, TRUE), Ask("m3", None, FALSE)},
          {"b"}, {"b", "d"}, 0) }
=============================================================================
