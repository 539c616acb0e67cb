------------------------------ MODULE Routing -------------------------------
(***************************************************************************)
(* The choice of candidates in class ChannelManager of lib/channels.mjs:   *)
(* candidatesFor() with its strategies, tiers and pins, what it remembers  *)
(* between calls (the round-robin turn, the weights, the last good channel *)
(* of a model, the channel of an agent) and the model blacklists.          *)
(*                                                                         *)
(* candidatesFor() runs without an await, so a call is one step.  Requests *)
(* keep the list they got while others change the channels under it.       *)
(*                                                                         *)
(* A channel's health is a summary of ChannelHealth: "ok" and "failing"    *)
(* (failures # 0) are closed, "cooling" is open, "trial" is in the         *)
(* half-open window and "full" too, with the places taken by calls of      *)
(* others.  Between channels that compare equal, latency decides: any      *)
(* order is possible.                                                      *)
(***************************************************************************)
EXTENDS Integers, SequencesExt, FiniteSetsExt

CONSTANTS Requests, Models, Agents,
          Listed,        \* the enabled channels in the order of the configuration
          Priority,      \* of each channel: smaller is better
          Weight,        \* #weightFor() of that priority
          Preferred,     \* the channels of the first tier
          Narrow,        \* channels whose contextWindow holds no long prompt
          Supplies,      \* of each model: the channels that list it
          Routes,        \* of each model: its explicit route, or <<>>
          Scenes,        \* what happens: [confs, traffic, faulty, picky, reloads]
          UnsupportedMax,\* unsupportedMax
          TurnCycle      \* a multiple of every number of channels: `turn` counts modulo it

None == "none"           \* null where a channel or an agent is expected
Unset == -1              \* no entry in turnSeen

Channels == ToSet(Listed)

\* load() refuses two channels of one name
ASSUME ListedAssumption == Listed \in Seq(Channels) /\ IsInjective(Listed)
ASSUME NumbersAssumption == \A c \in Channels : Priority[c] \in Int /\ Weight[c] \in Nat
ASSUME RoutesAssumption ==
  \A m \in Models : Routes[m] \in Seq(ToSet(Routes[m])) /\ IsInjective(Routes[m])
ASSUME TurnAssumption == /\ TurnCycle \in Nat \ {0}
                         /\ \A n \in 1..Len(Listed) : TurnCycle % n = 0

Strategies == {"priority", "round-robin", "least-loaded", "weighted"}

Configurations == [strategy : Strategies, sticky : BOOLEAN, sessionAffinity : BOOLEAN,
                   tiered : BOOLEAN, maxAttempts : Nat \ {0}]

Prompts == [model : Models, agent : Agents \cup {None}, long : BOOLEAN]

ASSUME ScenesAssumption ==
  \A s \in Scenes : s.confs \subseteq Configurations /\ s.traffic \subseteq Prompts

(* A scene bounds a behaviour: the configurations there may be, how often  *)
(* one is loaded, the queries [model, agent, long] of the clients, the     *)
(* channels whose upstream may fail and those that may reject a model.     *)
VARIABLES scene,
          conf,          \* this.routing
          health,        \* failures, openUntil and probeUntil of each channel
          unsupported,   \* of each channel: blacklisted models, the oldest first
          lastGood,      \* of each model: the pinned channel
          affinity,      \* of each agent: its channel, while the entry is fresh
          turn,          \* the round-robin cursor
          turnSeen,      \* of each request: the turn it was given
          weightState,   \* smooth weighted round robin; 0 is "no entry"
          req,           \* the requests
          reloads        \* reloads so far

channels == <<health, unsupported>>
memory == <<lastGood, affinity, turn, turnSeen, weightState>>
routingVars == <<scene, conf, channels, memory, req, reloads>>

(* pc: "using" the head of its list, or "again" with nothing left of it.   *)
(* listed is cands of this round, injected is triedFallback.               *)
NoQuery == [model |-> None, agent |-> None, long |-> FALSE]
NoRequest == [pc |-> "idle", q |-> NoQuery, order |-> <<>>, listed |-> {}, injected |-> FALSE]

RoutingInit ==
  /\ scene \in Scenes
  /\ conf \in scene.confs
  /\ health = [c \in Channels |-> "ok"]
  /\ unsupported = [c \in Channels |-> <<>>]
  /\ lastGood = [m \in Models |-> None]
  /\ affinity = [a \in Agents |-> None]
  /\ turn = 0
  /\ turnSeen = [r \in Requests |-> Unset]
  /\ weightState = [c \in Channels |-> 0]
  /\ req = [r \in Requests |-> NoRequest]
  /\ reloads = 0

-----------------------------------------------------------------------------
(* The pool.                                                               *)

isUnsupported(c, m) == Contains(unsupported[c], m)
supports(c, m) == c \in Supplies[m] /\ ~isUnsupported(c, m)

\* channels too small for the prompt only if all of them are
Pool(q) ==
  LET able == {c \in Channels : supports(c, q.model)}
      fitting == IF q.long THEN able \ Narrow ELSE able
  IN  IF fitting # {} THEN fitting ELSE able

coolingDown(c) == health[c] = "cooling"

\* permits of c in use; a request is past the limiter while it uses c
inFlightOf(c) == Cardinality({r \in Requests : req[r].pc = "using" /\ Head(req[r].order) = c})
                 + (IF health[c] = "full" THEN 1 ELSE 0)

\* halfOpenMaxInFlight is 1
halfOpenSaturated(c) == health[c] \in {"trial", "full"} /\ inFlightOf(c) >= 1

Cooling(S) == {c \in S : coolingDown(c)}
Saturated(S) == {c \in S \ Cooling(S) : halfOpenSaturated(c)}
Live(S) == S \ (Cooling(S) \cup Saturated(S))

\* the sequences of S that are sorted by key
SortedBy(S, key(_)) ==
  {s \in SetToSeqs(S) : \A i, j \in DOMAIN s : i < j => key(s[i]) <= key(s[j])}

ByPriority(c) == Priority[c]
ByLoad(c) == 100 * inFlightOf(c) + Priority[c]
InAnyOrder(c) == 0

\* segments in a row, each of them sorted in one of its ways
Rows(A, B, C) == {a \o b \o c : a \in A, b \in B, c \in C}

\* s without c; the others keep their order
Without(s, c) ==
  IF c \in ToSet(s) THEN RemoveAt(s, CHOOSE i \in DOMAIN s : s[i] = c) ELSE s

\* s without what is not in S
Among(s, S) ==
  LET kept[i \in 0..Len(s)] == IF i = 0 THEN <<>>
                               ELSE IF s[i] \in S THEN Append(kept[i - 1], s[i])
                               ELSE kept[i - 1]
  IN  kept[Len(s)]

\* c in front of the others of s
Lifted(s, c) == <<c>> \o Without(s, c)

-----------------------------------------------------------------------------
(* #nextTurn(): the requests of the model carry a requestId.               *)

\* mutant: the cursor moves at every selection
CursorAfterCall(r) == (turn + 1) % TurnCycle

CursorAfter(r) == IF turnSeen[r] = Unset THEN (turn + 1) % TurnCycle ELSE turn

TurnOf(r) == IF turnSeen[r] # Unset THEN turnSeen[r] ELSE turn

Rotated(s, n) == SubSeq(s, n + 1, Len(s)) \o SubSeq(s, 1, n)

(* #orderWeightedOpen(): every live channel gains its weight, the richest  *)
(* leads and pays the total.                                               *)
SumOver(f, S) ==
  LET sum[i \in 0..Len(Listed)] == IF i = 0 THEN 0
                                   ELSE sum[i - 1] + (IF Listed[i] \in S THEN f[Listed[i]] ELSE 0)
  IN  sum[Len(Listed)]

TotalWeight(S) == SumOver(Weight, S)

\* mutants: the winner pays nothing; cooling channels keep what they owe
PaysNothing(S) == 0
Price(S) == TotalWeight(S)

Gained(S) == [c \in Channels |-> IF c \in S THEN weightState[c] + Weight[c] ELSE weightState[c]]

\* the first of the richest in the order of the configuration
Winner(S) == Listed[Min({i \in DOMAIN Listed :
                           /\ Listed[i] \in S
                           /\ \A c \in S : Gained(S)[c] <= Gained(S)[Listed[i]]})]

WeightsAfter(S) ==
  IF TotalWeight(S) = 0 THEN weightState
  ELSE [Gained(S) EXCEPT ![Winner(S)] = @ - Price(S)]

WeightedOpen(S) ==
  IF TotalWeight(S) = 0 THEN SortedBy(S, ByPriority)
  ELSE LET poorness(c) == 100 * (50 - Gained(S)[c]) + Priority[c]
       IN  {<<Winner(S)>> \o s : s \in SortedBy(S \ {Winner(S)}, poorness)}

-----------------------------------------------------------------------------
(* #orderPool(): the first tier, or the whole pool where tiers are off.    *)

\* only the round robin uses up a turn
Rotates(S) == conf.strategy = "round-robin" /\ ~conf.sticky /\ Cardinality(Live(S)) > 1

ByStrategy(S, r) ==
  LET rest == SortedBy(Cooling(S), InAnyOrder)
  IN  CASE conf.strategy = "round-robin" ->
             LET n == IF Rotates(S) THEN TurnOf(r) % Cardinality(Live(S)) ELSE 0
             IN  Rows({Rotated(s, n) : s \in SortedBy(Live(S), ByPriority)}, rest,
                      SortedBy(Saturated(S), ByPriority))
        [] conf.strategy = "least-loaded" ->
             Rows(SortedBy(Live(S), ByLoad), rest, SortedBy(Saturated(S), ByLoad))
        [] conf.strategy = "weighted" ->
             Rows(WeightedOpen(Live(S)), rest, SortedBy(Saturated(S), InAnyOrder))
        [] conf.strategy = "priority" ->
             Rows(SortedBy(Live(S), ByPriority), SortedBy(Cooling(S), ByPriority),
                  SortedBy(Saturated(S), ByPriority))

\* one that could be tried, with no failures on its account
Unfailing(s, c) == Contains(s, c) /\ health[c] \notin {"cooling", "failing"}

\* mutants: pins as they were, over any priority, and onto cooling channels
PinsOverPriority(s, c) == Unfailing(s, c)
AffineWhileCooling(s, c) == Contains(s, c) /\ Priority[c] <= Priority[Head(s)]

\* the last good channel of the model; whether one in its half-open window
\* has failures on its account is not in the summary
Sticky(q) ==
  LET c == lastGood[q.model]
  IN  IF ~conf.sticky THEN {None}
      ELSE IF c # None /\ health[c] \in {"trial", "full"} THEN {c, None} ELSE {c}

Pins(s, c) ==
  /\ Unfailing(s, c)
  /\ \/ conf.strategy = "round-robin"
     \/ conf.strategy = "priority" /\ Priority[c] = Priority[Head(s)]

\* the channel of the agent
Affine(s, c) == Contains(s, c) /\ ~coolingDown(c) /\ Priority[c] <= Priority[Head(s)]

AgentsChannel(q) == IF conf.sessionAffinity /\ q.agent # None THEN affinity[q.agent] ELSE None

Lifting(s, c, may(_, _)) == IF c # None /\ may(s, c) THEN Lifted(s, c) ELSE s

PoolOrders(S, r, q) ==
  {Lifting(Lifting(s, pinned, Pins), AgentsChannel(q), Affine) :
     s \in ByStrategy(S, r), pinned \in Sticky(q)}

-----------------------------------------------------------------------------
(* #orderFallback(): the second tier.                                      *)

Floated(lists, pins, agents) ==
  {Lifting(Lifting(s, pinned, Unfailing), agents, Contains) : s \in lists, pinned \in pins}

FallbackOrders(S, q) ==
  LET key(c) == CASE conf.strategy = "least-loaded" -> ByLoad(c) - Priority[c]
                  [] OTHER -> InAnyOrder(c)
      open == IF conf.strategy = "weighted" THEN WeightedOpen(Live(S)) ELSE SortedBy(Live(S), key)
      pins == IF conf.strategy \in {"least-loaded", "weighted"} THEN {None} ELSE Sticky(q)
  IN  Rows(Floated(open, pins, AgentsChannel(q)),
           SortedBy(Cooling(S), InAnyOrder), SortedBy(Saturated(S), InAnyOrder))

-----------------------------------------------------------------------------
(* candidatesFor().                                                        *)

FirstTier(S) == IF conf.tiered THEN S \cap Preferred ELSE S

Cut(s) == SubSeq(s, 1, Min({Len(s), conf.maxAttempts}))

Explicit(q) == Routes[q.model] # <<>>

Orders(r, q) ==
  LET S == Pool(q)
  IN  IF Explicit(q) THEN {Among(Routes[q.model], S)}
      ELSE {Cut(s) \o t : s \in PoolOrders(FirstTier(S), r, q),
                          t \in FallbackOrders(S \ FirstTier(S), q)}

\* the accounts after a selection: cooling and saturated channels are struck off
Accounts(r, q) ==
  LET S == Pool(q)
      tier(c) == IF c \in FirstTier(S) THEN FirstTier(S) ELSE S \ FirstTier(S)
  IN  IF conf.strategy # "weighted" \/ Explicit(q) THEN weightState
      ELSE [c \in Channels |-> IF c \notin S THEN weightState[c]
                               ELSE IF c \notin Live(S) THEN 0
                               ELSE WeightsAfter(Live(tier(c)))[c]]

TakesTurn(q) == ~Explicit(q) /\ Rotates(FirstTier(Pool(q)))

\* selecting costs a turn or the accounts, whatever becomes of the list
Spend(r, q) ==
  /\ weightState' = Accounts(r, q)
  /\ IF TakesTurn(q)
     THEN /\ turn' = CursorAfter(r)
          /\ turnSeen' = [turnSeen EXCEPT ![r] = TurnOf(r)]
     ELSE UNCHANGED <<turn, turnSeen>>
  /\ UNCHANGED <<scene, conf, channels, lastGood, affinity, reloads>>

\* a new round: an empty list is answered with model_not_found
Select(r, q) ==
  /\ \E s \in Orders(r, q) :
       req' = [req EXCEPT ![r] = IF s = <<>> THEN NoRequest
                                 ELSE [pc |-> "using", q |-> q, order |-> s,
                                       listed |-> ToSet(s), injected |-> @.injected]]
  /\ Spend(r, q)

Arrive(r) == req[r].pc = "idle" /\ \E q \in scene.traffic : Select(r, q)

\* retryLoop, or the re-check before giving up
SelectAgain(r) == req[r].pc = "again" /\ Select(r, req[r].q)

\* once per request, at the end of a list: whoever is not on it goes on
Inject(r) ==
  /\ req[r].pc = "again" /\ ~req[r].injected /\ conf.tiered
  /\ \E s \in Orders(r, req[r].q) :
       LET rest == Among(s, Channels \ req[r].listed)
       IN  req' = [req EXCEPT ![r].pc = IF rest = <<>> THEN "again" ELSE "using",
                              ![r].order = rest,
                              ![r].listed = @ \cup ToSet(rest),
                              ![r].injected = TRUE]
  /\ Spend(r, req[r].q)

-----------------------------------------------------------------------------
(* The attempts of a request, as far as the choice of channels depends on  *)
(* them.  A request that ends is never asked about again.                  *)

Channel(r) == Head(req[r].order)

Ends(r) ==
  /\ req' = [req EXCEPT ![r] = NoRequest]
  /\ turnSeen' = [turnSeen EXCEPT ![r] = Unset]

\* markSuccess(), rememberSuccess(), rememberAffinity(); a last good channel is only
\* read where sticky is on, and no reload that switches it on leaves one
Succeed(r) ==
  /\ req[r].pc = "using"
  /\ health' = [health EXCEPT ![Channel(r)] = "ok"]
  /\ lastGood' = IF conf.sticky THEN [lastGood EXCEPT ![req[r].q.model] = Channel(r)] ELSE lastGood
  /\ affinity' = IF conf.sessionAffinity /\ req[r].q.agent # None
                 THEN [affinity EXCEPT ![req[r].q.agent] = Channel(r)] ELSE affinity
  /\ Ends(r)
  /\ UNCHANGED <<scene, conf, unsupported, turn, weightState, reloads>>

MovesOn(r) ==
  LET rest == Tail(req[r].order)
  IN  req' = [req EXCEPT ![r].order = rest, ![r].pc = IF rest = <<>> THEN "again" ELSE "using"]

\* the upstream's fault, which counts or does not, and cools the channel or not
FailOver(r) ==
  /\ req[r].pc = "using" /\ Channel(r) \in scene.faulty
  /\ \E h \in {health[Channel(r)], "cooling"} \cup (IF health[Channel(r)] = "ok" THEN {"failing"} ELSE {}) :
       health' = [health EXCEPT ![Channel(r)] = h]
  /\ MovesOn(r)
  /\ UNCHANGED <<scene, conf, unsupported, memory, reloads>>

\* markUnsupported(): delete, insert, evict the oldest
markUnsupported(s, m) ==
  LET entries == Append(Without(s, m), m)
  IN  IF Len(entries) > UnsupportedMax THEN Tail(entries) ELSE entries

Rejected(r) ==
  /\ req[r].pc = "using" /\ Channel(r) \in scene.picky
  /\ unsupported' = [unsupported EXCEPT ![Channel(r)] = markUnsupported(@, req[r].q.model)]
  /\ MovesOn(r)
  /\ UNCHANGED <<scene, conf, health, memory, reloads>>

\* the client leaves, or the request is given up
GiveUp(r) ==
  /\ req[r].pc # "idle"
  /\ Ends(r)
  /\ UNCHANGED <<scene, conf, channels, lastGood, affinity, turn, weightState, reloads>>

-----------------------------------------------------------------------------
(* Other calls, time, the probe and the operator.                          *)

\* of a closed channel, of one that cools, and of one in its window
HealthAfter(h) ==
  CASE h = "ok"      -> {"failing", "cooling"}
    [] h = "failing" -> {"ok", "cooling"}
    [] h = "cooling" -> {"ok", "trial"}
    [] h = "trial"   -> {"ok", "failing", "full"}
    [] h = "full"    -> {"ok", "failing", "cooling", "trial"}

HealthChanges(c) ==
  /\ \E h \in HealthAfter(health[c]) : health' = [health EXCEPT ![c] = h]
  /\ UNCHANGED <<scene, conf, unsupported, memory, req, reloads>>

\* an entry of the blacklist is older than unsupportedTtlMs
Expires(c, m) ==
  /\ isUnsupported(c, m)
  /\ unsupported' = [unsupported EXCEPT ![c] = Without(@, m)]
  /\ UNCHANGED <<scene, conf, health, memory, req, reloads>>

\* older than affinityTtlMs; pruneAffinity() or the next look removes it
AffinityExpires(a) ==
  /\ affinity[a] # None
  /\ affinity' = [affinity EXCEPT ![a] = None]
  /\ UNCHANGED <<scene, conf, channels, lastGood, turn, turnSeen, weightState, req, reloads>>

\* load(): the cursor goes on, the rest of the memory but affinity is void
Reload(n) ==
  /\ reloads < scene.reloads
  /\ reloads' = reloads + 1
  /\ conf' = n
  /\ lastGood' = [m \in Models |-> None]
  /\ turnSeen' = [r \in Requests |-> Unset]
  /\ weightState' = [c \in Channels |-> 0]
  /\ UNCHANGED <<scene, channels, affinity, turn, req>>

RoutingNext ==
  \/ \E r \in Requests : \/ Arrive(r) \/ SelectAgain(r) \/ Inject(r) \/ Succeed(r)
                         \/ FailOver(r) \/ Rejected(r) \/ GiveUp(r)
  \/ \E c \in scene.faulty : HealthChanges(c)
  \/ \E c \in Channels, m \in Models : Expires(c, m)
  \/ \E a \in Agents : AffinityExpires(a)
  \/ \E n \in scene.confs : Reload(n)

RoutingSpec == RoutingInit /\ [][RoutingNext]_routingVars

(***************************************************************************)
(* Clients keep coming, and every request ends, at its total budget at the *)
(* latest.                                                                 *)
(***************************************************************************)
Fairness == \A r \in Requests : WF_routingVars(Arrive(r)) /\ WF_routingVars(GiveUp(r))

RoutingFairSpec == RoutingSpec /\ Fairness

-----------------------------------------------------------------------------
Entries == [pc : {"idle", "using", "again"}, q : Prompts \cup {NoQuery}, order : Seq(Channels),
            listed : SUBSET Channels, injected : BOOLEAN]

RoutingTypeOK ==
  /\ scene \in Scenes /\ conf \in scene.confs
  /\ health \in [Channels -> {"ok", "failing", "cooling", "trial", "full"}]
  /\ unsupported \in [Channels -> Seq(Models)]
  /\ lastGood \in [Models -> Channels \cup {None}]
  /\ affinity \in [Agents -> Channels \cup {None}]
  /\ turn \in 0 .. TurnCycle - 1
  /\ turnSeen \in [Requests -> {Unset} \cup 0 .. TurnCycle - 1]
  /\ req \in [Requests -> Entries]
  /\ \A r \in Requests : /\ ToSet(req[r].order) \subseteq req[r].listed
                         /\ req[r].pc = "using" <=> req[r].order # <<>>

(* The accounts of the weighted round robin stay bounded although channels *)
(* leave and come back, losing their accounts, and models with different   *)
(* pools write to the same ones: no channel ever owes or is owed more than *)
(* two rounds for each of the others, and no group of k channels together  *)
(* more than Room(k).                                                      *)
Room(k) == TotalWeight(Channels) * (k * (2 * Cardinality(Channels) - k - 1))

Balanced(f) ==
  \A T \in SUBSET Channels :
    SumOver(f, T) \in -Room(Cardinality(T)) .. Room(Cardinality(T))

AccountsStayBounded == RoutingTypeOK /\ Balanced(weightState)

\* r starts a round with a new list
Selects(r) == req[r].pc # "using" /\ req'[r].pc = "using"
              /\ req'[r].listed = ToSet(req'[r].order) /\ ~Explicit(req'[r].q)

(* Whatever pins it, no list tries a channel that cools before one of its  *)
(* tier that does not, unless that one's half-open places are taken, and   *)
(* none leaves out a channel of the second tier.                           *)
CoolingComesLast ==
  [][\A r \in Requests : Selects(r) =>
       LET S == Pool(req'[r].q)
           s == req'[r].order
       IN  /\ \A i, j \in DOMAIN s :
                /\ i < j /\ coolingDown(s[i])
                /\ (s[i] \in FirstTier(S)) = (s[j] \in FirstTier(S))
                => coolingDown(s[j]) \/ halfOpenSaturated(s[j])
           /\ S \ FirstTier(S) \subseteq req'[r].listed]_routingVars

(* Under the strategy "priority" neither the last good channel of a model  *)
(* nor the channel of an agent gets in front of a live channel of the      *)
(* first tier with a better priority.                                      *)
PinsKeepPriority ==
  [][\A r \in Requests : Selects(r) /\ conf.strategy = "priority" =>
       \A c \in Live(FirstTier(Pool(req'[r].q))) :
         Priority[Head(req'[r].order)] <= Priority[c]]_routingVars

(* Who stays fit for every request leads again and again: under "weighted" *)
(* whatever happens to the others, and under "round-robin" (one model, all *)
(* channels fit, no two of one priority) at the start of new requests,     *)
(* however often requests select again.                                    *)
Fit(c) == health[c] \in {"ok", "failing"} /\ unsupported[c] = <<>>

Rivals == UNION {FirstTier(Pool(q)) : q \in scene.traffic}

Entitled(c) ==
  /\ ~conf.sessionAffinity /\ Weight[c] > 0
  /\ \A q \in scene.traffic : ~Explicit(q) /\ c \in FirstTier(Pool(q))
  /\ \/ conf.strategy = "weighted" /\ Fit(c)
     \/ /\ conf.strategy = "round-robin" /\ ~conf.sticky
        /\ Cardinality({q.model : q \in scene.traffic}) = 1
        /\ \A d \in Channels : Fit(d)
        /\ \A d \in Rivals \ {c} : Priority[d] # Priority[c]

Leads(c) ==
  \E r \in Requests : /\ req[r].pc = "idle" \/ conf.strategy = "weighted"
                      /\ Selects(r) /\ Head(req'[r].order) = c

NoChannelStarves == \A c \in Channels : <>[]Entitled(c) => []<><<Leads(c)>>_routingVars

-----------------------------------------------------------------------------
(* What every step preserves: the accounts are numbers, and a request that *)
(* is under way asks for something and was given a list.                   *)

RequestsAreListed ==
  \A r \in Requests :
    req[r].pc # "idle" => req[r].q \in Prompts /\ req[r].listed # {}

RoutingInv == RoutingTypeOK /\ weightState \in [Channels -> Int] /\ RequestsAreListed
=============================================================================
