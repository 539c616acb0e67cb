--------------------------- MODULE GatewayLimiter ---------------------------
(***************************************************************************)
(* class GatewayLimiter of lib/concurrency.mjs: the permits an upstream    *)
(* attempt collects before it may run, first its agent's, then the global  *)
(* one, then its channel's, and the configuration reloads and clean-ups    *)
(* that happen while attempts queue and run.                               *)
(*                                                                         *)
(* acquire() is an async function: it stops at every `await` and goes on   *)
(* in a later microtask, so the semaphores and the configuration it meets  *)
(* there need not be those it saw at entry.  A request is one call:        *)
(*                                                                         *)
(*   idle -> [agent] -> [global] -> [channel] -> running -> gone           *)
(*                                                                         *)
(* skipping the levels that are off.  `promise` is the state of what it    *)
(* awaits.  Microtasks all run before the next timer or reload, and in     *)
(* which order they run is left open; attempts that end and new calls may  *)
(* come between them, as a request that is retried does both in one chain. *)
(*                                                                         *)
(* Semaphores are objects that outlive their place in the maps: `sems` is  *)
(* the heap and Ids its addresses.                                         *)
(***************************************************************************)
EXTENDS SemaphoreOps, FiniteSets

CONSTANTS Reqs, Agents, Channels,
          MaxIds,          \* bound: semaphore objects that are ever reachable
          GlobalLimits, ChannelLimits, AgentLimits,
                           \* the limits a configuration may set; 0 is "off"
          MaxReloads,      \* bound: configuration reloads
          QueueTimeouts,   \* queueTimeoutMs, in ticks; 0 is "no timeout"
          Budgets,         \* budgetMs of a call, in ticks
          Infinity         \* a number of ticks that no run reaches

Nil == 0                   \* null where a semaphore is expected
Ids == 1..MaxIds

ASSUME ReqsAssumption == IsFiniteSet(Reqs) /\ Nil \notin Reqs
ASSUME IdsAssumption == MaxIds \in Nat \ {0}
ASSUME LimitsAssumption == GlobalLimits \cup ChannelLimits \cup AgentLimits \subseteq Nat
ASSUME InfinityAssumption == /\ Infinity \in Nat
                             /\ \A n \in (QueueTimeouts \cup Budgets) \ {Infinity} :
                                  n \in Nat /\ n + 1 < Infinity

VARIABLES sems,       \* the heap of Semaphore objects
          conf,       \* globalLimit, channelLimit, agentLimit, queueTimeoutMs
          global,     \* this.global
          channels,   \* this.channels
          agents,     \* this.agents
          at,         \* where each call of acquire() stands
          promise,    \* what it awaits there
          slots,      \* the semaphores in which it occupies a slot
          own,        \* its local variables agentSem and sem
          timer,      \* ticks left on its queue timer
          budget,     \* its argument budgetMs
          reloads     \* reloads so far

objects  == <<sems, conf, global, channels, agents>>
requests == <<at, promise, slots, own, timer, budget>>
vars == <<objects, requests, reloads>>

NoSems == [agent |-> Nil, channel |-> Nil]

Places == {"idle", "agent", "global", "channel", "running", "gone"}

Configurations ==
  [global : GlobalLimits, channel : ChannelLimits, agent : AgentLimits,
   queueTimeout : QueueTimeouts]

Init ==
  /\ conf \in Configurations
  /\ global = IF conf.global = 0 THEN Nil ELSE 1
  /\ sems = [i \in Ids |-> NewSem(IF i = global THEN conf.global ELSE 1)]
  /\ channels = [c \in Channels |-> Nil]
  /\ agents = [a \in Agents |-> Nil]
  /\ at = [r \in Reqs |-> "idle"]
  /\ promise = [r \in Reqs |-> "none"]
  /\ slots = [r \in Reqs |-> {}]
  /\ own = [r \in Reqs |-> NoSems]
  /\ timer = [r \in Reqs |-> Infinity]
  /\ budget = [r \in Reqs |-> Infinity]
  /\ reloads = 0

-----------------------------------------------------------------------------
\* objects nobody refers to: their addresses may be used again
Free ==
  {i \in Ids : /\ i # global
               /\ \A c \in Channels : i # channels[c]
               /\ \A a \in Agents : i # agents[a]
               /\ \A r \in Reqs : i \notin slots[r] \cup {own[r].agent, own[r].channel}
               /\ sems[i].queue = <<>>}

\* no continuation is waiting to run
Quiet == \A r \in Reqs : promise[r] \in {"none", "pending"}

Lowest(S) == CHOOSE i \in S : \A j \in S : i <= j

(* The semaphores change to h and admitted[i] are the waiters of i that    *)
(* get its slot; `mine` is what r is left with.                            *)
Settle(h, admitted, rejected, r, mine) ==
  /\ sems' = h
  /\ slots' = [q \in Reqs |-> IF q = r THEN mine
                              ELSE slots[q] \cup {i \in Ids : q \in admitted[i]}]
  /\ promise' = [q \in Reqs |-> IF \E i \in Ids : q \in admitted[i] THEN "resolved"
                                ELSE IF q \in rejected THEN "drained"
                                ELSE IF q = r THEN "none"
                                ELSE promise[q]]
  /\ timer' = [q \in Reqs |-> IF promise'[q] = "pending" THEN timer[q] ELSE Infinity]

\* r calls the release functions of the semaphores in S, which it gives up
ReleaseAll(r, S) ==
  Settle([i \in Ids |-> IF i \in S THEN Handoff(sems[i]) ELSE sems[i]],
         [i \in Ids |-> IF i \in S THEN HandedTo(sems[i]) ELSE {}],
         {}, r, slots[r] \ S)

-----------------------------------------------------------------------------
(* acquire().                                                              *)

\* mutant: the order before F6, where the agent's own quota comes last
OrderBeforeF6 == <<"idle", "global", "channel", "agent", "running">>

Order == <<"idle", "agent", "global", "channel", "running">>

\* the semaphore to ask at a level, Nil where the level is off
Target(level, mine) ==
  CASE level = "agent"   -> mine.agent
    [] level = "global"  -> global
    [] level = "channel" -> mine.channel
    [] OTHER             -> Nil

\* the next stop after `from`: levels that are off are passed without an await
NextStop(from, mine) ==
  LET here == CHOOSE i \in 1..Len(Order) : Order[i] = from
  IN  Order[Lowest({i \in (here + 1)..Len(Order) :
                      Order[i] = "running" \/ Target(Order[i], mine) # Nil})]

\* cap(queueTimeoutMs)
Cap(b) == IF b < conf.queueTimeout THEN b ELSE conf.queueTimeout

\* r goes on to its next stop, on the heap h; a semaphore asked with 0 arms no timer
MoveOn(r, h, mine, b) ==
  LET stop == NextStop(at[r], mine)
      id == Target(stop, mine)
  IN  /\ at' = [at EXCEPT ![r] = stop]
      /\ CASE id = Nil ->
                /\ sems' = h
                /\ promise' = [promise EXCEPT ![r] = "none"]
                /\ UNCHANGED <<slots, timer>>
           [] id # Nil /\ EntersAtOnce(h[id]) ->
                /\ sems' = [h EXCEPT ![id] = Enter(@)]
                /\ promise' = [promise EXCEPT ![r] = "resolved"]
                /\ slots' = [slots EXCEPT ![r] = @ \cup {id}]
                /\ UNCHANGED timer
           [] OTHER ->
                /\ sems' = [h EXCEPT ![id] = Enqueue(@, r)]
                /\ promise' = [promise EXCEPT ![r] = "pending"]
                /\ timer' = [timer EXCEPT ![r] = IF Cap(b) > 0 THEN Cap(b) ELSE Infinity]
                /\ UNCHANGED slots

(* The call acquire(c, a, b) up to its first await.  _agentSem() and       *)
(* _channelSem() find the semaphore or create it; a = Nil is agentId null. *)
Acquire(r, c, a, b) ==
  /\ at[r] = "idle"
  /\ Cardinality(Free) >= 2
  /\ LET new1 == Lowest(Free)
         new2 == Lowest(Free \ {new1})
         agentSem == IF conf.agent = 0 \/ a = Nil THEN Nil
                     ELSE IF agents[a] = Nil THEN new1 ELSE agents[a]
         sem == IF conf.channel = 0 THEN Nil
                ELSE IF channels[c] = Nil THEN new2 ELSE channels[c]
         mine == [agent |-> agentSem, channel |-> sem]
         h == [i \in Ids |-> IF i = new1 /\ i = agentSem THEN NewSem(conf.agent)
                             ELSE IF i = new2 /\ i = sem THEN NewSem(conf.channel)
                             ELSE sems[i]]
     IN  /\ agents' = IF agentSem = Nil THEN agents ELSE [agents EXCEPT ![a] = agentSem]
         /\ channels' = IF sem = Nil THEN channels ELSE [channels EXCEPT ![c] = sem]
         /\ own' = [own EXCEPT ![r] = mine]
         /\ MoveOn(r, h, mine, b)
  /\ budget' = [budget EXCEPT ![r] = b]
  /\ UNCHANGED <<conf, global, reloads>>

\* the awaited permit is there: acquire() goes on
Proceed(r) ==
  /\ promise[r] = "resolved"
  /\ MoveOn(r, sems, own[r], budget[r])
  /\ UNCHANGED <<conf, global, channels, agents, own, budget, reloads>>

\* mutants: a rollback that forgets the agent's slot, a release that forgets a level
RollbackKeepsAgent(r) == slots[r] \ {own[r].agent}
AllButChannel(r) == slots[r] \ {own[r].channel}

\* what the catch blocks give back, and the release function acquire() returns
Rollback(r) == slots[r]
Release(r) == slots[r]

\* r is through with acquire(), and its locals are garbage
Leave(r) ==
  /\ at' = [at EXCEPT ![r] = "gone"]
  /\ own' = [own EXCEPT ![r] = NoSems]
  /\ budget' = [budget EXCEPT ![r] = Infinity]

\* the awaited permit was refused: the catch block of the level
Fail(r) ==
  /\ promise[r] \in {"timedOut", "drained"}
  /\ ReleaseAll(r, Rollback(r))
  /\ Leave(r)
  /\ UNCHANGED <<conf, global, channels, agents, reloads>>

\* attemptChannel() is over, and its `finally` calls the release function
Finish(r) ==
  /\ at[r] = "running"
  /\ ReleaseAll(r, Release(r))
  /\ Leave(r)
  /\ UNCHANGED <<conf, global, channels, agents, reloads>>

\* the queue timer of r's waiter goes off
Timeout(r) ==
  /\ Quiet
  /\ promise[r] = "pending"
  /\ timer[r] = 0
  /\ sems' = [i \in Ids |-> IF r \in Waiters(sems[i]) THEN Abandon(sems[i], r) ELSE sems[i]]
  /\ promise' = [promise EXCEPT ![r] = "timedOut"]
  /\ timer' = [timer EXCEPT ![r] = Infinity]
  /\ UNCHANGED <<conf, global, channels, agents, at, slots, own, budget, reloads>>

\* a tick of the clock: timers that are due go off before the next one
Tick ==
  /\ Quiet
  /\ \E r \in Reqs : timer[r] # Infinity
  /\ \A r \in Reqs : timer[r] # 0
  /\ timer' = [r \in Reqs |-> IF timer[r] = Infinity THEN Infinity ELSE timer[r] - 1]
  /\ UNCHANGED <<objects, at, promise, slots, own, budget, reloads>>

-----------------------------------------------------------------------------
(* Configuration reloads and clean-ups.                                    *)

InChannels == {channels[c] : c \in Channels} \ {Nil}
InAgents   == {agents[a] : a \in Agents} \ {Nil}

\* mutant: configure() as it was before F7, with a new global semaphore
GlobalReplaced(n) == n.global # conf.global /\ n.global > 0

GlobalCreated(n) == n.global # conf.global /\ n.global > 0 /\ global = Nil

\* the semaphores whose setLimit() is called, with what, and those that are drained
Resized(n, i) ==
  IF i = global THEN n.global > 0 /\ ~GlobalCreated(n)
  ELSE IF i \in InChannels THEN n.channel # conf.channel /\ n.channel > 0
  ELSE i \in InAgents /\ n.agent # conf.agent

LimitFor(n, i) ==
  IF i = global THEN n.global ELSE IF i \in InChannels THEN n.channel ELSE AtLeastOne(n.agent)

TurnedOff(n, i) ==
  \/ i = global /\ n.global = 0
  \/ i \in InChannels /\ n.channel # conf.channel /\ n.channel = 0

(* load(): limiter.configure(n), then limiter.prune(keep) with the names   *)
(* of the channels the new configuration has.  Switching the global limit  *)
(* or the channel limit off turns the waiters away; an agent limit of 0    *)
(* goes through setLimit(), which makes it 1.                              *)
Reload(n, keep) ==
  /\ Quiet
  /\ reloads < MaxReloads
  /\ n # conf \/ \E c \in Channels \ keep : channels[c] # Nil
  /\ Free # {}
  /\ conf' = n
  /\ LET fresh == Lowest(Free)
     IN  /\ Settle([i \in Ids |->
                     IF Resized(n, i) THEN Resize(sems[i], LimitFor(n, i))
                     ELSE IF TurnedOff(n, i) THEN Drained(sems[i])
                     ELSE IF GlobalCreated(n) /\ i = fresh THEN NewSem(n.global)
                     ELSE sems[i]],
                   [i \in Ids |-> IF Resized(n, i) THEN PumpedTo(sems[i], LimitFor(n, i)) ELSE {}],
                   UNION {Waiters(sems[i]) : i \in {j \in Ids : TurnedOff(n, j)}},
                   Nil, {})
         /\ global' = IF GlobalCreated(n) THEN fresh
                      ELSE IF n.global = 0 THEN Nil ELSE global
  /\ channels' = [c \in Channels |-> IF c \in keep THEN channels[c] ELSE Nil]
  /\ reloads' = reloads + 1
  /\ UNCHANGED <<agents, at, own, budget>>

\* mutant: pruneAgents() looks only at the age of the entry
IdleTooLong(a) == agents[a] # Nil

\* pruneAgents(): entries with nothing in flight, not seen for ttlMs
Reclaimable(a) == agents[a] # Nil /\ sems[agents[a]].active = 0

PruneAgents(old) ==
  /\ Quiet
  /\ old # {}
  /\ \A a \in old : Reclaimable(a)
  /\ agents' = [a \in Agents |-> IF a \in old THEN Nil ELSE agents[a]]
  /\ UNCHANGED <<sems, conf, global, channels, requests, reloads>>

\* drain(), at shutdown
Drain ==
  LET all == {global} \cup InChannels \cup InAgents
      turnedAway == UNION {Waiters(sems[i]) : i \in all \ {Nil}}
  IN  /\ Quiet
      /\ turnedAway # {}
      /\ Settle([i \in Ids |-> IF i \in all THEN Drained(sems[i]) ELSE sems[i]],
                [i \in Ids |-> {}], turnedAway, Nil, {})
      /\ UNCHANGED <<conf, global, channels, agents, at, own, budget, reloads>>

\* every call has been served: the gateway waits for the next client
Rest == (\A r \in Reqs : at[r] = "gone") /\ UNCHANGED vars

Next ==
  \/ \E r \in Reqs : \/ \E c \in Channels, a \in Agents \cup {Nil}, b \in Budgets :
                          Acquire(r, c, a, b)
                     \/ Proceed(r) \/ Fail(r) \/ Finish(r) \/ Timeout(r)
  \/ Tick
  \/ \E n \in Configurations, keep \in SUBSET Channels : Reload(n, keep)
  \/ \E old \in SUBSET Agents : PruneAgents(old)
  \/ Drain
  \/ Rest

Spec == Init /\ [][Next]_vars

(***************************************************************************)
(* Continuations run, and an attempt that runs ends: proxy.mjs bounds it   *)
(* by its header, first-byte and idle timers.  Queue timers are not relied *)
(* upon, as the operator may have switched them off.                       *)
(***************************************************************************)
Fairness ==
  \A r \in Reqs : WF_vars(Proceed(r)) /\ WF_vars(Fail(r)) /\ WF_vars(Finish(r))

FairSpec == Spec /\ Fairness

-----------------------------------------------------------------------------
TypeOK ==
  /\ \A i \in Ids : /\ sems[i].limit \in Nat \ {0}
                    /\ sems[i].active \in Nat
                    /\ Waiters(sems[i]) \subseteq Reqs
  /\ conf \in Configurations
  /\ global \in Ids \cup {Nil}
  /\ channels \in [Channels -> Ids \cup {Nil}]
  /\ agents \in [Agents -> Ids \cup {Nil}]
  /\ at \in [Reqs -> Places]
  /\ promise \in [Reqs -> {"none", "pending", "resolved", "timedOut", "drained"}]
  /\ slots \in [Reqs -> SUBSET Ids]
  /\ own \in [Reqs -> [agent : Ids \cup {Nil}, channel : Ids \cup {Nil}]]
  /\ \A r \in Reqs : {timer[r], budget[r]} \subseteq 0..Infinity

(* No slot leaks at any level on any path: what a semaphore counts as      *)
(* active are the calls that still have to release it, through rollbacks,  *)
(* resizes, drains and semaphores that were dropped from the maps.         *)
NoSlotLeaks ==
  /\ TypeOK
  /\ \A i \in Ids : sems[i].active = Cardinality({r \in Reqs : i \in slots[r] /\ at[r] # "gone"})

(* F6: a call that queues for its agent's quota occupies no shared slot,   *)
(* and one that queues for the global slot occupies no channel.            *)
BacklogHoldsNothingShared ==
  \A r \in Reqs : promise[r] = "pending" =>
     /\ at[r] = "agent"  => slots[r] = {}
     /\ at[r] = "global" => slots[r] \subseteq {own[r].agent}

(* pruneAgents() looks only at `active`, yet never forgets a semaphore     *)
(* that has waiters: two semaphores of one agent never serve calls at the  *)
(* same time, so its quota is not doubled.                                 *)
OneQuotaPerAgent ==
  \A r \in Reqs :
     \/ own[r].agent \in slots[r] \ {Nil}
     \/ own[r].agent # Nil /\ promise[r] = "pending" /\ at[r] = "agent"
     => own[r].agent \in InAgents

(* F7: while the global limit stays on, every running call that passed the *)
(* global level is counted in the semaphore later calls have to pass.      *)
ReloadKeepsCount ==
  [][(conf.global > 0 /\ conf'.global > 0) =>
       \A r \in Reqs : global \in slots[r] /\ at'[r] # "gone" => global' \in slots'[r]]_vars

(* Three levels and no timer: no call waits for ever, because a slot is    *)
(* only ever kept while waiting for a later level.                         *)
EveryCallIsSettled ==
  \A r \in Reqs : promise[r] # "none" ~> at[r] \in {"running", "gone"}
=============================================================================
