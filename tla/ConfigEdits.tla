---------------------------- MODULE ConfigEdits -----------------------------
(***************************************************************************)
(* config.json and the channels in memory: class ChannelManager of         *)
(* lib/channels.mjs as far as it loads the file (load, watchConfig), edits *)
(* it (addChannel, updateChannel, removeChannel, saveDiscoveredModels) and *)
(* writes derived fields back (workbuddyTick, updateChannelFields).        *)
(*                                                                         *)
(* load() replaces every Channel object.  What runs across it, the tick or *)
(* a discovery, goes on with the object it started with: `live` says       *)
(* whether that is still the manager's.  (ChannelHealth has the attempts.) *)
(*                                                                         *)
(* An entry of the file is cut down to its endpoint, its key, its list of  *)
(* models and `enabled`; a list that was found is named by the endpoint it *)
(* was found at.  creditRemain, which is only displayed, the fields that   *)
(* are copied as they are, and channels of one model (`model`), which no   *)
(* discovery asks, are left out.                                           *)
(***************************************************************************)
EXTENDS Naturals, FiniteSets

CONSTANTS Names, Urls,
          Accounts,      \* endpoints of the preset workbuddy-intl
          Tokens,        \* keys, each with its refresh token
          EnvSet,        \* is the variable behind a ${...} key set?
          Initials,      \* what the file may hold at first: channels and route
          Inputs,        \* what an edit in the panel may ask for
          NewEntries,    \* the entries that may be added
          MaxEdits       \* bound: edits of the operator, in the panel or by hand

NoKey == "no key"
Env == "${ENV}"          \* a key that names an environment variable
EnvKey == "env key"      \* what deepExpandEnv() makes of it
Unlisted == "unlisted"   \* no `models`: discovery fills them in
Listed == "listed"       \* `models`, chosen by the operator
Nothing == "nothing"     \* no model known
Absent == [url |-> "none"]

ASSUME EnvAssumption == EnvSet \in BOOLEAN
ASSUME TokenAssumption == {NoKey, Env, EnvKey} \cap Tokens = {}
ASSUME BoundAssumption == MaxEdits \in Nat
ASSUME UrlAssumption == /\ {"none", Unlisted, Listed, Nothing} \cap Urls = {}
                        /\ Accounts \subseteq Urls

Keys == Tokens \cup {NoKey, Env}
Entry == [url : Urls, key : Keys,
          models : Urls \cup {Unlisted, Listed}, enabled : {"unset", "yes", "no"}]

VARIABLES file,          \* text, routing, channels and route of config.json
          mem,           \* what the manager holds: routing, channels, route
          watch,         \* "armed" between an event of the watcher and its timer
          tick,          \* workbuddyTick()
          disc,          \* a request of discoverAll()
          edits,         \* edits so far
          touched        \* history: what was edited since the tick began
vars == <<file, mem, watch, tick, disc, edits, touched>>

(* text is "good", "unparsable" (half written by an editor) or "rejected"  *)
(* (JSON that load() refuses, as two channels of one name).                *)
Present(channels) == {n \in Names : channels[n] # Absent}

\* nothing checks that a route names channels
ASSUME InitialAssumption ==
  \A f \in Initials : f.channels \in [Names -> Entry \cup {Absent}] /\ f.route \subseteq Names

Expanded(key) == IF key = Env /\ EnvSet THEN EnvKey ELSE key
Usable(key) == key \notin {NoKey, Env}

\* the constructor: enabled unless the entry says otherwise or no key is usable
Enabled(e) == e.enabled = "yes" \/ (e.enabled = "unset" /\ Usable(Expanded(e.key)))

-----------------------------------------------------------------------------
(* load(): builds everything aside, then replaces it in one go.            *)

\* mutant: found models are kept whatever the endpoint
KeepsAnyway(e, old) == old # Absent

\* the same endpoint under the same name
Keeps(e, old) == old # Absent /\ old.url = e.url

Built(e, old, routing) ==
  [url |-> e.url, key |-> Expanded(e.key), enabled |-> Enabled(e),
   routing |-> routing,
   models |-> CASE e.models # Unlisted -> e.models
                [] e.models = Unlisted /\ Keeps(e, old) -> old.models
                [] OTHER -> Nothing]

Loaded(f, m) ==
  [routing |-> f.routing, route |-> f.route,
   channels |-> [n \in Names |-> IF f.channels[n] = Absent THEN Absent
                                 ELSE Built(f.channels[n], m.channels[n], f.routing)]]

\* mutant: routing is assigned before the channels are checked
HalfRefused(f, m) == [m EXCEPT !.routing = f.routing]

Refused(f, m) == m

\* what reading f makes of the memory; it throws unless f is good
Reread(f, m) ==
  CASE f.text = "good"       -> Loaded(f, m)
    [] f.text = "rejected"   -> Refused(f, m)
    [] f.text = "unparsable" -> m

\* what the tick has still to do with, of the array it walks along
Glimpse(o) == [url |-> o.url, key |-> o.key]
Ahead == [n \in Names |-> IF n \in tick.left \cup {tick.name} THEN Glimpse(mem.channels[n]) ELSE Absent]

\* the holders of an object lose it
Detach(f) ==
  IF f.text = "good"
  THEN /\ tick' = IF tick.live THEN [tick EXCEPT !.live = FALSE, !.array = Ahead] ELSE tick
       /\ disc' = [disc EXCEPT !.live = FALSE]
  ELSE UNCHANGED <<tick, disc>>

Load(f) == mem' = Reread(f, mem) /\ Detach(f)

-----------------------------------------------------------------------------
(* The watcher: 300 ms after the last event it loads; the discovery that   *)
(* follows is one of Discover.                                             *)

WatchFires ==
  /\ watch = "armed"
  /\ watch' = "idle"
  /\ Load(file)
  /\ UNCHANGED <<file, edits, touched>>

\* POST /api/reload
ReloadRequested ==
  /\ Load(file)
  /\ UNCHANGED <<file, watch, edits, touched>>

-----------------------------------------------------------------------------
(* The panel.  Each handler reads the file, changes and writes it and      *)
(* loads, without an await.  It throws where the file does not parse.      *)

Touch(channels) ==
  IF tick.pc = "idle" THEN touched
  ELSE touched \cup {n \in Names : channels[n] # file.channels[n]}

Panel(texts, channels, route) ==
  /\ edits < MaxEdits
  /\ edits' = edits + 1
  /\ file.text # "unparsable"
  /\ \E text \in texts :
       file' = [file EXCEPT !.text = text, !.channels = channels, !.route = route]
  /\ watch' = "armed" /\ touched' = Touch(channels)
  /\ Load(file')

\* the pre-check reads the entry as it is in the file: a ${...} is no usable key
addChannel(n, e) ==
  /\ file.channels[n] = Absent
  /\ e.enabled = IF Usable(e.key) THEN "unset" ELSE "no"
  /\ Panel({file.text}, [file.channels EXCEPT ![n] = e], file.route)

\* removing or renaming one of two channels of a name makes a rejected file good
Cured == IF file.text = "rejected" THEN {"rejected", "good"} ELSE {file.text}

removeChannel(n) ==
  /\ file.channels[n] # Absent
  /\ Panel(Cured, [file.channels EXCEPT ![n] = Absent], file.route \ {n})

Renamed(route, n, new) == IF n \in route THEN (route \ {n}) \cup {new} ELSE route

(* The fields of an edit; Same is "not in the input".  An empty key and an *)
(* empty list mean no change.                                              *)
Same == "same"
Edits == [url : Urls \cup {Same}, key : Tokens \cup {Env, Same},
          models : {Listed, Same}, enabled : {"yes", "no", Same}]

\* a list that the operator writes is Listed, whatever it names
ASSUME InputAssumption ==
  /\ Inputs \subseteq Edits
  /\ NewEntries \subseteq {e \in Entry : e.models \in {Unlisted, Listed}}

Choice(new, old) == IF new = Same THEN old ELSE new

\* enabled: a key that was missing and is now there switches the channel on
Switched(old, key, wanted) ==
  IF key = NoKey THEN "no"
  ELSE IF wanted # Same THEN wanted
  ELSE IF key = Env THEN "unset"
  ELSE IF old.enabled = "no" /\ ~Usable(old.key) THEN "yes" ELSE old.enabled

Edited(old, x) ==
  LET key == Choice(x.key, old.key)
  IN  [url |-> Choice(x.url, old.url), key |-> key,
       models |-> Choice(x.models, old.models), enabled |-> Switched(old, key, x.enabled)]

updateChannel(n, new, x) ==
  /\ file.channels[n] # Absent
  /\ new = n \/ file.channels[new] = Absent
  /\ Panel(Cured,
           [[file.channels EXCEPT ![n] = Absent] EXCEPT ![new] = Edited(file.channels[n], x)],
           Renamed(file.route, n, new))

(* After a discovery, of one channel or of all: the models known here go   *)
(* into the entry of the name, whose endpoint nobody compares.  An equal   *)
(* list may be written as well, in another order.  Nothing is loaded.      *)
saveDiscoveredModels(S) ==
  LET known == {n \in S \cap Present(file.channels) :
                  mem.channels[n] # Absent /\ mem.channels[n].models # Nothing}
  IN  /\ file.text # "unparsable" /\ known # {}
      /\ file' = [file EXCEPT !.channels =
                    [n \in Names |-> IF n \in known THEN [@[n] EXCEPT !.models = mem.channels[n].models]
                                     ELSE @[n]]]
      /\ watch' = "armed"
      /\ UNCHANGED <<mem, tick, disc, edits, touched>>

(* The operator with an editor, which may save in two steps, or save what  *)
(* load() refuses.  Nothing keeps the routes and the channels together.    *)
Texts == {"good", "unparsable", "rejected"}

Saved(channels, routing, route) ==
  /\ edits < MaxEdits
  /\ edits' = edits + 1
  /\ \E text \in Texts :
       file' = [text |-> text, routing |-> routing, channels |-> channels, route |-> route]
  /\ watch' = "armed" /\ touched' = Touch(channels)
  /\ UNCHANGED <<mem, tick, disc>>

\* one channel: added, replaced, removed, moved, or back to automatic discovery
Handwritten(n) ==
  NewEntries \cup {Absent} \cup
  IF file.channels[n] = Absent THEN {}
  ELSE {[file.channels[n] EXCEPT !.url = url] : url \in Urls}
       \cup {[file.channels[n] EXCEPT !.models = Unlisted]}

EntryByHand(n, e) ==
  /\ e \in Handwritten(n)
  /\ Saved([file.channels EXCEPT ![n] = e], 1 - file.routing, file.route)

RouteByHand(route) == Saved(file.channels, 1 - file.routing, route)

ByHand == \/ \E n \in Names : \E e \in Handwritten(n) : EntryByHand(n, e)
          \/ \E route \in SUBSET Names : RouteByHand(route)

Repair ==
  /\ file.text # "good"
  /\ file' = [file EXCEPT !.text = "good"]
  /\ watch' = "armed"
  /\ UNCHANGED <<mem, tick, disc, edits, touched>>

-----------------------------------------------------------------------------
(* discoverAll(), which keeps an object over its await; one request of it. *)

NoChannel == "no channel"
ASSUME NameAssumption == NoChannel \notin Names

Free == [name |-> NoChannel, live |-> FALSE]

\* force: listed models are asked for as well
Discover(n) ==
  /\ disc = Free
  /\ mem.channels[n] # Absent /\ mem.channels[n].enabled
  /\ disc' = [name |-> n, live |-> TRUE]
  /\ UNCHANGED <<file, mem, watch, tick, edits, touched>>

Discovered ==
  /\ disc # Free
  /\ disc' = Free
  /\ mem' = IF disc.live THEN [mem EXCEPT !.channels[disc.name].models = mem.channels[disc.name].url]
            ELSE mem
  /\ UNCHANGED <<file, watch, tick, edits, touched>>

DiscoveryFails ==
  /\ disc # Free
  /\ disc' = Free
  /\ UNCHANGED <<file, mem, watch, tick, edits, touched>>

-----------------------------------------------------------------------------
(* workbuddyTick(): for every account, renew the token, ask for the        *)
(* balance, write back.  pc is "next" between accounts, "renewing" or      *)
(* "asking" during a request.                                              *)

NoTick == [pc |-> "idle", live |-> FALSE, array |-> [n \in Names |-> Absent], left |-> {},
           name |-> NoChannel, key |-> NoKey]

Array == IF tick.live THEN mem.channels ELSE tick.array

\* the accounts among the channels; nothing but the tick changes what this tests
Visited(o) == o # Absent /\ o.url \in Accounts /\ o.enabled /\ o.key # NoKey

TickStarts ==
  /\ tick.pc = "idle"
  /\ LET accounts == {n \in Names : Visited(mem.channels[n])}
     IN  /\ accounts # {}
         /\ tick' = [NoTick EXCEPT !.pc = "next", !.live = TRUE, !.left = accounts]
  /\ touched' = IF watch = "idle" /\ file.text = "good" THEN {} ELSE Names
  /\ UNCHANGED <<file, mem, watch, disc, edits>>

TickVisits(n) ==
  /\ tick.pc = "next" /\ n \in tick.left
  /\ LET o == Array[n]
     IN  tick' = [tick EXCEPT !.pc = "renewing", !.left = @ \ {n}, !.name = n, !.key = o.key]
  /\ UNCHANGED <<file, mem, watch, disc, edits, touched>>

\* refreshAccountToken()
Renewed ==
  /\ tick.pc = "renewing"
  /\ \E key \in Tokens \ {tick.key} : tick' = [tick EXCEPT !.pc = "asking", !.key = key]
  /\ UNCHANGED <<file, mem, watch, disc, edits, touched>>

\* it fails, or there is no refresh token
RenewalFails ==
  /\ tick.pc = "renewing"
  /\ tick' = [tick EXCEPT !.pc = "asking"]
  /\ UNCHANGED <<file, mem, watch, disc, edits, touched>>

\* updateChannelFields(): what the tick has changed, and nothing else
WriteBack(e, o) ==
  IF tick.key # o.key THEN [e EXCEPT !.key = tick.key] ELSE e

\* mutant: the watcher is told to ignore the gateway's own writes
WatchIgnores == watch

WatchSees == "armed"

\* the balance has come, or not; the object changes even where the file cannot be written
TickWrites(balance) ==
  /\ tick.pc = "asking"
  /\ LET n == tick.name
         o == Array[n]
         changed == balance \/ tick.key # o.key
         written == changed /\ file.text # "unparsable" /\ file.channels[n] # Absent
         back == IF written THEN [file EXCEPT !.channels[n] = WriteBack(@, o)] ELSE file
     IN  /\ mem' = IF tick.live THEN [mem EXCEPT !.channels[n].key = tick.key]
                   ELSE mem
         /\ file' = back
         /\ watch' = IF written /\ (balance \/ back # file) THEN WatchSees ELSE watch
  /\ tick' = [tick EXCEPT !.pc = "next", !.name = NoChannel, !.key = NoKey]
  /\ UNCHANGED <<disc, edits, touched>>

TickEnds ==
  /\ tick.pc = "next" /\ tick.left = {}
  /\ tick' = NoTick /\ touched' = {}
  /\ UNCHANGED <<file, mem, watch, disc, edits>>

Tick == \/ TickStarts \/ Renewed \/ RenewalFails \/ TickEnds
        \/ \E n \in Names : TickVisits(n)
        \/ \E balance \in BOOLEAN : TickWrites(balance)

-----------------------------------------------------------------------------
(* A restart reads the file; with a bad one the gateway does not come up.  *)
NoMemory == [routing |-> 0, route |-> {}, channels |-> [n \in Names |-> Absent]]

Restart ==
  /\ file.text = "good"
  /\ mem' = Loaded(file, NoMemory)
  /\ watch' = "idle" /\ tick' = NoTick /\ disc' = Free /\ touched' = {}
  /\ UNCHANGED <<file, edits>>

Init ==
  /\ \E f \in Initials :
       file = [text |-> "good", routing |-> 0, channels |-> f.channels, route |-> f.route]
  /\ mem = Loaded(file, NoMemory)
  /\ watch = "idle" /\ tick = NoTick /\ disc = Free
  /\ edits = 0 /\ touched = {}

Next ==
  \/ WatchFires \/ ReloadRequested \/ Repair \/ Restart
  \/ \E n \in Names, e \in NewEntries : addChannel(n, e)
  \/ \E n \in Names : removeChannel(n)
  \/ \E n, new \in Names, x \in Inputs : updateChannel(n, new, x)
  \/ \E n \in Names : saveDiscoveredModels({n})
  \/ saveDiscoveredModels(Names)
  \/ ByHand
  \/ \E n \in Names : Discover(n)
  \/ Discovered \/ DiscoveryFails
  \/ Tick

Spec == Init /\ [][Next]_vars
-----------------------------------------------------------------------------
HeldKeys == Keys \cup {EnvKey}
Object == [url : Urls, key : HeldKeys,
           enabled : BOOLEAN, routing : {0, 1}, models : Urls \cup {Listed, Nothing}]

Files == [text : Texts, routing : {0, 1},
          channels : [Names -> Entry \cup {Absent}], route : SUBSET Names]
Memories == [routing : {0, 1}, channels : [Names -> Object \cup {Absent}], route : SUBSET Names]
Ticks == [pc : {"idle", "next", "renewing", "asking"}, live : BOOLEAN,
          array : [Names -> [url : Urls, key : HeldKeys] \cup {Absent}],
          left : SUBSET Names, name : Names \cup {NoChannel}, key : HeldKeys]

TypeOK ==
  /\ file \in Files
  /\ mem \in Memories
  /\ watch \in {"idle", "armed"}
  /\ disc \in [name : Names \cup {NoChannel}, live : BOOLEAN]
  /\ tick \in Ticks
  /\ edits \in 0 .. MaxEdits
  /\ touched \subseteq Names

Agrees(o, e) ==
  IF e = Absent THEN o = Absent
  ELSE /\ o # Absent
       /\ o.url = e.url /\ o.key = Expanded(e.key)
       /\ e.models # Unlisted => o.models # Nothing

InSync ==
  /\ mem.routing = file.routing /\ mem.route = file.route
  /\ \A n \in Names : Agrees(mem.channels[n], file.channels[n])

\* the watcher has nothing to look at, and what it saw last was not refused
Settled == watch = "idle" /\ file.text = "good"

(* Whoever writes the file, in whatever order with loads, renewals and     *)
(* failed loads: unless the watcher still has to look or the file is bad,  *)
(* the gateway runs what the file says.                                    *)
InSyncUnlessPending == TypeOK /\ (Settled => InSync)

Configuration(x) == [routing |-> x.routing, route |-> x.route, names |-> Present(x.channels)]
Orphans(x) == x.route \ Present(x.channels)

(* A configuration comes into force as one, and only a good one: the       *)
(* manager never goes by the routing of one file, the routes of another    *)
(* and the channels of a third, nor by channels built with a routing it    *)
(* does not have.  load() does not ask whether a route names channels; but *)
(* only the operator's own hand writes a route that does not: the panel,   *)
(* the tick and the discovery leave no name behind.                        *)
OneConfiguration ==
  [][/\ \/ Configuration(mem') = Configuration(mem)
        \/ file'.text = "good" /\ Configuration(mem') = Configuration(file')
     /\ \A n \in Present(mem'.channels) : mem'.channels[n].routing = mem'.routing
     /\ Orphans(file') \subseteq Orphans(file) \/ ByHand]_vars

\* the channels whose models were found at another endpoint
Foreign(channels) == {n \in Present(channels) : channels[n].models \in Urls \ {channels[n].url}}

Readdressed ==
  {n \in Names : file.channels[n] = Absent \/ file'.channels[n].url # file.channels[n].url}

(* Models found at one endpoint are not taken for those of another one,    *)
(* although a load keeps what was found and answers come after an edit: in *)
(* memory only what the file says so, and in the file only an entry that   *)
(* was moved with its list.  The exception: saveDiscoveredModels() before  *)
(* the watcher has looked, or while the file is refused, writes the models *)
(* of the endpoint in memory into an entry that may have another by now.   *)
ModelsOfTheEndpoint ==
  [][/\ Foreign(mem'.channels) \subseteq Foreign(mem.channels) \cup Foreign(file'.channels)
     /\ Settled => Foreign(file'.channels) \subseteq
                     Foreign(file.channels) \cup Foreign(mem.channels) \cup Readdressed]_vars

(* The tick writes one key into one entry, and into the entry of the       *)
(* account that key was renewed for, with the key it was renewed from:     *)
(* however old its picture of the channels is, whatever was loaded,        *)
(* discovered or refused in between.  The exception: updateChannelFields() *)
(* finds the entry by its name alone, so an entry that was edited since    *)
(* the tick began, or before it and not yet loaded, may be another one.    *)
RenewsWhatItAsked ==
  [][LET n == tick.name
         e == file.channels[n]
     IN  tick.pc = "asking" /\ tick'.pc = "next" /\ file' # file =>
           /\ file' = [file EXCEPT !.channels[n].key = tick.key]
           /\ n \in touched \/ (e.url = Array[n].url /\ Expanded(e.key) = Array[n].key)]_vars

(* src/lib/channels.mjs:1425: an edit covers only the fields it was given. *)
(* A channel that is switched off and has its key stays off unless the     *)
(* edit says otherwise.                                                    *)
SwitchedOffStaysOff ==
  [][\A n \in Names, x \in Inputs :
       /\ x.enabled = Same /\ x.key = Same /\ file.channels[n] # Absent
       /\ file.channels[n].enabled = "no" /\ file.channels[n].key # NoKey
       /\ updateChannel(n, n, x)
       => file'.channels[n].enabled = "no"]_vars
=============================================================================
