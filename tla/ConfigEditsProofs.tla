------------------------- MODULE ConfigEditsProofs --------------------------
(***************************************************************************)
(* Proofs about ConfigEdits.tla, for any channels, endpoints, tokens,      *)
(* inputs and number of edits.                                             *)
(***************************************************************************)
EXTENDS ConfigEdits, TLAPS

\* a memory whose channels were built with the routing it goes by
MemOK(m) ==
  /\ m \in Memories
  /\ \A n \in Present(m.channels) : m.channels[n].routing = m.routing

Matches(m, f) ==
  /\ m.routing = f.routing /\ m.route = f.route
  /\ \A n \in Names : Agrees(m.channels[n], f.channels[n])

(* The tick finds what is ahead of it, in the memory or in the array it    *)
(* still walks along; the key it holds is a renewed one or the one the     *)
(* account has there.                                                      *)
Finds(t, m) ==
  LET array == IF t.live THEN m.channels ELSE t.array
  IN  /\ \A n \in t.left : array[n] # Absent
      /\ t.pc \in {"renewing", "asking"} =>
           /\ t.name \in Names /\ array[t.name] # Absent
           /\ t.key \in Tokens \/ t.key = array[t.name].key
      /\ t.pc \in {"idle", "next"} => t.name = NoChannel

\* a discovery holds an object of the manager, unless it has lost it
Holds(d, m) == d.live => d.name \in Names /\ m.channels[d.name] # Absent

Idle(w, f) == w = "idle" /\ f.text = "good"

Inv ==
  /\ file \in Files /\ MemOK(mem)
  /\ tick \in Ticks /\ Finds(tick, mem)
  /\ disc \in [name : Names \cup {NoChannel}, live : BOOLEAN] /\ Holds(disc, mem)
  /\ watch \in {"idle", "armed"} /\ edits \in 0 .. MaxEdits
  /\ Idle(watch, file) => Matches(mem, file)

-----------------------------------------------------------------------------
(* Loading.                                                                *)

LEMMA AbsentIsNoEntry == Absent \notin Entry /\ Absent \notin Object
BY UrlAssumption DEF Absent, Entry, Object

LEMMA ExpandedKey == \A key \in Keys : Expanded(key) \in HeldKeys
BY DEF Expanded, Keys, HeldKeys

LEMMA BuiltOK ==
  ASSUME NEW e \in Entry, NEW old \in Object \cup {Absent}, NEW routing \in {0, 1}
  PROVE  LET o == Built(e, old, routing)
         IN  /\ o \in Object /\ o.routing = routing
             /\ Agrees(o, e)
             /\ o.models \in Urls =>
                  \/ o.models = e.models
                  \/ old # Absent /\ old.url = e.url /\ o.models = old.models
<1> DEFINE models == CASE e.models # Unlisted -> e.models
                       [] e.models = Unlisted /\ Keeps(e, old) -> old.models
                       [] OTHER -> Nothing
           o == Built(e, old, routing)
<1>1. /\ models \in Urls \cup {Listed, Nothing}
      /\ models \in Urls => \/ models = e.models
                            \/ old # Absent /\ old.url = e.url /\ models = old.models
      /\ e.models # Unlisted => models # Nothing
  <2>1. CASE e.models # Unlisted
    <3>1. models = e.models /\ e.models \in Urls \cup {Listed}
      BY <2>1 DEF Entry
    <3>2. Nothing \notin Urls \cup {Listed}
      BY UrlAssumption DEF Nothing, Listed
    <3> QED
      BY <3>1, <3>2
  <2>2. CASE e.models = Unlisted /\ Keeps(e, old)
    <3>1. models = old.models
      BY <2>2
    <3>2. old \in Object /\ old.url = e.url
      BY <2>2 DEF Keeps
    <3> QED
      BY <2>2, <3>1, <3>2, AbsentIsNoEntry DEF Object
  <2>3. CASE e.models = Unlisted /\ ~Keeps(e, old)
    <3>1. models = Nothing
      BY <2>3
    <3> QED
      BY <2>3, <3>1, UrlAssumption DEF Nothing
  <2> QED
    BY <2>1, <2>2, <2>3
<1>2. o = [url |-> e.url, key |-> Expanded(e.key), enabled |-> Enabled(e),
           routing |-> routing, models |-> models]
  BY DEF Built
<1> HIDE DEF models
<1>3. Expanded(e.key) \in HeldKeys /\ Enabled(e) \in BOOLEAN /\ e.url \in Urls
  BY ExpandedKey DEF Entry, Enabled
<1>4. o \in Object
  BY <1>1, <1>2, <1>3 DEF Object
<1>5. e # Absent /\ o # Absent
  BY <1>4, AbsentIsNoEntry
<1> QED
  BY <1>1, <1>2, <1>4, <1>5 DEF Agrees

LEMMA LoadedOK ==
  ASSUME NEW f \in Files, NEW m, MemOK(m)
  PROVE  /\ MemOK(Loaded(f, m)) /\ Matches(Loaded(f, m), f)
         /\ Present(Loaded(f, m).channels) = Present(f.channels)
         /\ Foreign(Loaded(f, m).channels) \subseteq Foreign(m.channels) \cup Foreign(f.channels)
<1> DEFINE channels == [n \in Names |-> IF f.channels[n] = Absent THEN Absent
                                        ELSE Built(f.channels[n], m.channels[n], f.routing)]
<1>1. /\ f.channels \in [Names -> Entry \cup {Absent}] /\ f.routing \in {0, 1}
      /\ f.route \subseteq Names
  BY DEF Files
<1>2. m.channels \in [Names -> Object \cup {Absent}]
  BY DEF MemOK, Memories
<1>3. ASSUME NEW n \in Names
      PROVE  /\ channels[n] \in Object \cup {Absent}
             /\ channels[n] = Absent <=> f.channels[n] = Absent
             /\ channels[n] # Absent => channels[n].routing = f.routing
             /\ Agrees(channels[n], f.channels[n])
             /\ channels[n] # Absent /\ channels[n].models \in Urls =>
                  \/ channels[n].models = f.channels[n].models
                  \/ /\ m.channels[n] # Absent /\ m.channels[n].url = f.channels[n].url
                     /\ channels[n].models = m.channels[n].models
  <2>1. CASE f.channels[n] = Absent
    BY <2>1 DEF Agrees
  <2>2. CASE f.channels[n] # Absent
    <3>1. f.channels[n] \in Entry /\ m.channels[n] \in Object \cup {Absent}
      BY <1>1, <1>2, <2>2
    <3>2. channels[n] = Built(f.channels[n], m.channels[n], f.routing)
      BY <2>2
    <3> HIDE DEF channels
    <3> DEFINE e == f.channels[n]
               old == m.channels[n]
               o == Built(e, old, f.routing)
    <3>3. f.routing \in {0, 1} /\ e \in Entry /\ old \in Object \cup {Absent}
      BY <1>1, <3>1
    <3> HIDE DEF e, old
    <3>4. /\ o \in Object /\ o.routing = f.routing /\ Agrees(o, e)
          /\ o.models \in Urls =>
               \/ o.models = e.models
               \/ old # Absent /\ old.url = e.url /\ o.models = old.models
      BY <3>3, BuiltOK
    <3> HIDE DEF o
    <3>5. channels[n] = o
      BY <3>2 DEF o, e, old
    <3> QED
      BY <2>2, <3>4, <3>5, AbsentIsNoEntry DEF e, old
  <2> QED
    BY <2>1, <2>2
<1>4. Loaded(f, m) = [routing |-> f.routing, route |-> f.route, channels |-> channels]
  BY DEF Loaded
<1>5. channels \in [Names -> Object \cup {Absent}]
  BY <1>3
<1> HIDE DEF channels
<1>6. Loaded(f, m) \in Memories
  BY <1>1, <1>4, <1>5 DEF Memories
<1>7. /\ Loaded(f, m).channels = channels /\ Loaded(f, m).routing = f.routing
      /\ Loaded(f, m).route = f.route
  BY <1>4
<1>8. Present(channels) = Present(f.channels)
  BY <1>3 DEF Present
<1>9. MemOK(Loaded(f, m)) /\ Matches(Loaded(f, m), f)
  BY <1>1, <1>3, <1>6, <1>7 DEF MemOK, Matches, Present
<1>10. ASSUME NEW n \in Foreign(channels) PROVE n \in Foreign(m.channels) \cup Foreign(f.channels)
  <2>1. /\ n \in Names /\ channels[n] # Absent /\ channels[n].models \in Urls
        /\ channels[n].models # channels[n].url
    BY <1>10 DEF Foreign, Present
  <2>2. f.channels[n] # Absent /\ channels[n].url = f.channels[n].url
    BY <1>3, <2>1 DEF Agrees
  <2> QED
    BY <1>3, <2>1, <2>2 DEF Foreign, Present
<1> QED
  BY <1>7, <1>8, <1>9, <1>10

LEMMA RereadOK ==
  ASSUME NEW f \in Files, NEW m, MemOK(m)
  PROVE  /\ MemOK(Reread(f, m))
         /\ f.text = "good" => /\ Matches(Reread(f, m), f)
                               /\ Present(Reread(f, m).channels) = Present(f.channels)
         /\ f.text # "good" => Reread(f, m) = m
         /\ Foreign(Reread(f, m).channels) \subseteq Foreign(m.channels) \cup Foreign(f.channels)
<1>1. f.text \in {"good", "unparsable", "rejected"}
  BY DEF Files, Texts
<1>2. CASE f.text = "good"
  <2>1. Reread(f, m) = Loaded(f, m)
    BY <1>2 DEF Reread
  <2> QED
    BY <1>2, <2>1, LoadedOK
<1>3. CASE f.text \in {"unparsable", "rejected"}
  <2>1. Reread(f, m) = m
    BY <1>3 DEF Reread, Refused
  <2> QED
    BY <1>3, <2>1
<1> QED
  BY <1>1, <1>2, <1>3

\* the fields of the tick that a step sets
LEMMA TickSetters ==
  /\ \A t \in Ticks : \A v \in {"idle", "next", "renewing", "asking"} : [t EXCEPT !.pc = v] \in Ticks
  /\ \A t \in Ticks : \A v \in BOOLEAN : [t EXCEPT !.live = v] \in Ticks
  /\ \A t \in Ticks : \A v \in [Names -> [url : Urls, key : HeldKeys] \cup {Absent}] :
       [t EXCEPT !.array = v] \in Ticks
  /\ \A t \in Ticks : \A v \in SUBSET Names : [t EXCEPT !.left = v] \in Ticks
  /\ \A t \in Ticks : \A v \in Names \cup {NoChannel} : [t EXCEPT !.name = v] \in Ticks
  /\ \A t \in Ticks : \A v \in HeldKeys : [t EXCEPT !.key = v] \in Ticks
<1>1. \A t \in Ticks : \A v \in {"idle", "next", "renewing", "asking"} : [t EXCEPT !.pc = v] \in Ticks
  BY DEF Ticks
<1>2. \A t \in Ticks : \A v \in BOOLEAN : [t EXCEPT !.live = v] \in Ticks
  BY DEF Ticks
<1>3. \A t \in Ticks : \A v \in [Names -> [url : Urls, key : HeldKeys] \cup {Absent}] :
        [t EXCEPT !.array = v] \in Ticks
  BY DEF Ticks
<1>4. \A t \in Ticks : \A v \in SUBSET Names : [t EXCEPT !.left = v] \in Ticks
  BY DEF Ticks
<1>5. \A t \in Ticks : \A v \in Names \cup {NoChannel} : [t EXCEPT !.name = v] \in Ticks
  BY DEF Ticks
<1>6. \A t \in Ticks : \A v \in HeldKeys : [t EXCEPT !.key = v] \in Ticks
  BY DEF Ticks
<1> QED
  BY <1>1, <1>2, <1>3, <1>4, <1>5, <1>6

\* a load takes their objects from the tick and from a discovery
LEMMA DetachOK ==
  ASSUME Inv, NEW f \in Files, Load(f)
  PROVE  /\ MemOK(mem)' /\ (f.text = "good" => Matches(mem', f))
         /\ tick' \in Ticks /\ Finds(tick, mem)'
         /\ disc' \in [name : Names \cup {NoChannel}, live : BOOLEAN] /\ Holds(disc, mem)'
<1>1. mem' = Reread(f, mem) /\ Detach(f)
  BY DEF Load
<1>2. MemOK(mem') /\ (f.text = "good" => Matches(mem', f)) /\ (f.text # "good" => mem' = mem)
  BY <1>1, RereadOK DEF Inv
<1>3. /\ tick \in Ticks /\ Finds(tick, mem) /\ MemOK(mem)
      /\ disc \in [name : Names \cup {NoChannel}, live : BOOLEAN] /\ Holds(disc, mem)
  BY DEF Inv
<1>4. CASE f.text # "good"
  BY <1>1, <1>2, <1>3, <1>4 DEF Detach, MemOK, Finds, Holds
<1>5. CASE f.text = "good"
  <2>1. disc' = [disc EXCEPT !.live = FALSE]
    BY <1>1, <1>5 DEF Detach
  <2>2. disc' \in [name : Names \cup {NoChannel}, live : BOOLEAN] /\ Holds(disc, mem)'
    BY <1>3, <2>1 DEF Holds
  <2>3. CASE ~tick.live
    <3>1. tick' = tick
      BY <1>1, <1>5, <2>3 DEF Detach
    <3> QED
      BY <1>2, <1>3, <2>2, <2>3, <3>1 DEF Finds, MemOK
  <2>4. CASE tick.live
    <3> DEFINE array == [n \in Names |-> IF n \in tick.left \cup {tick.name}
                                         THEN Glimpse(mem.channels[n]) ELSE Absent]
    <3>1. tick' = [[tick EXCEPT !.live = FALSE] EXCEPT !.array = array]
      BY <1>1, <1>5, <2>4 DEF Detach, Ahead
    <3>2. /\ \A n \in tick.left : mem.channels[n] # Absent
          /\ tick.pc \in {"renewing", "asking"} =>
               /\ tick.name \in Names /\ mem.channels[tick.name] # Absent
               /\ tick.key \in Tokens \/ tick.key = mem.channels[tick.name].key
          /\ tick.pc \in {"idle", "next"} => tick.name = NoChannel
          /\ tick.left \subseteq Names /\ tick.pc \in {"idle", "next", "renewing", "asking"}
          /\ mem.channels \in [Names -> Object \cup {Absent}]
      BY <1>3, <2>4 DEF Finds, Ticks, MemOK, Memories
    <3>3. ASSUME NEW n \in Names, n \in tick.left \cup {tick.name}
          PROVE  /\ array[n] \in [url : Urls, key : HeldKeys] /\ array[n] # Absent
                 /\ array[n].key = mem.channels[n].key
      <4>1. mem.channels[n] \in Object
        BY <3>2, <3>3, NameAssumption
      <4>2. array[n] = [url |-> mem.channels[n].url, key |-> mem.channels[n].key]
        BY <3>3 DEF Glimpse
      <4> HIDE DEF array
      <4> QED
        BY <4>1, <4>2, UrlAssumption DEF Object, Absent
    <3>4. array \in [Names -> [url : Urls, key : HeldKeys] \cup {Absent}]
      BY <3>3
    <3> HIDE DEF array
    <3>5. tick' \in Ticks
      BY <1>3, <3>1, <3>4, TickSetters
    <3>6. /\ tick'.live = FALSE /\ tick'.array = array /\ tick'.left = tick.left
          /\ tick'.pc = tick.pc /\ tick'.name = tick.name /\ tick'.key = tick.key
      BY <1>3, <3>1 DEF Ticks
    <3>7. Finds(tick', mem')
      BY <3>2, <3>3, <3>6 DEF Finds
    <3> QED
      BY <1>2, <1>5, <2>2, <3>5, <3>7 DEF MemOK, Finds, Holds
  <2> QED
    BY <2>3, <2>4
<1> QED
  BY <1>4, <1>5

-----------------------------------------------------------------------------
(* The writers of the file.                                                *)

LEMMA PanelOK ==
  ASSUME Inv, NEW texts, texts \subseteq Texts,
         NEW channels \in [Names -> Entry \cup {Absent}], NEW route \in SUBSET Names,
         Panel(texts, channels, route)
  PROVE  /\ Inv' /\ file'.channels = channels /\ file'.route = route
<1>1. PICK text \in texts : file' = [file EXCEPT !.text = text, !.channels = channels, !.route = route]
  BY DEF Panel
<1>2. file \in Files /\ text \in Texts
  BY DEF Inv
<1>3. /\ file' = [text |-> text, routing |-> file.routing, channels |-> channels, route |-> route]
      /\ file.routing \in {0, 1}
  BY <1>1, <1>2 DEF Files
<1>4. file' \in Files
  BY <1>2, <1>3 DEF Files
<1>5. /\ MemOK(mem)' /\ tick' \in Ticks /\ Finds(tick, mem)'
      /\ disc' \in [name : Names \cup {NoChannel}, live : BOOLEAN] /\ Holds(disc, mem)'
  BY <1>4, DetachOK DEF Panel
<1>6. watch' = "armed" /\ edits' \in 0 .. MaxEdits
  BY BoundAssumption DEF Panel, Inv
<1> QED
  BY <1>3, <1>4, <1>5, <1>6 DEF Inv, Idle

LEMMA CuredTexts == ASSUME file \in Files PROVE Cured \subseteq Texts
BY DEF Cured, Files, Texts

LEMMA EditedOK ==
  ASSUME NEW old \in Entry, NEW edit \in Inputs
  PROVE  Edited(old, edit) \in Entry
<1>1. /\ edit.url \in Urls \cup {Same} /\ edit.key \in Tokens \cup {Env, Same}
      /\ edit.models \in {Listed, Same} /\ edit.enabled \in {"yes", "no", Same}
  BY InputAssumption DEF Edits
<1>2. /\ old.url \in Urls /\ old.key \in Keys /\ old.models \in Urls \cup {Unlisted, Listed}
      /\ old.enabled \in {"unset", "yes", "no"}
  BY DEF Entry
<1> DEFINE key == Choice(edit.key, old.key)
<1>3. key \in Keys
  BY <1>1, <1>2 DEF Choice, Keys
<1> HIDE DEF key
<1>4. Switched(old, key, edit.enabled) \in {"unset", "yes", "no"}
  BY <1>1, <1>2 DEF Switched
<1>5. Choice(edit.url, old.url) \in Urls /\ Choice(edit.models, old.models) \in Urls \cup {Unlisted, Listed}
  BY <1>1, <1>2 DEF Choice
<1>6. Edited(old, edit) = [url |-> Choice(edit.url, old.url), key |-> key,
                           models |-> Choice(edit.models, old.models),
                           enabled |-> Switched(old, key, edit.enabled)]
  BY DEF Edited, key
<1> QED
  BY <1>3, <1>4, <1>5, <1>6 DEF Entry

\* what the three edits of the panel make of the channels and the route
LEMMA AddOK ==
  ASSUME Inv, NEW n \in Names, NEW e \in NewEntries, addChannel(n, e)
  PROVE  /\ Inv' /\ file'.route = file.route
         /\ e \in Entry /\ file.channels[n] = Absent
         /\ \A k \in Names : file'.channels[k] = IF k = n THEN e ELSE file.channels[k]
<1>1. /\ file.channels \in [Names -> Entry \cup {Absent}] /\ file.text \in Texts
      /\ file.route \in SUBSET Names /\ e \in Entry /\ file.channels[n] = Absent
  BY InputAssumption DEF Inv, Files, addChannel
<1> DEFINE channels == [file.channels EXCEPT ![n] = e]
<1>2. channels \in [Names -> Entry \cup {Absent}]
  BY <1>1
<1>3. Panel({file.text}, channels, file.route)
  BY DEF addChannel
<1>4. \A k \in Names : channels[k] = IF k = n THEN e ELSE file.channels[k]
  BY <1>1
<1> HIDE DEF channels
<1>5. Inv' /\ file'.channels = channels /\ file'.route = file.route
  BY <1>1, <1>2, <1>3, PanelOK
<1> QED
  BY <1>1, <1>4, <1>5

LEMMA RemoveOK ==
  ASSUME Inv, NEW n \in Names, removeChannel(n)
  PROVE  /\ Inv' /\ file'.route = file.route \ {n}
         /\ \A k \in Names : file'.channels[k] = IF k = n THEN Absent ELSE file.channels[k]
<1>1. file.channels \in [Names -> Entry \cup {Absent}] /\ file.route \in SUBSET Names
  BY DEF Inv, Files
<1> DEFINE channels == [file.channels EXCEPT ![n] = Absent]
           route == file.route \ {n}
<1>2. channels \in [Names -> Entry \cup {Absent}] /\ route \in SUBSET Names
  BY <1>1
<1>3. Panel(Cured, channels, route) /\ Cured \subseteq Texts
  BY CuredTexts DEF removeChannel, Inv
<1>4. \A k \in Names : channels[k] = IF k = n THEN Absent ELSE file.channels[k]
  BY <1>1
<1> HIDE DEF channels
<1>5. Inv' /\ file'.channels = channels /\ file'.route = route
  BY <1>2, <1>3, PanelOK
<1> QED
  BY <1>4, <1>5

LEMMA UpdateOK ==
  ASSUME Inv, NEW n \in Names, NEW new \in Names, NEW edit \in Inputs, updateChannel(n, new, edit)
  PROVE  LET e == Edited(file.channels[n], edit)
         IN  /\ Inv' /\ file'.route = Renamed(file.route, n, new)
             /\ e \in Entry /\ file.channels[n] \in Entry
             /\ \A k \in Names : file'.channels[k] = IF k = new THEN e
                                                    ELSE IF k = n THEN Absent ELSE file.channels[k]
<1>1. /\ file.channels \in [Names -> Entry \cup {Absent}] /\ file.channels[n] \in Entry
      /\ file.route \in SUBSET Names
  BY DEF Inv, Files, updateChannel
<1> DEFINE e == Edited(file.channels[n], edit)
           channels == [[file.channels EXCEPT ![n] = Absent] EXCEPT ![new] = e]
           route == Renamed(file.route, n, new)
<1>2. e \in Entry
  BY <1>1, EditedOK
<1>3. Panel(Cured, channels, route) /\ Cured \subseteq Texts
  BY CuredTexts DEF updateChannel, Inv
<1> HIDE DEF e
<1>4. channels \in [Names -> Entry \cup {Absent}]
  BY <1>1, <1>2
<1>5. \A k \in Names : channels[k] = IF k = new THEN e ELSE IF k = n THEN Absent ELSE file.channels[k]
  BY <1>1
<1>6. route \in SUBSET Names
  BY <1>1 DEF Renamed
<1> HIDE DEF channels, route
<1>7. Inv' /\ file'.channels = channels /\ file'.route = route
  BY <1>3, <1>4, <1>6, PanelOK
<1> QED
  BY <1>1, <1>2, <1>5, <1>7 DEF e, route

\* where the file alone changes, and the watcher sees it
LEMMA FileAlone ==
  ASSUME Inv, file' \in Files, watch' = "armed", UNCHANGED <<mem, tick, disc>>,
         edits' \in 0 .. MaxEdits
  PROVE  Inv'
BY DEF Inv, MemOK, Finds, Holds, Idle

LEMMA SaveOK ==
  ASSUME Inv, NEW S \in SUBSET Names, saveDiscoveredModels(S)
  PROVE  /\ Inv' /\ file'.route = file.route
         /\ \A n \in Names :
              \/ file'.channels[n] = file.channels[n]
              \/ /\ file.channels[n] # Absent /\ file'.channels[n] # Absent
                 /\ mem.channels[n] # Absent
                 /\ file'.channels[n].url = file.channels[n].url
                 /\ file'.channels[n].key = file.channels[n].key
                 /\ file'.channels[n].models = mem.channels[n].models
<1> DEFINE known == {n \in S \cap Present(file.channels) :
                       mem.channels[n] # Absent /\ mem.channels[n].models # Nothing}
           saved(n) == [file.channels[n] EXCEPT !.models = mem.channels[n].models]
           channels == [n \in Names |-> IF n \in known THEN saved(n) ELSE file.channels[n]]
<1>1. /\ file \in Files /\ file.channels \in [Names -> Entry \cup {Absent}]
      /\ mem.channels \in [Names -> Object \cup {Absent}]
  BY DEF Inv, Files, MemOK, Memories
<1>2. ASSUME NEW n \in known
      PROVE  /\ n \in Names /\ file.channels[n] # Absent /\ mem.channels[n] # Absent
             /\ saved(n) \in Entry /\ saved(n) # Absent
             /\ saved(n).url = file.channels[n].url /\ saved(n).key = file.channels[n].key
             /\ saved(n).models = mem.channels[n].models
  <2>1. /\ n \in Names /\ file.channels[n] # Absent /\ mem.channels[n] # Absent
        /\ mem.channels[n].models # Nothing
    BY <1>2 DEF Present
  <2>2. file.channels[n] \in Entry /\ mem.channels[n].models \in Urls \cup {Listed}
    BY <1>1, <2>1 DEF Object
  <2>3. /\ saved(n) \in Entry
        /\ saved(n).url = file.channels[n].url /\ saved(n).key = file.channels[n].key
        /\ saved(n).models = mem.channels[n].models
    BY <2>2 DEF Entry
  <2> QED
    BY <2>1, <2>3, AbsentIsNoEntry
<1>3. file' = [file EXCEPT !.channels = channels]
  BY DEF saveDiscoveredModels
<1>4. \A n \in Names : channels[n] = IF n \in known THEN saved(n) ELSE file.channels[n]
  OBVIOUS
<1> HIDE DEF known, saved
<1>5. channels \in [Names -> Entry \cup {Absent}]
  BY <1>1, <1>2
<1> HIDE DEF channels
<1>6. file' \in Files /\ file'.route = file.route /\ file'.channels = channels
  BY <1>1, <1>3, <1>5 DEF Files
<1>7. Inv'
  BY <1>6, FileAlone DEF saveDiscoveredModels, Inv
<1> QED
  BY <1>2, <1>4, <1>6, <1>7

LEMMA SavedOK ==
  ASSUME Inv, NEW channels \in [Names -> Entry \cup {Absent}], NEW route \in SUBSET Names,
         Saved(channels, 1 - file.routing, route)
  PROVE  Inv' /\ file'.channels = channels /\ file'.route = route
<1>1. PICK text \in Texts :
        file' = [text |-> text, routing |-> 1 - file.routing, channels |-> channels, route |-> route]
  BY DEF Saved
<1>2. file.routing \in {0, 1} /\ edits' \in 0 .. MaxEdits
  BY BoundAssumption DEF Inv, Files, Saved
<1>3. file' \in Files
  BY <1>1, <1>2 DEF Files
<1> QED
  BY <1>1, <1>2, <1>3, FileAlone DEF Saved

LEMMA EntryByHandOK ==
  ASSUME Inv, NEW n \in Names, NEW e \in Handwritten(n), EntryByHand(n, e)
  PROVE  /\ Inv' /\ file'.route = file.route /\ e \in Entry \cup {Absent}
         /\ e # Absent /\ e.models \in Urls =>
              /\ file.channels[n] # Absent
              /\ e.url = file.channels[n].url => e.models = file.channels[n].models
         /\ \A k \in Names : file'.channels[k] = IF k = n THEN e ELSE file.channels[k]
<1>1. file.channels \in [Names -> Entry \cup {Absent}] /\ file.route \in SUBSET Names
  BY DEF Inv, Files
<1>2. /\ e \in Entry \cup {Absent}
      /\ e # Absent /\ e.models \in Urls =>
           /\ file.channels[n] # Absent
           /\ e.url = file.channels[n].url => e.models = file.channels[n].models
  <2>1. CASE e \in NewEntries \cup {Absent}
    BY <2>1, InputAssumption, UrlAssumption
  <2>2. CASE e \notin NewEntries \cup {Absent}
    <3>1. /\ file.channels[n] # Absent
          /\ \/ \E url \in Urls : e = [file.channels[n] EXCEPT !.url = url]
             \/ e = [file.channels[n] EXCEPT !.models = Unlisted]
      BY <2>2 DEF Handwritten
    <3>2. file.channels[n] \in Entry
      BY <1>1, <3>1
    <3> QED
      BY <3>1, <3>2, UrlAssumption DEF Entry
  <2> QED
    BY <2>1, <2>2
<1> DEFINE channels == [file.channels EXCEPT ![n] = e]
<1>3. channels \in [Names -> Entry \cup {Absent}]
  BY <1>1, <1>2
<1>4. Saved(channels, 1 - file.routing, file.route)
  BY DEF EntryByHand
<1>5. \A k \in Names : channels[k] = IF k = n THEN e ELSE file.channels[k]
  BY <1>1
<1> HIDE DEF channels
<1> QED
  BY <1>1, <1>2, <1>3, <1>4, <1>5, SavedOK

LEMMA RouteByHandOK ==
  ASSUME Inv, NEW route \in SUBSET Names, RouteByHand(route)
  PROVE  Inv' /\ file'.channels = file.channels
<1>1. file.channels \in [Names -> Entry \cup {Absent}]
  BY DEF Inv, Files
<1> QED
  BY <1>1, SavedOK DEF RouteByHand

LEMMA RepairOK ==
  ASSUME Inv, Repair
  PROVE  Inv' /\ file'.channels = file.channels /\ file'.route = file.route
<1>1. file' = [file EXCEPT !.text = "good"] /\ file \in Files
  BY DEF Repair, Inv
<1>2. file' \in Files /\ file'.route = file.route /\ file'.channels = file.channels
  BY <1>1 DEF Files, Texts
<1> QED
  BY <1>2, FileAlone DEF Repair, Inv

LEMMA LoadOK ==
  ASSUME Inv, Load(file), UNCHANGED <<file, edits>>, watch' \in {"idle", "armed"}
  PROVE  Inv'
<1>1. /\ MemOK(mem)' /\ (file.text = "good" => Matches(mem', file))
      /\ tick' \in Ticks /\ Finds(tick, mem)'
      /\ disc' \in [name : Names \cup {NoChannel}, live : BOOLEAN] /\ Holds(disc, mem)'
  BY DetachOK DEF Inv
<1> QED
  BY <1>1 DEF Inv, Idle, Matches

-----------------------------------------------------------------------------
(* The start, and those who hold objects: discovery and tick.              *)

LEMMA Beginnings ==
  /\ MemOK(NoMemory) /\ Foreign(NoMemory.channels) = {}
  /\ NoTick \in Ticks /\ \A m : Finds(NoTick, m)
  /\ Free \in [name : Names \cup {NoChannel}, live : BOOLEAN] /\ \A m : Holds(Free, m)
<1>1. MemOK(NoMemory) /\ Foreign(NoMemory.channels) = {}
  BY DEF MemOK, NoMemory, Memories, Present, Foreign
<1>2. NoTick \in Ticks
  BY DEF NoTick, Ticks, HeldKeys, Keys
<1>3. \A m : Finds(NoTick, m)
  BY DEF Finds, NoTick
<1>4. Free \in [name : Names \cup {NoChannel}, live : BOOLEAN] /\ \A m : Holds(Free, m)
  BY DEF Free, Holds
<1> QED
  BY <1>1, <1>2, <1>3, <1>4

LEMMA InitInv == Init => Inv
<1> SUFFICES ASSUME Init PROVE Inv
  OBVIOUS
<1>1. PICK f \in Initials :
        file = [text |-> "good", routing |-> 0, channels |-> f.channels, route |-> f.route]
  BY DEF Init
<1>2. f.channels \in [Names -> Entry \cup {Absent}] /\ f.route \subseteq Names
  BY InitialAssumption
<1>3. file \in Files
  BY <1>1, <1>2 DEF Files, Texts
<1>4. MemOK(mem) /\ Matches(mem, file)
  BY <1>3, Beginnings, LoadedOK DEF Init
<1> QED
  BY <1>3, <1>4, Beginnings, BoundAssumption DEF Init, Inv

LEMMA RestartOK ==
  ASSUME Inv, Restart
  PROVE  /\ Inv' /\ Configuration(mem') = Configuration(file')
         /\ Foreign(mem'.channels) \subseteq Foreign(file'.channels)
<1>1. /\ file \in Files /\ mem' = Loaded(file, NoMemory) /\ file' = file /\ edits' = edits
      /\ watch' = "idle" /\ tick' = NoTick /\ disc' = Free
  BY DEF Restart, Inv
<1>2. /\ MemOK(mem') /\ Matches(mem', file)
      /\ Present(mem'.channels) = Present(file.channels)
      /\ Foreign(mem'.channels) \subseteq Foreign(file.channels)
  BY <1>1, Beginnings, LoadedOK
<1> QED
  BY <1>1, <1>2, Beginnings DEF Inv, MemOK, Matches, Finds, Holds, Configuration

\* an object whose field is set, while no channel comes or goes
LEMMA FieldOK ==
  ASSUME NEW m, MemOK(m), NEW n \in Names, m.channels[n] # Absent, NEW o \in Object,
         o.routing = m.channels[n].routing,
         NEW w, w = [m EXCEPT !.channels = [m.channels EXCEPT ![n] = o]]
  PROVE  /\ MemOK(w) /\ Configuration(w) = Configuration(m)
         /\ w.routing = m.routing /\ w.route = m.route
         /\ \A k \in Names : w.channels[k] = IF k = n THEN o ELSE m.channels[k]
         /\ \A k \in Names : w.channels[k] = Absent <=> m.channels[k] = Absent
<1> DEFINE channels == [m.channels EXCEPT ![n] = o]
<1>1. m \in Memories /\ m.channels \in [Names -> Object \cup {Absent}]
  BY DEF MemOK, Memories
<1>2. \A k \in Names : channels[k] = IF k = n THEN o ELSE m.channels[k]
  BY <1>1
<1>3. channels \in [Names -> Object \cup {Absent}]
  BY <1>1
<1> HIDE DEF channels
<1>4. w \in Memories /\ w.routing = m.routing /\ w.route = m.route /\ w.channels = channels
  BY <1>1, <1>3 DEF Memories, channels
<1>5. \A k \in Names : channels[k] = Absent <=> m.channels[k] = Absent
  BY <1>2, AbsentIsNoEntry
<1>6. Present(w.channels) = Present(m.channels)
  BY <1>4, <1>5 DEF Present
<1>7. ASSUME NEW k \in Present(w.channels) PROVE w.channels[k].routing = w.routing
  <2>1. k \in Present(m.channels) /\ n \in Present(m.channels)
    BY <1>6, <1>7 DEF Present
  <2> QED
    BY <1>2, <1>4, <2>1 DEF MemOK, Present
<1>8. MemOK(w) /\ Configuration(w) = Configuration(m)
  BY <1>4, <1>6, <1>7 DEF MemOK, Configuration
<1> QED
  BY <1>2, <1>4, <1>5, <1>8

LEMMA DiscoverOK == ASSUME Inv, NEW n \in Names, Discover(n) PROVE Inv'
<1>1. disc' = [name |-> n, live |-> TRUE] /\ mem.channels[n] # Absent
  BY DEF Discover
<1> QED
  BY <1>1 DEF Discover, Inv, MemOK, Finds, Holds, Idle, Matches

LEMMA DiscoveredOK ==
  ASSUME Inv, Discovered
  PROVE  /\ Inv' /\ Configuration(mem') = Configuration(mem)
         /\ \A k \in Names :
              \/ mem'.channels[k] = mem.channels[k]
              \/ /\ mem.channels[k] # Absent /\ mem'.channels[k] # Absent
                 /\ mem'.channels[k].url = mem.channels[k].url
                 /\ mem'.channels[k].key = mem.channels[k].key
                 /\ mem'.channels[k].models = mem'.channels[k].url
<1>1. /\ disc' = Free /\ UNCHANGED <<file, watch, tick, edits>>
      /\ MemOK(mem) /\ mem.channels \in [Names -> Object \cup {Absent}]
  BY DEF Discovered, Inv, MemOK, Memories
<1>2. CASE ~disc.live
  <2>1. mem' = mem
    BY <1>2 DEF Discovered
  <2> QED
    BY <1>1, <2>1, Beginnings DEF Inv, MemOK, Finds, Holds, Idle, Matches
<1>3. CASE disc.live
  <2> DEFINE n == disc.name
             o == [mem.channels[n] EXCEPT !.models = mem.channels[n].url]
  <2>1. n \in Names /\ mem.channels[n] # Absent /\ mem.channels[n] \in Object
    BY <1>1, <1>3 DEF Inv, Holds
  <2>2. mem' = [mem EXCEPT !.channels = [mem.channels EXCEPT ![n] = o]]
    BY <1>3 DEF Discovered
  <2>3. /\ o \in Object /\ o.routing = mem.channels[n].routing /\ o.models = o.url
        /\ o.url = mem.channels[n].url /\ o.key = mem.channels[n].key /\ o.models \in Urls
    BY <2>1 DEF Object
  <2> HIDE DEF o
  <2>4. /\ MemOK(mem') /\ Configuration(mem') = Configuration(mem)
        /\ mem'.routing = mem.routing /\ mem'.route = mem.route
        /\ \A k \in Names : mem'.channels[k] = IF k = n THEN o ELSE mem.channels[k]
        /\ \A k \in Names : mem'.channels[k] = Absent <=> mem.channels[k] = Absent
    BY <1>1, <2>1, <2>2, <2>3, FieldOK
  <2> HIDE DEF n
  <2>5. Finds(tick, mem)'
    BY <1>1, <2>3, <2>4 DEF Inv, Finds, Ticks
  <2>6. ASSUME Matches(mem, file) PROVE Matches(mem', file)
    <3>1. Agrees(o, file.channels[n])
      BY <2>1, <2>3, <2>6, UrlAssumption, AbsentIsNoEntry DEF Matches, Agrees
    <3> QED
      BY <2>4, <2>6, <3>1 DEF Matches
  <2>7. Inv'
    BY <1>1, <2>4, <2>5, <2>6, Beginnings DEF Inv, MemOK, Finds, Holds, Idle, Matches
  <2> QED
    BY <2>1, <2>3, <2>4, <2>7, AbsentIsNoEntry
<1> QED
  BY <1>2, <1>3

\* where the tick alone changes
LEMMA TickAlone ==
  ASSUME Inv, UNCHANGED <<file, mem, watch, disc, edits>>, tick' \in Ticks, Finds(tick', mem)
  PROVE  Inv'
BY DEF Inv, MemOK, Finds, Holds, Idle, Matches

LEMMA TickStartsOK == ASSUME Inv, TickStarts PROVE Inv'
<1> DEFINE accounts == {n \in Names : Visited(mem.channels[n])}
<1>1. /\ tick' = [NoTick EXCEPT !.pc = "next", !.live = TRUE, !.left = accounts]
      /\ UNCHANGED <<file, mem, watch, disc, edits>>
  BY DEF TickStarts
<1>2. accounts \in SUBSET Names /\ \A n \in accounts : mem.channels[n] # Absent
  BY DEF Visited
<1> HIDE DEF accounts
<1>3. tick' \in Ticks
  BY <1>1, <1>2, Beginnings, TickSetters
<1>4. tick'.live = TRUE /\ tick'.left = accounts /\ tick'.pc = "next" /\ tick'.name = NoChannel
  BY <1>1 DEF NoTick
<1> QED
  BY <1>1, <1>2, <1>3, <1>4, TickAlone DEF Finds

LEMMA TickVisitsOK == ASSUME Inv, NEW n \in Names, TickVisits(n) PROVE Inv'
<1> DEFINE key == Array[n].key
<1>1. /\ tick' = [tick EXCEPT !.pc = "renewing", !.left = tick.left \ {n}, !.name = n, !.key = key]
      /\ UNCHANGED <<file, mem, watch, disc, edits>> /\ n \in tick.left
  BY DEF TickVisits
<1>2. /\ tick \in Ticks /\ tick.left \in SUBSET Names
      /\ \A k \in tick.left : Array[k] # Absent
      /\ mem.channels \in [Names -> Object \cup {Absent}]
      /\ tick.array \in [Names -> [url : Urls, key : HeldKeys] \cup {Absent}]
  BY DEF Inv, Finds, Array, Ticks, MemOK, Memories
<1>3. key \in HeldKeys
  <2>1. CASE tick.live
    BY <1>1, <1>2, <2>1 DEF Array, Object
  <2>2. CASE ~tick.live
    BY <1>1, <1>2, <2>2 DEF Array
  <2> QED
    BY <2>1, <2>2
<1> HIDE DEF key
<1>4. tick' \in Ticks
  BY <1>1, <1>2, <1>3, TickSetters
<1>5. /\ tick'.live = tick.live /\ tick'.array = tick.array /\ tick'.left = tick.left \ {n}
      /\ tick'.pc = "renewing" /\ tick'.name = n /\ tick'.key = key
  BY <1>1, <1>2 DEF Ticks
<1>6. Finds(tick', mem)
  BY <1>1, <1>2, <1>5 DEF Finds, Array, key
<1> QED
  BY <1>1, <1>4, <1>6, TickAlone

LEMMA RenewalOK == ASSUME Inv, Renewed \/ RenewalFails PROVE Inv'
<1>1. tick \in Ticks /\ Finds(tick, mem) /\ UNCHANGED <<file, mem, watch, disc, edits>>
  BY DEF Inv, Renewed, RenewalFails
<1>2. CASE Renewed
  <2>1. PICK key \in Tokens : tick' = [tick EXCEPT !.pc = "asking", !.key = key]
    BY <1>2 DEF Renewed
  <2>2. key \in HeldKeys
    BY DEF HeldKeys, Keys
  <2>3. tick' \in Ticks
    BY <1>1, <2>1, <2>2, TickSetters
  <2>4. /\ tick'.live = tick.live /\ tick'.array = tick.array /\ tick'.left = tick.left
        /\ tick'.pc = "asking" /\ tick'.name = tick.name /\ tick'.key = key
    BY <1>1, <2>1 DEF Ticks
  <2>5. Finds(tick', mem)
    BY <1>1, <1>2, <2>4 DEF Finds, Renewed
  <2> QED
    BY <1>1, <2>3, <2>5, TickAlone
<1>3. CASE RenewalFails
  <2>1. tick' = [tick EXCEPT !.pc = "asking"]
    BY <1>3 DEF RenewalFails
  <2>2. tick' \in Ticks
    BY <1>1, <2>1, TickSetters
  <2>3. /\ tick'.live = tick.live /\ tick'.array = tick.array /\ tick'.left = tick.left
        /\ tick'.pc = "asking" /\ tick'.name = tick.name /\ tick'.key = tick.key
    BY <1>1, <2>1 DEF Ticks
  <2>4. Finds(tick', mem)
    BY <1>1, <1>3, <2>3 DEF Finds, RenewalFails
  <2> QED
    BY <1>1, <2>2, <2>4, TickAlone
<1> QED
  BY <1>2, <1>3

LEMMA TickEndsOK == ASSUME Inv, TickEnds PROVE Inv'
BY Beginnings, TickAlone DEF TickEnds

\* the file after a write-back
LEMMA BackOK ==
  ASSUME Inv, NEW n \in Names, file.channels[n] # Absent, NEW key \in Tokens,
         NEW f, f = [file EXCEPT !.channels = [file.channels EXCEPT ![n] =
                                                [file.channels[n] EXCEPT !.key = key]]]
  PROVE  /\ f \in Files /\ f.route = file.route
         /\ f.channels[n] # Absent /\ f.channels[n].key = key
         /\ f.channels[n].url = file.channels[n].url /\ f.channels[n].models = file.channels[n].models
         /\ \A k \in Names \ {n} : f.channels[k] = file.channels[k]
<1> DEFINE e == [file.channels[n] EXCEPT !.key = key]
           channels == [file.channels EXCEPT ![n] = e]
<1>1. file \in Files /\ file.channels \in [Names -> Entry \cup {Absent}]
  BY DEF Inv, Files
<1>2. /\ e \in Entry /\ e.key = key /\ e.url = file.channels[n].url
      /\ e.models = file.channels[n].models
  BY <1>1 DEF Entry, Keys
<1> HIDE DEF e
<1>3. /\ channels \in [Names -> Entry \cup {Absent}] /\ channels[n] = e
      /\ \A k \in Names \ {n} : channels[k] = file.channels[k]
  BY <1>1, <1>2
<1>4. f = [file EXCEPT !.channels = channels]
  BY DEF e
<1> HIDE DEF channels
<1>5. f \in Files /\ f.route = file.route /\ f.channels = channels
  BY <1>1, <1>3, <1>4 DEF Files
<1> QED
  BY <1>2, <1>3, <1>5, AbsentIsNoEntry

\* the objects of one name in two sets of channels, alike but for their keys
Rekeyed(old, new) ==
  /\ old # Absent /\ new # Absent
  /\ new.url = old.url /\ new.models = old.models

LEMMA TickWritesOK ==
  ASSUME Inv, NEW balance \in BOOLEAN, TickWrites(balance)
  PROVE  LET n == tick.name
         IN  /\ Inv' /\ Configuration(mem') = Configuration(mem) /\ file'.route = file.route
             /\ tick'.live = tick.live /\ tick'.array = tick.array /\ tick'.left = tick.left
             /\ tick'.pc = "next" /\ tick'.name = NoChannel
             /\ file' # file =>
                  file' = [file EXCEPT !.channels = [file.channels EXCEPT ![n] =
                                                      [file.channels[n] EXCEPT !.key = tick.key]]]
             /\ \A k \in Names : \/ file'.channels[k] = file.channels[k]
                                 \/ k = n /\ Rekeyed(file.channels[k], file'.channels[k])
             /\ \A k \in Names : \/ mem'.channels[k] = mem.channels[k]
                                 \/ k = n /\ Rekeyed(mem.channels[k], mem'.channels[k])
<1> DEFINE n == tick.name
           o == Array[n]
           changed == balance \/ tick.key # o.key
           written == changed /\ file.text # "unparsable" /\ file.channels[n] # Absent
           back == IF written THEN [file EXCEPT !.channels[n] = WriteBack(@, o)] ELSE file
           renewed == [mem.channels[n] EXCEPT !.key = tick.key]
<1>1. /\ tick.pc = "asking" /\ file' = back /\ UNCHANGED <<disc, edits>>
      /\ mem' = IF tick.live THEN [mem EXCEPT !.channels[n].key = tick.key] ELSE mem
      /\ watch' = IF written /\ (balance \/ back # file) THEN WatchSees ELSE watch
      /\ tick' = [tick EXCEPT !.pc = "next", !.name = NoChannel, !.key = NoKey]
  BY DEF TickWrites
<1>2. /\ file \in Files /\ MemOK(mem) /\ tick \in Ticks /\ Holds(disc, mem)
      /\ disc \in [name : Names \cup {NoChannel}, live : BOOLEAN]
      /\ watch \in {"idle", "armed"} /\ edits \in 0 .. MaxEdits
      /\ Idle(watch, file) => Matches(mem, file)
  BY DEF Inv
<1>3. /\ n \in Names /\ o # Absent /\ (tick.key \in Tokens \/ tick.key = o.key)
      /\ \A k \in tick.left : Array[k] # Absent
      /\ tick.key \in HeldKeys /\ mem.channels \in [Names -> Object \cup {Absent}]
      /\ file \in Files
  BY <1>1, <1>2 DEF Inv, Finds, Array, Ticks, MemOK, Memories
<1>4. tick' \in Ticks
  <2>1. NoKey \in HeldKeys
    BY DEF HeldKeys, Keys
  <2> QED
    BY <1>1, <1>2, <2>1, TickSetters
<1>5. /\ tick'.live = tick.live /\ tick'.array = tick.array /\ tick'.left = tick.left
      /\ tick'.pc = "next" /\ tick'.name = NoChannel
  BY <1>1, <1>2 DEF Ticks
<1>6. back = file \/ (/\ tick.key \in Tokens /\ written
                     /\ back = [file EXCEPT !.channels = [file.channels EXCEPT ![n] =
                                                           [file.channels[n] EXCEPT !.key = tick.key]]])
  <2>1. CASE written /\ tick.key # o.key
    BY <1>3, <2>1 DEF WriteBack
  <2>2. CASE written /\ tick.key = o.key
    <3>1. back = [file EXCEPT !.channels = [file.channels EXCEPT ![n] = file.channels[n]]]
      BY <2>2 DEF WriteBack
    <3> QED
      BY <1>3, <3>1 DEF Files
  <2>3. CASE ~written
    BY <2>3
  <2> QED
    BY <2>1, <2>2, <2>3
<1>7. /\ back \in Files /\ back.route = file.route
      /\ back # file => back.channels[n].key = tick.key
      /\ \A k \in Names : \/ back.channels[k] = file.channels[k]
                          \/ k = n /\ Rekeyed(file.channels[k], back.channels[k])
  <2>1. CASE back = file
    <3> HIDE DEF back, n
    <3> QED
      BY <1>2, <2>1
  <2>2. CASE back # file
    <3>1. file.channels[n] # Absent
      BY <1>6, <2>2
    <3> HIDE DEF back, written, n
    <3>2. /\ back \in Files /\ back.route = file.route
          /\ back.channels[n] # Absent /\ back.channels[n].key = tick.key
          /\ back.channels[n].url = file.channels[n].url
          /\ back.channels[n].models = file.channels[n].models
          /\ \A k \in Names \ {n} : back.channels[k] = file.channels[k]
      BY <1>3, <1>6, <2>2, <3>1, BackOK
    <3>3. Rekeyed(file.channels[n], back.channels[n])
      BY <3>1, <3>2 DEF Rekeyed
    <3> QED
      BY <3>2, <3>3
  <2> QED
    BY <2>1, <2>2
<1>8. back # file => watch' = "armed"
  BY <1>1, <1>6 DEF WatchSees
<1>9. tick.live => /\ mem.channels[n] \in Object /\ o = mem.channels[n]
                   /\ mem' = [mem EXCEPT !.channels = [mem.channels EXCEPT ![n] = renewed]]
  BY <1>1, <1>3 DEF Array
<1>10. tick.live => /\ renewed \in Object /\ renewed.routing = mem.channels[n].routing
                    /\ renewed.url = mem.channels[n].url /\ renewed.models = mem.channels[n].models
                    /\ renewed.key = tick.key
  BY <1>3, <1>9 DEF Object
<1>11. /\ MemOK(mem') /\ Configuration(mem') = Configuration(mem)
       /\ mem'.routing = mem.routing /\ mem'.route = mem.route
       /\ \A k \in Names : mem'.channels[k] = Absent <=> mem.channels[k] = Absent
       /\ tick.live => \A k \in Names : mem'.channels[k] = IF k = n THEN renewed ELSE mem.channels[k]
  <2>1. CASE ~tick.live
    BY <1>1, <1>2, <2>1
  <2>2. CASE tick.live
    <3>1. mem.channels[n] # Absent
      BY <1>3, <1>9, <2>2
    <3> HIDE DEF renewed
    <3> QED
      BY <1>2, <1>3, <1>9, <1>10, <2>2, <3>1, FieldOK
  <2> QED
    BY <2>1, <2>2
<1>12. Finds(tick', mem')
  BY <1>3, <1>2, <1>5, <1>11 DEF Finds, Array, Ticks
<1>13. Holds(disc, mem')
  BY <1>2, <1>11 DEF Holds
<1>14. Idle(watch', back) => Matches(mem', back)
  <2> SUFFICES ASSUME Idle(watch', back) PROVE Matches(mem', back)
    OBVIOUS
  <2>1. back = file /\ Idle(watch, file) /\ Matches(mem, file)
    BY <1>1, <1>2, <1>8 DEF Idle, WatchSees
  <2>2. CASE ~tick.live
    BY <1>1, <2>1, <2>2
  <2>3. CASE tick.live /\ tick.key = o.key
    <3>1. \A k \in Names : mem'.channels[k] = mem.channels[k]
      BY <1>9, <1>11, <2>3 DEF Object
    <3> QED
      BY <1>11, <2>1, <3>1 DEF Matches
  <2>4. CASE tick.live /\ tick.key # o.key
    <3>1. Agrees(mem.channels[n], file.channels[n]) /\ mem.channels[n] # Absent
      BY <1>3, <1>9, <2>1, <2>4 DEF Matches
    <3>2. file.channels[n] # Absent /\ o.key = Expanded(file.channels[n].key)
      BY <1>9, <2>4, <3>1 DEF Agrees
    <3>3. written /\ file.channels[n] \in Entry
      BY <1>3, <2>1, <2>4, <3>2 DEF Idle, Files
    <3>4. back = [file EXCEPT !.channels = [file.channels EXCEPT ![n] =
                                             [file.channels[n] EXCEPT !.key = tick.key]]]
      BY <1>3, <2>4, <3>3 DEF WriteBack
    <3>5. file.channels[n].key = tick.key /\ tick.key \in Tokens
      BY <1>2, <1>3, <2>1, <2>4, <3>2, <3>4, BackOK
    <3>6. Expanded(tick.key) = tick.key
      BY <3>5, TokenAssumption DEF Expanded
    <3> QED
      BY <2>4, <3>2, <3>5, <3>6
  <2> QED
    BY <2>2, <2>3, <2>4
<1>15. watch' \in {"idle", "armed"}
  BY <1>1, <1>2 DEF WatchSees
<1>16. \A k \in Names : \/ mem'.channels[k] = mem.channels[k]
                        \/ k = n /\ Rekeyed(mem.channels[k], mem'.channels[k])
  <2>1. CASE ~tick.live
    BY <1>1, <2>1
  <2>2. CASE tick.live
    BY <1>3, <1>9, <1>10, <1>11, <2>2, AbsentIsNoEntry DEF Rekeyed
  <2> QED
    BY <2>1, <2>2
<1> HIDE DEF n, o, changed, written, back, renewed
<1>17. Inv'
  BY <1>1, <1>2, <1>4, <1>7, <1>11, <1>12, <1>13, <1>14, <1>15
     DEF Inv, MemOK, Finds, Holds, Idle, Matches
<1>18. /\ file' # file =>
            file' = [file EXCEPT !.channels = [file.channels EXCEPT ![n] =
                                                [file.channels[n] EXCEPT !.key = tick.key]]]
       /\ file'.route = file.route
       /\ \A k \in Names : \/ file'.channels[k] = file.channels[k]
                           \/ k = n /\ Rekeyed(file.channels[k], file'.channels[k])
  BY <1>1, <1>6, <1>7
<1> QED
  BY <1>5, <1>11, <1>16, <1>17, <1>18 DEF n

LEMMA NextInv == Inv /\ [Next]_vars => Inv'
<1> SUFFICES ASSUME Inv, [Next]_vars PROVE Inv'
  OBVIOUS
<1>1. CASE WatchFires \/ ReloadRequested
  <2>1. watch' \in {"idle", "armed"} /\ Load(file) /\ UNCHANGED <<file, edits>>
    BY <1>1 DEF WatchFires, ReloadRequested, Inv
  <2> QED
    BY <2>1, LoadOK
<1>2. CASE Repair \/ Restart \/ Discovered
  BY <1>2, RepairOK, RestartOK, DiscoveredOK
<1>3. ASSUME NEW n \in Names, NEW e \in NewEntries, addChannel(n, e) PROVE Inv'
  BY <1>3, AddOK
<1>4. ASSUME NEW n \in Names, removeChannel(n) PROVE Inv'
  BY <1>4, RemoveOK
<1>5. ASSUME NEW n \in Names, NEW new \in Names, NEW edit \in Inputs, updateChannel(n, new, edit)
      PROVE  Inv'
  BY <1>5, UpdateOK
<1>6. ASSUME NEW S \in SUBSET Names, saveDiscoveredModels(S) PROVE Inv'
  BY <1>6, SaveOK
<1>7. CASE ByHand
  BY <1>7, EntryByHandOK, RouteByHandOK DEF ByHand
<1>8. ASSUME NEW n \in Names, Discover(n) PROVE Inv'
  BY <1>8, DiscoverOK
<1>9. CASE DiscoveryFails
  BY <1>9, Beginnings DEF DiscoveryFails, Inv, MemOK, Finds, Holds, Idle, Matches
<1>10. CASE Tick
  BY <1>10, TickStartsOK, RenewalOK, TickEndsOK, TickVisitsOK, TickWritesOK DEF Tick
<1>11. CASE UNCHANGED vars
  BY <1>11 DEF vars, Inv, MemOK, Finds, Holds, Idle, Matches
<1> QED
  BY <1>1, <1>2, <1>3, <1>4, <1>5, <1>6, <1>7, <1>8, <1>9, <1>10, <1>11 DEF Next

-----------------------------------------------------------------------------
(* The invariant, inductive under every interleaving of panel, editor,     *)
(* watcher, tick and discovery (class ChannelManager, lib/channels.mjs).   *)
THEOREM ConfigSafe == Spec => []Inv
<1> QED
  BY InitInv, NextInv, PTL DEF Spec

-----------------------------------------------------------------------------
(* What a load does to the configuration in force and to the tick's        *)
(* picture of the channels.                                                *)

LEMMA LoadKeeps ==
  ASSUME Inv, NEW f \in Files, Load(f)
  PROVE  /\ \/ Configuration(mem') = Configuration(mem)
            \/ f.text = "good" /\ Configuration(mem') = Configuration(f)
         /\ Foreign(mem'.channels) \subseteq Foreign(mem.channels) \cup Foreign(f.channels)
         /\ tick'.pc = tick.pc /\ tick'.left = tick.left /\ tick'.name = tick.name
         /\ \A n \in Names : n \in tick.left \cup {tick.name} =>
              Array'[n].url = Array[n].url /\ Array'[n].key = Array[n].key
<1>1. /\ mem' = Reread(f, mem) /\ Detach(f) /\ MemOK(mem) /\ tick \in Ticks
  BY DEF Load, Inv
<1>2. /\ f.text = "good" => /\ Matches(mem', f)
                            /\ Present(mem'.channels) = Present(f.channels)
      /\ f.text # "good" => mem' = mem
      /\ Foreign(mem'.channels) \subseteq Foreign(mem.channels) \cup Foreign(f.channels)
  BY <1>1, RereadOK
<1>3. \/ Configuration(mem') = Configuration(mem)
      \/ f.text = "good" /\ Configuration(mem') = Configuration(f)
  BY <1>2 DEF Configuration, Matches
<1>4. CASE f.text = "good" /\ tick.live
  <2>1. tick' = [[tick EXCEPT !.live = FALSE] EXCEPT !.array = Ahead]
    BY <1>1, <1>4 DEF Detach
  <2>2. /\ tick'.live = FALSE /\ tick'.array = Ahead
        /\ tick'.pc = tick.pc /\ tick'.left = tick.left /\ tick'.name = tick.name
    BY <1>1, <2>1 DEF Ticks
  <2>3. Array' = Ahead /\ Array = mem.channels
    BY <1>4, <2>2 DEF Array
  <2>4. \A n \in Names : n \in tick.left \cup {tick.name} => Ahead[n] = Glimpse(mem.channels[n])
    BY DEF Ahead
  <2>5. ASSUME NEW n \in Names, n \in tick.left \cup {tick.name}
        PROVE  Array'[n].url = Array[n].url /\ Array'[n].key = Array[n].key
    <3>1. Array'[n] = Glimpse(mem.channels[n])
      BY <2>3, <2>4, <2>5
    <3>2. Array'[n] = [url |-> mem.channels[n].url, key |-> mem.channels[n].key]
      BY <3>1 DEF Glimpse
    <3>3. Array'[n].url = mem.channels[n].url /\ Array'[n].key = mem.channels[n].key
      BY <3>2
    <3> QED
      BY <2>3, <3>3
  <2> QED
    BY <1>2, <1>3, <2>2, <2>5
<1>5. CASE ~(f.text = "good" /\ tick.live)
  <2>1. tick' = tick /\ (tick.live => mem' = mem)
    BY <1>1, <1>2, <1>5 DEF Detach
  <2>2. Array' = Array
    BY <2>1 DEF Array
  <2> QED
    BY <1>2, <1>3, <2>1, <2>2
<1> QED
  BY <1>4, <1>5

-----------------------------------------------------------------------------
(* A configuration comes into force as one.                                *)

\* a set of channels and a route, after an edit that leaves no name behind
LEMMA NoOrphans == ASSUME Inv, Next PROVE Orphans(file') \subseteq Orphans(file) \/ ByHand
<1>1. ASSUME NEW n \in Names, NEW e \in NewEntries, addChannel(n, e)
      PROVE  Orphans(file') \subseteq Orphans(file)
  BY <1>1, AddOK, AbsentIsNoEntry DEF Orphans, Present
<1>2. ASSUME NEW n \in Names, removeChannel(n)
      PROVE  Orphans(file') \subseteq Orphans(file)
  BY <1>2, RemoveOK DEF Orphans, Present
<1>3. ASSUME NEW n \in Names, NEW new \in Names, NEW edit \in Inputs, updateChannel(n, new, edit)
      PROVE  Orphans(file') \subseteq Orphans(file)
  <2> DEFINE e == Edited(file.channels[n], edit)
  <2>1. /\ file'.route = Renamed(file.route, n, new) /\ e # Absent /\ file.channels[n] # Absent
        /\ \A k \in Names : file'.channels[k] = IF k = new THEN e
                                               ELSE IF k = n THEN Absent ELSE file.channels[k]
    BY <1>3, UpdateOK, AbsentIsNoEntry
  <2> HIDE DEF e
  <2>2. file'.route \subseteq (file.route \ {n}) \cup {new} \/ (n = new /\ file'.route \subseteq file.route)
        \/ (n \notin file.route /\ file'.route = file.route)
    BY <2>1 DEF Renamed
  <2>3. file.route \subseteq Names
    BY DEF Inv, Files
  <2> QED
    BY <2>1, <2>2, <2>3 DEF Orphans, Present
<1>4. ASSUME NEW S \in SUBSET Names, saveDiscoveredModels(S)
      PROVE  Orphans(file') \subseteq Orphans(file)
  <2>1. \A k \in Names : file'.channels[k] = Absent => file.channels[k] = Absent
    BY <1>4, SaveOK
  <2>2. file'.route = file.route /\ file.route \subseteq Names
    BY <1>4, SaveOK DEF Inv, Files
  <2> QED
    BY <2>1, <2>2 DEF Orphans, Present
<1>5. ASSUME NEW balance \in BOOLEAN, TickWrites(balance)
      PROVE  Orphans(file') \subseteq Orphans(file)
  <2>1. \A k \in Names : file'.channels[k] = Absent => file.channels[k] = Absent
    BY <1>5, TickWritesOK DEF Rekeyed
  <2>2. file'.route = file.route /\ file.route \subseteq Names
    BY <1>5, TickWritesOK DEF Inv, Files
  <2> QED
    BY <2>1, <2>2 DEF Orphans, Present
<1>6. CASE Repair
  BY <1>6, RepairOK DEF Orphans
<1>7. CASE file' = file
  BY <1>7
<1> QED
  BY <1>1, <1>2, <1>3, <1>4, <1>5, <1>6, <1>7
     DEF Next, WatchFires, ReloadRequested, Restart, Discover, Discovered, DiscoveryFails, Tick,
         TickStarts, TickVisits, Renewed, RenewalFails, TickEnds

\* who loads what
LEMMA Loads ==
  ASSUME Inv, Next
  PROVE  \/ file' \in Files /\ Load(file')
         \/ Restart \/ Discovered
         \/ \E balance \in BOOLEAN : TickWrites(balance)
         \/ mem' = mem
<1>1. file' \in Files
  BY NextInv DEF Inv
<1> QED
  BY <1>1
     DEF Next, WatchFires, ReloadRequested, Load, Repair, addChannel, removeChannel, updateChannel,
         Panel, saveDiscoveredModels, ByHand, EntryByHand, RouteByHand, Saved, Discover,
         DiscoveryFails, Tick, TickStarts, TickVisits, Renewed, RenewalFails, TickEnds

(* Routing, routes and the set of channels in memory change together, to   *)
(* those of a good file, since load() validates first and replaces all at  *)
(* once (channels.mjs:679-761); and none but the operator's own hand       *)
(* writes a route to a channel that is not there, since the panel's edits  *)
(* keep them in step with the names (channels.mjs:1405-1419, 1573-1580).   *)
THEOREM OneConfigurationHolds == Spec => OneConfiguration
<1> DEFINE One ==
      /\ \/ Configuration(mem') = Configuration(mem)
         \/ file'.text = "good" /\ Configuration(mem') = Configuration(file')
      /\ \A n \in Present(mem'.channels) : mem'.channels[n].routing = mem'.routing
      /\ Orphans(file') \subseteq Orphans(file) \/ ByHand
<1>1. Inv /\ [Next]_vars => [One]_vars
  <2> SUFFICES ASSUME Inv, Next PROVE One
    OBVIOUS
  <2>1. \A n \in Present(mem'.channels) : mem'.channels[n].routing = mem'.routing
    BY NextInv DEF Inv, MemOK
  <2>2. \/ Configuration(mem') = Configuration(mem)
        \/ file'.text = "good" /\ Configuration(mem') = Configuration(file')
    <3>1. CASE Load(file') /\ file' \in Files
      BY <3>1, LoadKeeps
    <3>2. CASE Restart
      BY <3>2, RestartOK DEF Restart
    <3>3. CASE Discovered
      BY <3>3, DiscoveredOK
    <3>4. ASSUME NEW balance \in BOOLEAN, TickWrites(balance)
          PROVE  Configuration(mem') = Configuration(mem)
      BY <3>4, TickWritesOK
    <3>5. CASE mem' = mem
      BY <3>5
    <3> QED
      BY <3>1, <3>2, <3>3, <3>4, <3>5, Loads
  <2>3. Orphans(file') \subseteq Orphans(file) \/ ByHand
    BY NoOrphans
  <2> QED
    BY <2>1, <2>2, <2>3
<1> QED
  BY <1>1, ConfigSafe, PTL DEF Spec, OneConfiguration

-----------------------------------------------------------------------------
(* Models stay with their endpoint.                                        *)

\* in the file, where the gateway runs what the file says
LEMMA NoForeignList ==
  ASSUME Inv, Next, Settled
  PROVE  Foreign(file'.channels) \subseteq
           Foreign(file.channels) \cup Foreign(mem.channels) \cup Readdressed
<1> DEFINE Known == Foreign(file.channels) \cup Foreign(mem.channels) \cup Readdressed
<1>1. file.channels \in [Names -> Entry \cup {Absent}]
  BY DEF Inv, Files
<1>2. ASSUME NEW n \in Names, NEW e \in NewEntries, addChannel(n, e)
      PROVE  Foreign(file'.channels) \subseteq Known
  BY <1>2, AddOK DEF Foreign, Present, Readdressed
<1>3. ASSUME NEW n \in Names, removeChannel(n)
      PROVE  Foreign(file'.channels) \subseteq Known
  BY <1>3, RemoveOK DEF Foreign, Present
<1>4. ASSUME NEW n \in Names, NEW new \in Names, NEW edit \in Inputs, updateChannel(n, new, edit)
      PROVE  Foreign(file'.channels) \subseteq Known
  <2> DEFINE old == file.channels[n]
             e == Edited(old, edit)
  <2>1. \A k \in Names : file'.channels[k] = IF k = new THEN e
                                             ELSE IF k = n THEN Absent ELSE file.channels[k]
    BY <1>4, UpdateOK
  <2>2. new = n \/ file.channels[new] = Absent
    BY <1>4 DEF updateChannel
  <2>3. e.models \in Urls => e.models = old.models
    <3>1. e.models = Choice(edit.models, old.models)
      BY DEF Edited
    <3>2. edit.models \in {Listed, Same}
      BY InputAssumption DEF Edits
    <3> QED
      BY <3>1, <3>2, UrlAssumption DEF Choice
  <2> HIDE DEF e
  <2>4. old # Absent
    BY <1>4 DEF updateChannel
  <2>5. ASSUME NEW k \in Foreign(file'.channels) PROVE k \in Known
    <3>1. k \in Names /\ file'.channels[k] # Absent
      BY <2>5 DEF Foreign, Present
    <3>2. CASE k # new
      BY <2>1, <2>5, <3>1, <3>2 DEF Foreign, Present
    <3>3. CASE k = new /\ (file.channels[new] = Absent \/ e.url # file.channels[new].url)
      BY <2>1, <3>1, <3>3 DEF Readdressed
    <3>4. CASE k = new /\ file.channels[new] # Absent /\ e.url = file.channels[new].url
      <4>1. new = n /\ file'.channels[k] = e
        BY <2>1, <2>2, <3>1, <3>4
      <4>2. e.models \in Urls /\ e.models # e.url
        BY <2>5, <4>1 DEF Foreign
      <4>3. old.models \in Urls /\ old.models # old.url
        BY <2>3, <3>4, <4>1, <4>2
      <4> QED
        BY <2>4, <3>1, <3>4, <4>1, <4>3 DEF Foreign, Present
    <3> QED
      BY <3>2, <3>3, <3>4
  <2> QED
    BY <2>5
<1>5. ASSUME NEW S \in SUBSET Names, saveDiscoveredModels(S)
      PROVE  Foreign(file'.channels) \subseteq Known
  <2>1. Matches(mem, file)
    BY DEF Inv, Settled, Idle
  <2>2. ASSUME NEW k \in Foreign(file'.channels) PROVE k \in Known
    <3>1. /\ k \in Names /\ file'.channels[k] # Absent
          /\ file'.channels[k].models \in Urls /\ file'.channels[k].models # file'.channels[k].url
      BY <2>2 DEF Foreign, Present
    <3>2. CASE file'.channels[k] = file.channels[k]
      BY <3>1, <3>2 DEF Foreign, Present
    <3>3. CASE file'.channels[k] # file.channels[k]
      <4>1. /\ file.channels[k] # Absent /\ mem.channels[k] # Absent
            /\ file'.channels[k].url = file.channels[k].url
            /\ file'.channels[k].models = mem.channels[k].models
        BY <1>5, <3>1, <3>3, SaveOK
      <4>2. mem.channels[k].url = file.channels[k].url
        BY <2>1, <3>1, <4>1 DEF Matches, Agrees
      <4> QED
        BY <3>1, <4>1, <4>2 DEF Foreign, Present
    <3> QED
      BY <3>2, <3>3
  <2> QED
    BY <2>2
<1>6. ASSUME NEW n \in Names, NEW e \in Handwritten(n), EntryByHand(n, e)
      PROVE  Foreign(file'.channels) \subseteq Known
  <2>1. /\ \A k \in Names : file'.channels[k] = IF k = n THEN e ELSE file.channels[k]
        /\ e # Absent /\ e.models \in Urls =>
             /\ file.channels[n] # Absent
             /\ e.url = file.channels[n].url => e.models = file.channels[n].models
    BY <1>6, EntryByHandOK
  <2>2. ASSUME NEW k \in Foreign(file'.channels) PROVE k \in Known
    <3>1. /\ k \in Names /\ file'.channels[k] # Absent
          /\ file'.channels[k].models \in Urls /\ file'.channels[k].models # file'.channels[k].url
      BY <2>2 DEF Foreign, Present
    <3>2. CASE k # n
      BY <2>1, <3>1, <3>2 DEF Foreign, Present
    <3>3. CASE k = n
      <4>1. file'.channels[k] = e
        BY <2>1, <3>1, <3>3
      <4>2. CASE e.url = file.channels[k].url
        BY <2>1, <3>1, <3>3, <4>1, <4>2 DEF Foreign, Present
      <4>3. CASE e.url # file.channels[k].url
        BY <3>1, <4>1, <4>3 DEF Readdressed
      <4> QED
        BY <4>2, <4>3
    <3> QED
      BY <3>2, <3>3
  <2> QED
    BY <2>2
<1>7. ASSUME NEW balance \in BOOLEAN, TickWrites(balance)
      PROVE  Foreign(file'.channels) \subseteq Known
  BY <1>7, TickWritesOK DEF Rekeyed, Foreign, Present
<1>8. CASE file'.channels = file.channels
  BY <1>8
<1>9. ASSUME NEW route \in SUBSET Names, RouteByHand(route)
      PROVE  file'.channels = file.channels
  BY <1>9, RouteByHandOK
<1>10. Repair => file'.channels = file.channels
  BY RepairOK
<1> HIDE DEF Known
<1> QED
  BY <1>2, <1>3, <1>4, <1>5, <1>6, <1>7, <1>8, <1>9, <1>10
     DEF Known, Next, WatchFires, ReloadRequested, Restart, ByHand, Discover, Discovered, DiscoveryFails,
         Tick, TickStarts, TickVisits, Renewed, RenewalFails, TickEnds

(* In memory, models found at one endpoint are not taken for another's:    *)
(* load() keeps them for the same endpoint only (channels.mjs:700-704) and *)
(* a late answer goes to the object that asked (channels.mjs:1189).  In    *)
(* the file, nothing but a save in the watcher's window, or while the file *)
(* is refused, brings them to another entry (channels.mjs:1313-1323).      *)
THEOREM ModelsStay == Spec => ModelsOfTheEndpoint
<1> DEFINE Stay ==
      /\ Foreign(mem'.channels) \subseteq Foreign(mem.channels) \cup Foreign(file'.channels)
      /\ Settled => Foreign(file'.channels) \subseteq
                      Foreign(file.channels) \cup Foreign(mem.channels) \cup Readdressed
<1>1. Inv /\ [Next]_vars => [Stay]_vars
  <2> SUFFICES ASSUME Inv, Next PROVE Stay
    OBVIOUS
  <2>1. Foreign(mem'.channels) \subseteq Foreign(mem.channels) \cup Foreign(file'.channels)
    <3>1. CASE Load(file') /\ file' \in Files
      BY <3>1, LoadKeeps
    <3>2. CASE Restart
      BY <3>2, RestartOK
    <3>3. CASE Discovered
      BY <3>3, DiscoveredOK DEF Foreign, Present
    <3>4. ASSUME NEW balance \in BOOLEAN, TickWrites(balance)
          PROVE  Foreign(mem'.channels) \subseteq Foreign(mem.channels)
      BY <3>4, TickWritesOK DEF Rekeyed, Foreign, Present
    <3>5. CASE mem' = mem
      BY <3>5
    <3> QED
      BY <3>1, <3>2, <3>3, <3>4, <3>5, Loads
  <2> QED
    BY <2>1, NoForeignList
<1> QED
  BY <1>1, ConfigSafe, PTL DEF Spec, ModelsOfTheEndpoint

-----------------------------------------------------------------------------
(* The entries that nobody has edited since the tick began are those of    *)
(* the accounts it has in its hands.                                       *)

AccountOf(e, o) == e # Absent /\ e.url = o.url /\ Expanded(e.key) = o.key

Pending == IF tick.pc = "idle" THEN {} ELSE {n \in Names : n \in tick.left \cup {tick.name}}

Untouched ==
  /\ touched \subseteq Names
  /\ tick.name \notin tick.left
  /\ \A n \in Pending \ touched : AccountOf(file.channels[n], Array[n])

\* a step that leaves the untouched entries, and the tick's picture of them, alone
LEMMA Carried ==
  ASSUME Untouched, touched' \subseteq Names, touched \subseteq touched',
         tick'.name \notin tick'.left, Pending' \subseteq Pending,
         \A n \in Pending' : Array'[n].url = Array[n].url /\ Array'[n].key = Array[n].key,
         \A n \in Pending' \ touched' :
           \/ file'.channels[n] = file.channels[n]
           \/ /\ file'.channels[n] # Absent
              /\ file'.channels[n].url = file.channels[n].url
              /\ file'.channels[n].key = file.channels[n].key
  PROVE  Untouched'
<1>1. ASSUME NEW n \in Pending' \ touched' PROVE AccountOf(file'.channels[n], Array'[n])
  <2>1. n \in Pending \ touched
    BY <1>1
  <2>2. AccountOf(file.channels[n], Array[n])
    BY <2>1 DEF Untouched
  <2>3. Array'[n].url = Array[n].url /\ Array'[n].key = Array[n].key
    BY <1>1
  <2>4. /\ file'.channels[n] # Absent
        /\ file'.channels[n].url = file.channels[n].url
        /\ file'.channels[n].key = file.channels[n].key
    BY <1>1, <2>2 DEF AccountOf
  <2> QED
    BY <2>2, <2>3, <2>4 DEF AccountOf
<1> QED
  BY <1>1 DEF Untouched

LEMMA LoadCarries ==
  ASSUME Inv, Untouched, NEW f \in Files, Load(f)
  PROVE  /\ Pending' = Pending /\ tick'.name \notin tick'.left /\ tick'.pc = tick.pc
         /\ \A n \in Pending' : Array'[n].url = Array[n].url /\ Array'[n].key = Array[n].key
<1>1. /\ tick'.pc = tick.pc /\ tick'.left = tick.left /\ tick'.name = tick.name
      /\ \A n \in Names : n \in tick.left \cup {tick.name} =>
           Array'[n].url = Array[n].url /\ Array'[n].key = Array[n].key
  BY LoadKeeps
<1>2. Pending' = Pending
  BY <1>1 DEF Pending
<1>3. \A n \in Pending : n \in Names /\ n \in tick.left \cup {tick.name}
  BY DEF Pending
<1> QED
  BY <1>1, <1>2, <1>3 DEF Untouched

\* an edit of the operator touches what it changes
LEMMA Touches ==
  ASSUME Inv, Untouched, NEW channels, touched' = Touch(channels), file'.channels = channels
  PROVE  /\ touched' \subseteq Names /\ touched \subseteq touched'
         /\ \A n \in Pending \ touched' : file'.channels[n] = file.channels[n]
<1>1. \A n \in Pending : n \in Names /\ tick.pc # "idle"
  BY DEF Pending
<1> QED
  BY <1>1 DEF Touch, Untouched

LEMMA PanelUntouched ==
  ASSUME Inv, Untouched, NEW texts, NEW channels, NEW route, Panel(texts, channels, route),
         file' \in Files, file'.channels = channels
  PROVE  Untouched'
<1>1. Load(file') /\ touched' = Touch(channels)
  BY DEF Panel
<1>2. /\ Pending' = Pending /\ tick'.name \notin tick'.left
      /\ \A n \in Pending' : Array'[n].url = Array[n].url /\ Array'[n].key = Array[n].key
  BY <1>1, LoadCarries
<1>3. /\ touched' \subseteq Names /\ touched \subseteq touched'
      /\ \A n \in Pending \ touched' : file'.channels[n] = file.channels[n]
  BY <1>1, Touches
<1> QED
  BY <1>2, <1>3, Carried

LEMMA SavedUntouched ==
  ASSUME Inv, Untouched, NEW channels, NEW route, Saved(channels, 1 - file.routing, route)
  PROVE  Untouched'
<1>1. /\ touched' = Touch(channels) /\ UNCHANGED <<mem, tick, disc>>
      /\ file'.channels = channels
  BY DEF Saved
<1>2. /\ touched' \subseteq Names /\ touched \subseteq touched'
      /\ \A n \in Pending \ touched' : file'.channels[n] = file.channels[n]
  BY <1>1, Touches
<1>3. Pending' = Pending /\ Array' = Array /\ tick' = tick
  BY <1>1 DEF Pending, Array
<1> QED
  BY <1>2, <1>3, Carried DEF Untouched

\* a step of the tick, whose picture stays
LEMMA TickKeeps ==
  ASSUME Inv, Untouched, UNCHANGED <<file, mem, touched>>,
         tick'.live = tick.live, tick'.array = tick.array,
         tick'.name \notin tick'.left, Pending' \subseteq Pending
  PROVE  Untouched'
<1>1. Array' = Array
  BY DEF Array
<1> QED
  BY <1>1, Carried DEF Untouched

LEMMA WritesUntouched ==
  ASSUME Inv, Untouched, NEW balance \in BOOLEAN, TickWrites(balance)
  PROVE  Untouched'
<1>1. /\ tick'.live = tick.live /\ tick'.array = tick.array /\ tick'.left = tick.left
      /\ tick'.pc = "next" /\ tick'.name = NoChannel /\ tick.pc = "asking"
      /\ \A k \in Names \ {tick.name} : /\ file'.channels[k] = file.channels[k]
                                        /\ mem'.channels[k] = mem.channels[k]
      /\ touched' = touched /\ tick.left \subseteq Names
  BY TickWritesOK DEF TickWrites, Inv, Ticks
<1>2. NoChannel \notin tick'.left
  BY <1>1, NameAssumption
<1>3. /\ Pending' = tick.left /\ tick.left \subseteq Pending
      /\ \A n \in Pending' : n \in Names \ {tick.name}
  BY <1>1, NameAssumption DEF Pending, Untouched
<1>4. \A n \in Pending' : Array'[n] = Array[n]
  BY <1>1, <1>3 DEF Array
<1> QED
  BY <1>1, <1>2, <1>3, <1>4, Carried DEF Untouched

LEMMA NextUntouched == Inv /\ Untouched /\ [Next]_vars => Untouched'
<1> SUFFICES ASSUME Inv, Untouched, [Next]_vars PROVE Untouched'
  OBVIOUS
<1>1. file' \in Files /\ tick \in Ticks /\ tick' \in Ticks
  BY NextInv DEF Inv
<1>2. ASSUME Load(file'), UNCHANGED <<file, touched>> PROVE Untouched'
  BY <1>1, <1>2, LoadCarries, Carried DEF Untouched
<1>3. ASSUME NEW n \in Names, NEW e \in NewEntries, addChannel(n, e) PROVE Untouched'
  <2>1. Panel({file.text}, [file.channels EXCEPT ![n] = e], file.route)
    BY <1>3 DEF addChannel
  <2>2. file'.channels = [file.channels EXCEPT ![n] = e]
    BY <2>1 DEF Panel, Inv, Files
  <2> QED
    BY <1>1, <2>1, <2>2, PanelUntouched
<1>4. ASSUME NEW n \in Names, removeChannel(n) PROVE Untouched'
  <2>1. Panel(Cured, [file.channels EXCEPT ![n] = Absent], file.route \ {n})
    BY <1>4 DEF removeChannel
  <2>2. file'.channels = [file.channels EXCEPT ![n] = Absent]
    BY <2>1 DEF Panel, Inv, Files
  <2> QED
    BY <1>1, <2>1, <2>2, PanelUntouched
<1>5. ASSUME NEW n \in Names, NEW new \in Names, NEW edit \in Inputs, updateChannel(n, new, edit)
      PROVE  Untouched'
  <2> DEFINE channels == [[file.channels EXCEPT ![n] = Absent] EXCEPT
                            ![new] = Edited(file.channels[n], edit)]
  <2>1. Panel(Cured, channels, Renamed(file.route, n, new))
    BY <1>5 DEF updateChannel
  <2> HIDE DEF channels
  <2>2. file'.channels = channels
    BY <2>1 DEF Panel, Inv, Files
  <2> QED
    BY <1>1, <2>1, <2>2, PanelUntouched
<1>6. ASSUME NEW S \in SUBSET Names, saveDiscoveredModels(S) PROVE Untouched'
  <2>1. UNCHANGED <<mem, tick, touched>>
    BY <1>6 DEF saveDiscoveredModels
  <2>2. Pending' = Pending /\ Array' = Array /\ Pending \subseteq Names
    BY <2>1 DEF Pending, Array
  <2>3. \A n \in Names : \/ file'.channels[n] = file.channels[n]
                         \/ /\ file'.channels[n] # Absent
                            /\ file'.channels[n].url = file.channels[n].url
                            /\ file'.channels[n].key = file.channels[n].key
    BY <1>6, SaveOK
  <2> QED
    BY <2>1, <2>2, <2>3, Carried DEF Untouched
<1>7. CASE ByHand
  BY <1>7, SavedUntouched DEF ByHand, EntryByHand, RouteByHand
<1>8. CASE Repair
  <2>1. UNCHANGED <<mem, tick, touched>> /\ file'.channels = file.channels
    BY <1>8, RepairOK DEF Repair
  <2>2. Pending' = Pending /\ Array' = Array
    BY <2>1 DEF Pending, Array
  <2> QED
    BY <2>1, <2>2, Carried DEF Untouched
<1>9. CASE Restart \/ TickEnds
  <2>1. tick' = NoTick /\ touched' = {}
    BY <1>9 DEF Restart, TickEnds
  <2> QED
    BY <2>1 DEF NoTick, Untouched, Pending
<1>10. CASE Discovered
  <2>1. UNCHANGED <<file, tick, touched>>
    BY <1>10 DEF Discovered
  <2>2. \A k \in Names : \/ mem'.channels[k] = mem.channels[k]
                         \/ /\ mem'.channels[k].url = mem.channels[k].url
                            /\ mem'.channels[k].key = mem.channels[k].key
    BY <1>10, DiscoveredOK
  <2>3. Pending' = Pending /\ Pending \subseteq Names
    BY <2>1 DEF Pending
  <2>4. \A n \in Pending' : Array'[n].url = Array[n].url /\ Array'[n].key = Array[n].key
    BY <2>1, <2>2, <2>3 DEF Array
  <2> QED
    BY <2>1, <2>3, <2>4, Carried DEF Untouched
<1>11. ASSUME UNCHANGED <<file, mem, tick, touched>> PROVE Untouched'
  BY <1>11 DEF Untouched, Pending, Array
<1>12. CASE TickStarts
  <2> DEFINE accounts == {n \in Names : Visited(mem.channels[n])}
  <2>1. /\ tick' = [NoTick EXCEPT !.pc = "next", !.live = TRUE, !.left = accounts]
        /\ UNCHANGED <<file, mem, watch, disc, edits>>
        /\ touched' = IF watch = "idle" /\ file.text = "good" THEN {} ELSE Names
    BY <1>12 DEF TickStarts
  <2>2. \A n \in accounts : n \in Names /\ mem.channels[n] # Absent
    BY DEF Visited
  <2> HIDE DEF accounts
  <2>3. tick'.pc = "next" /\ tick'.live = TRUE /\ tick'.left = accounts /\ tick'.name = NoChannel
    BY <2>1 DEF NoTick
  <2>4. Pending' = accounts /\ Array' = mem.channels /\ NoChannel \notin accounts
    BY <2>1, <2>2, <2>3, NameAssumption DEF Pending, Array
  <2>5. ASSUME NEW n \in Pending' \ touched' PROVE AccountOf(file'.channels[n], Array'[n])
    <3>1. n \in Names /\ watch = "idle" /\ file.text = "good" /\ mem.channels[n] # Absent
      BY <2>1, <2>2, <2>4, <2>5
    <3>2. Agrees(mem.channels[n], file.channels[n])
      BY <3>1 DEF Inv, Idle, Matches
    <3> QED
      BY <2>1, <2>4, <3>1, <3>2 DEF Agrees, AccountOf
  <2> QED
    BY <2>1, <2>3, <2>4, <2>5 DEF Untouched
<1>13. ASSUME NEW n \in Names, TickVisits(n) PROVE Untouched'
  <2>1. /\ tick' = [tick EXCEPT !.pc = "renewing", !.left = tick.left \ {n}, !.name = n,
                                !.key = Array[n].key]
        /\ UNCHANGED <<file, mem, touched>> /\ n \in tick.left /\ tick.pc = "next"
    BY <1>13 DEF TickVisits
  <2>2. /\ tick'.live = tick.live /\ tick'.array = tick.array /\ tick'.left = tick.left \ {n}
        /\ tick'.pc = "renewing" /\ tick'.name = n
    BY <1>1, <2>1 DEF Ticks
  <2>3. Pending' \subseteq Pending /\ tick'.name \notin tick'.left
    BY <2>1, <2>2 DEF Pending
  <2> QED
    BY <2>1, <2>2, <2>3, TickKeeps
<1>14. CASE Renewed \/ RenewalFails
  <2>1. /\ UNCHANGED <<file, mem, touched>> /\ tick.pc = "renewing"
        /\ \/ tick' = [tick EXCEPT !.pc = "asking"]
           \/ \E key : tick' = [tick EXCEPT !.pc = "asking", !.key = key]
    BY <1>14 DEF Renewed, RenewalFails
  <2>2. /\ tick'.live = tick.live /\ tick'.array = tick.array /\ tick'.left = tick.left
        /\ tick'.pc = "asking" /\ tick'.name = tick.name
    BY <1>1, <2>1 DEF Ticks
  <2>3. Pending' = Pending /\ tick'.name \notin tick'.left
    BY <2>1, <2>2 DEF Pending, Untouched
  <2> QED
    BY <2>1, <2>2, <2>3, TickKeeps
<1>15. CASE UNCHANGED vars
  BY <1>11, <1>15 DEF vars
<1>16. CASE WatchFires \/ ReloadRequested
  BY <1>2, <1>16 DEF WatchFires, ReloadRequested, Load, Detach, Reread
<1>17. CASE DiscoveryFails \/ \E n \in Names : Discover(n)
  BY <1>11, <1>17 DEF DiscoveryFails, Discover
<1> QED
  BY <1>3, <1>4, <1>5, <1>6, <1>7, <1>8, <1>9, <1>10, <1>12, <1>13, <1>14, <1>15, <1>16, <1>17,
     WritesUntouched DEF Next, Tick

(* With the invariant above: while the tick is under way, an entry that    *)
(* nobody has edited has the endpoint and the key of the object the tick   *)
(* will take it for (workbuddyTick(), channels.mjs:1619-1685).             *)
THEOREM EntriesUntouched == Spec => [](Inv /\ Untouched)
<1>1. Init => Inv /\ Untouched
  BY InitInv DEF Init, NoTick, Untouched, Pending
<1> QED
  BY <1>1, NextInv, NextUntouched, PTL DEF Spec

(* Whoever writes config.json, and wherever a load failed in between: once *)
(* the watcher has nothing to look at and the file is good, the gateway    *)
(* runs what the file says (watchConfig(), channels.mjs:1852-1868, and     *)
(* every writer).                                                          *)
THEOREM InSyncHolds == Spec => []InSyncUnlessPending
<1>1. Inv /\ Untouched => InSyncUnlessPending
  BY DEF Inv, MemOK, Idle, Matches, Untouched, InSyncUnlessPending, TypeOK, Settled, InSync
<1> QED
  BY <1>1, EntriesUntouched, PTL

\* nothing but the end of a write-back takes the tick from one account to the next
LEMMA OnlyWrites ==
  ASSUME Inv, Next, tick.pc = "asking", tick'.pc = "next"
  PROVE  \E balance \in BOOLEAN : TickWrites(balance)
<1>1. tick \in Ticks
  BY DEF Inv
<1>2. \A f : ~Detach(f)
  <2> SUFFICES ASSUME NEW f, Detach(f) PROVE FALSE
    OBVIOUS
  <2>1. tick' = tick \/ tick' = [tick EXCEPT !.live = FALSE, !.array = Ahead]
    BY DEF Detach
  <2> QED
    BY <1>1, <2>1 DEF Ticks
<1>3. \A f : ~Load(f)
  BY <1>2 DEF Load
<1>4. \A texts, channels, route : ~Panel(texts, channels, route)
  BY <1>3 DEF Panel
<1>5. ~Restart
  BY DEF Restart, NoTick
<1>6. tick' # tick
  OBVIOUS
<1> QED
  BY <1>3, <1>4, <1>5, <1>6
     DEF Next, WatchFires, ReloadRequested, Repair, addChannel, removeChannel, updateChannel,
         saveDiscoveredModels, ByHand, EntryByHand, RouteByHand, Saved, Discover, Discovered,
         DiscoveryFails, Tick, TickStarts, TickVisits, Renewed, RenewalFails, TickEnds

(* updateChannelFields() (channels.mjs:1593-1608) under workbuddyTick():   *)
(* one key goes back, into the entry it was renewed for, unless that entry *)
(* was edited while the tick was under way.                                *)
THEOREM RenewalIsTrue == Spec => RenewsWhatItAsked
<1> DEFINE Renews ==
      LET n == tick.name
          e == file.channels[n]
      IN  tick.pc = "asking" /\ tick'.pc = "next" /\ file' # file =>
            /\ file' = [file EXCEPT !.channels[n].key = tick.key]
            /\ n \in touched \/ (e.url = Array[n].url /\ Expanded(e.key) = Array[n].key)
<1>1. Inv /\ Untouched /\ [Next]_vars => [Renews]_vars
  <2> SUFFICES ASSUME Inv, Untouched, Next, tick.pc = "asking", tick'.pc = "next", file' # file
               PROVE  Renews
    OBVIOUS
  <2>1. PICK balance \in BOOLEAN : TickWrites(balance)
    BY OnlyWrites
  <2>2. file' = [file EXCEPT !.channels = [file.channels EXCEPT ![tick.name] =
                                            [file.channels[tick.name] EXCEPT !.key = tick.key]]]
    BY <2>1, TickWritesOK
  <2>3. tick.name \in Pending
    BY DEF Inv, Finds, Pending
  <2>4. tick.name \in touched \/ AccountOf(file.channels[tick.name], Array[tick.name])
    BY <2>3 DEF Untouched
  <2> QED
    BY <2>2, <2>4 DEF AccountOf
<1> QED
  BY <1>1, EntriesUntouched, PTL DEF Spec, RenewsWhatItAsked

=============================================================================
