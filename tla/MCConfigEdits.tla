--------------------------- MODULE MCConfigEdits ----------------------------
(* ConfigEdits.tla on a small instance.                                    *)
EXTENDS ConfigEdits

E(url, key, models, enabled) ==
  [url |-> url, key |-> key, models |-> models, enabled |-> enabled]

\* an account "a" beside a free name
MCInitials ==
  { [channels |-> [n \in Names |-> IF n = "a" THEN E("wb", "t1", Unlisted, "unset") ELSE Absent],
     route |-> {"a"}] }

MCInputs == { E("u", Same, Same, "no"), E("wb", "t2", Same, "yes"), E(Same, Env, Listed, Same) }

\* a channel that is switched off, with a key in the environment, and an edit
\* of something else, as its description
MCSwitchedOff ==
  { [channels |-> [n \in Names |-> IF n = "a" THEN E("u", Env, Unlisted, "no") ELSE Absent],
     route |-> {}] }
MCOther == { E(Same, Same, Same, Same) }

MCNewEntries == { E("u", Env, Unlisted, "no") }
=============================================================================
