--------------------------- MODULE AnswerContract ---------------------------
(***************************************************************************)
(* What the gateway promises to one client and to the task log about one   *)
(* chat request, with no candidates, no rounds, no buffers and no timers.  *)
(*                                                                         *)
(*   - one channel is asked at a time, and nobody any more once the client *)
(*     has got a byte or has left;                                         *)
(*   - the client gets a reply, a refusal, or a stream, which is whole or  *)
(*     breaks off, with an error frame or without, but never both;         *)
(*   - the record calls a success what the client has got in full, and     *)
(*     says that the client left only if it did or was slow to read;       *)
(*   - except for a reply that is pieced together from the stream of a     *)
(*     channel with forceStream: it is called a success, and nothing is    *)
(*     promised of its being whole.                                        *)
(***************************************************************************)
CONSTANTS Channels,
          Nobody     \* no channel

VARIABLES asked,     \* the channel whose attempt is under way
          answer,    \* what the client has been sent
          closed,    \* the response is ended
          gone,      \* the client has left
          record     \* how the request is recorded

vars == <<asked, answer, closed, gone, record>>

Init ==
  /\ asked = Nobody
  /\ answer = "nothing"
  /\ closed = FALSE
  /\ gone = FALSE
  /\ record = "none"

Ask(c) ==
  /\ asked = Nobody
  /\ answer = "nothing"
  /\ ~gone
  /\ record = "none"
  /\ asked' = c
  /\ UNCHANGED <<answer, closed, gone, record>>

\* the attempt fails and leaves the response as it is
Fail ==
  /\ asked # Nobody
  /\ asked' = Nobody
  /\ UNCHANGED <<answer, closed, gone, record>>

Sends == asked # Nobody /\ ~gone /\ ~closed

\* the headers of a stream
Begin ==
  /\ Sends
  /\ answer = "nothing"
  /\ answer' = "part"
  /\ UNCHANGED <<asked, closed, gone, record>>

\* its end frame
Complete ==
  /\ Sends
  /\ answer = "part"
  /\ answer' = "whole"
  /\ UNCHANGED <<asked, closed, gone, record>>

\* a response in one piece, or the end of a stream, for good or for bad
Close ==
  /\ Sends
  /\ \/ answer = "nothing" /\ answer' \in {"reply", "pieced"}
     \/ answer = "part" /\ answer' \in {"part", "broken"}
     \/ answer = "whole" /\ answer' = "whole"
  /\ closed' = TRUE
  /\ asked' = Nobody
  /\ UNCHANGED <<gone, record>>

\* the client leaves, which the attempt notices or not
Leave ==
  /\ ~gone /\ ~closed
  /\ gone' = TRUE
  /\ asked' \in {asked, Nobody}
  /\ UNCHANGED <<answer, closed, record>>

-----------------------------------------------------------------------------
(* The record.                                                             *)

Succeed ==
  /\ asked = Nobody /\ closed
  /\ answer \in {"whole", "reply", "pieced"}
  /\ record = "none" /\ record' = "ok"
  /\ UNCHANGED <<asked, answer, closed, gone>>

BreakDown ==
  /\ asked = Nobody /\ closed
  /\ answer \in {"part", "whole", "broken"}
  /\ record = "none" /\ record' = "failed"
  /\ UNCHANGED <<asked, answer, closed, gone>>

\* the client is taken for gone, perhaps before its response is ended
Lose ==
  /\ asked = Nobody /\ ~closed
  /\ gone \/ answer \in {"part", "whole"}
  /\ record = "none" /\ record' = "client_abort"
  /\ UNCHANGED <<asked, answer, closed, gone>>

\* a client that is there gets a refusal, or the end of what it has got
GiveUp ==
  /\ asked = Nobody /\ ~closed
  /\ IF gone THEN UNCHANGED <<answer, closed>>
             ELSE /\ closed' = TRUE
                  /\ answer' = IF answer = "nothing" THEN "refusal" ELSE answer
  /\ record' \in IF record # "none" THEN {record}
                 ELSE IF gone THEN {"client_abort"} ELSE {"failed", "total_deadline"}
  /\ UNCHANGED <<asked, gone>>

Next ==
  \/ \E c \in Channels : Ask(c)
  \/ Fail \/ Begin \/ Complete \/ Close \/ Leave
  \/ Succeed \/ BreakDown \/ Lose \/ GiveUp

Spec == Init /\ [][Next]_vars
=============================================================================
