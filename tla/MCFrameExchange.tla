-------------------------- MODULE MCFrameExchange --------------------------
(***************************************************************************)
(* An instance of FrameExchange for TLC.  20 bytes leave 12 for header and *)
(* payload: the sizes below fill them exactly, exceed them by one in the   *)
(* payload and by one in the header, and leave both parts of different     *)
(* frames at equal and at different places.                                *)
(***************************************************************************)
EXTENDS FrameExchange

CONSTANTS h2, h3, bad2, new3, ok2, fault4, typed3, bad4, long13,
          p0, p1, p9, p10, p11, bad9

MCSizeOf ==
  [m \in {h2, h3, bad2, new3, ok2, fault4, typed3, bad4, long13,
          p0, p1, p9, p10, p11, bad9} |->
     CASE m \in {h2, bad2, ok2} -> 2 [] m \in {h3, new3, typed3} -> 3
       [] m \in {fault4, bad4} -> 4 [] m = long13 -> 13
       [] m = p0 -> 0 [] m = p1 -> 1 [] m \in {p9, bad9} -> 9
       [] m = p10 -> 10 [] OTHER -> 11]

(* The headers of commands announce a payload: h2, h3 and bad2 of an id    *)
(* both processes know, new3 of one that only the client knows.            *)
(* ok2, fault4, bad4 and long13 announce none, typed3 does.                *)
MCTypeOf ==
  [h \in {h2, h3, bad2, new3, ok2, fault4, typed3, bad4, long13} |->
     CASE h \in {h2, h3, bad2} -> 1 [] h \in {new3, typed3} -> 2 [] OTHER -> 0]

(* bad2: a recipient that is not UTF-8.  bad4: the text of a fault that is *)
(* not.  bad9: a command with such a string.                               *)
MCParsable == (Headers \cup Payloads) \ {bad2, bad4, bad9}

MCRequests == {h2, h3, bad2, new3} \X Payloads

(* ok2: a handler that returned.  fault4, bad4, long13: a FaultException   *)
(* with a short message, with one that is not UTF-8 and with one that does *)
(* not fit.  <<typed3, Null>>: a TypedFaultException, whose Get() is null. *)
(* With a payload: a fault of a class of the application's that overrides  *)
(* Get(), for a message with bytes, without, and with a bad string.        *)
MCResponses ==
  ({ok2, fault4, typed3, bad4, long13} \X {Null})
    \cup ({typed3} \X {p0, p1, bad9})
=============================================================================
