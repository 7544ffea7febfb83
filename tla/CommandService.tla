--------------------------- MODULE CommandService ---------------------------
(***************************************************************************)
(* What PlumberCommandBus promises the threads that send commands, each    *)
(* over a client of its own, without frames, sockets, flags or a server    *)
(* process: a call is submitted at most once, a submitted call is executed *)
(* any number of times, now or later, and a call that is answered is       *)
(* answered with the end of an execution of that very call.  Any call may  *)
(* fail instead.  CommandFlow is shown to implement this.                  *)
(***************************************************************************)
EXTENDS Naturals

CONSTANTS Callers, ClientOf, Commands,
          Ends,      \* what executions end in
          NoAnswer,  \* the end of one that nobody is told about
          None

VARIABLES
  phase,      \* phase[c]: "idle", "calling" or "submitted"
  cmd,        \* cmd[c]: the command of the last call
  ticket,     \* ticket[c]: the number of the last call submitted
  answer,     \* answer[c]: what the last call was told, if anything
  submitted,  \* the calls that were submitted
  executed    \* the executions: a call and the end it came to

vars == <<phase, cmd, ticket, answer, submitted, executed>>

TheCall(c) == [client |-> ClientOf[c], id |-> ticket[c], cmd |-> cmd[c]]

Init ==
  /\ phase = [c \in Callers |-> "idle"]
  /\ cmd = [c \in Callers |-> None]
  /\ ticket = [c \in Callers |-> 0]
  /\ answer = [c \in Callers |-> NoAnswer]
  /\ submitted = {} /\ executed = {}

(* A call of Start, which a caller may make at any time.                   *)
Connect(c) ==
  /\ phase[c] = "idle"
  /\ answer' = [answer EXCEPT ![c] = NoAnswer]
  /\ UNCHANGED <<phase, cmd, ticket, submitted, executed>>

Call(c, m) ==
  /\ phase[c] = "idle"
  /\ phase' = [phase EXCEPT ![c] = "calling"]
  /\ cmd' = [cmd EXCEPT ![c] = m]
  /\ answer' = [answer EXCEPT ![c] = NoAnswer]
  /\ UNCHANGED <<ticket, submitted, executed>>

Submit(c) ==
  /\ phase[c] = "calling"
  /\ phase' = [phase EXCEPT ![c] = "submitted"]
  /\ ticket' = [ticket EXCEPT ![c] = @ + 1]
  /\ submitted' = submitted \cup {[TheCall(c) EXCEPT !.id = @ + 1]}
  /\ UNCHANGED <<cmd, answer, executed>>

Execute(call, end) ==
  /\ call \in submitted
  /\ executed' = executed \cup {[call |-> call, end |-> end]}
  /\ UNCHANGED <<phase, cmd, ticket, answer, submitted>>

Answer(c, end) ==
  /\ phase[c] = "submitted" /\ end # NoAnswer
  /\ [call |-> TheCall(c), end |-> end] \in executed
  /\ phase' = [phase EXCEPT ![c] = "idle"]
  /\ answer' = [answer EXCEPT ![c] = end]
  /\ UNCHANGED <<cmd, ticket, submitted, executed>>

Fail(c) ==
  /\ phase[c] # "idle"
  /\ phase' = [phase EXCEPT ![c] = "idle"]
  /\ UNCHANGED <<cmd, ticket, answer, submitted, executed>>

Next ==
  \/ \E c \in Callers : \/ Connect(c) \/ Submit(c) \/ Fail(c)
                        \/ \E m \in Commands : Call(c, m)
                        \/ \E end \in Ends : Answer(c, end)
  \/ \E call \in submitted, end \in Ends : Execute(call, end)

Spec == Init /\ [][Next]_vars
=============================================================================
