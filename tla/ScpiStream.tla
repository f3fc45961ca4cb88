------------------------------ MODULE ScpiStream ------------------------------
(***************************************************************************)
(* What a connection to the SCPI server promises a client: the commands    *)
(* executed are the bytes sent, cut after each delimiter, one after the    *)
(* other and none of them in part (scpi-server/src/scpi-server.c).         *)
(***************************************************************************)
EXTENDS Naturals, Sequences, FiniteSetsExt

CONSTANTS
    CR, LF,         \* the two bytes of the delimiter
    Others,         \* all other bytes
    MaxSent         \* bound: the bytes a client sends

Byte == {CR, LF} \cup Others

VARIABLES
    sent,           \* all the client has sent
    conn,           \* "open", "closed" by the client, or "broken"
    told,           \* whether the server was told to stop (SIGTERM)
    latest,         \* what was sent until then
    executed,       \* the commands executed
    position,       \* the bytes of the stream they are
    ended           \* the server's child for this connection is gone

clientVars == <<sent, conn, told, latest>>

vars == <<clientVars, executed, position, ended>>

-----------------------------------------------------------------------------
(* The client sends, closes, or is gone; and the server is told to stop.   *)
Send ==
    /\ conn = "open" /\ Len(sent) < MaxSent
    /\ \E b \in Byte : sent' = Append(sent, b)
    /\ UNCHANGED <<conn, told, latest>>

Close ==
    /\ conn = "open" /\ conn' = "closed"
    /\ UNCHANGED <<sent, told, latest>>

Break ==
    /\ conn # "broken" /\ conn' = "broken"
    /\ UNCHANGED <<sent, told, latest>>

Tell ==
    /\ ~told /\ told' = TRUE /\ latest' = Len(sent)
    /\ UNCHANGED <<sent, conn>>

Client == Send \/ Close \/ Break \/ Tell

(* The ends of the commands that are not executed yet. *)
Ends == {i \in position + 2 .. Len(sent) : sent[i - 1] = CR /\ sent[i] = LF}

(* The next command.  A server told to stop executes none that was sent    *)
(* later.                                                                  *)
Execute ==
    /\ ~ended /\ Ends # {}
    /\ told => Min(Ends) <= latest
    /\ executed' = Append(executed, SubSeq(sent, position + 1, Min(Ends)))
    /\ position' = Min(Ends)
    /\ UNCHANGED <<clientVars, ended>>

(* The child only ends when it is told to, when the connection breaks, or  *)
(* when the client has closed it and every command is executed.            *)
End ==
    /\ ~ended /\ ended' = TRUE
    /\ told \/ conn = "broken" \/ (conn = "closed" /\ Ends = {})
    /\ UNCHANGED <<clientVars, executed, position>>

Init ==
    /\ sent = <<>> /\ conn = "open" /\ told = FALSE /\ latest = 0
    /\ executed = <<>> /\ position = 0 /\ ended = FALSE

Next == (Client /\ UNCHANGED <<executed, position, ended>>) \/ Execute \/ End

(* The commands of a client that stays are executed; the child of one that *)
(* is gone ends.                                                           *)
Fairness ==
    /\ WF_vars(Execute /\ ~told /\ conn # "broken")
    /\ WF_vars(End /\ conn # "open")

(* What is executed is the stream, and what must come of it in time.       *)
Safety == Init /\ [][Next]_vars

Spec == Safety /\ Fairness
=============================================================================
