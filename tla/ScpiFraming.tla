------------------------------ MODULE ScpiFraming ------------------------------
(***************************************************************************)
(* A connection to the SCPI server: the child's loop around recv, its      *)
(* message buffer and the search for the delimiter (handleConnection and   *)
(* getNextCommand in scpi-server/src/scpi-server.c), the client's end of   *)
(* the socket and the signal that stops the server.                        *)
(*                                                                         *)
(* A step of the child is a call of recv, SCPI_Input or write, or the test,*)
(* the copying or an enlargement of the buffer in between.  A command is   *)
(* executed by libscpi, which gets it whole and is outside of this model,  *)
(* and writes its response, if it has one, by SCPI_Write                   *)
(* (scpi-server/src/scpi-commands.c).  SIGPIPE is ignored, as in every     *)
(* service that systemd starts and lockbox.service does not except.        *)
(***************************************************************************)
EXTENDS Integers, Sequences, SequencesExt, FiniteSetsExt

CONSTANTS
    CR, LF, Others, MaxSent,    \* see ScpiStream
    MAX_BUFF_SIZE,              \* the bytes one recv reads at most
    SIZE                        \* 2^32, the values of size_t

(* "size" stands for what malloc keeps in front of the buffer.            *)
ASSUME DelimiterAssumption ==
    CR # LF /\ CR \notin Others /\ LF \notin Others /\ CR # "size"

ASSUME BoundsAssumption ==
    MaxSent \in Nat /\ MAX_BUFF_SIZE \in Nat \ {0} /\ SIZE \in Nat \ {0, 1}

VARIABLES
    sent, conn, told, latest, executed,     \* see ScpiStream
    socket,         \* what is sent and not received
    interrupted,    \* the signal came while the child was blocked
    pc,             \* where the child is
    buffer,         \* what recv read
    message_buff,   \* the bytes of the message buffer, from 0 on
    message_len,    \* its size
    m, msg_end,     \* the bytes not parsed yet: msg_end of them from m on
    len             \* the bytes of a response that are not written yet

client == <<sent, conn, told, latest, socket, interrupted>>
message == <<message_buff, message_len, m, msg_end>>
vars == <<client, executed, pc, buffer, message, len>>

-----------------------------------------------------------------------------
(***************************************************************************)
(* The client and the signal.                                              *)
(***************************************************************************)
(* The bytes of the stream that are parsed: not in the socket, nor read or *)
(* kept.                                                                   *)
parsed == Len(sent) - (Len(socket) + Len(buffer) + msg_end)

Stream == INSTANCE ScpiStream WITH position <- parsed, ended <- pc = "ended"

child == <<executed, pc, buffer, message, len>>

Send ==
    /\ Stream!Send
    /\ socket' = Append(socket, Last(sent'))
    /\ UNCHANGED <<interrupted, child>>

Close == Stream!Close /\ UNCHANGED <<socket, interrupted, child>>

Break == Stream!Break /\ UNCHANGED <<socket, interrupted, child>>

(* termSignalHandler, at the first signal and at any later one: app_exit is*)
(* set; a recv that is blocked returns.                                    *)
Tell ==
    /\ Stream!Tell \/ (told /\ UNCHANGED <<sent, conn, told, latest>>)
    /\ interrupted' = (interrupted \/ pc = "blocked")
    /\ UNCHANGED <<socket, child>>

-----------------------------------------------------------------------------
(***************************************************************************)
(* The child.                                                              *)
(***************************************************************************)
(* recv has something to read; of a broken connection it may still read    *)
(* what arrived before.                                                    *)
RecvData ==
    /\ pc \in {"recv", "blocked"} /\ socket # <<>>
    /\ \E n \in 1 .. MAX_BUFF_SIZE :
          /\ n <= Len(socket)
          /\ buffer' = SubSeq(socket, 1, n)
          /\ socket' = SubSeq(socket, n + 1, Len(socket))
    /\ pc' = "received"
    /\ UNCHANGED <<sent, conn, told, latest, interrupted, executed, message, len>>

(* It has not, and waits. *)
RecvBlocks ==
    /\ pc = "recv" /\ socket = <<>> /\ conn = "open"
    /\ pc' = "blocked"
    /\ UNCHANGED <<client, executed, buffer, message, len>>

(* It returns 0 for a client that has closed, or -1.                       *)
RecvEnds ==
    /\ \/ pc = "blocked" /\ interrupted
       \/ pc \in {"recv", "blocked"} /\ conn = "broken"
       \/ pc \in {"recv", "blocked"} /\ conn = "closed" /\ socket = <<>>
    /\ pc' = "ended"
    /\ UNCHANGED <<client, executed, buffer, message, len>>

(* What is written beyond its end is not in the buffer. *)
Copied(at, bytes, size) ==
    [i \in 0 .. size - 1 |->
        IF i \in at .. at + Len(bytes) - 1 THEN bytes[i - at + 1]
        ELSE IF i \in DOMAIN message_buff THEN message_buff[i] ELSE "junk"]


(* What was read is dropped if the server is to stop. *)
Received ==
    /\ pc = "received"
    /\ pc' = IF told THEN "ended" ELSE "store"
    /\ UNCHANGED <<client, executed, buffer, message, len>>

(* The message buffer is doubled until it has room.                        *)
Grow ==
    /\ pc = "store" /\ msg_end + Len(buffer) >= message_len
    /\ message_len' = 2 * message_len
    /\ UNCHANGED <<client, executed, pc, buffer, message_buff, m, msg_end, len>>

(* What was read goes behind what is left of the last command.             *)
Store ==
    /\ pc = "store" /\ msg_end + Len(buffer) < message_len
    /\ message_buff' = Copied(msg_end, buffer, message_len)
    /\ msg_end' = msg_end + Len(buffer)
    /\ m' = 0 /\ buffer' = <<>> /\ pc' = "parse"
    /\ UNCHANGED <<client, executed, message_len, len>>

(* The byte before i.  For the first one getNextCommand looks in front of  *)
(* the buffer, at the size that malloc keeps there: no CR.                 *)
Before(i) == IF i = 0 THEN "size" ELSE message_buff[i - 1]

(* getNextCommand: the lengths of what ends with a delimiter; the shortest *)
(* is the next command.                                                    *)
Lengths ==
    {i - m + 1 : i \in {j \in m .. m + msg_end - 1 :
                           message_buff[j] = LF /\ Before(j) = CR}}

(* SCPI_Input executes it.  Its response has any length, none included.    *)
Parse ==
    /\ pc = "parse" /\ Lengths # {}
    /\ LET pos == Min(Lengths)
       IN  /\ executed' = Append(executed, [i \in 1 .. pos |-> message_buff[m + i - 1]])
           /\ m' = m + pos
           /\ msg_end' = msg_end - pos
    /\ len' \in 0 .. SIZE - 1 /\ pc' = "write"
    /\ UNCHANGED <<client, buffer, message_buff, message_len>>

(* What write returns, as the size_t it is stored in: of a broken          *)
(* connection -1.                                                          *)
written == IF conn = "broken" THEN {SIZE - 1} ELSE 1 .. len

(* SCPI_Write: its test for an error, written < 0, is never true, and after*)
(* a write that failed there is one byte more to write.                    *)
Write ==
    /\ pc = "write"
    /\ \/ len > 0 /\ pc' = "write" /\ \E n \in written : len' = (len - n) % SIZE
       \/ len = 0 /\ pc' = "parse" /\ len' = 0
    /\ UNCHANGED <<client, executed, buffer, message>>

(* Fault: the rest stays where it is.                                      *)
KeepRest_unmoved ==
    /\ pc = "parse" /\ Lengths = {}
    /\ m' = 0 /\ pc' = "recv"
    /\ UNCHANGED <<client, executed, buffer, message_buff, message_len, msg_end, len>>

(* No delimiter: the rest moves to the start of the buffer.                *)
KeepRest ==
    /\ pc = "parse" /\ Lengths = {}
    /\ message_buff' = Copied(0, [i \in 1 .. msg_end |-> message_buff[m + i - 1]],
                              message_len)
    /\ m' = 0 /\ pc' = "recv"
    /\ UNCHANGED <<client, executed, buffer, message_len, msg_end, len>>

Child ==
    \/ RecvData \/ RecvBlocks \/ RecvEnds
    \/ Received \/ Grow \/ Store
    \/ Parse \/ Write \/ KeepRest

Init ==
    /\ pc = "recv" /\ buffer = <<>> /\ socket = <<>> /\ interrupted = FALSE
    /\ message_buff = [i \in 0 .. MAX_BUFF_SIZE - 1 |-> "junk"]
    /\ message_len = MAX_BUFF_SIZE /\ m = 0 /\ msg_end = 0 /\ len = 0
    /\ Stream!Init

Next == Send \/ Close \/ Break \/ Tell \/ Child

(* The child runs; recv returns once it can. *)
Spec == Init /\ [][Next]_vars /\ WF_vars(Child)

-----------------------------------------------------------------------------
(***************************************************************************)
(* Properties.                                                             *)
(***************************************************************************)

(* However the bytes are cut on the way, the child executes the commands   *)
(* sent, whole, once and in order: all of them if the client stays or      *)
(* closes after the last, and none that was sent after a stop.             *)
CommandsAreTheStream == Stream!Spec

=============================================================================
