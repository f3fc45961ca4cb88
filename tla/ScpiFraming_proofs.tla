--------------------------- MODULE ScpiFraming_proofs ---------------------------
(***************************************************************************)
(* The child of a connection implements the stream of commands: however    *)
(* the bytes are cut, read, kept, moved and joined, what it executes are   *)
(* the commands of the stream, one after the other.                        *)
(***************************************************************************)
EXTENDS ScpiFraming, SequenceTheorems, WellFoundedInduction, TLAPS

Byte == Stream!Byte

TypeOK ==
    /\ sent \in Seq(Byte) /\ conn \in {"open", "closed", "broken"}
    /\ told \in BOOLEAN /\ interrupted \in BOOLEAN
    /\ latest \in Nat /\ latest <= Len(sent)
    /\ socket \in Seq(Byte) /\ buffer \in Seq(Byte) /\ executed \in Seq(Seq(Byte))
    /\ pc \in {"recv", "blocked", "received", "store", "parse", "write", "ended"}
    /\ message_len \in Nat \ {0} /\ m \in Nat /\ msg_end \in Nat
    /\ len \in 0 .. SIZE - 1

(* The bytes not parsed are the end of the stream: first those kept, then  *)
(* those read, then those in the socket.                                   *)
OnTheWay ==
    /\ parsed >= 0
    /\ \A i \in 1 .. msg_end : message_buff[m + i - 1] = sent[parsed + i]
    /\ \A i \in 1 .. Len(buffer) : buffer[i] = sent[parsed + msg_end + i]
    /\ \A i \in 1 .. Len(socket) : socket[i] = sent[parsed + msg_end + Len(buffer) + i]

(* The kept bytes lie in the message buffer. *)
Fits ==
    /\ m + msg_end <= message_len
    /\ \A i \in Nat : i < m + msg_end => i \in DOMAIN message_buff

(* Between two reads the kept bytes are moved and hold no delimiter; while *)
(* they are parsed, a delimiter precedes them.                             *)
Between == {"recv", "blocked", "received", "store"}
Moved ==
    /\ pc \in Between =>
          /\ m = 0
          /\ \A i \in Stream!Ends : i > parsed + msg_end
    /\ pc \in {"recv", "blocked", "parse", "write"} => buffer = <<>>
    /\ pc \in {"parse", "write"} /\ m > 0 => message_buff[m - 1] = LF

(* What a child that was told to stop may still execute was sent before.   *)
Taken == parsed + msg_end + (IF pc = "store" THEN Len(buffer) ELSE 0)
Warned == (interrupted => told) /\ (told => Taken <= latest)

IInv == TypeOK /\ OnTheWay /\ Fits /\ Moved /\ Warned

-----------------------------------------------------------------------------
(***************************************************************************)
(* Sequences of bytes.                                                     *)
(***************************************************************************)
LEMMA Appended ==
    ASSUME NEW S, NEW s \in Seq(S), NEW b \in S
    PROVE  /\ Append(s, b) \in Seq(S) /\ Len(Append(s, b)) = Len(s) + 1
           /\ \A i \in 1 .. Len(s) : Append(s, b)[i] = s[i]
           /\ Append(s, b)[Len(s) + 1] = b
           /\ Last(Append(s, b)) = b
BY DEF Last

(* A sequence cut in two. *)
LEMMA Cut ==
    ASSUME NEW S, NEW s \in Seq(S), NEW n \in 1 .. Len(s)
    PROVE  /\ SubSeq(s, 1, n) \in Seq(S) /\ Len(SubSeq(s, 1, n)) = n
           /\ \A i \in 1 .. n : SubSeq(s, 1, n)[i] = s[i]
           /\ SubSeq(s, n + 1, Len(s)) \in Seq(S)
           /\ Len(SubSeq(s, n + 1, Len(s))) = Len(s) - n
           /\ \A i \in 1 .. Len(s) - n : SubSeq(s, n + 1, Len(s))[i] = s[n + i]
OBVIOUS

(* The least element of a set of numbers. *)
LEMMA Least ==
    ASSUME NEW S, S \subseteq Nat, S # {}
    PROVE  Min(S) \in S /\ \A i \in S : Min(S) <= i
<1>1. PICK i \in S : \A j \in S : ~(<<j, i>> \in OpToRel(<, Nat))
  BY NatLessThanWellFounded, WFMin, Zenon
<1>2. ASSUME NEW j \in S PROVE i <= j
  <2>1. j \in Nat /\ i \in Nat
    OBVIOUS
  <2>2. ~(j < i)
    BY <1>1, <2>1 DEF OpToRel
  <2> QED
    BY <2>1, <2>2, SMT
<1> QED
  BY <1>2 DEF Min

LEMMA BytesStay ==
    ASSUME TypeOK, OnTheWay, Fits, UNCHANGED <<sent, socket, buffer, message_buff, m, msg_end>>,
           message_len' \in Nat, message_len' >= message_len
    PROVE  parsed' = parsed /\ Stream!Ends' = Stream!Ends /\ OnTheWay' /\ Fits'
<1>1. parsed' = parsed
  BY DEF parsed
<1>2. Stream!Ends' = Stream!Ends
  BY <1>1 DEF Stream!Ends
<1>3. OnTheWay'
  BY <1>1 DEF OnTheWay
<1>4. Fits'
  BY DEF Fits, TypeOK
<1> QED
  BY <1>1, <1>2, <1>3, <1>4

LEMMA ParsedType ==
    ASSUME TypeOK
    PROVE  /\ parsed \in Int
           /\ Len(sent) = parsed + msg_end + Len(buffer) + Len(socket)
           /\ Len(sent) \in Nat /\ Len(buffer) \in Nat /\ Len(socket) \in Nat
BY DEF TypeOK, parsed

-----------------------------------------------------------------------------
(***************************************************************************)
(* The client and the signal.                                              *)
(***************************************************************************)
LEMMA SendStep ==
    ASSUME IInv, Send
    PROVE  IInv' /\ Stream!Next
<1>1. PICK b \in Byte : sent' = Append(sent, b)
  BY DEF Send, Stream!Send, Byte
<1>2. /\ socket' = Append(socket, b)
      /\ UNCHANGED <<conn, told, latest, interrupted, executed, pc, buffer,
                     message_buff, message_len, m, msg_end, len>>
  <2>1. Last(sent') = b
    BY <1>1, Appended DEF IInv, TypeOK
  <2> QED
    BY <2>1 DEF Send, Stream!Send, child, message
<1>3. /\ sent' \in Seq(Byte) /\ Len(sent') = Len(sent) + 1
      /\ \A i \in 1 .. Len(sent) : sent'[i] = sent[i]
      /\ sent'[Len(sent) + 1] = b
      /\ socket' \in Seq(Byte) /\ Len(socket') = Len(socket) + 1
      /\ \A i \in 1 .. Len(socket) : socket'[i] = socket[i]
      /\ socket'[Len(socket) + 1] = b
  BY <1>1, <1>2, Appended DEF IInv, TypeOK
<1>4. /\ parsed \in Int /\ Len(sent) = parsed + msg_end + Len(buffer) + Len(socket)
      /\ Len(sent) \in Nat /\ Len(buffer) \in Nat /\ Len(socket) \in Nat
      /\ msg_end \in Nat /\ m \in Nat /\ parsed >= 0
  BY ParsedType DEF IInv, TypeOK, OnTheWay
<1>5. parsed' = parsed
  BY <1>2, <1>3, <1>4 DEF parsed
<1>6. TypeOK'
  BY <1>2, <1>3, <1>4 DEF IInv, TypeOK
<1>7. OnTheWay'
  <2>1. \A i \in 1 .. msg_end : message_buff[m + i - 1] = sent'[parsed + i]
    <3> TAKE i \in 1 .. msg_end
    <3>1. parsed + i \in 1 .. Len(sent)
      BY <1>4
    <3>2. message_buff[m + i - 1] = sent[parsed + i]
      BY <1>4 DEF IInv, OnTheWay
    <3> QED
      BY <1>3, <3>1, <3>2
  <2>2. \A i \in 1 .. Len(buffer) : buffer[i] = sent'[parsed + msg_end + i]
    BY <1>3, <1>4 DEF IInv, OnTheWay
  <2>3. \A i \in 1 .. Len(socket') :
           socket'[i] = sent'[parsed + msg_end + Len(buffer) + i]
    <3> TAKE i \in 1 .. Len(socket')
    <3>1. CASE i \in 1 .. Len(socket)
      BY <1>3, <1>4, <3>1 DEF IInv, OnTheWay
    <3>2. CASE i = Len(socket) + 1
      BY <1>3, <1>4, <3>2
    <3> QED
      BY <1>3, <1>4, <3>1, <3>2
  <2> QED
    BY <1>2, <1>4, <1>5, <2>1, <2>2, <2>3 DEF OnTheWay
<1>8. Fits'
  BY <1>2 DEF IInv, Fits
<1>9. Moved'
  <2>1. ASSUME \A i \in Stream!Ends : i > parsed + msg_end
        PROVE  \A i \in Stream!Ends' : i > parsed + msg_end
    <3> TAKE i \in Stream!Ends'
    <3>1. i \in parsed + 2 .. Len(sent) + 1 /\ sent'[i - 1] = CR /\ sent'[i] = LF
      BY <1>3, <1>5 DEF Stream!Ends
    <3>2. CASE i <= Len(sent)
      <4>1. sent[i - 1] = CR /\ sent[i] = LF
        BY <1>3, <1>4, <3>1, <3>2
      <4> QED
        BY <1>4, <2>1, <3>1, <3>2, <4>1 DEF Stream!Ends
    <3>3. CASE i > Len(sent)
      BY <1>4, <3>1, <3>3
    <3> QED
      BY <1>4, <3>1, <3>2, <3>3
  <2> QED
    BY <1>2, <1>5, <2>1 DEF IInv, Moved
<1>10. Warned'
  BY <1>2, <1>5 DEF IInv, Warned, Taken
<1>11. Stream!Next
  BY <1>2, <1>5 DEF Send, Stream!Next, Stream!Client
<1> QED
  BY <1>6, <1>7, <1>8, <1>9, <1>10, <1>11 DEF IInv

(* The client closes or is gone, or the server is told to stop.            *)
LEMMA ClientStep ==
    ASSUME IInv, Close \/ Break \/ Tell
    PROVE  IInv' /\ (Stream!Next \/ UNCHANGED Stream!vars)
<1>1. /\ UNCHANGED <<sent, socket, executed, pc, buffer, message_buff, message_len,
                     m, msg_end, len>>
      /\ \/ UNCHANGED <<told, latest, interrupted>>
         \/ told' = TRUE /\ UNCHANGED <<told, latest>>
         \/ told' = TRUE /\ latest' = Len(sent)
      /\ conn' \in {"open", "closed", "broken"} /\ interrupted' \in BOOLEAN
      /\ told' \in BOOLEAN
  BY DEF Close, Break, Tell, Stream!Close, Stream!Break, Stream!Tell, child, message, IInv, TypeOK
<1>2. parsed' = parsed /\ Stream!Ends' = Stream!Ends /\ OnTheWay' /\ Fits'
  BY <1>1, BytesStay DEF IInv, TypeOK
<1>3. /\ parsed \in Int /\ Len(sent) = parsed + msg_end + Len(buffer) + Len(socket)
      /\ Len(sent) \in Nat /\ Len(buffer) \in Nat /\ Len(socket) \in Nat
      /\ msg_end \in Nat
  BY ParsedType DEF IInv, TypeOK
<1>4. TypeOK'
  BY <1>1, <1>3 DEF IInv, TypeOK
<1>5. Moved'
  BY <1>1, <1>2 DEF IInv, Moved
<1>6. Warned'
  <2>1. Taken' = Taken
    BY <1>1, <1>2 DEF Taken
  <2>2. Taken <= Len(sent)
    <3>1. CASE pc = "store"
      BY <1>3, <3>1 DEF Taken
    <3>2. CASE pc # "store"
      BY <1>3, <3>2 DEF Taken
    <3> QED
      BY <3>1, <3>2
  <2>3. interrupted' = interrupted \/ told'
    BY <1>1
  <2>4. CASE UNCHANGED <<told, latest>>
    <3>1. told' = told /\ latest' = latest
      BY <2>4
    <3>2. (interrupted => told) /\ (told => Taken <= latest)
      BY DEF IInv, Warned
    <3>3. told' => Taken' <= latest'
      BY <2>1, <3>1, <3>2, Zenon
    <3>4. interrupted' => told'
      BY <2>3, <3>1, <3>2, Zenon
    <3> QED
      BY <3>3, <3>4, Zenon DEF Warned
  <2>5. CASE told' = TRUE /\ latest' = Len(sent)
    BY <2>1, <2>2, <2>5, Zenon DEF Warned
  <2>6. CASE told' = TRUE /\ UNCHANGED <<told, latest>>
    BY <2>4, <2>6
  <2> QED
    BY <1>1, <2>4, <2>5, <2>6
<1>7. Stream!Next \/ UNCHANGED Stream!vars
  BY <1>1, <1>2 DEF Close, Break, Tell, Stream!Next, Stream!Client, Stream!vars,
                    Stream!clientVars
<1> QED
  BY <1>2, <1>4, <1>5, <1>6, <1>7 DEF IInv

-----------------------------------------------------------------------------
(***************************************************************************)
(* The child.                                                              *)
(***************************************************************************)
LEMMA RecvDataStep ==
    ASSUME IInv, RecvData
    PROVE  IInv' /\ UNCHANGED Stream!vars
<1>1. PICK n \in 1 .. Len(socket) :
         buffer' = SubSeq(socket, 1, n) /\ socket' = SubSeq(socket, n + 1, Len(socket))
  <2>1. PICK n \in 1 .. MAX_BUFF_SIZE :
           /\ n <= Len(socket)
           /\ buffer' = SubSeq(socket, 1, n) /\ socket' = SubSeq(socket, n + 1, Len(socket))
    BY DEF RecvData
  <2> QED
    BY <2>1, BoundsAssumption, ParsedType DEF IInv
<1>2. /\ pc \in {"recv", "blocked"} /\ pc' = "received"
      /\ UNCHANGED <<sent, conn, told, latest, interrupted, executed, message_buff,
                     message_len, m, msg_end, len>>
  BY DEF RecvData, message
<1>3. /\ buffer' \in Seq(Byte) /\ Len(buffer') = n
      /\ \A i \in 1 .. n : buffer'[i] = socket[i]
      /\ socket' \in Seq(Byte) /\ Len(socket') = Len(socket) - n
      /\ \A i \in 1 .. Len(socket) - n : socket'[i] = socket[n + i]
  BY <1>1, Cut DEF IInv, TypeOK
<1>4. /\ parsed \in Int /\ Len(sent) = parsed + msg_end + Len(socket) /\ Len(buffer) = 0
      /\ Len(sent) \in Nat /\ Len(socket) \in Nat /\ msg_end \in Nat
  <2>1. buffer = <<>>
    BY <1>2 DEF IInv, Moved
  <2> QED
    BY <2>1, ParsedType DEF IInv, TypeOK
<1>5. parsed' = parsed
  BY <1>2, <1>3, <1>4 DEF parsed
<1>6. TypeOK'
  BY <1>2, <1>3 DEF IInv, TypeOK
<1>7. OnTheWay'
  <2>1. \A i \in 1 .. Len(socket) : socket[i] = sent[parsed + msg_end + i]
    BY <1>4 DEF IInv, OnTheWay
  <2>2. \A i \in 1 .. Len(buffer') : buffer'[i] = sent[parsed + msg_end + i]
    BY <1>3, <1>4, <2>1
  <2>3. \A i \in 1 .. Len(socket') : socket'[i] = sent[parsed + msg_end + Len(buffer') + i]
    <3> TAKE i \in 1 .. Len(socket')
    <3>1. n + i \in 1 .. Len(socket) /\ parsed + msg_end + (n + i) = parsed + msg_end + n + i
      BY <1>3, <1>4
    <3>2. socket[n + i] = sent[parsed + msg_end + n + i]
      BY <2>1, <3>1
    <3> QED
      BY <1>3, <3>2
  <2> QED
    BY <1>2, <1>5, <2>2, <2>3 DEF IInv, OnTheWay
<1>8. Fits'
  BY <1>2 DEF IInv, Fits
<1>9. Moved'
  <2>1. Stream!Ends' = Stream!Ends
    BY <1>2, <1>5 DEF Stream!Ends
  <2> QED
    BY <1>2, <1>5, <2>1 DEF IInv, Moved, Between
<1>10. Warned'
  BY <1>2, <1>5 DEF IInv, Warned, Taken
<1>11. UNCHANGED Stream!vars
  BY <1>2, <1>5 DEF Stream!vars, Stream!clientVars
<1> QED
  BY <1>6, <1>7, <1>8, <1>9, <1>10, <1>11 DEF IInv

(* However many bytes are written, or fail to be, size_t holds the rest.   *)
LEMMA LenType ==
    ASSUME TypeOK, Write
    PROVE  len' \in 0 .. SIZE - 1
<1>1. SIZE \in Nat \ {0, 1} /\ len \in 0 .. SIZE - 1
  BY BoundsAssumption DEF TypeOK
<1>2. ASSUME NEW n \in written PROVE (len - n) % SIZE \in 0 .. SIZE - 1
  <2>1. n \in Int
    BY <1>1 DEF written
  <2> QED
    BY <1>1, <2>1, SMT
<1> QED
  BY <1>1, <1>2 DEF Write

(* The child goes on to its next step, writes a part of a response, or     *)
(* ends: told to stop, without a client, or with nothing left to parse.    *)
LEMMA MoveOnStep ==
    ASSUME IInv, RecvBlocks \/ Received \/ Grow \/ RecvEnds \/ Write
    PROVE  IInv' /\ (Stream!Next \/ UNCHANGED Stream!vars)
<1>1. /\ UNCHANGED <<sent, conn, told, latest, socket, interrupted, executed, buffer,
                     message_buff, m, msg_end>>
      /\ message_len' = message_len \/ message_len' = 2 * message_len
  BY DEF RecvBlocks, Received, Grow, RecvEnds, Write, client, message
<1>2. message_len \in Nat \ {0} /\ message_len' \in Nat \ {0} /\ message_len' >= message_len
  BY <1>1 DEF IInv, TypeOK
<1>3. parsed' = parsed /\ Stream!Ends' = Stream!Ends /\ OnTheWay' /\ Fits'
  BY <1>1, <1>2, BytesStay DEF IInv
<1>4. \/ pc = "recv" /\ pc' = "blocked"
      \/ pc = "received" /\ pc' = "store" /\ ~told
      \/ pc = "store" /\ pc' = "store"
      \/ pc = "write" /\ pc' \in {"write", "parse"}
      \/ /\ pc # "ended" /\ pc' = "ended"
         /\ \/ told \/ conn = "broken"
            \/ pc \in {"recv", "blocked"} /\ conn = "closed" /\ socket = <<>>
  BY DEF RecvBlocks, Received, Grow, RecvEnds, Write, IInv, Warned
<1>10. len' \in 0 .. SIZE - 1
  BY LenType DEF RecvBlocks, Received, Grow, RecvEnds, IInv, TypeOK
<1>5. TypeOK'
  BY <1>1, <1>2, <1>4, <1>10 DEF IInv, TypeOK
<1>6. Moved'
  BY <1>1, <1>3, <1>4 DEF IInv, Moved, Between
<1>7. Warned'
  <2>1. Len(buffer) \in Nat /\ parsed \in Int /\ msg_end \in Nat /\ latest \in Nat
    BY ParsedType DEF IInv, TypeOK
  <2>2. told' = told /\ interrupted' = interrupted /\ msg_end' = msg_end
        /\ latest' = latest /\ buffer' = buffer
    BY <1>1
  <2> QED
    <3>1. CASE ~told
      BY <2>2, <3>1, Zenon DEF IInv, Warned
    <3>2. CASE told
      <4>1. Taken' <= Taken /\ Taken \in Int
        BY <1>3, <1>4, <2>1, <2>2, <3>2 DEF Taken
      <4>2. Taken' \in Int
        BY <1>3, <2>1, <2>2 DEF Taken
      <4>3. Taken <= latest
        BY <3>2 DEF IInv, Warned
      <4>4. Taken' <= latest
        BY <2>1, <4>1, <4>2, <4>3, SMT
      <4> QED
        BY <2>2, <3>2, <4>4, Zenon DEF Warned
    <3> QED
      BY <3>1, <3>2
<1>8. CASE pc # "ended" /\ pc' = "ended"
  <2>1. ASSUME pc \in {"recv", "blocked"}, socket = <<>>
        PROVE  Stream!Ends = {}
    <3>1. buffer = <<>> /\ \A i \in Stream!Ends : i > parsed + msg_end
      BY <2>1 DEF IInv, Moved, Between
    <3>2. Len(sent) = parsed + msg_end /\ Len(sent) \in Nat /\ parsed \in Int
      BY <2>1, <3>1, ParsedType DEF IInv, TypeOK
    <3>3. \A i \in Stream!Ends : i <= Len(sent) /\ i \in Int
      BY <3>2 DEF Stream!Ends
    <3> QED
      BY <3>1, <3>2, <3>3
  <2>2. Stream!End
    BY <1>1, <1>3, <1>4, <1>8, <2>1 DEF Stream!End, Stream!clientVars
  <2> QED
    BY <1>3, <1>5, <1>6, <1>7, <2>2 DEF IInv, Stream!Next
<1>9. CASE ~(pc # "ended" /\ pc' = "ended")
  <2>1. UNCHANGED Stream!vars
    BY <1>1, <1>3, <1>4, <1>9 DEF Stream!vars, Stream!clientVars
  <2> QED
    BY <1>3, <1>5, <1>6, <1>7, <2>1 DEF IInv
<1> QED
  BY <1>8, <1>9

(* What was read joins what was kept, at the start of the buffer.          *)
LEMMA StoreStep ==
    ASSUME IInv, Store
    PROVE  IInv' /\ UNCHANGED Stream!vars
<1>1. /\ pc = "store" /\ pc' = "parse" /\ m' = 0 /\ buffer' = <<>>
      /\ msg_end' = msg_end + Len(buffer) /\ msg_end + Len(buffer) < message_len
      /\ message_buff' = Copied(msg_end, buffer, message_len)
      /\ UNCHANGED <<sent, conn, told, latest, socket, interrupted, executed, message_len, len>>
  BY DEF Store, client
<1>2. /\ parsed \in Int /\ Len(sent) = parsed + msg_end + Len(buffer) + Len(socket)
      /\ Len(sent) \in Nat /\ Len(buffer) \in Nat /\ Len(socket) \in Nat
      /\ msg_end \in Nat /\ m = 0 /\ message_len \in Nat
  BY <1>1, ParsedType DEF IInv, TypeOK, Moved, Between
<1>3. Len(buffer') = 0 /\ buffer' \in Seq(Byte)
  BY <1>1
<1>4. parsed' = parsed
  BY <1>1, <1>2, <1>3 DEF parsed
<1>5. /\ DOMAIN message_buff' = 0 .. message_len - 1
      /\ \A i \in 0 .. msg_end - 1 : message_buff'[i] = message_buff[i]
      /\ \A i \in 0 .. Len(buffer) - 1 : message_buff'[msg_end + i] = buffer[i + 1]
  <2>1. \A i \in 0 .. msg_end - 1 : i \in DOMAIN message_buff
    BY <1>2 DEF IInv, Fits
  <2>2. DOMAIN message_buff' = 0 .. message_len - 1
    BY <1>1 DEF Copied
  <2>3. ASSUME NEW i \in 0 .. msg_end - 1 PROVE message_buff'[i] = message_buff[i]
    <3>1. i \in 0 .. message_len - 1 /\ i \notin msg_end .. msg_end + Len(buffer) - 1
      BY <1>1, <1>2
    <3> QED
      BY <1>1, <2>1, <3>1, Zenon DEF Copied
  <2>4. ASSUME NEW i \in 0 .. Len(buffer) - 1 PROVE message_buff'[msg_end + i] = buffer[i + 1]
    <3>1. /\ msg_end + i \in 0 .. message_len - 1
          /\ msg_end + i \in msg_end .. msg_end + Len(buffer) - 1
          /\ (msg_end + i) - msg_end + 1 = i + 1
      BY <1>1, <1>2
    <3>2. message_buff'[msg_end + i] = buffer[(msg_end + i) - msg_end + 1]
      BY <1>1, <3>1, Zenon DEF Copied
    <3> QED
      BY <3>1, <3>2
  <2> QED
    BY <2>2, <2>3, <2>4
<1>6. TypeOK'
  BY <1>1, <1>2, <1>3 DEF IInv, TypeOK
<1>7. OnTheWay'
  <2>1. \A i \in 1 .. msg_end' : message_buff'[m' + i - 1] = sent'[parsed' + i]
    <3> TAKE i \in 1 .. msg_end'
    <3>1. CASE i <= msg_end
      <4>1. i - 1 \in 0 .. msg_end - 1 /\ i \in 1 .. msg_end
        BY <1>1, <1>2, <3>1
      <4>2. message_buff'[i - 1] = message_buff[i - 1] /\ message_buff[i - 1] = sent[parsed + i]
        BY <1>2, <1>5, <4>1 DEF IInv, OnTheWay
      <4> QED
        BY <1>1, <1>4, <4>1, <4>2
    <3>2. CASE i > msg_end
      <4>1. PICK j \in 1 .. Len(buffer) : i = msg_end + j
        <5>1. i - msg_end \in 1 .. Len(buffer) /\ i = msg_end + (i - msg_end)
          BY <1>1, <1>2, <3>2
        <5> QED
          BY <5>1
      <4>2. /\ j - 1 \in 0 .. Len(buffer) - 1 /\ msg_end + (j - 1) = i - 1 /\ (j - 1) + 1 = j
            /\ parsed + msg_end + j = parsed + i /\ 0 + i - 1 = i - 1
        BY <1>2, <4>1
      <4>3. message_buff'[i - 1] = buffer[j] /\ buffer[j] = sent[parsed + i]
        BY <1>5, <4>1, <4>2 DEF IInv, OnTheWay
      <4> QED
        BY <1>1, <1>4, <4>2, <4>3
    <3> QED
      BY <1>1, <1>2, <3>1, <3>2
  <2>2. \A i \in 1 .. Len(socket) : socket[i] = sent[parsed + msg_end' + 0 + i]
    BY <1>1, <1>2 DEF IInv, OnTheWay
  <2> QED
    BY <1>1, <1>3, <1>4, <2>1, <2>2 DEF IInv, OnTheWay
<1>8. Fits'
  BY <1>1, <1>2, <1>5 DEF Fits
<1>9. Moved'
  BY <1>1 DEF Moved, Between
<1>10. Warned'
  <2>1. Taken' = Taken
    BY <1>1, <1>2, <1>4 DEF Taken
  <2> QED
    BY <1>1, <2>1 DEF IInv, Warned
<1>11. UNCHANGED Stream!vars
  BY <1>1, <1>4 DEF Stream!vars, Stream!clientVars
<1> QED
  BY <1>6, <1>7, <1>8, <1>9, <1>10, <1>11 DEF IInv

(* What getNextCommand finds in the kept bytes are the ends of commands of *)
(* the stream: the byte in front of them is not the first of a delimiter.  *)
LEMMA LengthsAreEnds ==
    ASSUME IInv, pc = "parse"
    PROVE  Lengths = {l \in 1 .. msg_end : parsed + l \in Stream!Ends}
<1>1. /\ parsed \in Int /\ Len(sent) = parsed + msg_end + Len(socket)
      /\ Len(sent) \in Nat /\ Len(socket) \in Nat /\ parsed >= 0
      /\ msg_end \in Nat /\ m \in Nat
  <2>1. Len(buffer) = 0
    BY DEF IInv, Moved
  <2> QED
    BY <2>1, ParsedType DEF IInv, TypeOK, OnTheWay
<1>2. \A i \in 1 .. msg_end : message_buff[m + i - 1] = sent[parsed + i]
  BY DEF IInv, OnTheWay
<1>3. ASSUME NEW i \in 1 .. msg_end
      PROVE  /\ m + i - 1 \in m .. m + msg_end - 1
             /\ message_buff[m + i - 1] = LF /\ Before(m + i - 1) = CR
                   <=> parsed + i \in Stream!Ends
  <2>1. m + i - 1 \in m .. m + msg_end - 1
    BY <1>1
  <2>2. CASE i = 1
    <3>1. Before(m + i - 1) # CR
      <4>1. m + i - 1 = m
        BY <1>1, <2>2
      <4>2. CASE m = 0
        BY <4>1, <4>2, DelimiterAssumption, Zenon DEF Before
      <4>3. CASE m # 0
        <5>1. message_buff[m - 1] = LF
          BY <1>1, <4>3 DEF IInv, Moved
        <5> QED
          BY <4>1, <4>3, <5>1, DelimiterAssumption, Zenon DEF Before
      <4> QED
        BY <4>2, <4>3
    <3>2. parsed + i \notin Stream!Ends
      BY <1>1, <2>2 DEF Stream!Ends
    <3> QED
      BY <2>1, <3>1, <3>2
  <2>3. CASE i # 1
    <3>1. /\ i - 1 \in 1 .. msg_end /\ m + i - 1 # 0 /\ m + (i - 1) - 1 = (m + i - 1) - 1
          /\ parsed + (i - 1) = (parsed + i) - 1
          /\ parsed + i \in parsed + 2 .. Len(sent)
      BY <1>1, <2>3
    <3>2. Before(m + i - 1) = sent[(parsed + i) - 1]
      <4>1. message_buff[m + (i - 1) - 1] = sent[parsed + (i - 1)]
        BY <1>2, <3>1, Zenon
      <4> QED
        BY <3>1, <4>1, Zenon DEF Before
    <3>3. message_buff[m + i - 1] = sent[parsed + i]
      BY <1>2
    <3> QED
      BY <2>1, <3>1, <3>2, <3>3, Zenon DEF Stream!Ends
  <2> QED
    BY <2>2, <2>3
<1>4. ASSUME NEW l \in Lengths PROVE l \in 1 .. msg_end /\ parsed + l \in Stream!Ends
  <2>1. PICK j \in m .. m + msg_end - 1 : message_buff[j] = LF /\ Before(j) = CR /\ l = j - m + 1
    BY DEF Lengths
  <2>2. l \in 1 .. msg_end /\ m + l - 1 = j
    BY <1>1, <2>1
  <2> QED
    BY <1>3, <2>1, <2>2
<1>5. ASSUME NEW l \in 1 .. msg_end, parsed + l \in Stream!Ends PROVE l \in Lengths
  <2>1. l = (m + l - 1) - m + 1
    BY <1>1
  <2>2. /\ m + l - 1 \in m .. m + msg_end - 1
        /\ message_buff[m + l - 1] = LF /\ Before(m + l - 1) = CR
    BY <1>3, <1>5
  <2> QED
    BY <2>1, <2>2, Zenon DEF Lengths
<1> QED
  BY <1>4, <1>5

(* Without a delimiter the rest moves to the start of the buffer.          *)
LEMMA KeepRestStep ==
    ASSUME IInv, KeepRest
    PROVE  IInv' /\ UNCHANGED Stream!vars
<1> DEFINE bytes == [i \in 1 .. msg_end |-> message_buff[m + i - 1]]
<1>1. /\ pc = "parse" /\ pc' = "recv" /\ m' = 0 /\ Lengths = {}
      /\ message_buff' = Copied(0, bytes, message_len)
      /\ UNCHANGED <<sent, conn, told, latest, socket, interrupted, executed, buffer,
                     message_len, msg_end, len>>
  BY DEF KeepRest, client
<1>2. /\ parsed \in Int /\ Len(sent) = parsed + msg_end + Len(buffer) + Len(socket)
      /\ Len(sent) \in Nat /\ Len(buffer) \in Nat /\ Len(socket) \in Nat
      /\ msg_end \in Nat /\ m \in Nat /\ message_len \in Nat
      /\ m + msg_end <= message_len
  BY ParsedType DEF IInv, TypeOK, Fits
<1>3. parsed' = parsed /\ Stream!Ends' = Stream!Ends
  BY <1>1 DEF parsed, Stream!Ends
<1>4. Len(bytes) = msg_end /\ \A i \in 1 .. msg_end : bytes[i] = sent[parsed + i]
  <2>1. \A i \in 1 .. msg_end : message_buff[m + i - 1] = sent[parsed + i]
    BY Zenon DEF IInv, OnTheWay
  <2>2. Len(bytes) = msg_end
    BY <1>2
  <2>3. \A i \in 1 .. msg_end : bytes[i] = message_buff[m + i - 1]
    OBVIOUS
  <2> QED
    BY <2>1, <2>2, <2>3, Zenon
<1> HIDE DEF bytes
<1>5. /\ DOMAIN message_buff' = 0 .. message_len - 1
      /\ \A i \in 1 .. msg_end : message_buff'[i - 1] = sent[parsed + i]
  <2>1. DOMAIN message_buff' = 0 .. message_len - 1
    BY <1>1 DEF Copied
  <2>2. ASSUME NEW i \in 1 .. msg_end PROVE message_buff'[i - 1] = sent[parsed + i]
    <3>1. /\ i - 1 \in 0 .. message_len - 1 /\ i - 1 \in 0 .. 0 + Len(bytes) - 1
          /\ (i - 1) - 0 + 1 = i
      BY <1>2, <1>4
    <3>2. message_buff'[i - 1] = bytes[(i - 1) - 0 + 1]
      BY <1>1, <3>1, Zenon DEF Copied
    <3> QED
      BY <1>4, <3>1, <3>2
  <2> QED
    BY <2>1, <2>2
<1>6. TypeOK'
  BY <1>1, <1>2 DEF IInv, TypeOK
<1>7. OnTheWay'
  <2>1. \A i \in 1 .. msg_end : 0 + i - 1 = i - 1
    BY <1>2
  <2>2. \A i \in 1 .. msg_end' : message_buff'[m' + i - 1] = sent'[parsed' + i]
    BY <1>1, <1>3, <1>5, <2>1
  <2> QED
    BY <1>1, <1>3, <2>2 DEF IInv, OnTheWay
<1>8. Fits'
  BY <1>1, <1>2, <1>5 DEF Fits
<1>9. Moved'
  <2>1. ASSUME NEW i \in Stream!Ends PROVE i > parsed + msg_end
    <3>1. i \in parsed + 2 .. Len(sent)
      BY DEF Stream!Ends
    <3>2. CASE i <= parsed + msg_end
      <4>1. i - parsed \in 1 .. msg_end /\ parsed + (i - parsed) = i
        BY <1>2, <3>1, <3>2
      <4>2. i - parsed \in Lengths
        BY <1>1, <2>1, <4>1, LengthsAreEnds, Zenon
      <4> QED
        BY <1>1, <4>2
    <3> QED
      BY <1>2, <3>1, <3>2
  <2>2. buffer = <<>>
    BY <1>1 DEF IInv, Moved
  <2> QED
    BY <1>1, <1>3, <2>1, <2>2 DEF Moved
<1>10. Warned'
  BY <1>1, <1>3 DEF IInv, Warned, Taken
<1>11. UNCHANGED Stream!vars
  BY <1>1, <1>3 DEF Stream!vars, Stream!clientVars
<1> QED
  BY <1>6, <1>7, <1>8, <1>9, <1>10, <1>11 DEF IInv

(* The command up to the first delimiter is the next of the stream.        *)
LEMMA ParseStep ==
    ASSUME IInv, Parse
    PROVE  IInv' /\ Stream!Next
<1> DEFINE pos == Min(Lengths)
<1>1. /\ pc = "parse" /\ pc' = "write" /\ Lengths # {} /\ m' = m + pos /\ msg_end' = msg_end - pos
      /\ executed' = Append(executed, [i \in 1 .. pos |-> message_buff[m + i - 1]])
      /\ UNCHANGED <<sent, conn, told, latest, socket, interrupted, buffer,
                     message_buff, message_len>>
      /\ len' \in 0 .. SIZE - 1
  BY DEF Parse, client
<1>2. Lengths = {l \in 1 .. msg_end : parsed + l \in Stream!Ends}
  BY <1>1, LengthsAreEnds
<1>3. /\ parsed \in Nat /\ Len(sent) = parsed + msg_end + Len(socket) /\ Len(buffer) = 0
      /\ Len(sent) \in Nat /\ Len(socket) \in Nat /\ buffer = <<>>
      /\ msg_end \in Nat /\ m \in Nat /\ message_len \in Nat
  <2>1. buffer = <<>> /\ Len(buffer) = 0
    BY <1>1 DEF IInv, Moved
  <2> QED
    BY <2>1, ParsedType DEF IInv, TypeOK, OnTheWay
<1>4. pos \in Lengths /\ \A l \in Lengths : pos <= l
  <2>1. Lengths \subseteq Nat
    BY <1>2, <1>3
  <2> QED
    BY <1>1, <2>1, Least
<1> HIDE DEF pos
<1>5. pos \in 1 .. msg_end /\ parsed + pos \in Stream!Ends
  BY <1>2, <1>4
<1>6. Stream!Min(Stream!Ends) = parsed + pos
  <2>1. Stream!Ends \subseteq parsed + 2 .. Len(sent)
    BY DEF Stream!Ends
  <2>2. Min(Stream!Ends) \in Stream!Ends /\ \A e \in Stream!Ends : Min(Stream!Ends) <= e
    <3>1. Stream!Ends \subseteq Nat /\ Stream!Ends # {}
      BY <1>3, <1>5, <2>1
    <3> QED
      BY <3>1, Least
  <2>3. PICK e : e = Min(Stream!Ends)
    OBVIOUS
  <2>4. e \in Stream!Ends /\ e <= parsed + pos /\ e \in parsed + 2 .. Len(sent)
    BY <1>5, <2>1, <2>2, <2>3
  <2>5. e - parsed \in 1 .. msg_end /\ parsed + (e - parsed) = e
    BY <1>3, <1>5, <2>4
  <2>6. pos <= e - parsed
    BY <1>2, <1>4, <2>4, <2>5
  <2>7. e = parsed + pos
    BY <1>3, <1>5, <2>4, <2>6
  <2> QED
    BY <2>3, <2>7 DEF Stream!Min, Min
<1>7. /\ parsed' = parsed + pos /\ msg_end' \in Nat /\ m' \in Nat
      /\ m' + msg_end' = m + msg_end /\ parsed' + msg_end' = parsed + msg_end
  <2>1. msg_end' = msg_end - pos /\ m' = m + pos /\ sent' = sent /\ socket' = socket /\ buffer' = buffer
    BY <1>1
  <2>2. parsed' = Len(sent) - (Len(socket) + Len(buffer) + (msg_end - pos))
    BY <2>1 DEF parsed
  <2> QED
    BY <1>3, <1>5, <2>1, <2>2
<1>8. \A i \in 1 .. pos : message_buff[m + i - 1] = sent[parsed + i]
  <2>1. \A i \in 1 .. pos : i \in 1 .. msg_end
    BY <1>3, <1>5
  <2> QED
    BY <2>1, Zenon DEF IInv, OnTheWay
<1>9. [i \in 1 .. pos |-> message_buff[m + i - 1]] = SubSeq(sent, parsed + 1, parsed + pos)
  <2> DEFINE command == [i \in 1 .. pos |-> sent[parsed + i]]
  <2>1. sent \in Seq(Byte)
    BY DEF IInv, TypeOK
  <2>2. SubSeq(sent, parsed + 1, parsed + pos) = command
    <3>1. /\ parsed + 1 \in 1 .. Len(sent) /\ parsed + pos \in 1 .. Len(sent)
          /\ parsed + pos - (parsed + 1) + 1 = pos
      BY <1>3, <1>5
    <3>2. SubSeq(sent, parsed + 1, parsed + pos) \in Seq(Byte)
      BY <2>1, <3>1, SubSeqProperties
    <3>3. Len(SubSeq(sent, parsed + 1, parsed + pos)) = pos
      BY <1>3, <1>5, <2>1, <3>1, SubSeqProperties
    <3>4. \A i \in 1 .. pos : SubSeq(sent, parsed + 1, parsed + pos)[i] = sent[parsed + i]
      BY <1>3, <1>5, <2>1, <3>1, SubSeqProperties
    <3> QED
      BY <3>2, <3>3, <3>4
  <2> QED
    BY <1>8, <2>2
<1>10. SubSeq(sent, parsed + 1, parsed + pos) \in Seq(Byte)
  <2>1. parsed + 1 \in 1 .. Len(sent) /\ parsed + pos \in 1 .. Len(sent)
    BY <1>3, <1>5
  <2> QED
    BY <2>1, SubSeqProperties DEF IInv, TypeOK
<1>11. executed' = Append(executed, SubSeq(sent, parsed + 1, parsed + pos))
  BY <1>1, <1>9
<1>12. TypeOK'
  <2>1. executed' \in Seq(Seq(Byte))
    BY <1>10, <1>11, Appended DEF IInv, TypeOK
  <2> QED
    BY <1>1, <1>7, <2>1 DEF IInv, TypeOK
<1>13. OnTheWay'
  <2>1. \A i \in 1 .. msg_end' : message_buff[m' + i - 1] = sent[parsed' + i]
    <3> TAKE i \in 1 .. msg_end'
    <3>1. /\ pos + i \in 1 .. msg_end /\ m + (pos + i) - 1 = m' + i - 1
          /\ parsed + (pos + i) = parsed' + i
      BY <1>1, <1>3, <1>5, <1>7
    <3>2. message_buff[m + (pos + i) - 1] = sent[parsed + (pos + i)]
      BY <3>1 DEF IInv, OnTheWay
    <3> QED
      BY <3>1, <3>2
  <2>2. parsed' >= 0
    BY <1>3, <1>5, <1>7
  <2> QED
    BY <1>1, <1>7, <2>1, <2>2 DEF IInv, OnTheWay
<1>14. Fits'
  <2>1. /\ m + msg_end <= message_len
        /\ \A i \in Nat : i < m + msg_end => i \in DOMAIN message_buff
    BY Zenon DEF IInv, Fits
  <2>2. message_buff' = message_buff /\ message_len' = message_len
    BY <1>1
  <2>3. m' + msg_end' = m + msg_end
    BY <1>7
  <2> QED
    BY <2>1, <2>2, <2>3, Zenon DEF Fits
<1>15. Moved'
  <2>1. message_buff[m' - 1] = LF
    <3>1. pos \in 1 .. msg_end /\ m' - 1 = m + pos - 1
      BY <1>1, <1>3, <1>5
    <3>2. message_buff[m' - 1] = sent[parsed + pos]
      BY <1>8, <3>1
    <3> QED
      BY <1>5, <3>2 DEF Stream!Ends
  <2> QED
    BY <1>1, <1>3, <2>1 DEF Moved, Between
<1>16. Taken = parsed + msg_end /\ Taken' = Taken
  BY <1>1, <1>3, <1>7 DEF Taken
<1>17. Warned'
  BY <1>1, <1>16 DEF IInv, Warned
<1>18. Stream!Execute
  <2>1. told => Stream!Min(Stream!Ends) <= latest
    <3>1. parsed + pos <= Taken /\ Taken \in Int /\ latest \in Int
      BY <1>3, <1>5, <1>16 DEF IInv, TypeOK
    <3>2. told => Taken <= latest
      BY DEF IInv, Warned
    <3> QED
      BY <1>3, <1>5, <1>6, <3>1, <3>2
  <2> QED
    BY <1>1, <1>5, <1>6, <1>7, <1>11, <2>1 DEF Stream!Execute, Stream!clientVars
<1> QED
  BY <1>12, <1>13, <1>14, <1>15, <1>17, <1>18 DEF IInv, Stream!Next

-----------------------------------------------------------------------------
LEMMA StepImplements ==
    ASSUME IInv, [Next]_vars
    PROVE  IInv' /\ [Stream!Next]_(Stream!vars)
<1>1. CASE Send
  BY <1>1, SendStep
<1>2. CASE Close \/ Break \/ Tell
  BY <1>2, ClientStep
<1>3. CASE RecvData
  BY <1>3, RecvDataStep
<1>4. CASE RecvBlocks \/ Received \/ Grow \/ RecvEnds \/ Write
  BY <1>4, MoveOnStep
<1>5. CASE Store
  BY <1>5, StoreStep
<1>6. CASE Parse
  BY <1>6, ParseStep
<1>7. CASE KeepRest
  BY <1>7, KeepRestStep
<1>8. CASE UNCHANGED vars
  <2>1. UNCHANGED <<sent, conn, told, latest, socket, interrupted, executed, pc, buffer,
                   message_buff, message_len, m, msg_end, len>>
    BY <1>8 DEF vars, client, message
  <2>2. parsed' = parsed /\ Stream!Ends' = Stream!Ends /\ OnTheWay' /\ Fits'
    BY <2>1, BytesStay DEF IInv, TypeOK
  <2>3. TypeOK' /\ Moved' /\ Warned'
    BY <2>1, <2>2 DEF IInv, TypeOK, Moved, Warned, Taken
  <2> QED
    BY <2>1, <2>2, <2>3 DEF IInv, Stream!vars, Stream!clientVars
<1> QED
  BY <1>1, <1>2, <1>3, <1>4, <1>5, <1>6, <1>7, <1>8 DEF Next, Child

LEMMA InitImplements == Init => IInv /\ Stream!Init
<1> SUFFICES ASSUME Init PROVE IInv /\ Stream!Init
  OBVIOUS
<1>1. /\ pc = "recv" /\ buffer = <<>> /\ socket = <<>> /\ interrupted = FALSE
      /\ DOMAIN message_buff = 0 .. MAX_BUFF_SIZE - 1
      /\ message_len = MAX_BUFF_SIZE /\ m = 0 /\ msg_end = 0 /\ len = 0
      /\ sent = <<>> /\ conn = "open" /\ told = FALSE /\ latest = 0
      /\ executed = <<>> /\ Stream!Init
  BY DEF Init, Stream!Init
<1>2. MAX_BUFF_SIZE \in Nat \ {0} /\ Len(sent) = 0 /\ Len(buffer) = 0 /\ Len(socket) = 0
  BY <1>1, BoundsAssumption
<1>3. parsed = 0
  BY <1>1, <1>2 DEF parsed
<1>4. TypeOK
  <2>1. sent \in Seq(Byte) /\ socket \in Seq(Byte) /\ buffer \in Seq(Byte)
        /\ executed \in Seq(Seq(Byte))
    BY <1>1
  <2>2. /\ conn \in {"open", "closed", "broken"} /\ told \in BOOLEAN /\ interrupted \in BOOLEAN
        /\ pc \in {"recv", "blocked", "received", "store", "parse", "write", "ended"}
    BY <1>1
  <2>4. len \in 0 .. SIZE - 1
    BY <1>1, BoundsAssumption
  <2>3. /\ latest \in Nat /\ latest <= Len(sent)
        /\ message_len \in Nat \ {0} /\ m \in Nat /\ msg_end \in Nat
    BY <1>1, <1>2
  <2> QED
    BY <2>1, <2>2, <2>3, <2>4, Zenon DEF TypeOK
<1>5. OnTheWay /\ Fits
  BY <1>1, <1>2, <1>3 DEF OnTheWay, Fits
<1>6. Moved
  <2>1. Stream!Ends = {}
    BY <1>1, <1>2, <1>3 DEF Stream!Ends
  <2> QED
    BY <1>1, <2>1 DEF Moved
<1>7. Warned
  BY <1>1 DEF Warned
<1> QED
  BY <1>1, <1>4, <1>5, <1>6, <1>7 DEF IInv

(* Wherever recv cuts the bytes, and however large the buffers are, the    *)
(* bytes on their way from the socket to the parser are the rest of the    *)
(* stream, in order (handleConnection, getNextCommand).                    *)
THEOREM InvariantHolds == Spec => []IInv
<1>1. Init => IInv
  BY InitImplements
<1>2. IInv /\ [Next]_vars => IInv'
  BY StepImplements
<1> QED
  BY <1>1, <1>2, PTL DEF Spec

(* The child of a connection implements the stream of commands, safety     *)
(* part: each step executes the next command of the stream, whole, or none,*)
(* and none that was sent after a stop; and the child ends only when it is *)
(* told to, its client is gone, or all is executed.                        *)
THEOREM ChildImplementsStream == Spec => Stream!Safety
<1>1. Init => IInv /\ Stream!Init
  BY InitImplements
<1>2. IInv /\ [Next]_vars => [Stream!Next]_(Stream!vars)
  BY StepImplements
<1> QED
  BY <1>1, <1>2, InvariantHolds, PTL DEF Spec, Stream!Safety
=============================================================================
