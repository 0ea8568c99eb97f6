---------------------------- MODULE GreeterWire ----------------------------
(***************************************************************************)
(* How the messages of module Greeter travel: a header of two 32 bit       *)
(* numbers (the kind and the length of the rest), then numbers and strings *)
(* that begin with their length.  Both ends build a message in a buffer of *)
(* MAX_MESSAGE_LENGTH bytes; the client (liblightdm-gobject/greeter.c)     *)
(* refuses what does not fit, the daemon (src/greeter.c) leaves it out.    *)
(* A stream may be cut anywhere, so that a reader gets a part of a message *)
(* or several.                                                             *)
(***************************************************************************)
EXTENDS Greeter

CONSTANTS
  MAX_MESSAGE_LENGTH,  \* 1024 in the code
  NameLengths          \* lengths of the names, versions and secrets that are sent

HEADER_SIZE == 8
Int32(v) == [i \in 1..4 |-> (v \div 256^(4 - i)) % 256]
Value(b) == b[1] * 256^3 + b[2] * 256^2 + b[3] * 256 + b[4]
string_length(s) == 4 + Len(s)

(* A field is a number or a string of bytes.                               *)
Num(v) == [int |-> TRUE, value |-> v]
Str(s) == [int |-> FALSE, value |-> s]
FieldLength(f) == IF f.int THEN 4 ELSE string_length(f.value)
PayloadLength(fields) == FoldLeft(LAMBDA n, f : n + FieldLength(f), 0, fields)

----------------------------------------------------------------------------
(* Writing, in the daemon *)

write_int(b, v) == IF Len(b) + 4 >= MAX_MESSAGE_LENGTH THEN b ELSE b \o Int32(v)

write_string(b, s) ==
  LET l == write_int(b, Len(s)) IN
  IF Len(l) + Len(s) >= MAX_MESSAGE_LENGTH THEN l ELSE l \o s

write_header(b, id, length) == write_int(write_int(b, id), length)

ServerMessage(id, fields) ==
  FoldLeft(LAMBDA b, f : IF f.int THEN write_int(b, f.value) ELSE write_string(b, f.value),
           write_header(<<>>, id, PayloadLength(fields)), fields)

----------------------------------------------------------------------------
(* Writing, in the client: the first field that does not fit fails the     *)
(* call.                                                                   *)
Refused == [ok |-> FALSE, bytes |-> <<>>]

lightdm_write_int(b, v) ==
  IF ~b.ok \/ Len(b.bytes) + 4 >= MAX_MESSAGE_LENGTH THEN Refused
  ELSE [ok |-> TRUE, bytes |-> b.bytes \o Int32(v)]

(* Mutant of lightdm_write_string: the string is left out when it does not *)
(* fit.                                                                    *)
lightdm_write_string_short(b, s) ==
  LET l == lightdm_write_int(b, Len(s)) IN
  IF ~l.ok \/ Len(l.bytes) + Len(s) >= MAX_MESSAGE_LENGTH THEN l
  ELSE [ok |-> TRUE, bytes |-> l.bytes \o s]

lightdm_write_string(b, s) ==
  LET l == lightdm_write_int(b, Len(s)) IN
  IF ~l.ok \/ Len(l.bytes) + Len(s) >= MAX_MESSAGE_LENGTH THEN Refused
  ELSE [ok |-> TRUE, bytes |-> l.bytes \o s]

ClientMessage(id, fields) ==
  FoldLeft(LAMBDA b, f : IF f.int THEN lightdm_write_int(b, f.value) ELSE lightdm_write_string(b, f.value),
           lightdm_write_int(lightdm_write_int([ok |-> TRUE, bytes |-> <<>>], id), PayloadLength(fields)),
           fields)

----------------------------------------------------------------------------
(* Reading: what is missing is read as zero, and a string that is longer   *)
(* than what is left as an empty one.                                      *)
read_int(b, offset) ==
  IF Len(b) - offset < 4 THEN [value |-> 0, offset |-> offset]
  ELSE [value |-> Value(SubSeq(b, offset + 1, offset + 4)), offset |-> offset + 4]

read_string(b, offset) ==
  LET l == read_int(b, offset) IN
  IF Len(b) - l.offset < l.value THEN [value |-> <<>>, offset |-> l.offset]
  ELSE [value |-> SubSeq(b, l.offset + 1, l.offset + l.value), offset |-> l.offset + l.value]

(* The fields of a message, read as handle_message and read_cb read them.  *)
ReadFields(b, fields) ==
  FoldLeft(LAMBDA r, f :
             LET x == IF f.int THEN read_int(b, r.offset) ELSE read_string(b, r.offset)
             IN [values |-> Append(r.values, x.value), offset |-> x.offset],
           [values |-> <<>>, offset |-> HEADER_SIZE], fields).values

get_message_length(b) == HEADER_SIZE + read_int(b, 4).value

Complete(b) == Len(b) >= HEADER_SIZE /\ Len(b) = get_message_length(b)

(* What read_cb and recv_message still want: the rest of the header, or of *)
(* the message once its header is known.                                   *)
Wanted(b) == (IF Len(b) >= HEADER_SIZE THEN get_message_length(b) ELSE HEADER_SIZE) - Len(b)

(* One read by read_cb (recv_message in the client), of a reader that has  *)
(* got a part of a message, when some bytes have arrived: the message is   *)
(* handled when it is complete, and the next read begins a header.         *)
read_some(r) ==
  LET n == IF Wanted(r.buffer) < Len(r.arrived) THEN Wanted(r.buffer) ELSE Len(r.arrived)
      b == r.buffer \o SubSeq(r.arrived, 1, n)
      q == [r EXCEPT !.arrived = SubSeq(@, n + 1, Len(@))]
  IN IF n < Wanted(r.buffer) \/ ~Complete(b) THEN [q EXCEPT !.buffer = b]
     ELSE [q EXCEPT !.buffer = <<>>, !.messages = Append(@, b)]

(* The main loop reads while there is something to read.                   *)
Receive(r, bytes) ==
  FoldLeft(LAMBDA q, i : IF q.arrived = <<>> THEN q ELSE read_some(q),
           [r EXCEPT !.arrived = @ \o bytes], [i \in 1..Len(bytes) |-> i])

----------------------------------------------------------------------------
(* The messages of module Greeter: kind and number of prompts or secrets.  *)
ClientIds == [connect |-> 0, user |-> 1, guest |-> 2, continue |-> 3, start |-> 4, cancel |-> 5,
              language |-> 6, remote |-> 7, dir |-> 8]
ServerIds == [connected |-> 7, prompt |-> 1, end |-> 2, start |-> 3, dir |-> 4, idle |-> 5, reset |-> 6]

Shape(m) == <<m.t, IF m.t \in {"continue", "prompt"} THEN m.n ELSE 0>>
Shapes(ids) == (DOMAIN ids \ {"continue", "prompt"}) \X {0}
                 \union (DOMAIN ids \intersect {"continue", "prompt"}) \X (0..MaxPrompts)

SequenceNumber == 258  \* an authentication number of two bytes

(* The fields written by send_connect, lightdm_greeter_authenticate and    *)
(* the other senders, with the name or secret s.                           *)
ClientFields(m, s) ==
  CASE m[1] = "connect" -> <<Str(s), Num(1), Num(1)>>
    [] m[1] = "user" -> <<Num(SequenceNumber), Str(s)>>
    [] m[1] = "guest" -> <<Num(SequenceNumber)>>
    [] m[1] = "remote" -> <<Num(SequenceNumber), Str(s), Str(s)>>
    [] m[1] = "continue" -> <<Num(m[2])>> \o [i \in 1..m[2] |-> Str(s)]
    [] m[1] = "cancel" -> <<>>
    [] OTHER -> <<Str(s)>>

(* The fields written by handle_connect, pam_messages_cb, send_end_        *)
(* authentication and the other replies.                                   *)
ServerFields(m, s) ==
  CASE m[1] = "connected" -> <<Num(1), Str(s), Num(1), Str(s), Str(s)>>
    [] m[1] = "prompt" -> <<Num(SequenceNumber), Str(s), Num(m[2])>>
                            \o FlattenSeq([i \in 1..m[2] |-> <<Num(1), Str(s)>>])
    [] m[1] = "end" -> <<Num(SequenceNumber), Str(s), Num(0)>>
    [] m[1] = "start" -> <<Num(0)>>
    [] m[1] = "dir" -> <<Str(s)>>
    [] m[1] = "idle" -> <<>>
    [] m[1] = "reset" -> <<Str(s), Str(s)>>

Names == {[i \in 1..n |-> 100 + i] : n \in NameLengths}
Values(fields) == [i \in 1..Len(fields) |-> fields[i].value]
Reader == [buffer |-> <<>>, messages |-> <<>>, arrived |-> <<>>]

(* The bytes are read as these messages, wherever the stream is cut.       *)
ReadAs(messages) ==
  LET bytes == FlattenSeq(messages) IN
  \A k \in 0..Len(bytes) :
    Receive(Receive(Reader, SubSeq(bytes, 1, k)), SubSeq(bytes, k + 1, Len(bytes)))
      = [Reader EXCEPT !.messages = messages]

(* Two messages of the client in a row arrive as they were sent: those     *)
(* that fit are complete and are read as written.                          *)
ClientPairArrives(p) ==
  \A s \in Names :
    LET b == [i \in 1..2 |-> ClientMessage(ClientIds[p[i][1]], ClientFields(p[i], s))]
        sent == SelectSeq(b, LAMBDA x : x.ok)
    IN /\ \A i \in 1..2 : b[i].ok =>
            LET f == ClientFields(p[i], s) IN Complete(b[i].bytes) /\ ReadFields(b[i].bytes, f) = Values(f)
       /\ ReadAs([i \in 1..Len(sent) |-> sent[i].bytes])

ServerMessageArrives(m) ==
  \A s \in Names :
    LET f == ServerFields(m, s)
        b == ServerMessage(ServerIds[m[1]], f)
    IN HEADER_SIZE + PayloadLength(f) < MAX_MESSAGE_LENGTH =>
         Complete(b) /\ ReadFields(b, f) = Values(f) /\ ReadAs(<<b>>)

ClientVerdicts == {<<p, ClientPairArrives(p)>> : p \in Shapes(ClientIds) \X Shapes(ClientIds)}
ServerVerdicts == {<<m, ServerMessageArrives(m)>> : m \in Shapes(ServerIds)}

(* Whatever messages are under way, with names of any of the lengths, and  *)
(* wherever the stream is cut: the other end handles exactly the messages  *)
(* that were sent, and reads in each what was written.  The client sends   *)
(* no message that states another length than it has; the daemon's are     *)
(* right as long as they fit.                                              *)
WireKeepsMessages ==
  \A c \in Clients :
    /\ \A i \in 1..Len(toServer[c]), j \in 1..Len(toServer[c]) :
         << <<Shape(toServer[c][i]), Shape(toServer[c][j])>>, TRUE>> \in ClientVerdicts
    /\ \A i \in 1..Len(fromServer[c]) : <<Shape(fromServer[c][i]), TRUE>> \in ServerVerdicts
============================================================================
