---------------------------- MODULE XDMCPPacket ----------------------------
(***************************************************************************)
(* The packets of XDMCP (xdmcp-protocol.c) and what the server makes of    *)
(* the addresses in a Request (xdmcp-server.c).                            *)
(*                                                                         *)
(* A packet is an opcode and its fields in the order of the switch         *)
(* statements; strings and data are sequences of octets.  A string may     *)
(* hold a NUL octet after it was read: the code that uses it sees what     *)
(* comes before.  Readers and writers count what remains of the buffer.    *)
(* The order in which the octets of a card16 or a card32 are read is not   *)
(* laid down by C; the compilers used take them from left to right.        *)
(***************************************************************************)
EXTENDS Integers, Sequences, SequencesExt

CONSTANT BufferSize      \* 1024 in send_packet and read_cb

ASSUME BufferAssumption == BufferSize \in Nat

HeaderSize == 6
XDMCP_VERSION == 1

(* The fields of each opcode, in the order they are written and read.      *)
Layout ==
  [opcode \in 1..14 |->
    CASE opcode \in {1, 2, 3} -> <<"strings">>                       \* the Queries
      [] opcode = 4  -> <<"data", "data", "strings">>                \* ForwardQuery
      [] opcode = 5  -> <<"string", "string", "string">>             \* Willing
      [] opcode = 6  -> <<"string", "string">>                       \* Unwilling
      [] opcode = 7  -> <<"card16", "connections", "string", "data", "strings", "string">>
      [] opcode = 8  -> <<"card32", "string", "data", "string", "data">>     \* Accept
      [] opcode = 9  -> <<"string", "string", "data">>               \* Decline
      [] opcode = 10 -> <<"card32", "card16", "string">>             \* Manage
      [] opcode = 11 -> <<"card32">>                                 \* Refuse
      [] opcode = 12 -> <<"card32", "string">>                       \* Failed
      [] opcode = 13 -> <<"card16", "card32">>                       \* KeepAlive
      [] opcode = 14 -> <<"flag", "card32">>]                        \* Alive

NoPacket == [opcode |-> 0, fields |-> <<>>]

(* What C takes for the string: the octets before the first NUL.           *)
CString(octets) == SubSeq(octets, 1, SelectInSeq(octets \o <<0>>, LAMBDA o : o = 0) - 1)

(* Step after step from a state to the last: the state is worked out       *)
(* before the step is taken.                                               *)
InOrder(Step(_, _), first, seq) ==
  FoldLeft(LAMBDA state, x : CHOOSE next \in {Step(now, x) : now \in {state}} : TRUE, first, seq)

----------------------------------------------------------------------------
(* Writing: [data, remaining, overflow].                                   *)

write_card8(w, value) ==
  IF w.remaining < 1
    THEN [w EXCEPT !.overflow = TRUE]
    ELSE [w EXCEPT !.data = Append(@, value % 256), !.remaining = @ - 1]

(* As many write_card8 as there are octets: those that fit are written.    *)
write_octets(w, octets) ==
  LET n == IF Len(octets) <= w.remaining THEN Len(octets) ELSE w.remaining
  IN [data |-> w.data \o [i \in 1..n |-> octets[i] % 256],
      remaining |-> w.remaining - n,
      overflow |-> w.overflow \/ n < Len(octets)]

write_card16(w, value) == write_octets(w, <<value \div 256, value % 256>>)

write_card32(w, value) ==
  write_octets(w, <<value \div 16777216, value \div 65536, value \div 256, value % 256>>)

write_data(w, octets) == write_octets(write_card16(w, Len(octets)), octets)

write_string(w, octets) == write_data(w, CString(octets))

write_string_array(w, strings) == InOrder(write_string, write_card8(w, Len(strings)), strings)

(* The count of the connections, their types, the count again and their    *)
(* addresses.                                                              *)
write_connections(w, connections) ==
  LET types == InOrder(LAMBDA v, c : write_card16(v, c.type),
                       write_card8(w, Len(connections)), connections)
  IN InOrder(LAMBDA v, c : write_data(v, c.address),
             write_card8(types, Len(connections)), connections)

write_field(w, kind, value) ==
  CASE kind = "flag"        -> write_card8(w, IF value THEN 1 ELSE 0)
    [] kind = "card16"      -> write_card16(w, value)
    [] kind = "card32"      -> write_card32(w, value)
    [] kind = "data"        -> write_data(w, value)
    [] kind = "string"      -> write_string(w, value)
    [] kind = "strings"     -> write_string_array(w, value)
    [] kind = "connections" -> write_connections(w, value)

(* The header is written last, with a writer of its own: that the fields   *)
(* did not fit is forgotten, and what did fit is sent.  <<>>: -1.          *)
xdmcp_packet_encode(p, max_length) ==
  LET empty == [data |-> <<>>, remaining |-> max_length - HeaderSize, overflow |-> FALSE]
      body == InOrder(LAMBDA w, i : write_field(w, Layout[p.opcode][i], p.fields[i]),
                      empty, [i \in DOMAIN p.fields |-> i])
      length == max_length - HeaderSize - body.remaining
      header == write_card16(write_card16(write_card16(
                  [data |-> <<>>, remaining |-> HeaderSize, overflow |-> FALSE],
                  XDMCP_VERSION), p.opcode), length)
  IN IF max_length < HeaderSize \/ header.overflow THEN <<>> ELSE header.data \o body.data

----------------------------------------------------------------------------
(* Reading: [data, remaining, overflow, failed, value].                    *)

(* n octets; where fewer remain the rest reads as 0.                       *)
read_octets(r, n) ==
  [r EXCEPT !.data = SubSeq(@, n + 1, Len(@)),
            !.remaining = IF n <= @ THEN @ - n ELSE 0,
            !.overflow = @ \/ n > r.remaining,
            !.value = SubSeq(r.data \o [i \in 1..n |-> 0], 1, n)]

Number(octets) == FoldLeft(LAMBDA n, o : n * 256 + o, 0, octets)

read_card8(r)  == LET v == read_octets(r, 1) IN [v EXCEPT !.value = Number(@)]
read_card16(r) == LET v == read_octets(r, 2) IN [v EXCEPT !.value = Number(@)]
read_card32(r) == LET v == read_octets(r, 4) IN [v EXCEPT !.value = Number(@)]
read_data(r)   == LET length == read_card16(r) IN read_octets(length, length.value)
read_string(r) == read_data(r)

(* n values, one after the other.                                          *)
read_each(r, n, Read(_)) ==
  InOrder(LAMBDA v, i : LET next == Read(v) IN [next EXCEPT !.value = Append(v.value, @)],
          [r EXCEPT !.value = <<>>], [i \in 1..n |-> i])

read_string_array(r) ==
  LET count == read_card8(r) IN read_each(count, count.value, read_string)

(* Two different counts make the packet fail whatever follows.             *)
read_connections(r) ==
  LET count == read_card8(r)
      types == read_each(count, count.value, read_card16)
      again == read_card8(types)
      addresses == read_each(again, count.value, read_data)
  IN [addresses EXCEPT
        !.value = [i \in 1..count.value |-> [type |-> types.value[i], address |-> @[i]]],
        !.failed = @ \/ again.value # count.value]

read_field(r, kind) ==
  CASE kind = "flag"        -> LET v == read_card8(r) IN [v EXCEPT !.value = @ # 0]
    [] kind = "card16"      -> read_card16(r)
    [] kind = "card32"      -> read_card32(r)
    [] kind = "data"        -> read_data(r)
    [] kind = "string"      -> read_string(r)
    [] kind = "strings"     -> read_string_array(r)
    [] kind = "connections" -> read_connections(r)

(* Mutant of xdmcp_packet_decode: what follows the last field is ignored.  *)
xdmcp_packet_decode_extra(data) ==
  LET version == read_card16([data |-> data, remaining |-> Len(data), overflow |-> FALSE,
                              failed |-> FALSE, value |-> 0])
      opcode == read_card16(version)
      length == read_card16(opcode)
      body == InOrder(
        LAMBDA r, kind : LET v == read_field(r, kind) IN [v EXCEPT !.value = Append(r.value, @)],
        [length EXCEPT !.value = <<>>], Layout[opcode.value])
  IN IF \/ length.overflow
        \/ version.value # XDMCP_VERSION
        \/ length.value # length.remaining
        \/ opcode.value \notin DOMAIN Layout
        \/ body.failed \/ body.overflow
       THEN NoPacket
       ELSE [opcode |-> opcode.value, fields |-> body.value]

(* NoPacket: a short packet, another version, another length than the      *)
(* header's, an unknown opcode, counts that differ, fields that end after  *)
(* the packet or before its end.                                           *)
xdmcp_packet_decode(data) ==
  LET version == read_card16([data |-> data, remaining |-> Len(data), overflow |-> FALSE,
                              failed |-> FALSE, value |-> 0])
      opcode == read_card16(version)
      length == read_card16(opcode)
      body == InOrder(
        LAMBDA r, kind : LET v == read_field(r, kind) IN [v EXCEPT !.value = Append(r.value, @)],
        [length EXCEPT !.value = <<>>], Layout[opcode.value])
  IN IF \/ length.overflow
        \/ version.value # XDMCP_VERSION
        \/ length.value # length.remaining
        \/ opcode.value \notin DOMAIN Layout
        \/ body.failed \/ body.overflow \/ body.remaining # 0
       THEN NoPacket
       ELSE [opcode |-> opcode.value, fields |-> body.value]

----------------------------------------------------------------------------
(* The address that the X server of a Request is reached at.  An address   *)
(* of the protocol is link-local or not, of a family, and its octets.      *)

FamilyInternet == 0
FamilyInternet6 == 6

(* connection_to_address: the addresses of a known family and a length     *)
(* that goes with it.                                                      *)
connection_to_address(c) ==
  \/ c.type = FamilyInternet /\ c.length = 4
  \/ c.type = FamilyInternet6 /\ c.length = 16

(* Mutant of compare_addresses: the source address comes before the other  *)
(* preferences.                                                            *)
compare_addresses_source(a, b, source) ==
  CASE a = b -> 0
    [] source = a -> -1
    [] source = b -> 1
    [] a.link_local # b.link_local -> IF a.link_local THEN 1 ELSE -1
    [] a.type # b.type -> IF a.type = source.type THEN -1 ELSE 1
    [] OTHER -> 0

(* compare_addresses: -1 when a is the better one.                         *)
compare_addresses(a, b, source) ==
  CASE a.link_local # b.link_local -> IF a.link_local THEN 1 ELSE -1
    [] a.type # b.type /\ a.type = source.type -> -1
    [] a.type # b.type /\ b.type = source.type -> 1
    [] a.type # b.type -> IF a.type < b.type THEN -1 ELSE 1
    [] a = b -> 0
    [] source = a -> -1
    [] source = b -> 1
    [] OTHER -> 0

(* choose_connection: the places of the connections that may come first    *)
(* when the usable ones are sorted; none: the Request is declined.         *)
choose_connection(connections, source) ==
  LET usable == {i \in DOMAIN connections : connection_to_address(connections[i])}
  IN {i \in usable : \A j \in usable :
        compare_addresses(connections[j], connections[i], source) >= 0}
============================================================================
