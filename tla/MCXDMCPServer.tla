--------------------------- MODULE MCXDMCPServer ---------------------------
(***************************************************************************)
(* Two displays and two ids, so that an id is reused for another display   *)
(* after a timeout while old packets for it are still under way; and the   *)
(* packets themselves, with a buffer small enough that some do not fit.    *)
(***************************************************************************)
EXTENDS XDMCPServer, XDMCPPacket

(* The opcodes of an exchange, by the answer that ends it.                 *)
Exchange ==
  [Willing |-> {1, 2, 3, 4, 5}, Unwilling |-> {1, 2, 3, 4, 6}, Accept |-> {7, 8},
   Decline |-> {7, 9}, Refuse |-> {10, 11}, Failed |-> {10, 12}, Alive |-> {13, 14},
   NotAlive |-> {13, 14}, none |-> {}]

(* Values of every kind of field: empty ones, ones with a zero, long ones. *)
(* The octets are small numbers, so that one read as a count is a small    *)
(* count.                                                                  *)
Values ==
  [flag |-> BOOLEAN, card16 |-> {0, 258}, card32 |-> {5, 66051},
   data |-> {<<>>, <<0, 4>>}, string |-> {<<>>, <<5>>, <<4, 2, 5, 4, 2, 5, 4>>},
   strings |-> {<<>>, <<<<5>>>>, <<<<>>, <<2, 4>>>>},
   connections |-> {<<>>, <<[type |-> 0, address |-> <<5, 0>>]>>,
                    <<[type |-> 6, address |-> <<>>], [type |-> 256, address |-> <<1>>]>>}]

Packets(opcode) ==
  {[opcode |-> opcode, fields |-> f] :
     f \in FoldLeft(LAMBDA S, kind : {Append(g, v) : g \in S, v \in Values[kind]},
                    {<<>>}, Layout[opcode])}

Large == 100     \* a buffer in which every packet fits

(* Datagrams that are not what was sent: an octet has changed, or one is   *)
(* missing or too many at the end and the length in the header agrees.     *)
Damaged(b) ==
  LET Resized(c) == [c EXCEPT ![6] = Len(c) - HeaderSize]
  IN {[b EXCEPT ![i] = o] : i \in DOMAIN b, o \in {0, 1, 3}}
       \union {Resized(Append(b, 0))}
       \union {Resized(SubSeq(b, 1, Len(b) - 1)) : i \in {n \in {1} : Len(b) > HeaderSize}}

(* A string read with a NUL, and a flag other than 0 and 1, are written    *)
(* differently.                                                            *)
Plain(p) ==
  /\ p.opcode # 14
  /\ \A i \in DOMAIN p.fields :
       /\ Layout[p.opcode][i] = "string" => CString(p.fields[i]) = p.fields[i]
       /\ Layout[p.opcode][i] = "strings" =>
            \A j \in DOMAIN p.fields[i] : CString(p.fields[i][j]) = p.fields[i][j]

(* A packet that fits is read as it was written; one that does not is      *)
(* dropped by its reader, never read as another packet.                    *)
Arrives(p) ==
  xdmcp_packet_decode(xdmcp_packet_encode(p, BufferSize)) =
    IF Len(xdmcp_packet_encode(p, Large)) <= BufferSize THEN p ELSE NoPacket

(* A datagram that is accepted is the packet that was read, to the octet.  *)
ReadExactly(b) ==
  LET p == xdmcp_packet_decode(b)
  IN p # NoPacket /\ Plain(p) => xdmcp_packet_encode(p, Large) = b

PacketVerdicts ==
  UNION {{<<opcode, Arrives(p)>> : p \in Packets(opcode)} : opcode \in 1..14}
    \union
  UNION {{<<opcode, \A b \in Damaged(xdmcp_packet_encode(p, Large)) : ReadExactly(b)>> :
            p \in {q \in Packets(opcode) : Len(xdmcp_packet_encode(q, Large)) <= BufferSize - 4}} :
         opcode \in 1..14}

(* In the exchange that ends with the last answer, the packets of both     *)
(* sides arrive as they were sent or not at all (xdmcp_packet_encode and   *)
(* xdmcp_packet_decode, of which each side has its own), and damage that   *)
(* leaves a packet acceptable leaves nothing of the datagram unread.       *)
PacketsArrive == \A v \in PacketVerdicts : v[1] \in Exchange[reply] => v[2]

----------------------------------------------------------------------------
(* Addresses: of two families, link-local or not, one that is not usable.  *)
Addresses ==
  {[type |-> f, length |-> IF f = 0 THEN 4 ELSE 16, link_local |-> l, octets |-> o] :
     f \in {0, 6}, l \in BOOLEAN, o \in {1, 2}}
    \union {[type |-> 6, length |-> 4, link_local |-> FALSE, octets |-> 1]}

ChoiceVerdicts ==
  {<<c, s, LET best == choose_connection(c, s)
               usable == {i \in DOMAIN c : connection_to_address(c[i])}
           IN /\ usable # {} => best # {}
              /\ \A i \in best :
                   /\ (\E j \in usable : ~c[j].link_local) => ~c[i].link_local
                   /\ (\E j \in usable : c[j] = s /\ ~s.link_local) => c[i] = s>> :
     c \in [1..3 -> Addresses], s \in {a \in Addresses : connection_to_address(a)}}

(* A Request is accepted only with a connection to a usable address; it is *)
(* no link-local one where the display offers another, and the one the     *)
(* Request came from where that is offered and not link-local.  The sort   *)
(* of choose_connection has a first element however the three compare.     *)
BestAddressChosen == reply = "Accept" => \A v \in ChoiceVerdicts : v[3]

(* What the server chooses for a display is kept and is the best there is: *)
(* the authentication name of Willing, and the address of the Request.     *)
ChosenWell == WillingIsKept /\ BestAddressChosen
============================================================================
