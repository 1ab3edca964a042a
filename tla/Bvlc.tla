-------------------------------- MODULE Bvlc --------------------------------
(***************************************************************************)
(* The receive path of the BACnet/IP virtual link layer                   *)
(* (src/bacnet-stack/src/bvlc.c, bvlc_receive) as the server's main loop  *)
(* drives it: datalink_receive(&src, &Rx_Buf[0], MAX_MPDU, timeout) with  *)
(* the static Rx_Buf of main.c, whose contents survive from one call to   *)
(* the next.  The datagrams it receives come from the network, or from    *)
(* bvlc_send_pdu of another node running this same code (an I-Am         *)
(* broadcast at startup, a TSM retransmission): that send path is the     *)
(* sender's half of the model.                                             *)
(*                                                                         *)
(* A byte of Rx_Buf is abstracted to a tag: which datagram it came from    *)
(* (id 0: the zero bytes Rx_Buf starts with) and at which offset.  A read  *)
(* past the end of Rx_Buf yields Garbage.  The header fields the code     *)
(* reads from the buffer are the fields of the datagram that owns those   *)
(* bytes, or any value when the bytes are payload or come from two       *)
(* datagrams.                                                              *)
(*                                                                         *)
(* bvlc.c does not compile as shipped: the model reads `buf' as the       *)
(* receive buffer npdu, `npdu_len' as the uint16_t result and, in         *)
(* bvlc_fdt_forward_npdu, `npdu_length' as its length parameter.          *)
(***************************************************************************)
EXTENDS Naturals, Integers, FiniteSets, FiniteSetsExt

CONSTANTS
    MaxMpdu,     \* MAX_MPDU: size of Rx_Buf and of the forwarding mtu[]
    Datagrams,   \* datagrams the network may deliver to the B/IP socket
    LenFields,   \* values a length field of unknown origin may hold
    PduLens      \* pdu_len values the sender's callers pass to bvlc_send_pdu

\* BVLC function codes (bytes 0x00..0x0B); OTHER is any other byte.
Functions == {"RESULT", "WRITE_BDT", "READ_BDT", "READ_BDT_ACK",
              "FORWARDED_NPDU", "REGISTER_FOREIGN_DEVICE", "READ_FDT",
              "READ_FDT_ACK", "DELETE_FDT_ENTRY", "DISTRIBUTE_BROADCAST",
              "ORIGINAL_UNICAST", "ORIGINAL_BROADCAST", "OTHER"}

\* Where a datagram comes from: this node (its address and port), another
\* port of this host, or another host.
Senders == {"self", "host", "peer"}

Datagram == [id : Nat \ {0}, sig : BOOLEAN, fn : Functions,
             len : 0..65535, size : Nat, from : Senders]

ASSUME /\ MaxMpdu \in Nat \ {0}
       /\ Datagrams \subseteq Datagram
       /\ \A m1, m2 \in Datagrams : m1.id = m2.id => m1 = m2
       /\ LenFields \subseteq 0..65535
       /\ PduLens \subseteq 0..(MaxMpdu - 4)   \* Handler_Transmit_Buffer[MAX_PDU]

\* BACNET_ADDRESS destinations of bvlc_send_pdu: the broadcast network, a
\* 6-byte B/IP MAC, or any other MAC length.
Dests == {"broadcast", "unicast", "invalid"}

\* The datagram bvlc_send_pdu builds in its mtu[]: 0x81, the function, the
\* length (uint16_t)(pdu_len + 4) "inclusive", the PDU; sendto sends the
\* 4 + pdu_len bytes to the node that receives it.
SentId(d, n) == Max({m.id : m \in Datagrams}) + 1 + 2 * n + (IF d = "broadcast" THEN 1 ELSE 0)

\* Seeded fault: the length field without the 4 header bytes.
SentDgExclusive(d, n) ==
    [id |-> SentId(d, n), sig |-> TRUE,
     fn |-> IF d = "broadcast" THEN "ORIGINAL_BROADCAST" ELSE "ORIGINAL_UNICAST",
     len |-> n % 65536, size |-> 4 + n, from |-> "peer"]

SentDg(d, n) ==
    [id |-> SentId(d, n), sig |-> TRUE,
     fn |-> IF d = "broadcast" THEN "ORIGINAL_BROADCAST" ELSE "ORIGINAL_UNICAST",
     len |-> (n + 4) % 65536, size |-> 4 + n, from |-> "peer"]

Sendable == {SentDg(d, n) : d \in Dests \ {"invalid"}, n \in PduLens}
AllDatagrams == Datagrams \cup Sendable

Positions == 0..(MaxMpdu - 1)
Ids == {m.id : m \in AllDatagrams}
Tag == [id : Ids \cup {0, -1}, off : Nat]
Garbage == [id |-> -1, off |-> 0]
Dg(id) == CHOOSE m \in AllDatagrams : m.id = id

VARIABLES
    rxBuf,    \* rxBuf[p]: the tag of Rx_Buf[p]
    result,   \* the value bvlc_receive last returned (uint16_t)
    cur,      \* id of the datagram the last call received, 0 if none
    src,      \* id of the datagram whose sender was last copied into src
    mtuLen,   \* bytes the last call encoded into a forwarding mtu[], 0 if none
    wire,     \* datagrams the sending node's bvlc_send_pdu has put on the wire
    sent      \* what the sender's last bvlc_send_pdu returned, 0 before any

vars == <<rxBuf, result, cur, src, mtuLen, wire, sent>>

TypeOK ==
    /\ rxBuf \in [Positions -> Tag]
    /\ result \in 0..65535
    /\ cur \in Ids \cup {0}
    /\ src \in Ids \cup {0}
    /\ mtuLen \in Nat
    /\ wire \subseteq Sendable
    /\ sent \in {-1} \cup Nat

Init ==
    /\ rxBuf = [p \in Positions |-> [id |-> 0, off |-> p]]
    /\ result = 0
    /\ cur = 0
    /\ src = 0
    /\ mtuLen = 0
    /\ wire = {}
    /\ sent = 0

-----------------------------------------------------------------------------
(* Reading the header out of the buffer.                                   *)

\* The values function_type = npdu[1] can have.
FnAt(b) ==
    CASE b[1].id = 0                      -> {"RESULT"}
      [] b[1].id > 0 /\ b[1].off = 1      -> {Dg(b[1].id).fn}
      [] OTHER                            -> Functions

\* The values decode_unsigned16(&npdu[2]) can have.
LenAt(b) ==
    CASE b[2].id = 0 /\ b[3].id = 0                       -> {0}
      [] b[2].id > 0 /\ b[2].id = b[3].id
         /\ b[2].off = 2 /\ b[3].off = 3                  -> {Dg(b[2].id).len}
      [] OTHER                                            -> LenFields

\* Rx_Buf[q], or what lies beyond it.
ReadAt(b, q) == IF q < MaxMpdu THEN b[q] ELSE Garbage

\* Seeded fault: the shift starts one byte early.
ShiftDownByThree(b, n) == [p \in Positions |-> IF p < n THEN ReadAt(b, p + 3) ELSE b[p]]

\* The loop npdu[i] = npdu[i+4] for i < n (each source byte is read
\* before it is overwritten).
ShiftDown(b, n) == [p \in Positions |-> IF p < n THEN ReadAt(b, p + 4) ELSE b[p]]

\* recvfrom(..., npdu, max_npdu, ...) of datagram m: a datagram longer
\* than the buffer is truncated.
Received(m) == Min({m.size, MaxMpdu})
AfterRecvfrom(m) ==
    [p \in Positions |-> IF p < Received(m) THEN [id |-> m.id, off |-> p] ELSE rxBuf[p]]

\* The forwarding calls encode a Forwarded-NPDU of 10 + n bytes into their
\* mtu[MAX_MPDU] before looking at the BDT or FDT.
ForwardedLen(n) == 10 + n

\* One return from bvlc_receive.
Return(b, r, s, mtu) ==
    /\ rxBuf' = b /\ result' = r /\ src' = s /\ mtuLen' = mtu

NonNpduFunctions == Functions \ {"FORWARDED_NPDU", "DISTRIBUTE_BROADCAST",
                                  "ORIGINAL_UNICAST", "ORIGINAL_BROADCAST"}

\* Seeded fault: npdu_len held in a signed int.
DispatchSigned(m, b, fn, len) ==
    LET n == len - 4 IN
    CASE fn \in NonNpduFunctions -> Return(b, n, src, 0)
      [] fn \in {"FORWARDED_NPDU", "DISTRIBUTE_BROADCAST"} ->
            Return(b, n, src, ForwardedLen(n))
      [] fn = "ORIGINAL_UNICAST" ->
            IF m.from # "peer" THEN Return(b, 0, src, 0)
            ELSE IF n < MaxMpdu THEN Return(ShiftDown(b, n), n, m.id, 0)
            ELSE Return(b, 0, m.id, 0)
      [] fn = "ORIGINAL_BROADCAST" ->
            IF n < MaxMpdu THEN Return(ShiftDown(b, n), n, m.id, ForwardedLen(n))
            ELSE Return(b, 0, m.id, 0)

\* The switch on function_type, with npdu_len = length - 4 in uint16_t.
Dispatch(m, b, fn, len) ==
    LET n == (len - 4) % 65536 IN
    CASE fn \in NonNpduFunctions -> Return(b, n, src, 0)
      [] fn \in {"FORWARDED_NPDU", "DISTRIBUTE_BROADCAST"} ->
            Return(b, n, src, ForwardedLen(n))
      [] fn = "ORIGINAL_UNICAST" ->
            IF m.from # "peer" THEN Return(b, 0, src, 0)   \* sin_addr is ours
            ELSE IF n < MaxMpdu THEN Return(ShiftDown(b, n), n, m.id, 0)
            ELSE Return(b, 0, m.id, 0)
      [] fn = "ORIGINAL_BROADCAST" ->
            IF n < MaxMpdu THEN Return(ShiftDown(b, n), n, m.id, ForwardedLen(n))
            ELSE Return(b, 0, m.id, 0)

-----------------------------------------------------------------------------
(* Actions.                                                                *)

\* bvlc_receive when select() reports datagram m: one from the network, or
\* one the sender has sent (UDP may deliver it late, twice, or never).
BvlcReceive(m) ==
    /\ cur' = m.id
    /\ LET b == AfterRecvfrom(m) IN
       IF Received(m) = 0 \/ ~m.sig THEN Return(b, 0, src, 0)
       ELSE \E fn \in FnAt(b), len \in LenAt(b) : Dispatch(m, b, fn, len)
    /\ UNCHANGED <<wire, sent>>

\* bvlc_receive when select() times out: nothing is read.
BvlcReceiveTimeout ==
    /\ cur' = 0
    /\ Return(rxBuf, 0, src, 0)
    /\ UNCHANGED <<wire, sent>>

\* The sender's bvlc_send_pdu(dest, npdu_data, pdu, n): a destination that
\* is neither the broadcast network nor a 6-byte MAC returns -1; otherwise
\* the datagram goes out and sendto returns its 4 + n bytes.
BvlcSendPdu(d, n) ==
    /\ IF d = "invalid"
       THEN sent' = -1 /\ UNCHANGED wire
       ELSE /\ wire' = wire \cup {SentDg(d, n)}
            /\ sent' = SentDg(d, n).size
    /\ UNCHANGED <<rxBuf, result, cur, src, mtuLen>>

Next == \/ BvlcReceiveTimeout
        \/ \E m \in Datagrams \cup wire : BvlcReceive(m)
        \/ \E d \in Dests, n \in PduLens : BvlcSendPdu(d, n)

Spec == Init /\ [][Next]_vars

-----------------------------------------------------------------------------
(* Properties.                                                             *)

\* Whenever bvlc_receive returns a non-zero length, main.c hands Rx_Buf and
\* that length to npdu_handler: those bytes must be the NPDU (the bytes
\* after the 4-byte BVLC header) of the datagram this very call received,
\* and src must be that datagram's sender.
DeliveredNpduIsReceived ==
    result > 0 =>
        /\ src = cur
        /\ result <= MaxMpdu
        /\ \A i \in 0..(result - 1) : rxBuf[i] = [id |-> cur, off |-> i + 4]

\* What bvlc_send_pdu sends arrives whole: when the receiving node's
\* bvlc_receive takes a datagram the sender built from a pdu_len n
\* (broadcast or unicast), it returns n, so npdu_handler gets exactly the
\* PDU the sender passed (its bytes: DeliveredNpduIsReceived).
SentNpduDelivered ==
    [][\A d \in Dests \ {"invalid"}, n \in PduLens :
          cur' = SentId(d, n) => result' = n]_vars

\* Forwarding a received NPDU (bvlc_bdt_forward_npdu, bvlc_fdt_forward_npdu)
\* never encodes more bytes than its mtu[MAX_MPDU] holds.
NoMtuOverflow == mtuLen <= MaxMpdu


=============================================================================
