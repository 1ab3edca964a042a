------------------------------- MODULE MC_Bvlc -------------------------------
(* Model-checking instance of Bvlc: a 14-byte Rx_Buf (room for a 4-byte    *)
(* header and a 10-byte Forwarded-NPDU header), and datagrams of each kind *)
(* the receive path tells apart.  Each set below is one question.          *)
EXTENDS Bvlc

D(i, s, f, l, z, fr) == [id |-> i, sig |-> s, fn |-> f, len |-> l, size |-> z, from |-> fr]

\* Traffic of well-formed senders: unicasts of three sizes (the last fills
\* Rx_Buf), one from this node itself and one from another port of this
\* host (both dropped by the "ignore messages from me" test), a broadcast
\* from another port of this host, a datagram that is not BACnet/IP, and
\* a header whose length field is below the header size.
MC_WellFormed ==
    {D(1, TRUE, "ORIGINAL_UNICAST", 6, 6, "peer"),
     D(2, TRUE, "ORIGINAL_UNICAST", 9, 9, "peer"),
     D(3, TRUE, "ORIGINAL_UNICAST", 6, 6, "self"),
     D(4, TRUE, "ORIGINAL_BROADCAST", 7, 7, "host"),
     D(5, FALSE, "ORIGINAL_UNICAST", 5, 5, "peer"),
     D(6, TRUE, "ORIGINAL_UNICAST", 2, 6, "peer"),
     D(7, TRUE, "ORIGINAL_UNICAST", 14, 14, "peer"),
     D(8, TRUE, "ORIGINAL_UNICAST", 6, 6, "host")}

\* Headers that do not describe the datagram: a BVLC-Result (spec.md 4.1:
\* informational only), a datagram too short to hold a header, a length
\* field longer than the bytes sent, and a datagram the socket truncates.
MC_Malformed == {D(1, TRUE, "ORIGINAL_UNICAST", 9, 9, "peer"),
                 D(2, TRUE, "RESULT", 6, 6, "peer"),
                 D(3, TRUE, "ORIGINAL_UNICAST", 0, 1, "peer"),
                 D(4, TRUE, "ORIGINAL_UNICAST", 9, 6, "peer"),
                 D(5, TRUE, "ORIGINAL_UNICAST", 15, 15, "peer")}

\* A broadcast that fits Rx_Buf but not a Forwarded-NPDU.
MC_Broadcast == {D(1, TRUE, "ORIGINAL_BROADCAST", 7, 7, "peer"),
                 D(2, TRUE, "ORIGINAL_BROADCAST", 13, 13, "peer")}

MC_LenFields == {0, 6, 9}

\* A short PDU, and the longest a caller can pass (MAX_PDU = MAX_MPDU - 4).
MC_PduLens == {2, 10}

=============================================================================
