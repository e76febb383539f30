---------------------------- MODULE WireTransfer ----------------------------
(* One message crossing the wire: the sender's core builds it with the    *)
(* plugin's serializers into a buffer whose bytes they skip keep stale    *)
(* contents, sends the bytes up to the cursor, and the                    *)
(* receiver's core parses them with the deserializers.                    *)
EXTENDS WireCodec

VARIABLES
    frame,      \* the message last built: version, items, builder state
    received    \* what the receiver's parser made of it

transfer_vars == <<frame, received>>

NoFrame == [none |-> TRUE]

TransferInit ==
    /\ frame = NoFrame
    /\ received = NoFrame

(* The sender builds message m for IP version v; one message per         *)
(* behaviour, since the sender's buffer of olsrd is rewritten from the     *)
(* start for each message and a message does not depend on the last one.  *)
Transmit(v, m) ==
    /\ frame = NoFrame
    /\ frame' = [v |-> v, m |-> m, w |-> WriteMessage(v, m)]
    /\ received' = NoFrame

(* The receiver parses the bytes sent.                                    *)
Deliver ==
    /\ frame /= NoFrame
    /\ received = NoFrame
    /\ received' = ReadMessage(frame.v, frame.m, Sent(frame.w))
    /\ UNCHANGED frame

TransferNext ==
    \/ \E v \in IpVersions, m \in Messages : Transmit(v, m)
    \/ Deliver

-----------------------------------------------------------------------------
(* Every message of pud HELLO or TC pairs, or of a lite global record     *)
(* followed by lite pairs, built by the serializers and parsed by the     *)
(* deserializers, yields every item's quantised value in order, and the   *)
(* parser ends where the builder did: the count each serializer returns   *)
(* (pud lines 318-322, 370-374; lite 284, 307) is the count its           *)
(* deserializer skips (pud 343-346, 394-397; lite 297, 314), and no       *)
(* deserializer reads a byte its serializer left unwritten (the two bytes *)
(* lite line 284 returns beyond the six it writes), for IPv4 and IPv6.    *)
WireRoundTrip ==
    received /= NoFrame =>
        /\ received.recs = [i \in DOMAIN frame.m.items |->
                                Expected(frame.m.sender, frame.m.items[i])]
        /\ received.cur = frame.w.cur
=============================================================================
