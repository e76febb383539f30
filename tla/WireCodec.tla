------------------------------ MODULE WireCodec ------------------------------
(***************************************************************************)
(* The wire codec of both GPS link-quality plugins: the serializers and   *)
(* deserializers of the pud link pair (HELLO and TC, with the sender's     *)
(* main address inline, src/src/lq_plugin_gps_pud.c) and of the lite link *)
(* pair (with the float mlq) and global position record                    *)
(* (src/src/lq_plugin_gps_lite.c).                                         *)
(*                                                                         *)
(* A byte on the wire is <<"u8", b>> for a value the code stores with a    *)
(* cast or a memset, <<"mem", v, i>> for the i-th byte a memcpy copies of  *)
(* the value v (an address, a float, a struct gps_position), and Stale    *)
(* for a byte of the message buffer the serializers never wrote.           *)
(*                                                                         *)
(* The olsrd core, outside this repository, builds a message by calling   *)
(* the serializer at its cursor and advancing the cursor by the count it  *)
(* returns, and parses it by calling the deserializer, which advances the *)
(* cursor itself (spec section 4.2, "Contract"); WriteMessage and          *)
(* ReadMessage are that loop.                                             *)
(***************************************************************************)
EXTENDS Integers, Sequences, ExactRational
LOCAL INSTANCE SequencesExt

CONSTANTS
    IpVersions,      \* olsr_cnf->ip_version values: 4 and 6
    CodecLqs,        \* lq / nlq values the codec is checked on
    CodecAddrs,      \* main addresses
    CodecFloats,     \* mlq floats
    CodecPositions   \* struct gps_position values

-----------------------------------------------------------------------------
U8(b) == <<"u8", b>>
Stale == <<"stale", 0>>
Garbled == "garbled"

(* The n bytes memcpy copies of the value v. *)
Image(v, n) == [i \in 1 .. n |-> <<"mem", v, i>>]

(* The value whose image the bytes are, as a memcpy back would rebuild it. *)
ValueOf(bytes) ==
    IF Len(bytes) > 0 /\ Len(bytes[1]) = 3 /\ bytes = Image(bytes[1][2], Len(bytes))
    THEN bytes[1][2] ELSE Garbled

(* The byte at index i of a received message, and pkt_get_u8 of it; past  *)
(* the end of the message a read finds what the buffer held before.       *)
ByteAt(buf, i) == IF i \in 1 .. Len(buf) THEN buf[i] ELSE Stale
U8Value(x) == IF x[1] = "u8" THEN x[2] ELSE 256
Bytes(buf, from, n) == [i \in 1 .. n |-> ByteAt(buf, from + i - 1)]

(* (unsigned char)(lq * 255) of the serializers: truncation. *)
ToByte(x) == (x.n * 255) \div x.d

(* lq->lq = (float) lq_value / 255.0f of the deserializers. *)
FromByte(b) == Rat(b, 255)

-----------------------------------------------------------------------------
(* sizeof(struct in_addr) or sizeof(struct in6_addr) for the IP version. *)
AddrSize(v) == IF v = 4 THEN 4 ELSE 16

(* The count the pud serializers return: 2 + s rounded up to a multiple  *)
(* of 4, and the padding the deserializers skip.                         *)
PudPad(v) == LET t == (2 + AddrSize(v)) % 4 IN IF t = 0 THEN 0 ELSE 4 - t

(* lq_serialize_hello_lq_pair_gps_pud: the two bytes, the own main        *)
(* address, and memset zero padding; returns 2 + s or 6 + s - t.           *)
lq_serialize_hello_lq_pair_gps_pud(v, lq, main_addr) ==
    [bytes |-> <<U8(ToByte(lq.lq)), U8(ToByte(lq.nlq))>>
                   \o Image(main_addr, AddrSize(v))
                   \o [i \in 1 .. PudPad(v) |-> U8(0)],
     ret   |-> 2 + AddrSize(v) + PudPad(v)]

(* lq_serialize_tc_lq_pair_gps_pud: the same statements as the HELLO one. *)
lq_serialize_tc_lq_pair_gps_pud(v, lq, main_addr) ==
    lq_serialize_hello_lq_pair_gps_pud(v, lq, main_addr)

(* Mutant: the padding after the address is not skipped. *)
lq_deserialize_hello_lq_pair_gps_pud_no_pad(v, buf, c) ==
    [rec  |-> [lq   |-> FromByte(U8Value(ByteAt(buf, c))),
               nlq  |-> FromByte(U8Value(ByteAt(buf, c + 1))),
               addr |-> ValueOf(Bytes(buf, c + 2, AddrSize(v)))],
     next |-> c + 2 + AddrSize(v)]

(* lq_deserialize_hello_lq_pair_gps_pud at cursor c: two pkt_get_u8, the  *)
(* address memcpy, the cursor past the address and the padding.           *)
lq_deserialize_hello_lq_pair_gps_pud(v, buf, c) ==
    [rec  |-> [lq   |-> FromByte(U8Value(ByteAt(buf, c))),
               nlq  |-> FromByte(U8Value(ByteAt(buf, c + 1))),
               addr |-> ValueOf(Bytes(buf, c + 2, AddrSize(v)))],
     next |-> c + 2 + AddrSize(v) + PudPad(v)]

(* lq_deserialize_tc_lq_pair_gps_pud: the same statements. *)
lq_deserialize_tc_lq_pair_gps_pud(v, buf, c) ==
    lq_deserialize_hello_lq_pair_gps_pud(v, buf, c)

-----------------------------------------------------------------------------
(* lqdata_size and global_lqdata_size of the lite plugin, with           *)
(* sizeof(float) = 4 and sizeof(struct gps_position) = 12.               *)
lqdata_size == 2 + 4 + (IF (2 + 4) % 4 = 0 THEN 0 ELSE 4 - ((2 + 4) % 4))
global_lqdata_size == 12 + (IF 12 % 4 = 0 THEN 0 ELSE 4 - (12 % 4))

(* lq_serialize_lq_pair_gps_lite: two bytes and the memcpy of mlq; it     *)
(* returns lqdata_size, two bytes more than it writes.                    *)
lq_serialize_lq_pair_gps_lite(lq) ==
    [bytes |-> <<U8(ToByte(lq.lq)), U8(ToByte(lq.nlq))>> \o Image(lq.mlq, 4),
     ret   |-> lqdata_size]

(* Mutant: the cursor is advanced by lqdata_size after the two u8 reads. *)
lq_deserialize_lq_pair_gps_lite_full_skip(buf, c) ==
    [rec  |-> [lq  |-> FromByte(U8Value(ByteAt(buf, c))),
               nlq |-> FromByte(U8Value(ByteAt(buf, c + 1))),
               mlq |-> ValueOf(Bytes(buf, c + 2, 4))],
     next |-> c + 2 + lqdata_size]

(* lq_deserialize_lq_pair_gps_lite: two pkt_get_u8, mlq copied from the  *)
(* cursor, then the cursor moved by lqdata_size - 2.                      *)
lq_deserialize_lq_pair_gps_lite(buf, c) ==
    [rec  |-> [lq  |-> FromByte(U8Value(ByteAt(buf, c))),
               nlq |-> FromByte(U8Value(ByteAt(buf, c + 1))),
               mlq |-> ValueOf(Bytes(buf, c + 2, 4))],
     next |-> c + 2 + (lqdata_size - 2)]

(* lq_serialize_global_gps_lite: the memcpy of my_position.position. *)
lq_serialize_global_gps_lite(position) ==
    [bytes |-> Image(position, 12), ret |-> global_lqdata_size]

(* lq_deserialize_global_gps_lite: the memcpy into buffered_position. *)
lq_deserialize_global_gps_lite(buf, c) ==
    [rec |-> ValueOf(Bytes(buf, c, 12)), next |-> c + global_lqdata_size]
-----------------------------------------------------------------------------
(* A message is the sender's main address and its items: link pairs of   *)
(* one kind, the lite ones after the global record.                        *)
PudPairs == [lq : CodecLqs, nlq : CodecLqs]
LitePairs == [lq : CodecLqs, nlq : CodecLqs, mlq : CodecFloats]
Items(kind, vals) == [i \in DOMAIN vals |-> [kind |-> kind, val |-> vals[i]]]
Messages ==
    { [sender |-> a, items |-> Items(k, s)] :
          a \in CodecAddrs, k \in {"pud_hello", "pud_tc"},
          s \in SeqOf(PudPairs, 2) \ {<<>>} }
    \cup
    { [sender |-> a, items |-> Items("lite_global", <<p>>) \o Items("lite_pair", s)] :
          a \in CodecAddrs, p \in CodecPositions, s \in SeqOf(LitePairs, 2) }

(* The serializer the core calls for an item, and the deserializer for    *)
(* an item of that kind.                                                  *)
Encode(v, sender, item) ==
    CASE item.kind = "pud_hello"   -> lq_serialize_hello_lq_pair_gps_pud(v, item.val, sender)
      [] item.kind = "pud_tc"      -> lq_serialize_tc_lq_pair_gps_pud(v, item.val, sender)
      [] item.kind = "lite_pair"   -> lq_serialize_lq_pair_gps_lite(item.val)
      [] item.kind = "lite_global" -> lq_serialize_global_gps_lite(item.val)
Decode(v, kind, buf, c) ==
    CASE kind = "pud_hello"   -> lq_deserialize_hello_lq_pair_gps_pud(v, buf, c)
      [] kind = "pud_tc"      -> lq_deserialize_tc_lq_pair_gps_pud(v, buf, c)
      [] kind = "lite_pair"   -> lq_deserialize_lq_pair_gps_lite(buf, c)
      [] kind = "lite_global" -> lq_deserialize_global_gps_lite(buf, c)

(* bytes written at index c of buf; a gap the cursor jumped keeps Stale. *)
Put(buf, c, bytes) ==
    LET n == IF Len(buf) > c - 1 + Len(bytes) THEN Len(buf) ELSE c - 1 + Len(bytes)
    IN  [i \in 1 .. n |-> IF i >= c /\ i < c + Len(bytes) THEN bytes[i - c + 1]
                          ELSE ByteAt(buf, i)]

(* The core's message builder: each serializer writes at the cursor, and *)
(* the cursor advances by the count it returns.  The message sent is the *)
(* buffer up to the cursor.                                              *)
WriteMessage(v, m) ==
    FoldLeft(LAMBDA st, item :
                 LET e == Encode(v, m.sender, item)
                 IN  [buf |-> Put(st.buf, st.cur, e.bytes), cur |-> st.cur + e.ret],
             [buf |-> <<>>, cur |-> 1], m.items)
Sent(w) == Bytes(w.buf, 1, w.cur - 1)

(* The core's parser: the deserializer of each item's kind in turn, from *)
(* the cursor it left.                                                   *)
ReadMessage(v, m, buf) ==
    FoldLeft(LAMBDA st, item :
                 LET d == Decode(v, item.kind, buf, st.cur)
                 IN  [recs |-> Append(st.recs, d.rec), cur |-> d.next],
             [recs |-> <<>>, cur |-> 1], m.items)

(* What the receiver should hold for an item: lq and nlq quantised to a  *)
(* byte, the address, mlq and position exactly (spec section 8).          *)
Expected(sender, item) ==
    CASE item.kind \in {"pud_hello", "pud_tc"} ->
             [lq |-> FromByte(ToByte(item.val.lq)), nlq |-> FromByte(ToByte(item.val.nlq)),
              addr |-> sender]
      [] item.kind = "lite_pair" ->
             [lq |-> FromByte(ToByte(item.val.lq)), nlq |-> FromByte(ToByte(item.val.nlq)),
              mlq |-> item.val.mlq]
      [] item.kind = "lite_global" -> item.val

=============================================================================
