------------------------------ MODULE MqttLink ------------------------------
(***************************************************************************)
(* A client that builds packets with mqtt.c, some with a measurement that  *)
(* byte_stream.h wrote as the payload, and hands what the builders return  *)
(* to a connection; a broker at the other end that cuts the stream into    *)
(* packets by their remaining length alone, as MQTT does.                  *)
(***************************************************************************)
EXTENDS Mqtt, SequencesExt

CONSTANTS Connects,      \* the arguments of the calls: [client, user, pass],
          Publications,  \* [topic, payload, len],
          Subscriptions, \* [id, topic]; a string is NULL or a Text
          Topics,        \* where measurements are published
          Measurements,  \* [format, value]: what is published there
          TextLen,       \* the texts, and how long each is
          MaxInFlight    \* bound: packets on the connection

\* The integer types.
uint8_t  == 0 .. 255
int8_t   == {v \in Int : -128 <= v /\ v <= 127}
uint16_t == {v \in Nat : v <= 65535}
int16_t  == {v \in Int : -32768 <= v /\ v <= 32767}
uint32_t == {v \in Nat : v \div 65536 \in uint16_t}
int32_t  == {v \in Int : v \div 65536 \in int16_t}

IsString(s)  == s = NULL \/ s.len \in Nat
IsConnect(c) == IsString(c.client) /\ IsString(c.user) /\ IsString(c.pass)
IsRequest(s) == IsString(s.topic) /\ s.id \in uint16_t

\* Of payloads, those whose packet fits in 32 bits: of a longer one, which a
\* 64-bit host may have, the cast in mqtt.c:121 drops the upper bits.
IsPublish(p) == /\ IsString(p.topic) /\ IsString(p.payload) /\ p.len \in Nat
                /\ p.payload # NULL /\ p.len > 0 => p.len = p.payload.len
                /\ 65537 + p.len < UInt32

ASSUME MqttLinkAssumption ==
  /\ MaxInFlight \in Nat /\ NULL # Memory(<<>>)
  /\ \A c \in Connects : IsConnect(c)
  /\ \A p \in Publications : IsPublish(p)
  /\ \A s \in Subscriptions : IsRequest(s)
  /\ \A t \in Topics : t # NULL /\ t.len \in Nat

VARIABLES last,  \* the last call: what it was to send, its buffer, and what came of it
          wire,  \* the bytes on the connection
          sent,  \* what they mean, packet by packet
          read   \* the last packet that the broker read, beside what was sent

vars == <<last, wire, sent, read>>

\* A text stands for as many bytes as it is long, every other element for one.
Text(t)    == [bytes |-> IF TextLen[t] = 0 THEN <<>> ELSE <<t>>, len |-> TextLen[t]]
WidthOf(x) == IF x \in DOMAIN TextLen THEN TextLen[x] ELSE 1
Width(s)   == FoldSeq(LAMBDA x, n : n + WidthOf(x), 0, s)

\* What is in memory: as many bytes as its length says.
Element       == (0 .. 255) \cup {t \in DOMAIN TextLen : TextLen[t] > 0}
IsText(s)     == /\ s \in [bytes : Seq(Element), len : Nat]
                 /\ s.len = Width(s.bytes)
TextOrNull(s) == s = NULL \/ IsText(s)

ASSUME TextAssumption ==
  /\ NULL \notin [bytes : Seq(Element), len : Nat]
  /\ DOMAIN TextLen \cap (0 .. 255) = {} /\ \A t \in DOMAIN TextLen : TextLen[t] \in Nat
  /\ \A c \in Connects : TextOrNull(c.client) /\ TextOrNull(c.user) /\ TextOrNull(c.pass)
  /\ \A p \in Publications : TextOrNull(p.topic) /\ TextOrNull(p.payload)
  /\ \A s \in Subscriptions : TextOrNull(s.topic)
  /\ \A t \in Topics : IsText(t)
-----------------------------------------------------------------------------
Written(m) ==
  LET v == m.value  format == m.format IN
  CASE format = "u8"     -> bs_put_u8(Fresh, v)     [] format = "i8"     -> bs_put_i8(Fresh, v)
    [] format = "u16_be" -> bs_put_u16_be(Fresh, v) [] format = "i16_be" -> bs_put_i16_be(Fresh, v)
    [] format = "u16_le" -> bs_put_u16_le(Fresh, v) [] format = "i16_le" -> bs_put_i16_le(Fresh, v)
    [] format = "u32_be" -> bs_put_u32_be(Fresh, v) [] format = "i32_be" -> bs_put_i32_be(Fresh, v)
    [] format = "u32_le" -> bs_put_u32_le(Fresh, v) [] format = "i32_le" -> bs_put_i32_le(Fresh, v)
    [] format = "str_u8" -> bs_put_str_u8(Fresh, v)

\* The values of each format.
ValuesOf == [u8 |-> uint8_t, i8 |-> int8_t,
             u16_be |-> uint16_t, u16_le |-> uint16_t, i16_be |-> int16_t, i16_le |-> int16_t,
             u32_be |-> uint32_t, u32_le |-> uint32_t, i32_be |-> int32_t, i32_le |-> int32_t]

\* Of strings, those whose length fits in 8 bits: of a longer one the prefix
\* of byte_stream.h:195 says less than is written.
IsMeasurement(m) == \/ m.format \in DOMAIN ValuesOf /\ m.value \in ValuesOf[m.format]
                    \/ m.format = "str_u8" /\ IsText(m.value) /\ m.value.len <= 255

ASSUME MeasurementAssumption == \A m \in Measurements : IsMeasurement(m)

\* Unspecified where s is too short, as the code reads on past its end.
bs_get_bytes(s, n) == LET k == Max({j \in 0 .. Len(s) : Width(SubSeq(s, 1, j)) = n})
                      IN  Get([bytes |-> SubSeq(s, 1, k), len |-> n], s, k)

\* A careful receiver looks first whether there are as many bytes.
TakeBytes(s, n) == IF \E k \in 0 .. Len(s) : Width(SubSeq(s, 1, k)) = n
                   THEN bs_get_bytes(s, n) ELSE Get(NULL, <<>>, 0)

Read(format, s) ==
  CASE format = "u8"     -> bs_get_u8(s)     [] format = "i8"     -> bs_get_i8(s)
    [] format = "u16_be" -> bs_get_u16_be(s) [] format = "i16_be" -> bs_get_i16_be(s)
    [] format = "u16_le" -> bs_get_u16_le(s) [] format = "i16_le" -> bs_get_i16_le(s)
    [] format = "u32_be" -> bs_get_u32_be(s) [] format = "i32_be" -> bs_get_i32_be(s)
    [] format = "u32_le" -> bs_get_u32_le(s) [] format = "i32_le" -> bs_get_i32_le(s)
    [] format = "str_u8" -> TakeBytes(bs_get_u8(s).rest, bs_get_u8(s).value)
-----------------------------------------------------------------------------
(* What a packet is to say, and what MQTT 3.1.1 demands of it.             *)
Connect(c)   == [type   |-> CONNECT,
                 client |-> c.client,
                 user   |-> IF Missing(c.user) THEN NULL ELSE c.user,
                 pass   |-> IF Missing(c.user) THEN NULL ELSE c.pass]
Publish(p)   == [type |-> PUBLISH, topic |-> p.topic,
                 payload |-> IF p.len = 0 THEN Memory(<<>>) ELSE p.payload]
Request(t, s) == [type |-> t, id |-> s.id, topic |-> s.topic]
Signal(t)     == [type |-> t]

Required(m) == IF m.type = CONNECT THEN {m.client}
               ELSE IF m.type \in {PUBLISH, SUBSCRIBE, UNSUBSCRIBE} THEN {m.topic} ELSE {}
Optional(m) == IF m.type = CONNECT THEN {m.user, m.pass} \ {NULL} ELSE {}

BodySize(m) ==
  CASE m.type = CONNECT     -> 12 + m.client.len + LengthIfGiven(m.user) + LengthIfGiven(m.pass)
    [] m.type = PUBLISH     -> 2 + m.topic.len + m.payload.len
    [] m.type = SUBSCRIBE   -> 5 + m.topic.len
    [] m.type = UNSUBSCRIBE -> 4 + m.topic.len
    [] OTHER                -> 0

Power128 == <<128, 16384, 2097152, 268435456>>

Encodable(m) == /\ \A s \in Required(m) : s # NULL /\ s.len > 0
                /\ \A s \in Required(m) \cup Optional(m) : s.len <= 65535
                /\ m.type \in {SUBSCRIBE, UNSUBSCRIBE} => m.id # 0
                /\ m.type = PUBLISH => m.payload # NULL
                /\ BodySize(m) < Power128[4]

PacketSize(m) == 1 + Min({k \in 1 .. 4 : BodySize(m) < Power128[k]}) + BodySize(m)

\* The buffers that make a difference; any one where nothing can be sent.
Buffers(m) == {NULL, 2} \cup (IF Encodable(m) THEN {PacketSize(m) + d : d \in -1 .. 1}
                              ELSE {SizeT - 1})
-----------------------------------------------------------------------------
LinkInit == last = NULL /\ wire = <<>> /\ sent = <<>> /\ read = NULL

\* The client hands what a builder returned to the connection.
Sends(m, measured, buf, result) ==
  /\ last' = [packet |-> m, buf |-> buf, ret |-> result.ret, wrote |-> Width(result.packet)]
  /\ wire' = wire \o result.packet
  /\ sent' = IF result.ret = 0 THEN sent
             ELSE Append(sent, [packet |-> m, measured |-> measured])
  /\ read' = NULL

MaySend == Len(sent) < MaxInFlight

SendConnect ==
  /\ MaySend
  /\ \E c \in Connects : LET m == Connect(c) IN \E buf \in Buffers(m) :
       Sends(m, NULL, buf, mqtt_build_connect(buf, c.client, c.user, c.pass))

SendPublish ==
  /\ MaySend
  /\ \E p \in Publications : LET m == Publish(p) IN \E buf \in Buffers(m) :
       Sends(m, NULL, buf, mqtt_build_publish(buf, p.topic, p.payload, p.len))

\* The arguments that publish a measurement; the buffer is just large enough.
Measured(topic, v) == [topic   |-> topic,
                       payload |-> [bytes |-> Written(v).bytes, len |-> Written(v).off],
                       len     |-> Written(v).off]

SendMeasurement ==
  /\ MaySend
  /\ \E topic \in Topics, v \in Measurements :
       LET p == Measured(topic, v)  m == Publish(p)
       IN  /\ Encodable(m)
           /\ Sends(m, v, PacketSize(m),
                    mqtt_build_publish(PacketSize(m), p.topic, p.payload, p.len))

SendSubscribe ==
  /\ MaySend
  /\ \E s \in Subscriptions : LET m == Request(SUBSCRIBE, s) IN \E buf \in Buffers(m) :
       Sends(m, NULL, buf, mqtt_build_subscribe(buf, s.id, s.topic))

SendUnsubscribe ==
  /\ MaySend
  /\ \E s \in Subscriptions : LET m == Request(UNSUBSCRIBE, s) IN \E buf \in Buffers(m) :
       Sends(m, NULL, buf, mqtt_build_unsubscribe(buf, s.id, s.topic))

SendPingreq ==
  /\ MaySend
  /\ \E buf \in Buffers(Signal(PINGREQ)) :
       Sends(Signal(PINGREQ), NULL, buf, mqtt_build_pingreq(buf))

SendDisconnect ==
  /\ MaySend
  /\ \E buf \in Buffers(Signal(DISCONNECT)) :
       Sends(Signal(DISCONNECT), NULL, buf, mqtt_build_disconnect(buf))
-----------------------------------------------------------------------------
(* The broker reads as MQTT 3.1.1 says; NULL is what it cannot make sense  *)
(* of.  A field is read from what the field before it left.                *)
GetString(s) == IF Len(s) < 2 THEN Get(NULL, <<>>, 0)
                ELSE TakeBytes(bs_get_u16_be(s).rest, bs_get_u16_be(s).value)
GetIf(given, s) == IF given THEN GetString(s) ELSE Get(NULL, s, 0)

ParseConnect(s) ==
  LET protocol == GetString(s)
      rest == SubSeq(protocol.rest, 5, Len(protocol.rest))
      bits == protocol.rest[2]
      client == GetString(rest)
      user   == GetIf(bits \div 128 = 1, client.rest)
      pass   == GetIf((bits \div 64) % 2 = 1, user.rest)
  IN  IF /\ protocol.value = Memory(<<77, 81, 84, 84>>) /\ protocol.rest[1] = 4
         /\ bits \in {2, 130, 194} /\ pass.rest = <<>>
      THEN [type |-> CONNECT, client |-> client.value, user |-> user.value, pass |-> pass.value]
      ELSE NULL

ParsePublish(s) ==
  LET topic == GetString(s)
  IN  [type |-> PUBLISH, topic |-> topic.value,
       payload |-> [bytes |-> topic.rest, len |-> Width(topic.rest)]]

\* `tail' is what follows the topic: the requested quality of service.
ParseRequest(type, s, tail) ==
  LET topic == GetString(bs_get_u16_be(s).rest)
  IN  IF topic.rest = tail
      THEN [type |-> type, id |-> bs_get_u16_be(s).value, topic |-> topic.value] ELSE NULL

Parse(type, s) ==
  CASE type = CONNECT     -> ParseConnect(s)
    [] type = PUBLISH     -> ParsePublish(s)
    [] type = SUBSCRIBE   -> ParseRequest(type, s, <<0>>)
    [] type = UNSUBSCRIBE -> ParseRequest(type, s, <<>>)
    [] type \in {PINGREQ, DISCONNECT} /\ s = <<>> -> Signal(type)
    [] OTHER              -> NULL

\* The remaining length is the base-128 number up to a byte below 128.
LastGroup(s) == CHOOSE k \in 1 .. 4 : s[k] < 128 /\ \A j \in 1 .. k - 1 : s[j] >= 128
Decoded(s) == FoldRight(LAMBDA b, n : 128 * n + (b % 128), SubSeq(s, 1, LastGroup(s)), 0)

BrokerReads ==
  /\ sent # <<>>
  /\ LET s    == Tail(wire)
         body == TakeBytes(SubSeq(s, LastGroup(s) + 1, Len(s)), Decoded(s))
     IN  /\ read' = [heard |-> IF body.value = NULL THEN NULL ELSE Parse(wire[1], body.value.bytes),
                     meant |-> Head(sent)]
         /\ wire' = body.rest
  /\ sent' = Tail(sent)
  /\ last' = NULL

LinkNext == \/ SendConnect \/ SendPublish \/ SendMeasurement \/ SendSubscribe
            \/ SendUnsubscribe \/ SendPingreq \/ SendDisconnect \/ BrokerReads

LinkSpec == LinkInit /\ [][LinkNext]_vars
-----------------------------------------------------------------------------
\* Every packet that a builder returned is understood as it was meant: the
\* broker cuts the stream where the builder ended the packet (mqtt.c:79-99,
\* 120-132) and finds the fields that the call was given.
BrokerHears == /\ read # NULL => read.heard = read.meant.packet
               /\ sent = <<>> => wire = <<>>
               /\ last # NULL => last.wrote = last.ret

\* What a byte of each format counts for, in the order of its name.
PlaceValues ==
  LET be2 == <<256, 1>>  be4 == <<16777216, 65536, 256, 1>>
      le2 == <<1, 256>>  le4 == <<1, 256, 65536, 16777216>>
  IN  [u8 |-> <<1>>, i8 |-> <<1>>,
       u16_be |-> be2, u16_le |-> le2, i16_be |-> be2, i16_le |-> le2,
       u32_be |-> be4, u32_le |-> le4, i32_be |-> be4, i32_le |-> le4]

OnTheWire(m) ==
  IF m.format = "str_u8" THEN <<m.value.len>> \o m.value.bytes
  ELSE LET w == PlaceValues[m.format] IN [k \in DOMAIN w |-> (m.value \div w[k]) % 256]

\* What the bs_put function of a format wrote has the bytes that the name of the
\* format promises to a reader in any language, in that order, and is what its
\* bs_get reads at the other end, with nothing left over (byte_stream.h:36-208).
MeasurementArrives ==
  (read # NULL /\ read.meant.measured # NULL) =>
    LET m == read.meant.measured  bs == read.heard.payload.bytes
    IN  bs = OnTheWire(m) /\ Read(m.format, bs) = Get(m.value, <<>>, 0)

\* A builder returns 0 exactly when MQTT cannot say what was asked for or the
\* buffer is too small, and else the size of the packet, so that it never
\* writes past the buffer it was given (mqtt.h:14-19).
ReturnsTheSize ==
  last # NULL =>
    LET fits == /\ Encodable(last.packet) /\ last.buf # NULL
                /\ PacketSize(last.packet) <= last.buf
    IN  last.ret = IF fits THEN PacketSize(last.packet) ELSE 0
=============================================================================
