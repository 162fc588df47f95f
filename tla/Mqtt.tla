-------------------------------- MODULE Mqtt --------------------------------
(***************************************************************************)
(* mqtt.c: the packet builders.  A builder returns the number of bytes it  *)
(* wrote, or 0, and what it wrote.  `buf' stands for the caller's buffer:  *)
(* NULL, or its size; a string is NULL, or what is in memory.              *)
(***************************************************************************)
EXTENDS ByteStream

CONSTANTS UInt32,    \* 2^32: a length is cast to uint32_t before it is encoded
          SizeT,     \* the number of values of a size_t
          NULL       \* the null pointer

ASSUME MqttAssumption == /\ UInt32 \in Nat /\ UInt32 >= 536870912
                         /\ SizeT \in Nat /\ SizeT >= UInt32

\* The first byte of each packet.
CONNECT     == 16
PUBLISH     == 48
SUBSCRIBE   == 130
UNSUBSCRIBE == 162
PINGREQ     == 192
DISCONNECT  == 224

KEEPALIVE_S == 60
-----------------------------------------------------------------------------
\* value >> 7 * k
Shifted(value, k) == value \div <<1, 128, 16384, 2097152, 268435456>>[k + 1]

\* The turns of put_varint's loop: until nothing is left, four at most.
Turns(value) == IF Shifted(value, 1) = 0 THEN 1
                ELSE IF Shifted(value, 2) = 0 THEN 2
                ELSE IF Shifted(value, 3) = 0 THEN 3 ELSE 4

\* (mutant) whether more follows is tested before the shift
GroupOfUnshifted(value, k) ==
  (Shifted(value, k - 1) % 128) + (IF Shifted(value, k - 1) > 0 THEN 128 ELSE 0)

\* The byte of the k-th turn: seven bits, and one that says that more follow.
Group(value, k) == (Shifted(value, k - 1) % 128) + (IF Shifted(value, k) > 0 THEN 128 ELSE 0)

\* On overflow the offset stays, and what is written next covers the bytes.
put_varint(w, value) ==
  IF Shifted(value, 4) > 0 THEN w
  ELSE Put(w, [k \in 1 .. Turns(value) |-> Group(value, k)])

\* (mutant) a length that needs one more byte is measured without it
SizeIsLate(value) == CASE value <= 128       -> 1
                       [] value <= 16384     -> 2
                       [] value <= 2097152   -> 3
                       [] value <= 268435456 -> 4
                       [] OTHER              -> 0

\* The first threshold that value is below, as the code tests them in turn.
varint_size(value) == IF value < 128 THEN 1
                      ELSE IF value < 16384 THEN 2
                      ELSE IF value < 2097152 THEN 3
                      ELSE IF value < 268435456 THEN 4 ELSE 0
-----------------------------------------------------------------------------
Refused == [ret |-> 0, packet |-> <<>>]

\* The end of every builder but the last two: measure, refuse, or write the
\* first byte, the length, and then `body'.
Packet(buf, type, length, body) ==
  LET body_len == length % SizeT
      rl_size  == varint_size(body_len % UInt32)
      total    == (1 + rl_size + body_len) % SizeT
      header   == put_varint(bs_put_u8(Fresh, type), body_len % UInt32)
  IN  IF rl_size = 0 \/ total > buf THEN Refused
      ELSE [ret |-> header.off + body.off, packet |-> header.bytes \o body.bytes]

Missing(s)  == IF s = NULL THEN TRUE ELSE s.len = 0
TooLong(s)  == s.len > 65535

\* Clean session, and what is there of user name and password.
Flags(username, password) == 2 + (IF username = NULL THEN 0
                                  ELSE 128 + (IF password = NULL THEN 0 ELSE 64))

PutIfGiven(w, s)    == IF s = NULL THEN w ELSE bs_put_str_u16_be(w, s)
LengthIfGiven(s)    == IF s = NULL THEN 0 ELSE 2 + s.len

\* An empty user name counts as none, and takes the password with it.
mqtt_build_connect(buf, client_id, username, password) ==
  LET user == IF Missing(username) THEN NULL ELSE username
      pass == IF user = NULL THEN NULL ELSE password
      head == bs_put_u16_be(
                bs_put_u8(
                  bs_put_u8(bs_put_str_u16_be(Fresh, Memory(<<77, 81, 84, 84>>)), 4),
                  Flags(user, pass)),
                KEEPALIVE_S)
  IN  IF \/ buf = NULL \/ Missing(client_id)
         \/ \E s \in {client_id, user, pass} \ {NULL} : TooLong(s)
      THEN Refused
      ELSE Packet(buf, CONNECT, 12 + client_id.len + LengthIfGiven(user) + LengthIfGiven(pass),
                  PutIfGiven(PutIfGiven(bs_put_str_u16_be(head, client_id), user), pass))

\* The payload pointer may be NULL if the length is 0.
mqtt_build_publish(buf, topic, payload, payload_len) ==
  IF buf = NULL \/ Missing(topic) \/ (payload = NULL /\ payload_len > 0) THEN Refused
  ELSE IF TooLong(topic) THEN Refused
  ELSE Packet(buf, PUBLISH, 2 + topic.len + payload_len,
              IF payload_len = 0 THEN bs_put_str_u16_be(Fresh, topic)
              ELSE bs_put_bytes(bs_put_str_u16_be(Fresh, topic), payload))

mqtt_build_subscribe(buf, packet_id, topic) ==
  IF buf = NULL \/ Missing(topic) \/ packet_id = 0 THEN Refused
  ELSE IF TooLong(topic) THEN Refused
  ELSE Packet(buf, SUBSCRIBE, 2 + 2 + topic.len + 1,
              bs_put_u8(bs_put_str_u16_be(bs_put_u16_be(Fresh, packet_id), topic), 0))

mqtt_build_unsubscribe(buf, packet_id, topic) ==
  IF buf = NULL \/ Missing(topic) \/ packet_id = 0 THEN Refused
  ELSE IF TooLong(topic) THEN Refused
  ELSE Packet(buf, UNSUBSCRIBE, 2 + 2 + topic.len,
              bs_put_str_u16_be(bs_put_u16_be(Fresh, packet_id), topic))

TwoBytes(buf, type) == IF buf = NULL THEN Refused
                       ELSE IF buf < 2 THEN Refused ELSE [ret |-> 2, packet |-> <<type, 0>>]

mqtt_build_pingreq(buf)    == TwoBytes(buf, PINGREQ)
mqtt_build_disconnect(buf) == TwoBytes(buf, DISCONNECT)
=============================================================================
