------------------------------- MODULE MCMqtt -------------------------------
(***************************************************************************)
(* Texts as long as the limits of a string and of a remaining length, and  *)
(* one byte longer; words whose bytes differ and words at the ends of the  *)
(* ranges that TLC's integers reach.                                       *)
(***************************************************************************)
EXTENDS MqttLink, TLC

CONSTANTS empty, name, word, str65535, str65536, sub122, sub123,
          body127, body128, body16383, body16384, body2097151, body2097152,
          body268435455, body268435456

MCTextLen == empty :> 0 @@ name :> 1 @@ word :> 255
             @@ str65535 :> 65535 @@ str65536 :> 65536 @@ sub122 :> 122 @@ sub123 :> 123
             @@ body127 :> 124 @@ body128 :> 125 @@ body16383 :> 16380 @@ body16384 :> 16381
             @@ body2097151 :> 2097148 @@ body2097152 :> 2097149
             @@ body268435455 :> 268435452 @@ body268435456 :> 268435453

MCConnects ==
  [client : {Text(name)}, user : {NULL, Text(empty), Text(name)}, pass : {NULL, Text(empty), Text(word)}]
  \cup [client : {NULL, Text(empty), Text(str65535), Text(str65536)}, user : {NULL}, pass : {NULL}]
  \cup [client : {Text(name)}, user : {Text(str65535), Text(str65536)}, pass : {Text(str65536)}]

MCPublications ==
  {[topic |-> Text(name), payload |-> Text(t), len |-> TextLen[t]] :
      t \in {empty, body127, body128, body16383, body16384, body2097151, body2097152,
             body268435455, body268435456}}
  \cup [topic : {Text(name), NULL, Text(empty)}, payload : {NULL}, len : {0, 1}]
  \cup {[topic |-> Text(t), payload |-> Text(name), len |-> 1] : t \in {str65535, str65536}}

MCSubscriptions == [id : {0, 258}, topic : {NULL, Text(empty), Text(name), Text(sub122),
                                            Text(sub123), Text(str65535), Text(str65536)}]

MCTopics == {Text(name)}

MCMeasurements ==
  [format : {"u8"}, value : {0, 255}] \cup [format : {"i8"}, value : {-128, -1}]
  \cup [format : {"u16_be", "u16_le"}, value : {258, 65535}]
  \cup [format : {"i16_be", "i16_le"}, value : {-32768, -2}]
  \cup [format : {"u32_be", "u32_le"}, value : {16909060, 2147483647}]
  \cup [format : {"i32_be", "i32_le"}, value : {-2147483647 - 1, -16909060}]
  \cup [format : {"str_u8"}, value : {Text(name), Text(word)}]
=============================================================================
