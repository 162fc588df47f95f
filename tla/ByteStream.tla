----------------------------- MODULE ByteStream -----------------------------
(***************************************************************************)
(* byte_stream.h: writers and readers of integers and strings at a moving  *)
(* offset.  A writer w holds what has been written, as a sequence, and the *)
(* offset; a reader takes from the front of a sequence and returns the     *)
(* value with what is left.  What a caller has in memory is [bytes, len];  *)
(* an element of `bytes' may stand for a long piece of text.               *)
(***************************************************************************)
EXTENDS Integers, Sequences

Fresh == [bytes |-> <<>>, off |-> 0]

Memory(bs) == [bytes |-> bs, len |-> Len(bs)]
-----------------------------------------------------------------------------
\* The bytes of a word, the most significant first.  Shifting a signed word
\* that was cast to unsigned is flooring: the bytes are in two's complement.
Bytes2(v) == <<(v \div 256) % 256, v % 256>>
Bytes4(v) == <<(v \div 16777216) % 256, (v \div 65536) % 256, (v \div 256) % 256, v % 256>>

\* (mutant) writer and reader both swap the halves of a word, and not its bytes
FlipHalves(b) == <<b[3], b[4], b[1], b[2]>>

\* The same, the least significant byte first.
Flip2(b) == <<b[2], b[1]>>
Flip4(b) == <<b[4], b[3], b[2], b[1]>>

Put(w, b) == [bytes |-> w.bytes \o b, off |-> w.off + Len(b)]

bs_put_u8(w, v) == Put(w, <<v % 256>>)
bs_put_i8(w, v) == bs_put_u8(w, v)

bs_put_u16_be(w, v) == Put(w, Bytes2(v))
bs_put_i16_be(w, v) == bs_put_u16_be(w, v)
bs_put_u16_le(w, v) == Put(w, Flip2(Bytes2(v)))
bs_put_i16_le(w, v) == bs_put_u16_le(w, v)

bs_put_u32_be(w, v) == Put(w, Bytes4(v))
bs_put_i32_be(w, v) == bs_put_u32_be(w, v)
bs_put_u32_le(w, v) == Put(w, Flip4(Bytes4(v)))
bs_put_i32_le(w, v) == bs_put_u32_le(w, v)

bs_put_bytes(w, s) == [bytes |-> w.bytes \o s.bytes, off |-> w.off + s.len]

\* The prefix is masked; the bytes are all written.
bs_put_str_u8(w, s)     == bs_put_bytes(bs_put_u8(w, s.len % 256), s)
bs_put_str_u16_be(w, s) == bs_put_bytes(bs_put_u16_be(w, s.len % 65536), s)
-----------------------------------------------------------------------------
\* The word that bytes stand for, and the cast of a word to a signed type.
Word2(b) == 256 * b[1] + b[2]
Word4(b) == 16777216 * b[1] + 65536 * b[2] + 256 * b[3] + b[4]

Int8(v)  == IF v >= 128 THEN v - 256 ELSE v
Int16(v) == IF v >= 32768 THEN v - 65536 ELSE v
SignedWord4(b) == 16777216 * Int8(b[1]) + 65536 * b[2] + 256 * b[3] + b[4]

Get(value, s, n) == [value |-> value, rest |-> SubSeq(s, n + 1, Len(s))]

bs_get_u8(s) == Get(s[1], s, 1)
bs_get_i8(s) == Get(Int8(s[1]), s, 1)

bs_get_u16_be(s) == Get(Word2(s), s, 2)
bs_get_i16_be(s) == Get(Int16(Word2(s)), s, 2)
bs_get_u16_le(s) == Get(Word2(Flip2(s)), s, 2)
bs_get_i16_le(s) == Get(Int16(Word2(Flip2(s))), s, 2)

bs_get_u32_be(s) == Get(Word4(s), s, 4)
bs_get_i32_be(s) == Get(SignedWord4(s), s, 4)
bs_get_u32_le(s) == Get(Word4(Flip4(s)), s, 4)
bs_get_i32_le(s) == Get(SignedWord4(Flip4(s)), s, 4)
=============================================================================
