------------------------------ MODULE NmeaLine ------------------------------
(***************************************************************************)
(* The parser at the end of a serial line from a GNSS receiver.  In each   *)
(* sentence at most one byte is lost, altered or inserted, or the rest of  *)
(* the sentence is lost; between sentences there is noise.                 *)
(***************************************************************************)
EXTENDS Nmea, FiniteSets

CONSTANTS Body,     \* the bodies that the receiver sends
          Garble,   \* what a byte may turn into, or what may be inserted
          Noise,    \* bytes between sentences
          Stray     \* what noise may make of the checksum of a part of a body

\* An exclusive or cannot see a byte of code 0 come or go.
ASSUME GarbleAssumption == \A b \in Garble : Ascii[b] # 0

\* The receiver keeps to the standard: no reserved character in a body.  Noise
\* has no '$', which would begin a line that the next sentence is merged with.
ASSUME LineAssumption == /\ \A bs \in Body : bs \in Seq(Byte \ (EndOfLine \cup {"*"}))
                         /\ "$" \notin Noise
                         /\ \A t \in Type, bs \in Body : NONE # [type |-> t, body |-> bs]

VARIABLES body,     \* the body of the sentence that is sent, or was sent last
          todo,     \* the bytes of it that are still to come
          fault,    \* has the line disturbed this sentence?
          inLine,   \* has a '$' arrived since the last CR or LF did?
          merged,   \* the value of inLine when the sentence began
          pending,  \* the bodies sent since the line was last at rest
          heard     \* callbacks since the sentence began

wire == <<body, todo, fault, inLine, merged, pending, heard>>

HexOf(s) == CHOOSE n \in 0 .. 255 : BitsOf(n) = s

\* The checksum of a body, by its definition: a bit is set if it is set in an
\* odd number of the bytes.
Checksum(bs) == HexOf({i \in 0 .. 7 : Cardinality({k \in DOMAIN bs : i \in BitsOf(Ascii[bs[k]])}) % 2 = 1})

Sentence(bs) == LET c == Checksum(bs)
                IN  <<"$">> \o bs \o <<"*", HexDigits[(c \div 16) + 1], HexDigits[(c % 16) + 1], "\r", "\n">>

\* The checksum of the first k bytes of a body; two digits that spell a checksum.
PartSum(bs, k) == BitsOf(Checksum(SubSeq(bs, 1, k)))
Spells(d, e, sum) == IsHex(d) /\ IsHex(e) /\ BitsOf(16 * hex_nibble(d) + hex_nibble(e)) = sum

\* A checksum of one byte tells a disturbed sentence from a sound one unless by
\* accident the bytes that follow spell it.  What is assumed of the bodies and the
\* noise, and not of one run of the line, so that none of these can happen: a '*'
\* before two digits of a body that spell the checksum of what precedes them, noise
\* that spells the checksum of a sentence that was cut, and noise that the '$' of
\* the next sentence cancels.
ASSUME AccidentAssumption ==
  /\ Garble \subseteq Byte /\ \A b, c \in Byte : Ascii[b] = Ascii[c] => b = c
  /\ \A bs \in Body : bs # <<>> /\ \A k \in DOMAIN bs : bs[k] # "$" /\ Ascii[bs[k]] # 0
  /\ \A bs \in Body : \A k \in 0 .. Len(bs), p \in 1 .. Len(bs) - 1 :
       p \in {k + 1, k + 2} => ~Spells(bs[p], bs[p + 1], PartSum(bs, k))
  /\ \A bs \in Body : \A k \in 0 .. Len(bs) : PartSum(bs, k) \in Stray
  /\ \A s \in Stray, b \in Noise \ (EndOfLine \cup {"*"}) : Xor(s, BitsOf(Ascii[b])) \in Stray
  /\ \A s \in Stray : s # BitsOf(Ascii["$"])
  /\ \A s \in Stray, d, e \in Noise : ~Spells(d, e, s)

LineInit == /\ Init
            /\ body = <<>> /\ todo = <<>> /\ fault = FALSE
            /\ inLine = FALSE /\ merged = FALSE /\ pending = {} /\ heard = 0

\* A byte reaches the parser.
Arrives(b) == /\ nmea_feed_byte(b)
              /\ inLine' = (b = "$" \/ (inLine /\ b \notin EndOfLine))
              /\ heard' = IF event' # NONE THEN heard + 1 ELSE heard

Begin(bs) == /\ todo = <<>>
             /\ body' = bs /\ todo' = Sentence(bs)
             /\ fault' = FALSE /\ merged' = inLine /\ heard' = 0
             /\ pending' = IF inLine THEN pending \cup {bs} ELSE {bs}
             /\ event' = NONE
             /\ UNCHANGED <<parser, on_message, snapshot, inLine>>

Transmit == /\ todo # <<>>
            /\ Arrives(Head(todo))
            /\ todo' = Tail(todo)
            /\ UNCHANGED <<body, fault, merged, pending>>

\* Bound: a sentence is disturbed once, and one that begins inside the
\* remains of another is not.
Disturb == todo # <<>> /\ ~fault /\ ~merged /\ fault' = TRUE /\ UNCHANGED <<body, merged, pending>>

Lose == /\ Disturb
        /\ todo' = Tail(todo)
        /\ event' = NONE
        /\ UNCHANGED <<parser, on_message, snapshot, inLine, heard>>

Alter == /\ Disturb
         /\ \E b \in Garble \ {Head(todo)} : Arrives(b)
         /\ todo' = Tail(todo)

Insert == /\ Disturb
          /\ \E b \in Garble : Arrives(b)
          /\ UNCHANGED todo

Cut == /\ Disturb
       /\ todo' = <<>>
       /\ event' = NONE
       /\ UNCHANGED <<parser, on_message, snapshot, inLine, heard>>

Hiss == /\ todo = <<>>
        /\ \E b \in Noise : Arrives(b)
        /\ UNCHANGED <<body, todo, fault, merged, pending>>

\* The application re-initialises the parser, at any byte.
Restart == /\ nmea_init
           /\ fault' = TRUE /\ inLine' = FALSE
           /\ UNCHANGED <<body, todo, merged, pending, heard>>

LineNext == \/ \E bs \in Body : Begin(bs)
            \/ Transmit \/ Lose \/ Alter \/ Insert \/ Cut \/ Hiss \/ Restart

LineSpec == LineInit /\ [][LineNext]_<<vars, wire>>
-----------------------------------------------------------------------------
Accepted(bs) == Len(bs) <= LineMax /\ TypeOf(bs) # NONE

\* Wherever a single disturbance hits each sentence, the parser never takes
\* anything for a sentence that is not a body sent since the line was last at
\* rest: the one under way, or one whose line end was lost.  The bodies and the
\* noise are such that no accident can spell a checksum, see above.
NoForgery == event # NONE => /\ event.body \in pending
                             /\ event.type = TypeOf(event.body)

\* An undisturbed sentence that does not begin inside an unterminated line is
\* heard exactly once (its end is two bytes, each of which could dispatch it) if
\* it is one of the three and fits, and never otherwise, whatever went wrong
\* before it.  Its snapshot is there for a caller without a callback too.
CleanIsHeard ==
  todo = <<>> /\ ~fault /\ ~merged /\ body # <<>>
    => /\ heard = IF Accepted(body) /\ on_message THEN 1 ELSE 0
       /\ Accepted(body) => snapshot[TypeOf(body)] = body

\* README: "a noisy stream cannot poison the next sentence".  A '$' in the
\* noise, or a sentence whose end was lost, does.
NoPoison == todo = <<>> /\ ~fault /\ body # <<>> /\ Accepted(body)
              => snapshot[TypeOf(body)] = body
=============================================================================
