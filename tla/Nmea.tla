-------------------------------- MODULE Nmea --------------------------------
(***************************************************************************)
(* nmea.c: the byte-fed framing of NMEA 0183 sentences, $body*hh CR LF,    *)
(* their checksum and their dispatch.  What the decoders make of a body is *)
(* a function of the body alone, so a snapshot is modelled by the body it  *)
(* was decoded from.                                                       *)
(***************************************************************************)
EXTENDS Naturals, Sequences

CONSTANTS Byte,      \* the bytes that may arrive, as one-character strings
          Ascii,     \* their codes
          LineMax,   \* NMEA_LINE_MAX
          NONE       \* no event

ASSUME NmeaAssumption == /\ LineMax \in Nat
                         /\ Ascii \in [Byte -> 0 .. 255]

VARIABLES state,
          line,            \* line[0 .. line_len - 1]
          overflow,
          computed_csum,   \* the set of the bits that are set
          csum_buf,        \* csum_buf[0 .. csum_len - 1]
          on_message,      \* is a callback installed?
          snapshot,        \* the body of the last verified sentence of each type
          event            \* what the last byte made the callback hear, or NONE

parser == <<state, line, overflow, computed_csum, csum_buf>>
vars   == <<parser, on_message, snapshot, event>>

Type == {"RMC", "GGA", "GSA"}
EndOfLine == {"\r", "\n"}

\* The sets of bits that are set in a byte, and in a hexadecimal digit.
BitValue == <<1, 2, 4, 8, 16, 32, 64, 128>>
BitsOf(n) == {i \in 0 .. 7 : (n \div BitValue[i + 1]) % 2 = 1}
Xor(s, t) == (s \ t) \cup (t \ s)

HexDigits == <<"0", "1", "2", "3", "4", "5", "6", "7", "8", "9", "A", "B", "C", "D", "E", "F">>
LowerHex  == <<"0", "1", "2", "3", "4", "5", "6", "7", "8", "9", "a", "b", "c", "d", "e", "f">>
IsHex(b)      == \E d \in 1 .. 16 : b \in {HexDigits[d], LowerHex[d]}
hex_nibble(b) == (CHOOSE d \in 1 .. 16 : b \in {HexDigits[d], LowerHex[d]}) - 1

\* Types; the line and the checksum buffer never outgrow their arrays.
TypeOK == /\ state \in {"WAIT_DOLLAR", "IN_BODY", "AFTER_STAR", "AFTER_CSUM"}
          /\ line \in Seq(Byte) /\ Len(line) <= LineMax
          /\ overflow \in BOOLEAN
          /\ computed_csum \subseteq 0 .. 7
          /\ csum_buf \in Seq(Byte) /\ Len(csum_buf) <= 2
          /\ on_message \in BOOLEAN
          /\ snapshot \in [Type -> Seq(Byte)]
-----------------------------------------------------------------------------
Init == /\ state = "WAIT_DOLLAR" /\ line = <<>> /\ overflow = FALSE
        /\ computed_csum = {} /\ csum_buf = <<>>
        /\ on_message \in BOOLEAN
        /\ snapshot = [t \in Type |-> <<>>]
        /\ event = NONE

reset_state == /\ state' = "WAIT_DOLLAR" /\ line' = <<>> /\ overflow' = FALSE
               /\ computed_csum' = {} /\ csum_buf' = <<>>

nmea_init == /\ reset_state
             /\ on_message' \in BOOLEAN
             /\ snapshot' = [t \in Type |-> <<>>]
             /\ event' = NONE

\* The sentence type of a body, two talker characters and an id, or NONE.
TypeOf(body) ==
  IF Len(body) < 6 THEN NONE
  ELSE IF body[6] # "," THEN NONE
  ELSE CASE SubSeq(body, 3, 5) = <<"R", "M", "C">> -> "RMC"
         [] SubSeq(body, 3, 5) = <<"G", "G", "A">> -> "GGA"
         [] SubSeq(body, 3, 5) = <<"G", "S", "A">> -> "GSA"
         [] OTHER -> NONE

dispatch_line ==
  LET t == TypeOf(line)
  IN  IF t = NONE THEN event' = NONE /\ UNCHANGED snapshot
      ELSE /\ snapshot' = [snapshot EXCEPT ![t] = line]
           /\ event' = IF on_message THEN [type |-> t, body |-> line] ELSE NONE

Silent == event' = NONE /\ UNCHANGED snapshot

FeedWaitDollar(b) ==
  /\ state = "WAIT_DOLLAR"
  /\ IF b = "$"
     THEN /\ state' = "IN_BODY" /\ line' = <<>> /\ overflow' = FALSE
          /\ computed_csum' = {} /\ csum_buf' = <<>>
     ELSE UNCHANGED parser
  /\ Silent

\* (mutant) the line's last byte is not counted
RoomToEnd == Len(line) <= LineMax

RoomInLine == Len(line) < LineMax

\* A byte that does not fit enters neither the line nor the checksum.
FeedBody(b) ==
  /\ state = "IN_BODY"
  /\ \/ b = "*" /\ state' = "AFTER_STAR" /\ UNCHANGED <<line, overflow, computed_csum, csum_buf>>
     \/ b \in EndOfLine /\ reset_state
     \/ /\ b \notin EndOfLine \cup {"*"} /\ RoomInLine
        /\ line' = Append(line, b)
        /\ computed_csum' = Xor(computed_csum, BitsOf(Ascii[b]))
        /\ UNCHANGED <<state, overflow, csum_buf>>
     \/ /\ b \notin EndOfLine \cup {"*"} /\ ~RoomInLine
        /\ overflow' = TRUE
        /\ UNCHANGED <<state, line, computed_csum, csum_buf>>
  /\ Silent

\* (mutant) one digit is taken for the checksum
OneDigit(buf) == Len(buf) = 1

BothDigits(buf) == Len(buf) = 2

\* The code's csum_len < 2 always holds here: see ChecksumComplete.
FeedAfterStar(b) ==
  /\ state = "AFTER_STAR"
  /\ \/ b \in EndOfLine /\ reset_state
     \/ /\ b \notin EndOfLine /\ Len(csum_buf) < 2
        /\ csum_buf' = Append(csum_buf, b)
        /\ state' = IF BothDigits(csum_buf') THEN "AFTER_CSUM" ELSE state
        /\ UNCHANGED <<line, overflow, computed_csum>>
  /\ Silent

\* (mutant) the checksum alone decides, also for a line of which a part is kept
VerifiedByPart == /\ IsHex(csum_buf[1]) /\ IsHex(csum_buf[2])
                  /\ BitsOf(16 * hex_nibble(csum_buf[1]) + hex_nibble(csum_buf[2])) = computed_csum

Verified == /\ ~overflow
            /\ IsHex(csum_buf[1]) /\ IsHex(csum_buf[2])
            /\ BitsOf(16 * hex_nibble(csum_buf[1]) + hex_nibble(csum_buf[2])) = computed_csum

\* (mutant) a sentence is dispatched at each byte of its line end
FeedAfterCsumTwice(b) ==
  /\ state = "AFTER_CSUM"
  /\ IF b = "\n" THEN reset_state ELSE UNCHANGED parser
  /\ IF b \in EndOfLine /\ Verified THEN dispatch_line ELSE Silent

\* Bytes after the checksum are ignored up to the first CR or LF.
FeedAfterCsum(b) ==
  /\ state = "AFTER_CSUM"
  /\ IF b \in EndOfLine
     THEN reset_state /\ IF Verified THEN dispatch_line ELSE Silent
     ELSE UNCHANGED parser /\ Silent

nmea_feed_byte(b) == /\ FeedWaitDollar(b) \/ FeedBody(b) \/ FeedAfterStar(b) \/ FeedAfterCsum(b)
                     /\ UNCHANGED on_message

Next == nmea_init \/ \E b \in Byte : nmea_feed_byte(b)

Spec == Init /\ [][Next]_vars
-----------------------------------------------------------------------------
\* The checksum buffer is full exactly when its digits are about to be read,
\* and empty outside a sentence: dispatch never reads a digit that the
\* sentence did not have.
ChecksumComplete == /\ state = "AFTER_CSUM" <=> Len(csum_buf) = 2
                    /\ state \in {"WAIT_DOLLAR", "IN_BODY"} => csum_buf = <<>>

=============================================================================
