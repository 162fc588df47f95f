---------------------------- MODULE UjsonStream ----------------------------
(***************************************************************************)
(* The parser at the end of a serial line.  A sender writes objects, with  *)
(* white space where JSON allows it; the line may drop the rest of an      *)
(* object at any byte, and carries noise between objects.                  *)
(*                                                                         *)
(* The sender's keys hold no structural character, and its texts no quote  *)
(* and no opening brace: there are no escapes in this format, and a string *)
(* with such a byte in it may cost the receiver further objects after a    *)
(* loss.  A number is sent as the digits that read back as it.             *)
(***************************************************************************)
EXTENDS Ujson

CONSTANTS Object,   \* what is sent: sequences of [key, text, number]
          Noise     \* bytes between objects

Structural == {"{", "}", "\"", ":", ","}

KeyByte  == Byte \ (Structural \cup {NUL})
TextByte == Byte \ {"{", "\"", NUL}

\* The bytes of a number, and what ujson_finalise_int makes of them.
Numeral(text, n) == /\ text # <<>> /\ OpensNumber(Head(text))
                    /\ \A j \in 2 .. Len(text) : IsDigit(text[j])
                    /\ n = ToInt32(Strtol(text))

ASSUME StreamAssumption ==
  /\ Structural \cup {" "} \subseteq Byte
  /\ Noise \subseteq Byte \ {"{", "}"}
  /\ Object \subseteq Seq([key : Seq(KeyByte), text : Seq(TextByte), number : Int \cup {NONE}])
  /\ \A o \in Object : \A k \in 1 .. Len(o) :
       o[k].number # NONE => Numeral(o[k].text, o[k].number)
  /\ NONE \notin [msg : Seq(Byte), pairs : Object]

VARIABLES obj,      \* the object sent last
          todo,     \* what is left of it: [b |-> a byte, gap |-> may white space precede it?]
          phase,    \* "idle", "sending", "sent" or "cut"
          suspect   \* the parser may hold a part of an earlier object that was cut

line == <<obj, todo, phase, suspect>>

Token(b)   == <<[b |-> b, gap |-> TRUE]>>
Within(bs) == [k \in 1 .. Len(bs) |-> [b |-> bs[k], gap |-> FALSE]]
Quoted(bs) == Token("\"") \o Within(Append(bs, "\""))
Member(p)  == Quoted(p.key) \o Token(":")
                \o IF p.number # NONE THEN Token(Head(p.text)) \o Within(Tail(p.text))
                                   ELSE Quoted(p.text)
Render(o)  == LET Part(k) == IF k = 1 THEN Member(o[k]) ELSE Token(",") \o Member(o[k])
              IN  Token("{") \o FlattenSeq([k \in 1 .. Len(o) |-> Part(k)]) \o Token("}")

StreamInit == /\ Init /\ on_message = TRUE
              /\ obj = <<>> /\ todo = <<>> /\ phase = "idle" /\ suspect = FALSE

Begin(o) == /\ phase # "sending"
            /\ obj' = o /\ todo' = Render(o) /\ phase' = "sending"
            /\ suspect' = (phase = "cut" \/ (suspect /\ obj = <<>>))
            /\ event' = NONE
            /\ UNCHANGED <<st, pairs, msg_ptr, msg, on_message, ret>>

Send == /\ phase = "sending"
        /\ ujson_feed(Head(todo).b)
        /\ todo' = Tail(todo)
        /\ phase' = IF todo' = <<>> THEN "sent" ELSE "sending"
        /\ UNCHANGED <<obj, suspect>>

Gap == /\ phase = "sending" /\ Head(todo).gap
       /\ ujson_feed(" ")
       /\ UNCHANGED line

Cut == /\ phase = "sending"
       /\ todo' = <<>> /\ phase' = "cut"
       /\ event' = NONE
       /\ UNCHANGED <<st, pairs, msg_ptr, msg, on_message, ret, obj, suspect>>

Hiss == /\ phase # "sending"
        /\ \E b \in Noise : ujson_feed(b)
        /\ phase' = IF phase = "sent" THEN "idle" ELSE phase
        /\ UNCHANGED <<obj, todo, suspect>>

StreamNext == (\E o \in Object : Begin(o)) \/ Send \/ Gap \/ Cut \/ Hiss

StreamSpec == StreamInit /\ [][StreamNext]_<<vars, line>>
-----------------------------------------------------------------------------
\* The callback is only ever shown the object that was sent last, complete,
\* and as its last byte arrives: never a mixture of two objects, a part of
\* one, or a byte that an earlier object left in a slot.
NoPhantom == event # NONE => phase = "sent" /\ event.pairs = obj

Fits(o) == /\ Len(o) \in 1 .. MaxKV
           /\ \A k \in 1 .. Len(o) : Len(o[k].key) < StrMax /\ Len(o[k].text) < StrMax

\* An object is delivered exactly if it fits, whatever white space it has,
\* whatever noise came before it, and even right after one that was refused
\* for its size.  A cut object costs itself and at most the next one that is
\* not empty ({} has no quote to end a string the cut left open).
LossIsBounded == phase = "sent" /\ ~suspect => (event # NONE <=> Fits(obj))
=============================================================================
