------------------------------- MODULE Ujson -------------------------------
(***************************************************************************)
(* ujson.c: a JSON parser for one flat object, fed one byte at a time.     *)
(* Each call of ujson_feed is one action; `ret' and `event' are what the   *)
(* call returned and what its on_message callback, if it fired, was shown. *)
(* The slots are arrays with their NUL bytes, as in the code, because      *)
(* their bounds and terminators are what can go wrong.                     *)
(***************************************************************************)
EXTENDS Integers, Sequences, SequencesExt

CONSTANTS Byte,       \* the bytes that may arrive, as one-character strings
          NUL,        \* the byte 0
          MaxKV,      \* UJSON_MAX_KV: slots for pairs
          StrMax,     \* UJSON_STR_MAX: bytes of a key or value slot
          MsgMax,     \* UJSON_MSG_MAX: bytes of the raw capture
          IntHalf,    \* 2^31, of the int32_t that holds a number
          LongHalf,   \* 2^31 or 2^63, of the long that strtol returns
          NONE        \* no callback, no number

ASSUME UjsonAssumption == /\ MaxKV \in 1 .. 255
                          /\ StrMax \in Nat \ {0} /\ MsgMax \in Nat \ {0}
                          /\ IntHalf \in Nat \ {0} /\ LongHalf \in Nat \ {0}
                          /\ NUL \in Byte

Digits == <<"0", "1", "2", "3", "4", "5", "6", "7", "8", "9">>
IsDigit(b) == \E d \in 1 .. 10 : Digits[d] = b
ujson_is_ws(b) == b \in {" ", "\t", "\r", "\n"}

VARIABLES st, pair_count, tok_ptr, msg_ptr, key, msg,
          value,        \* the value slots: value[k].str
          number,       \* value[k].i if value[k].is_numeric, else NONE
          on_message,   \* is a callback installed?
          ret,          \* what the last ujson_feed returned
          event         \* what its callback was shown, or NONE

pairs == <<pair_count, tok_ptr, key, value, number>>
vars  == <<st, pairs, msg_ptr, msg, on_message, ret, event>>

State == {"start", "wait_dq_start", "read_key", "wait_colon", "wait_dq_value",
          "read_value", "read_value_int", "wait_comma_or_end"}

\* The states that write, or are about to write, slot pair_count.
PairOpen == st \in {"read_key", "wait_colon", "wait_dq_value", "read_value", "read_value_int"}

Pair  == 0 .. MaxKV - 1
Slot  == [0 .. StrMax - 1 -> Byte]
Blank == [j \in 0 .. StrMax - 1 |-> NUL]

\* The C string in an array: the bytes before its first NUL.
CStr(slot) ==
  LET len == CHOOSE n \in DOMAIN slot : slot[n] = NUL /\ \A j \in 0 .. n - 1 : slot[j] # NUL
  IN  [j \in 1 .. len |-> slot[j - 1]]

\* strtol(text, NULL, 10) of an optional '-' and digits, saturated, and the
\* cast of its long to int32_t.
Strtol(text) ==
  LET negative == text # <<>> /\ Head(text) = "-"
      digits   == IF negative THEN Tail(text) ELSE text
      DigitVal(d) == CHOOSE v \in 0 .. 9 : Digits[v + 1] = d
      n == FoldLeft(LAMBDA acc, d : 10 * acc + DigitVal(d), 0, digits)
  IN  IF negative THEN (IF n > LongHalf THEN -LongHalf ELSE -n)
                  ELSE (IF n >= LongHalf THEN LongHalf - 1 ELSE n)

ToInt32(n) == ((n + IntHalf) % (2 * IntHalf)) - IntHalf
-----------------------------------------------------------------------------
SlotTypes == /\ st \in State
             /\ pair_count \in 0 .. MaxKV
             /\ tok_ptr \in 0 .. StrMax - 1
             /\ msg_ptr \in 0 .. MsgMax - 1
             /\ key \in [Pair -> Slot] /\ value \in [Pair -> Slot]
             /\ msg \in [0 .. MsgMax - 1 -> Byte]
             /\ on_message \in BOOLEAN
             /\ ret \in {0, 1}

\* Types; the cursors always index their arrays.
TypeOK == SlotTypes /\ number \in [Pair -> Int \cup {NONE}]

Init == /\ st = "start" /\ pair_count = 0 /\ tok_ptr = 0 /\ msg_ptr = 0
        /\ key = [k \in Pair |-> Blank] /\ value = [k \in Pair |-> Blank]
        /\ number = [k \in Pair |-> NONE]
        /\ msg = [j \in 0 .. MsgMax - 1 |-> NUL]
        /\ on_message \in BOOLEAN
        /\ ret = 1 /\ event = NONE

\* (mutant) the slots keep the bytes of the previous object
ResetCursors == /\ st' = "start" /\ pair_count' = 0 /\ tok_ptr' = 0 /\ msg_ptr' = 0
                /\ UNCHANGED <<key, value, number, msg>>

Reset == /\ st' = "start" /\ pair_count' = 0 /\ tok_ptr' = 0 /\ msg_ptr' = 0
         /\ key' = [k \in Pair |-> Blank] /\ value' = [k \in Pair |-> Blank]
         /\ number' = [k \in Pair |-> NONE]
         /\ msg' = [j \in 0 .. MsgMax - 1 |-> NUL]

ujson_reset == Reset /\ ret' = 1 /\ event' = NONE /\ UNCHANGED on_message

ujson_init == Reset /\ on_message' \in BOOLEAN /\ ret' = 1 /\ event' = NONE
-----------------------------------------------------------------------------
\* (mutants) no byte is kept for the terminator, or one too many
RoomForByte  == tok_ptr < StrMax
RoomForOther == tok_ptr + 2 < StrMax

\* ujson_append_token accepts a byte.
RoomForToken == tok_ptr < StrMax - 1

Appended(slot, cursor, b) == [slot EXCEPT ![cursor] = b, ![cursor + 1] = NUL]

\* (mutant) no byte is kept for the terminator
RoomToEnd == msg_ptr < MsgMax

RoomInCapture == msg_ptr < MsgMax - 1

\* The raw capture with one more byte, unless it is full.
Captured(b) == IF RoomInCapture THEN Appended(msg, msg_ptr, b) ELSE msg

\* A byte that is accepted and leads to state s.
Accept(b, s) == /\ st' = s
                /\ msg' = Captured(b)
                /\ msg_ptr' = IF RoomInCapture THEN msg_ptr + 1 ELSE msg_ptr
                /\ ret' = 1 /\ event' = NONE

\* A hard parse error.
Reject == Reset /\ ret' = 0 /\ event' = NONE

\* The closing brace: the callback sees n pairs, with the numbers given, and
\* then the parser resets.
Complete(b, numbers, n) ==
  /\ event' = IF on_message
              THEN [msg   |-> CStr(Captured(b)),
                    pairs |-> [k \in 1 .. n |-> [key    |-> CStr(key[k - 1]),
                                                 text   |-> CStr(value[k - 1]),
                                                 number |-> numbers[k - 1]]]]
              ELSE NONE
  /\ Reset
  /\ ret' = 1

\* (mutant) the table is not checked for room
OpenKeyUnchecked(b) == b = "\""

OpensKey(b) == b = "\"" /\ pair_count < MaxKV

FeedStart(b) == /\ st = "start"
                /\ Accept(b, IF b = "{" THEN "wait_dq_start" ELSE "start")
                /\ UNCHANGED pairs

FeedKeyQuote(b) ==
  /\ st = "wait_dq_start"
  /\ \/ OpensKey(b) /\ Accept(b, "read_key") /\ tok_ptr' = 0 /\ UNCHANGED <<pair_count, key, value, number>>
     \/ ujson_is_ws(b) /\ Accept(b, st) /\ UNCHANGED pairs
     \/ ~OpensKey(b) /\ ~ujson_is_ws(b) /\ Reject

FeedKey(b) ==
  /\ st = "read_key"
  /\ \/ b = "\"" /\ Accept(b, "wait_colon") /\ UNCHANGED pairs
     \/ /\ b # "\"" /\ RoomForToken
        /\ key' = [key EXCEPT ![pair_count] = Appended(@, tok_ptr, b)]
        /\ tok_ptr' = tok_ptr + 1
        /\ Accept(b, st)
        /\ UNCHANGED <<pair_count, value, number>>
     \/ b # "\"" /\ ~RoomForToken /\ Reject

FeedColon(b) ==
  /\ st = "wait_colon"
  /\ \/ b = ":" /\ Accept(b, "wait_dq_value") /\ UNCHANGED pairs
     \/ ujson_is_ws(b) /\ Accept(b, st) /\ UNCHANGED pairs
     \/ b # ":" /\ ~ujson_is_ws(b) /\ Reject

\* One more byte of the value's string form, from cursor c on.
AppendValue(b, c) ==
  /\ value' = [value EXCEPT ![pair_count] = Appended(@, c, b)]
  /\ tok_ptr' = c + 1
  /\ UNCHANGED <<pair_count, key, number>>

OpensNumber(b) == IsDigit(b) \/ b = "-"

\* The first byte of a number is appended at cursor 0, if a slot has room at all.
FeedValueStart(b) ==
  /\ st = "wait_dq_value"
  /\ \/ b = "\"" /\ Accept(b, "read_value") /\ tok_ptr' = 0 /\ UNCHANGED <<pair_count, key, value, number>>
     \/ OpensNumber(b) /\ StrMax > 1 /\ Accept(b, "read_value_int") /\ AppendValue(b, 0)
     \/ ujson_is_ws(b) /\ Accept(b, st) /\ UNCHANGED pairs
     \/ b # "\"" /\ ~(OpensNumber(b) /\ StrMax > 1) /\ ~ujson_is_ws(b) /\ Reject

FeedValue(b) ==
  /\ st = "read_value"
  /\ \/ /\ b = "\"" /\ Accept(b, "wait_comma_or_end")
        /\ pair_count' = pair_count + 1
        /\ UNCHANGED <<tok_ptr, key, value, number>>
     \/ b # "\"" /\ RoomForToken /\ Accept(b, st) /\ AppendValue(b, tok_ptr)
     \/ b # "\"" /\ ~RoomForToken /\ Reject

\* The numbers after ujson_finalise_int.
Finalised == [number EXCEPT ![pair_count] = ToInt32(Strtol(CStr(value[pair_count])))]

FeedNumber(b) ==
  /\ st = "read_value_int"
  /\ \/ /\ b = "," \/ ujson_is_ws(b)
        /\ Accept(b, IF b = "," THEN "wait_dq_start" ELSE "wait_comma_or_end")
        /\ number' = Finalised
        /\ pair_count' = pair_count + 1
        /\ UNCHANGED <<tok_ptr, key, value>>
     \/ b = "}" /\ Complete(b, Finalised, pair_count + 1)
     \/ IsDigit(b) /\ RoomForToken /\ Accept(b, st) /\ AppendValue(b, tok_ptr)
     \/ ~(b \in {",", "}"} \/ ujson_is_ws(b) \/ (IsDigit(b) /\ RoomForToken)) /\ Reject

FeedCommaOrEnd(b) ==
  /\ st = "wait_comma_or_end"
  /\ \/ b = "," /\ Accept(b, "wait_dq_start") /\ UNCHANGED pairs
     \/ b = "}" /\ Complete(b, number, pair_count)
     \/ ujson_is_ws(b) /\ Accept(b, st) /\ UNCHANGED pairs
     \/ b \notin {",", "}"} /\ ~ujson_is_ws(b) /\ Reject

ujson_feed(b) == /\ \/ FeedStart(b) \/ FeedKeyQuote(b) \/ FeedKey(b) \/ FeedColon(b)
                    \/ FeedValueStart(b) \/ FeedValue(b) \/ FeedNumber(b) \/ FeedCommaOrEnd(b)
                 /\ UNCHANGED on_message

Next == \/ \E b \in Byte : ujson_feed(b)
        \/ ujson_reset
        \/ ujson_init

Spec == Init /\ [][Next]_vars
-----------------------------------------------------------------------------
\* While a pair is open it has a slot of its own: the one check for room, at
\* the opening quote, protects every later write, however the pair was reached.
SlotReserved == PairOpen => pair_count < MaxKV

\* Every slot ends in a NUL, "a valid C string after every accepted byte", so
\* that the lookups and the callback never read past one.
SlotsTerminated == /\ \A k \in Pair : key[k][StrMax - 1] = NUL /\ value[k][StrMax - 1] = NUL
                   /\ msg[msg_ptr] = NUL

\* Slots past the open pair hold nothing from an earlier object, whichever
\* error or completion ended that object.
NothingStale == \A k \in Pair :
                  k > pair_count \/ (k = pair_count /\ ~PairOpen)
                    => key[k] = Blank /\ value[k] = Blank /\ number[k] = NONE

\* ujson_find(p, name): the index of the first pair with that key, or -1.
ujson_find(name) ==
  IF \E k \in 0 .. pair_count - 1 : CStr(key[k]) = name
  THEN CHOOSE k \in 0 .. pair_count - 1 :
         CStr(key[k]) = name /\ \A j \in 0 .. k - 1 : CStr(key[j]) # name
  ELSE -1

\* ujson.h: the lookups may be called "any time after ujson_feed has fired the
\* callback for an object".  The feed that fired it has already reset the pairs.
LookupAfterFeed ==
  event # NONE => \A k \in 1 .. Len(event.pairs) : ujson_find(event.pairs[k].key) # -1
=============================================================================
