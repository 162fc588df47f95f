# c-ulib: a TLA+ model of its state machines, checked and proved

c-ulib is a set of small C99 modules for microcontrollers. Each keeps all of its
state in a struct of the caller's, allocates nothing and takes no lock. The
interesting ones are state machines that something outside the program drives,
a byte from a UART or a tick of a timer, and the hard part of each is what a long
series of such events, in an order nobody chose, leaves in the struct. This
directory models those machines in TLA+, model-checks them with TLC on small
instances, and proves the main results with TLAPS for every size.

## Inventory

| Component | State | Operations | Driven by | What is hard |
|---|---|---|---|---|
| `byte_queue` | `data`, `capacity`, `head`, `tail`, `count` over the caller's buffer | init, clear, put, get, predicates | UART interrupt and main loop, under the caller's critical section | wrap-around, exact fullness, re-targeting to other storage, three redundant cursors |
| `stepper` | position, target, delay and its counter, STEP and DIR levels as last driven | init, tick, move_relative, move_to, set_delay, enable | a periodic tick; the application between ticks | reversal in mid-pulse, a delay changed in mid-wait, a cached pin level, int32 wrap |
| `ujson` | parser state, pair table of fixed slots, raw capture | init, reset, feed, lookups, callback | one byte at a time | every token and the table can overflow; errors at any byte; stale slots; resynchronisation |
| `nmea` framing | line, running XOR, digits, overflow flag, one snapshot per type | init, feed_byte, feed, callback | one byte at a time | lost, altered and inserted bytes; CR LF; overlong lines; merged lines |
| `nmea` decoding | the three snapshots | `field_at`, `field_copy`, `parse_*`, `decode_*` | dispatch | empty, missing, last and overlong fields; values of an earlier sentence |
| `nmea_shift_tz` | none (pure) | calendar shift | application | month and year boundaries |
| `mqtt` | none (pure) | packet builders | application | a header whose size depends on the body's, length limits, what the other end makes of it |
| `byte_stream` | the caller's pointer | readers and writers of integers and strings | application | length masks, endianness, round trips |
| `intmath` | none (pure) | integer helpers | application | boundaries |
| `astro` | none (pure) | floating-point astronomy | application | floating point |

The modules never call each other: the application connects them (a receive
interrupt puts bytes in a queue, the main loop feeds a parser from it, a timer
ticks the stepper). They call out only through callbacks: `on_message` of the two
parsers and the three pin functions of the stepper. Nothing is persisted, so
there is no recovery after a crash to model; "restart" is a second `init`, which the
models allow in the middle of a sentence or an object too, and the stepper's
between pulses (one in the middle of a pulse is under Disagreements).

What makes each component correct:

* byte_queue: bytes come out once each, in order; a put is refused only when
  full, a get only when empty; nothing but a free slot of the attached buffer is written.
* stepper: the counted position is where the motor is; it moves one step at a
  time towards the target of the moment; edges keep the delay; it arrives.
* ujson: no write outside a slot, slots are C strings, nothing of an earlier
  object shows; an object is delivered exactly when it is complete and fits.
* nmea: no write outside the line, a sentence is dispatched exactly once and only
  if it is what was sent; damage to one sentence does not reach others.
* nmea decoding: a snapshot says what the last sentence of its type said, field for
  field, and nothing that an earlier one said.
* mqtt: a builder returns the packet's size, or 0 exactly if MQTT cannot say it or
  the buffer is too small; a stream of packets is cut where they were joined.
* byte_stream: what was put is what is got, in every width, order and sign.
* nmea_shift_tz: the date and time that come out name the instant that went in,
  over month ends, leap days and New Year, and the loops end.

## Modules

| Module | Models | Correspondence |
|---|---|---|
| `ByteFifo` | what `byte_queue.h` promises | an abstract bounded FIFO |
| `ByteQueue` | `byte_queue.c` | one action per call; the caller's buffers are the function `mem`, so that a stray write is seen |
| `ByteQueueShared` | several callers of `byte_queue.c` | one action per store, and one for the load of `count`; `section` is the caller's critical section, `at` and `reg` the program counter and register of each caller |
| `Positioner` | what the stepper promises the motor | an abstract motor that advances towards a target |
| `Stepper` | `stepper.c` and the driver chip | one action per call, `stepper_tick` one per early return; `motor` counts rising edges of STEP by the level of DIR |
| `Ujson` | `ujson.c` | one action per call; `ujson_feed` has one operator per case of its switch; `event` is what the callback saw |
| `UjsonStream` | `Ujson` behind a sender and a line | the sender renders objects with optional white space; the line cuts objects and adds noise |
| `Nmea` | framing and dispatch in `nmea.c` | one operator per case of the switch in `nmea_feed_byte`; the checksum is a set of bits and exclusive or the symmetric difference; here a snapshot is the body it was decoded from (`NmeaFix` has the structs) |
| `NmeaLine` | `Nmea` behind a receiver and a line | a byte is lost, altered or inserted, or the rest of a sentence is lost; noise between sentences; a second `nmea_init` at any byte |
| `NmeaFields` | `field_at` to `decode_gsa` in `nmea.c` | one operator per function, over bodies character by character; a double is an exact number of 1/100000, in minutes of arc for an angle |
| `NmeaFix` | `Nmea`'s dispatch and `NmeaFields` between a receiver and an application | a message is what the receiver knows and which parts it lacks; `shown` is the three structs that the application reads, assigned as a whole from a decoded one (`Assign`, `Decoded`) |
| `ByteStream` | `byte_stream.h` | one operator per function; a buffer and its offset are what was written so far |
| `Mqtt` | `mqtt.c` | one operator per builder, returning the number and the bytes; the code the builders repeat is `Packet` |
| `MqttLink` | `Mqtt` and `ByteStream` between a client and a broker | one action per builder; the broker cuts the stream by the remaining length and reads it by the rules of MQTT 3.1.1; `bs_get_bytes` has no bound, so a reader looks first (`TakeBytes`) |
| `NmeaTime` | `nmea_shift_tz` | each turn of its four loops is an action; `instant` is the minute that should come out, by a calendar that has neither the code's table of months nor its leap-year test |
| `Induction` | | induction on a set of naturals, and the functions inside the folds of the community modules |
| `ByteQueueProofs`, `StepperProofs`, `UjsonProofs`, `NmeaProofs`, `NmeaFieldsProofs`, `NmeaTimeProofs`, `MqttProofs` | | the proofs |
| `MC*` | | the instances for TLC |

Conventions. A C function keeps its name as an operator. Operators marked
`(mutant)` are wrong versions of the definition that follows them; nothing uses
them but the mutation test of the property they are meant to break. A null
struct pointer makes every call a no-op and is left out. Variables that are not
in a struct are observers: the motor, the pin levels, `sinceEdge` and `steady` in
`Stepper`, `ret`, `out`, `given` and `event` in the others, `instant` in `NmeaTime`,
and the state of senders, lines, receivers and brokers. A text whose length matters
and whose content does not is one element of a sequence that stands for many bytes.

## What the runs check

| Run | Property | What it shows |
|---|---|---|
| `MCByteQueue` | `TypeOK`, `RingConsistent` | the cursors index the buffer, and head, tail and count agree after any series of calls |
| | `WritesOnlyFreeSlots` | no call writes a queued byte, a slot past the capacity, or a buffer the queue has left |
| | `ImplementsFifo` | the ring refines `ByteFifo` with `items <- Queued` |
| `MCByteQueueShared` | `ConsistentBetweenCalls` | whoever enters the section finds cursors and count in agreement, though every call passes through states where they are not; it fails as soon as one caller may begin beside another's put |
| | `SharedImplementsFifo` | the calls of all callers together refine `ByteFifo`; a call takes effect at its store of `count`, one that empties the queue when it begins; without the section a get beside a put loses its decrement of `count` |
| `MCStepper` | `PositionTracksMotor` | the count and the motor agree through reversals in mid-pulse |
| | `PulseTiming`, `RateKept` | edges of STEP are never closer than the delay in force, and exactly that far apart while it does not change |
| | `ImplementsPositioner` | the motor moves only towards the target of the moment and never past it |
| | `Settles` | once the target is left alone the motor arrives and STEP ends low |
| `MCUjson` | `SlotReserved` | the one test for room, at the opening quote, protects all later writes of the pair |
| | `SlotsTerminated`, `NothingStale` | every slot is a C string; slots past the open pair are blank |
| `MCUjsonStream` | `NoPhantom` | the callback is shown only what was sent last, complete |
| | `LossIsBounded` | an object is delivered exactly if it fits; a cut costs at most one more (non-empty) object |
| `MCNmeaLine` | `TypeOK`, `ChecksumComplete` | buffers are not overrun; digits are read only when both arrived |
| | `NoForgery` | wherever one disturbance hits a sentence, and whatever noise and merged lines follow, only bodies that were sent are dispatched, over bodies and noise in which the accidents of `AccidentAssumption` cannot happen |
| | `CleanIsHeard` | an undisturbed sentence that starts on a line of its own is dispatched exactly once, and not at all if it does not fit, though the part that was kept would verify |
| `MCNmeaFix` | `SnapshotIsLastFix` | what the application reads is what the receiver meant in its last sentence of that type: parts it lacked are zero and not what the struct held before, hemispheres are signs, a number too long for its buffer is 0 and not a part of it |
| | `FieldsAreSplit` | the fields have no comma and put the body together again, however it is cut |
| `MCMqtt` | `BrokerHears` | every packet a builder returned is understood as it was meant, and the stream is cut where packets end |
| | `MeasurementArrives` | integers and short strings written with `byte_stream.h` have their bytes on the wire in the order that the format's name says, worked out apart from the code, and are read as they were written |
| | `ReturnsTheSize` | 0 exactly when MQTT cannot encode the request or the buffer is too small, and else the packet's size |
| `MCNmeaTime` | `InstantKept` | at every turn of the loops the date exists, and date, days still to move and minutes name the instant |
| | `Ends` | a call ends, with a time of day in range and no day left to move, also for the date 00/00/00 of a sentence without one |

Three runs are expected to fail: each states what the repository's documentation
says and finds a behaviour of the code that contradicts it.

| Run | The documentation | The code |
|---|---|---|
| `MCStepperDir` | README and `stepper.c:57-60`: DIR gets setup time before the next rising edge of STEP | DIR and STEP are driven in the same tick |
| `MCUjsonLookup` | `ujson.h:132-134`: lookups work any time after `ujson_feed` fired the callback | that feed has already reset the pairs |
| `MCNmeaPoison` | `nmea/README.md:13-14`: a noisy stream cannot poison the next sentence | a `$` inside a line is a body byte, so a lost line end costs the next sentence |

### Disagreements that no run shows

Places where the code does something else than its documentation says, read in the
code and either excluded from the models as stated or without an effect on a property.

* `stepper.c:30`: `stepper_init` clears `step_high` and leaves the pin as it is. If
  STEP was high, the next step is counted without a rising edge, which
  `stepper.c:70-72` says is when the position is counted. The model re-initialises
  between pulses only.
* `ujson.c:83`: a byte is captured before the state is looked at, so what came
  before the `{` is in the capture that `ujson.h:101` calls "raw capture of bytes
  since '{'".
* `nmea.c:386`: `nmea_feed` always returns 0; `nmea.h:126-129` says it returns the
  number of sentences emitted.
* `nmea.h:19-20`: an overlong line is "truncated and dropped at the next '*'"; it is
  dropped at the line end.
* `nmea.c:92`: "If there is no dot the whole field is treated as MM"; the code takes
  the last two characters for minutes and what is before them for degrees.
* `byte_stream.h:193`: the length of `bs_put_str_u8` "is silently truncated to 255";
  it is taken modulo 256, and all the bytes are written. The model writes strings of
  up to 255 bytes.
* `mqtt.c:121`: on a 64-bit host the length of a payload of 4 GiB or more is cast to
  32 bits before it is measured, so that a packet may announce a wrong length, where
  `mqtt.h:17-19` says the result is 0 on overflow. `IsPublish` leaves such payloads out.

### Bounds

* `MCByteQueue`: two buffers of three bytes, two byte values, every capacity from
  0 to 3. The cursors wrap at each capacity, the queue fills below the buffer's
  length, and re-targeting happens with bytes left.
* `MCByteQueueShared`: two callers, the buffers of `MCByteQueue`. Either caller may
  begin a call, with any arguments, whenever the section is free. With two callers
  every pair of cuts occurs; the theorem has any number.
* `MCStepper`: `HalfRange = 3` (positions -3 to 2) and `MaxDelay = 3`. Reversals
  fall in both halves of a pulse, new delays in each tick of a wait, and relative
  moves wrap. `sinceEdge` saturates one tick above the longest delay, beyond which
  no property tells the values apart; `motor` needs no bound because it equals
  `current_pos`.
* `MCUjson`: two pairs, slots of one byte and a NUL, a capture of one byte and a
  NUL, one byte per class the parser tells apart; `IntHalf` and `LongHalf` stand
  for the widths of `int32_t` and `long`. Every token and the table overflow.
* `MCUjsonStream`: slots of two bytes and a NUL, so that prefixes exist; a capture
  of one NUL, which `MCUjson` covers. `int32_t` has 8 bits there, so that 123, the number
  of the object that does not fit, is still a number the sender may send. Keys have no
  structural character, texts no quote and no `{`, the noise no brace, as the module says:
  without escapes such text can cost more after a loss. The object `{}` may be sent and, as documented, is refused.
* `MCNmeaLine`: lines of six bytes, the shortest that dispatches. The bodies differ in
  one byte, in type, in being decoded or not, and one is two bytes too long. These two
  are equal digits: they cancel in the checksum, so that the overflow flag alone keeps the
  truncated line from being dispatched, and behind an inserted `*` they stand where a
  checksum would. A sentence is disturbed once, and one that begins inside the remains of
  another is not; the checksum sees any one-byte change, which is what `NoForgery` needs,
  except a byte of code 0, which `GarbleAssumption` excludes: an inserted NUL is invisible
  to an exclusive or. `Stray` is every part of a body with or without the one byte of noise
  that enters a checksum.

* `MCNmeaFix`: ten messages, each of the three types complete and with parts missing,
  in both signs of both hemispheres and at the ends of what fields hold, a speed of
  exactly the longest number that is copied and one a character longer; bodies of up to
  three fields of commas, digits and dots. Snapshots of the types are replaced in
  every order.
* `MCMqtt`: strings of 0, 65535 and 65536 bytes, bodies of 127, 128, 16383, 16384,
  2097151, 2097152, 268435455 and 268435456 bytes, buffers of the packet's size, one
  byte less and one more, NULL and 2; two packets on the connection, so that the end
  of one is the start of the next. TLC's integers have 32 bits, so `UInt32` is 2^29
  and `SizeT` 2^30, which no length in the run reaches, and words stop at 2^31 - 1;
  the theorems have the widths of the code.
* `MCNmeaTime`: every day of 1999, 2000, 2023 and 2024, and no date; both ends of
  a day, a minute after midnight and noon; offsets in use from -12 to +14 hours,
  whole days, and both ends of an `int16_t`, which move 22 days.

No symmetry is used and no run needs a state constraint. The drivers, queues and
parsers can always be called again and are checked for deadlock; `NmeaTime` is one
call, which returns, and its run alone has `CHECK_DEADLOCK FALSE`.

### Fairness

`FairSpec` of `Stepper` has weak fairness of `stepper_tick` and of nothing else:
`stepper.h:21-22` has it called at a fixed frequency from a timer interrupt. The
application owes no step. `Settles` is conditioned on the application: it holds
when the callbacks stay set and the target is left alone, and it does not ask
that the delay be left alone. The parsers promise nothing without further input,
and so have no liveness property. `Spec` of `NmeaTime` has weak fairness of the
next step: it is one sequential call, and a call that has begun goes on running.

## What is proved

| Theorem | States, for every value of the constants |
|---|---|
| `ByteQueueProofs!TypeTheorem`, `RingTheorem` | `Spec => []TypeOK`, `Spec => [](TypeOK /\ RingConsistent)` |
| `ByteQueueProofs!WriteTheorem` | `Spec => WritesOnlyFreeSlots` |
| `ByteQueueProofs!FifoTheorem` | `Spec => ImplementsFifo` |
| `ByteQueueProofs!SharedRingTheorem` | `SharedSpec => []ConsistentBetweenCalls` |
| `ByteQueueProofs!SharedFifoTheorem` | `SharedSpec => SharedImplementsFifo` |
| `StepperProofs!TypeTheorem` | `Spec => []TypeOK` |
| `StepperProofs!PositionTheorem` | `Spec => [](TypeOK /\ PositionTracksMotor)` |
| `StepperProofs!RateTheorem`, `PulseTheorem` | `Spec => []RateKept`, `Spec => PulseTiming` |
| `StepperProofs!PositionerTheorem` | `Spec => ImplementsPositioner` |
| `StepperProofs!ArrivalTheorem` | while the target is left alone every tick away from rest brings the motor nearer to it or counts up a wait that is bounded, no call undoes that, and rest stays rest |
| `UjsonProofs!TypeTheorem` | `Spec => []TypeOK` |
| `UjsonProofs!SlotTheorem` | `Spec => [](SlotReserved /\ SlotsTerminated /\ NothingStale)` |
| `UjsonProofs!ReservedTheorem`, `StaleTheorem` | `Spec => []SlotReserved`, `Spec => []NothingStale` |
| `UjsonProofs!PhantomTheorem`, `LossTheorem` | `StreamSpec => []NoPhantom`, `StreamSpec => []LossIsBounded` |
| `NmeaProofs!TypeTheorem`, `FramingTheorem` | `Spec => []TypeOK`, `Spec => [](TypeOK /\ ChecksumComplete)` |
| `NmeaProofs!CleanTheorem` | `LineSpec => []CleanIsHeard` |
| `NmeaProofs!ForgeryTheorem` | `LineSpec => []NoForgery` |
| `NmeaFieldsProofs!FieldTheorem` | for every line and number, the field that `field_at` finds, or that there is none |
| `NmeaFieldsProofs!SplitTheorem` | `FixSpec => []FieldsAreSplit` |
| `NmeaFieldsProofs!MessageLegible` | in the body that was built of a message, the type and every field are found, and nothing past the last |
| `NmeaFieldsProofs!TenthsRead`, `AngleRead` | for every signed number of up to 9999 tenths and every latitude and longitude, what `field_to_double` and `parse_dmm` return is what was rendered |
| `NmeaFieldsProofs!SnapshotTheorem` | `FixSpec => []SnapshotIsLastFix` |
| `MqttProofs!MeasurementsSurvive` | for every format of an integer and every value of its type, what is got is what was put, and what follows is left |
| `MqttProofs!RemainingLengthDecodes` | for every length below 2^28, what `put_varint` writes decodes to it and is as long as `varint_size` says |
| `MqttProofs!ReturnsTheSizeAlways` | `LinkSpec => []ReturnsTheSize` |
| `MqttProofs!BrokerTheorem`, `ArrivesTheorem` | `LinkSpec => []BrokerHears`, `LinkSpec => []MeasurementArrives` |
| `MqttProofs!LinkInvariant` | `LinkSpec => []LinkInv`: the bytes on the wire are the packets that the broker has not read, one after the other |
| `NmeaTimeProofs!InstantTheorem` | `Spec => []InstantKept` |
| `NmeaTimeProofs!BoundTheorem`, `ResultTheorem` | a call takes at most 48 steps, each of which takes something off what is left, and one that has returned leaves a time of one day and no day to move |

Assumptions: `ByteQueueAssumption` (buffers are not empty and not null),
`StepperAssumption` (the two DIR levels differ), `UjsonAssumption` (at least one
pair and one byte per slot, and at most 255 pairs, since `pair_count` is a
`uint8_t`), `NmeaAssumption` (codes are bytes), `LineAssumption` (bodies without the
reserved CR, LF and `*`, noise without `$`, and NONE no event), `GarbleAssumption` (an
inserted byte has a code other than 0) and `AccidentAssumption` (see below), on which
`ForgeryTheorem` alone rests, `NmeaTimeAssumption`
(fields of two digits, a time of day, an `int16_t` of minutes), `SharedAssumption`
(the owner of a free section is no caller, and the null pointer no byte),
`MqttAssumption` (a `uint32_t` holds 2^29 values at least, so that the limit of a
remaining length is in it; a `size_t` is not narrower: on a 16-bit `size_t` no string
or buffer is long enough for the sums to matter), `MqttLinkAssumption` (arguments are
strings or NULL, and a packet's length fits in 32 bits), `TextAssumption` (a text is as
many bytes as its length says, and neither NULL nor a single byte),
`MeasurementAssumption` (what is published is a value of its format, a string of at most
255 bytes: of a longer one, see Disagreements), `StreamAssumption` (what the sender
renders: keys without structural characters, texts without quote, `{` and NUL, numbers
as the digits that read back as them; noise without braces), `FixAssumption` (a message
is a `Message`: what a receiver has the digits to say, that is two for the parts of a
time and a date and for the satellites, angles of up to 90 and 180 degrees to 1/100000 of
a minute, numbers of up to 9999 tenths behind any number of zeros, with any parts left
out and characters that are no comma; bodies are texts, which TLAPS cannot tell of a
sequence of characters by itself; the null pointer is no text, and NONE no message).

* Byte queue. `IInv` is `TypeOK`, `RingConsistent` and "a null queue is empty".
  `head = (tail + count) % capacity` is what makes it inductive: without it nothing
  ties the slot a put writes to the slots a get will read. The lemmas on the
  modulus (`PutSlot`, `GetSlot`, `SlotsDiffer`) carry the rest: live slots differ,
  so a put overwrites none, and a get renumbers the bytes by one. The refinement
  then compares `Queued` before and after each call with `Append` and `Tail`.
* Shared byte queue. `SharedInv` says, for each place in a call at which the owner of
  the section may be, how far the cursors are ahead of the count: after the store of
  the head by one slot, after that of the tail by one the other way, and nothing while
  a call empties the queue. Everyone else is outside. The refinement holds the oldest
  byte one slot back between a get's two stores (`Held`), so that the queue changes in
  one step, the store of `count`; the register must equal `count` there, which is what
  the section is for.
* Stepper. `PositionTracksMotor` alone is not inductive: the count follows the
  motor only if the struct knows the pins. `PinsKnown` says that `step_high` is
  the level of STEP and, once DIR has been driven, `current_dir` that of DIR;
  `WaitCounts` ties `delay_cnt` to the ticks since the last edge, from which the
  timing theorems follow. The way to the target is counted in edges of STEP, two to a
  step and one more while STEP is high (`EdgesLeft`). A tick drives an edge, after which
  there is one less, or counts up `delay_cnt`, which `delay_max` bounds; a call leaves
  both alone unless it moves the target. A new delay does not restart the wait.
* Folds. The folds of the community modules recurse over subsets of the indices and
  choose the next one by `Max`, `Min` or `CHOOSE`. `Induction` proves that the recursion
  has a function (`FoldExists`, `FoldLeftExists`, `FoldRightExists`), by induction on the
  size of the subset, which is membership in a set of naturals that has 0 and successors
  (`InductionOnSets`); a sum does not depend on the order (`SumUpto`). After that a fold
  is a function with an equation per index, and what it returns is proved index by index.
* ujson. `SlotReserved` is inductive only together with the types of the cursors,
  and `NothingStale` only with the fact that a slot is blank until its pair opens. That
  the table holds numbers needs the states before: a slot holds a sign or a digit and
  then digits up to a NUL, all the while that a number is read (`IsNumeral`), so that
  what `strtol` is given is a numeral wherever its first NUL is (`DigitsCount`).
* ujson behind the line. `StreamInv` says where the parser is when n bytes of an object
  have been sent (`Inside`): ahead of the opening brace, in a key, between tokens, in a
  text or a number, at the end of a pair, or at rest because the object was refused
  (`Lost`), with the slots holding exactly the part of the pairs that has arrived. The
  places are counted from the rendering (`Layout`), whose concatenation of pairs is
  taken apart by induction (`FlattenAt`). After a cut the parser may be in any state as
  the next object begins; `Astray` says how far that can go: the brace and the first
  quote bring every state to rest except an open string, which that quote closes, and
  then the first byte of the key does. So a cut costs at most one object that has a quote.
* nmea, the parser alone. The invariant is inductive as it stands; the one fact about
  data is that the symmetric difference of two sets of bits of a byte is such a set.
* nmea behind the line. `CleanIsHeard` speaks of the end of a sentence, so the
  invariant `LineInv` must say where the parser is at each byte of it (`Phase`): ahead
  of the `$`, after k bytes of the body (`Inside`, `Collected`), between the digits, or
  over. That a sentence can begin at all rests on `Steady`: a parser outside a line
  waits for `$`, whatever arrived before. The parser folds the bytes with exclusive or
  and the receiver counts in how many of them a bit is set; `OddStep` is that one more
  byte flips the bits set in it, `BitsOfAByte` that the receiver's checksum exists, and
  `DigitRead` that a digit sent is the digit read. 
* nmea, what is not heard. `NoForgery` cannot hold of every set of bodies: an inserted
  `*` makes a body end early, and the two bytes that follow may happen to be the checksum
  of what is left; eight bits cannot do better. `AccidentAssumption` names the
  accidents: two digits of a body that spell the checksum of what precedes them; two bytes
  of noise that spell what the parser may hold after a sentence was cut; noise that the `$`
  of the next sentence cancels. It excludes them for whole sets of bodies and of noise and
  not for single executions, so the theorem says that over such sets nothing is forged; over
  others a forgery can really happen. (`Stray` is what the parser may hold: any set of
  checksums with those of the parts of bodies that noise does not lead out of.) It also
  says that bytes are told apart by their codes and that a body has neither `$` nor NUL.
  The invariant `ForgeInv` says where a parser is that is not where the sentence is (`Dirty`): in the body with a checksum that differs from the
  sentence's (`Off`), which every further byte keeps different (`XorTells`) until the
  digits refute it; past the `*` that should have ended the body (`Late`); after a `*`
  that is not the sentence's (`FalseStar`); in noise or the remains of a sentence
  (`Lost`, `LostStar`), to which the next sentence is merged; or `Settled`, when
  whatever the digits say the line is one that was sent or is refused. One lemma for each says
  where the next byte leads, and one for each phase of an undisturbed sentence where a
  disturbance leads (`DisturbedPhase`).
* nmea_shift_tz. The work is in two lemmas on the calendar: the day after the last
  of a month is the first of the next (`MonthEnd`, `YearEnd`). They compare the
  table of months with the 153 days that five months from March have, and the
  leap-year test with the quotients by 4, 100 and 400 (`MarchYear`). That the loops end
  needs no calendar: a turn over minutes adds at most one day to move, so twice the turns
  that are left and the days to move go down together (`StepsLeft`), from 48 at most.
* nmea fields. The ends of fields are a finite set, and the number of ends before an
  end (`Rank`) is a bijection to an initial segment of the naturals; so a field number
  picks one end, and between it and the end before there is no comma. `FieldsRebuild`
  adds the fields up: after k commas the body as far as the end of field k is there.
* nmea snapshots. Three things meet. A body that was built of n fields without a comma
  has these fields and no more (`BuiltHasFields`, by induction on the fields that have
  been appended). Digits are read back by what `Decimal` folds over them, one power of
  ten at a time, with leading zeros without effect and the point as the place where the
  whole part ends (`TenthsRead`; `AngleRead` puts degrees, minutes and their fraction
  together again by quotients and remainders). And a decoder reads from each place the
  field that was written there, or finds it empty (`RmcRead`, `GgaRead`, `GsaRead`).
  `SnapshotIsLastFix` is not inductive: a body on its way may be any that the line
  carried. `SentInv` says that each struct is what a decoder makes of a cleared one and the
  body last dispatched, or still cleared, and that this body, and the one on its way, is
  that of the message the receiver remembers as its last of the type, or a body that was
  not sent as a message. The run's instance has been checked for `SentInv`, and the
  values of its constants satisfy `FixAssumption`.
* mqtt and byte_stream. The lemmas `Quarters` and `Groups` split a number at powers of
  256 and of 128; the rest is that `put` and `get` take the same pieces. Two that took
  them in the same wrong order would too, so `MeasurementOrdered` compares what was put
  with the quotients by the place values that the format's name promises. For
  `ReturnsTheSize` the sums must not wrap: a string has 65535 bytes at most once it has
  passed its test, and a body with a `varint_size` is below 2^28.
* The broker. `LinkInv` says that the wire is the packets that were sent and not yet
  read, joined (`Streams`), each of which MQTT can encode (`Proper`), and that a packet
  with a measurement carries the bytes the measurement was written as (`Carries`). Each
  builder returns nothing or a packet that is read as it was meant (one lemma per
  builder, ending in `Understood`). To cut the wire the broker decodes the length that
  `put_varint` wrote (`LengthRead`) and takes that many bytes, which is the end of the
  packet and no other place: widths add up, and no element of a sequence has none
  (`CutHere`). TLC cannot evaluate `LinkInv`, which quantifies over all sequences of
  bytes; `BrokerHears` is what it implies and what the run checks.

Only model-checked: `Settles` and `Ends`, which are liveness under fairness. Their safety
halves are theorems (`ArrivalTheorem`, `BoundTheorem`, `ResultTheorem`): what is left goes
down by every tick and every step, so that all that TLC adds is that a tick comes and a
step can be taken.

## Not modelled

* Callers that break `byte_queue.h`'s rule of a critical section; a call of the stepper
  that preempts a tick half-way (the tick belongs to the timer interrupt and runs to its
  end; a tick between the halves of a 16-bit retarget sees two retargets, which the model
  has); a main loop that reads a snapshot while an interrupt replaces it, which
  `nmea.h:95-97` itself calls a race.
* A parser callback that calls back into its own parser: what it feeds is lost in the
  reset that follows the callback.
* The signed overflow in `stepper_move_relative` is undefined in C; the model has
  the wrap-around that the 32-bit add gives.
* The two digits of the year that `nmea_shift_tz` returns: `InstantKept` speaks of
  the full year. `nmea.h:134-135` names 1900 to 2099; a shift back from 1 January
  1970 returns year 69, which the code's own window reads as 2069.
* Binary rounding of doubles, and what `strtod` makes of exponents, hexadecimal and
  `inf`, which no receiver sends. White space and a `+` before a number are modelled.
* The moment within a get at which the byte is stored through `out`
  (`byte_queue.c:64`): the model stores it with `count`. Only the caller that holds the
  section can look there before its call returns.
* `astro`: floating-point astronomy throughout, which neither TLC nor TLAPS has numbers for.
* `intmath`: five pure helpers of a few lines, which nothing in the repository calls.
* The examples and makefiles.

## Plan

1. Done: `ByteQueue`, `Stepper`, `Ujson`, `Nmea` framing and `nmea_shift_tz`, their
   environments and proofs.
2. Done: callers that share the queue (`ByteQueueShared`), the decoders of `nmea`
   (`NmeaFields`, `NmeaFix`), `byte_stream` and `mqtt` with a broker (`ByteStream`,
   `Mqtt`, `MqttLink`), and their proofs.
3. Done: the environments of both parsers, for every length of sentence and object
   (`CleanTheorem`, `ForgeryTheorem`, `PhantomTheorem`, `LossTheorem`), the fields of
   every body (`SplitTheorem`) and the broker behind the builders (`BrokerTheorem`,
   `ArrivesTheorem`).
4. Done: the round trip of every rendered number and angle through the decoders, with
   which `SnapshotIsLastFix` is a theorem (`SnapshotTheorem`), and bounds on what the
   motor and the shift of a date have left to do (`ArrivalTheorem`, `BoundTheorem`).
5. Left: the pipeline of interrupt, queue, main loop and parser, with an overrun of the
   queue and the loss it may cause, composed of `ByteQueueShared` and `NmeaLine`.
