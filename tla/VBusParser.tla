------------------------------ MODULE VBusParser ------------------------------
(***************************************************************************)
(* internal/vbus/parser.go: VBus protocol v1 telegrams cut out of a serial *)
(* byte stream that arrives in pieces of any size and may contain noise,   *)
(* damaged and truncated telegrams and telegrams of other protocols.       *)
(***************************************************************************)
EXTENDS Naturals, Integers, SequencesExt

CONSTANTS
  Inputs,   \* byte streams and the telegrams sent in them: [bytes, sent]
  MaxRead   \* the most bytes one dev.Read returns (512 in main.go)

Byte   == 0..255
Uint16 == {n \in Nat : n < 65536}

\* What a sender puts on the bus: addresses, command and four bytes for each sub-frame.
Telegram == [dst : Nat, src : Nat, cmd : Nat, fours : Seq([1..4 -> Byte])]

ASSUME StreamAssumption ==
  /\ \A in \in Inputs : in.bytes \in Seq(Byte) /\ in.sent \in Seq([at : Nat, tg : Telegram])
  /\ MaxRead \in Nat

Sync == 170        \* 0xAA
Version1 == 16     \* 0x10
HeaderLen == 10
SubFrameLen == 6

Uint16LE(lo, hi) == lo + 256 * hi

\* (0x7F - sum of the bytes, in a byte) & 0x7F
Checksum(s) == (127 - FoldLeft(LAMBDA sum, b : (sum + b) % 256, 0, s)) % 128

\* The bits 1<<j of the septett.
Bit == <<1, 2, 4, 8>>

\* Mutant of SubFramePayload: the septett stays in the payload.
SubFramePayload_WithSeptett(sub) ==
  [j \in 1..5 |-> IF j < 5 /\ (sub[5] \div Bit[j]) % 2 = 1 /\ sub[j] < 128 THEN sub[j] + 128 ELSE sub[j]]

\* Every data byte gets bit 7 back from the fifth byte of its sub-frame.
SubFramePayload(sub) ==
  [j \in 1..4 |-> IF (sub[5] \div Bit[j]) % 2 = 1 /\ sub[j] < 128 THEN sub[j] + 128 ELSE sub[j]]

SubFrames(body) ==
  [i \in 1..(Len(body) \div SubFrameLen) |->
     SubSeq(body, (i-1) * SubFrameLen + 1, i * SubFrameLen)]

-------------------------------------------------------------------------------
(***************************************************************************)
(* What is at position k of a sequence of bytes.                           *)
(***************************************************************************)

HeaderComplete(s, k) == Len(s) - k + 1 >= HeaderLen

\* Version and header checksum, once the header is complete.
HeaderOK(s, k) ==
  /\ s[k + 5] = Version1
  /\ s[k + 9] = Checksum(SubSeq(s, k + 1, k + 8))

FrameLen(s, k) == HeaderLen + s[k + 8] * SubFrameLen

FrameComplete(s, k) == Len(s) - k + 1 >= FrameLen(s, k)

Body(s, k) == SubFrames(SubSeq(s, k + HeaderLen, k + FrameLen(s, k) - 1))

BodyOK(s, k) == \A i \in DOMAIN Body(s, k) :
                  LET sub == Body(s, k)[i] IN sub[6] = Checksum(SubSeq(sub, 1, 5))

FrameAt(s, k) ==
  [dst     |-> Uint16LE(s[k + 1], s[k + 2]),
   src     |-> Uint16LE(s[k + 3], s[k + 4]),
   cmd     |-> Uint16LE(s[k + 6], s[k + 7]),
   payload |-> FlattenSeq([i \in DOMAIN Body(s, k) |-> SubFramePayload(Body(s, k)[i])])]

-------------------------------------------------------------------------------
(***************************************************************************)
(* The senders on the bus, as the header of parser.go describes them: how  *)
(* a telegram looks on the wire.                                           *)
(***************************************************************************)

\* The septett carries bit 7 of the four bytes before it.
Septett(four) == (four[1] \div 128) + 2 * (four[2] \div 128) + 4 * (four[3] \div 128)
                 + 8 * (four[4] \div 128)

\* The bytes of a sub-frame its checksum covers; every one has bit 7 cleared.
Covered(four) == <<four[1] % 128, four[2] % 128, four[3] % 128, four[4] % 128, Septett(four)>>

SentSubFrame(four) == Covered(four) \o <<Checksum(Covered(four))>>

\* The telegram tg stands at k in s as it was sent.
Carries(s, k, tg) ==
  /\ k + HeaderLen + SubFrameLen * Len(tg.fours) <= Len(s) + 1
  /\ s[k] = Sync /\ HeaderOK(s, k) /\ s[k + 8] = Len(tg.fours)
  /\ Uint16LE(s[k + 1], s[k + 2]) = tg.dst
  /\ Uint16LE(s[k + 3], s[k + 4]) = tg.src
  /\ Uint16LE(s[k + 6], s[k + 7]) = tg.cmd
  /\ \A i \in 1..Len(tg.fours) :
       SubSeq(s, k + HeaderLen + SubFrameLen * (i - 1), k + HeaderLen + SubFrameLen * i - 1)
         = SentSubFrame(tg.fours[i])

\* The frame the telegram stands for.
FrameOf(tg) == [dst |-> tg.dst, src |-> tg.src, cmd |-> tg.cmd, payload |-> FlattenSeq(tg.fours)]

-------------------------------------------------------------------------------
(***************************************************************************)
(* drain: the frames in a buffer and the rest that stays in it.            *)
(***************************************************************************)

\* Mutant of Rest: what follows the last complete telegram is dropped.
Rest_Dropped(s, k) == <<>>

\* Mutant of Rest: the buffer is not advanced.
Rest_Kept(s, k) == s

\* What stays in the buffer when the scan stops at k.
Rest(s, k) == SubSeq(s, k, Len(s))

\* Mutant of AfterMismatch: a damaged telegram is skipped as a whole.
AfterMismatch_WholeTelegram(s, k) == IF HeaderOK(s, k) THEN k + FrameLen(s, k) ELSE k + 1

\* Mutant of AfterMismatch: what follows a damaged telegram in the buffer is dropped.
AfterMismatch_GivesUp(s, k) == Len(s) + 1

\* Where the scan goes on when the telegram at k is damaged or foreign.
AfterMismatch(s, k) == k + 1

\* One SYNC after the other is tried; an incomplete telegram ends the scan.
Scan(s) ==
  LET scan[k \in 1..(Len(s) + 1)] ==
        LET stop == [frames |-> <<>>, rest |-> Rest(s, k)]
        IN  IF k > Len(s) THEN stop
            ELSE IF s[k] # Sync THEN scan[k + 1]
            ELSE IF ~HeaderComplete(s, k) THEN stop
            ELSE IF ~HeaderOK(s, k) THEN scan[AfterMismatch(s, k)]
            ELSE IF ~FrameComplete(s, k) THEN stop
            ELSE IF ~BodyOK(s, k) THEN scan[AfterMismatch(s, k)]
            ELSE LET later == scan[k + FrameLen(s, k)]
                 IN  [frames |-> <<FrameAt(s, k)>> \o later.frames, rest |-> later.rest]
  IN  scan

Drain(s) == Scan(s)[1]

-------------------------------------------------------------------------------
VARIABLES
  input,   \* the stream on the wire
  fed,     \* how many of its bytes were read so far
  buf,     \* Parser.buf
  frames   \* the frames Feed has returned so far

vars == <<input, fed, buf, frames>>

Frame == [dst : Uint16, src : Uint16, cmd : Uint16, payload : Seq(Byte)]

\* What Decode is given: payloads of four bytes for each sub-frame, of which there are at most 255.
ParserTypeOK ==
  /\ input \in Inputs
  /\ fed \in 0..Len(input.bytes)
  /\ buf \in Seq(Byte)
  /\ frames \in Seq(Frame)
  /\ \A i \in DOMAIN frames : \E n \in Byte : Len(frames[i].payload) = 4 * n

Init ==
  /\ input \in Inputs
  /\ fed = 0 /\ buf = <<>> /\ frames = <<>>

\* One dev.Read of readLoop and the Feed of what it returned.
Feed ==
  /\ \E n \in 1..MaxRead :
       /\ fed + n <= Len(input.bytes)
       /\ fed' = fed + n
       /\ LET d == Drain(buf \o SubSeq(input.bytes, fed + 1, fed + n))
          IN  buf' = d.rest /\ frames' = frames \o d.frames
  /\ UNCHANGED input

Spec == Init /\ [][Feed]_vars

-------------------------------------------------------------------------------
(***************************************************************************)
(* Properties.                                                             *)
(***************************************************************************)

Seen == SubSeq(input.bytes, 1, fed)

\* A reference that knows nothing of buffers: where the frames of a stream
\* start.  A position holds a frame if a valid telegram starts there outside
\* every earlier frame, and no telegram before it is still incomplete.
IncompleteAt(s, k) ==
  s[k] = Sync /\ (~HeaderComplete(s, k) \/ (HeaderOK(s, k) /\ ~FrameComplete(s, k)))

ValidAt(s, k) ==
  s[k] = Sync /\ HeaderComplete(s, k) /\ HeaderOK(s, k) /\ FrameComplete(s, k) /\ BodyOK(s, k)

Start(s) ==
  LET start[k \in 1..Len(s)] ==
        LET Inside(p) == \E q \in 1..(p - 1) : start[q] /\ p < q + FrameLen(s, q)
        IN  /\ ValidAt(s, k)
            /\ ~Inside(k)
            /\ ~\E p \in 1..(k - 1) : IncompleteAt(s, p) /\ ~Inside(p)
  IN  start

Starts(s) == {k \in 1..Len(s) : Start(s)[k]}

\* The number of the frame that starts at k.
Rank(s, k) == Cardinality({q \in Starts(s) : q <= k})

\* However the bytes are cut into reads, Feed has returned exactly the frames
\* the reference finds in the bytes seen so far, in their order (Feed, drain).
ParsesStream ==
  /\ Len(frames) = Cardinality(Starts(Seen))
  /\ \A k \in Starts(Seen) : frames[Rank(Seen, k)] = FrameAt(Seen, k)

\* Reads do not matter: the frames returned and the bytes kept are those that one
\* Feed of all the bytes seen would return and keep (Feed, drain).
ReadsDoNotMatter == [frames |-> frames, rest |-> buf] = Drain(Seen)

\* The buffer never holds more than one incomplete telegram, so it stays below
\* 10 + 255 * 6 bytes whatever is on the wire (drain).
HoldsOneTelegram == buf # <<>> => IncompleteAt(buf, 1)

\* The telegram at k has been returned, in its place among the others.
Returned(k) ==
  LET i == Rank(Seen, k)
  IN k \in Starts(Seen) /\ i \in DOMAIN frames /\ frames[i] = FrameAt(Seen, k)

\* Damage is local: a valid telegram is returned with its last byte and in its place,
\* also when it repeats an earlier one, unless a valid one that starts before it
\* overlaps it, or the header of one that starts before it may still be completed
\* (the skip by one byte in drain).
DamageIsLocal ==
  \A k \in 1..fed :
    ValidAt(Seen, k) =>
      \/ Returned(k)
      \/ \E p \in 1..(k - 1) : \/ ValidAt(Seen, p) /\ k < p + FrameLen(Seen, p)
                               \/ IncompleteAt(Seen, p)

\* Position p belongs to the telegram that starts at q.
Within(s, q, p) == q <= p /\ p < q + FrameLen(s, q)

\* The telegrams in.sent stand in in.bytes one behind the other, and the noise and
\* the damage around them left nothing else with checksums that happen to be right.
Clean(in) ==
  LET at(i) == in.sent[i].at
  IN  /\ \A i \in DOMAIN in.sent :
           at(i) \in 1..Len(in.bytes) /\ Carries(in.bytes, at(i), in.sent[i].tg)
      /\ \A i, j \in DOMAIN in.sent : i < j => at(i) + FrameLen(in.bytes, at(i)) <= at(j)
      /\ \A k \in 1..Len(in.bytes) :
           ValidAt(in.bytes, k) => \E i \in DOMAIN in.sent : Within(in.bytes, at(i), k)

\* When nothing is pending, every telegram of the stream that arrived as it was
\* sent has been returned, in order, with the payload that was sent, and nothing
\* else (the skip by one byte in drain, decodeSubFrames).
IntactDelivered ==
  fed = Len(input.bytes) /\ buf = <<>> /\ Clean(input)
    => frames = [i \in DOMAIN input.sent |-> FrameOf(input.sent[i].tg)]
===============================================================================
