----------------------------- MODULE MCVBusParser -----------------------------
(* Streams of up to three pieces for TLC: intact, damaged, truncated and       *)
(* foreign telegrams and noise, encoded as the header of parser.go describes.  *)
EXTENDS VBusParser

\* The bytes of a telegram from source src with one sub-frame for each four bytes.
MCSent(tg) ==
  LET covered == <<tg.dst % 256, tg.dst \div 256, tg.src % 256, tg.src \div 256, Version1,
                   tg.cmd % 256, tg.cmd \div 256, Len(tg.fours)>>
  IN  <<Sync>> \o covered \o <<Checksum(covered)>>
      \o FlattenSeq([i \in DOMAIN tg.fours |-> SentSubFrame(tg.fours[i])])

MCTelegram(src, fours) == [dst |-> 16, src |-> src, cmd |-> 256, fours |-> fours]

Data == <<Sync, 0, 255, 128>>     \* bytes that need bit 7, SYNC among them
None == MCTelegram(4352, <<>>)    \* a telegram without data
One  == MCTelegram(17016, <<Data>>)
Wire == MCSent(One)

Intact(tg)   == [bytes |-> MCSent(tg), sent |-> <<tg>>]
Noise(bytes) == [bytes |-> bytes, sent |-> <<>>]

MCPieces == {
  Intact(None), Intact(One),
  Noise(<<7, 0>>),
  Noise(<<Sync>>),                               \* a stray SYNC
  Noise([Wire EXCEPT ![10] = (@ + 1) % 128]),    \* header checksum damaged
  Noise([Wire EXCEPT ![11] = (@ + 1) % 128]),    \* data damaged
  Noise(SubSeq(Wire, 1, 12)),                    \* truncated
  Noise([Wire EXCEPT ![6] = 32]) }               \* protocol version 2

Join(in, piece) ==
  [bytes |-> in.bytes \o piece.bytes,
   sent  |-> in.sent \o [i \in DOMAIN piece.sent |-> [at |-> Len(in.bytes) + 1, tg |-> piece.sent[i]]]]

MCInputs ==
  {FoldLeft(Join, Noise(<<>>), pieces) : pieces \in [1..3 -> MCPieces]}

\* IntactDelivered speaks of every one of these streams.
ASSUME \A in \in MCInputs : Clean(in)
===============================================================================
