------------------------------- MODULE Generator -------------------------------
(***************************************************************************)
(* cmd/gen-registry/main.go: how the packets of the VBus specification     *)
(* file become registry entries, and what the specification itself says a  *)
(* field means.                                                            *)
(*                                                                         *)
(* A field is the sum of its parts; a part is one byte of the payload,     *)
(* masked, taken as signed or not, times its rawFactor, the multiplier of  *)
(* its position.                                                           *)
(***************************************************************************)
EXTENDS Registry

CONSTANTS
  Texts,      \* the names of fields in the specification
  GoName(_)   \* toGoFieldName: lower case, runs of blanks, - and / to one _,
              \* everything else dropped; different texts may fall together

\* What the loops of parseVSF read.
VsPart == [offset : Nat, bitPos : Nat, mask : Byte, isSigned : BOOLEAN, rawFactor : Nat]
VsField == [text : Texts, unit : STRING, precision : 0..4, parts : Seq(VsPart)]
VsPacket == [src : STRING, dst : STRING, cmd : STRING, srcExact : BOOLEAN, dstExact : BOOLEAN,
             fields : Seq(VsField)]

FullMask == Base - 1   \* 0xFF

\* The multipliers of the bytes of a little-endian number.
Exp == <<1, Base, Base * Base, Base * Base * Base>>

Consecutive(f, n) ==
  Len(f.parts) = n /\ \A i \in 1..n : f.parts[i].rawFactor = Exp[i] /\ f.parts[i].mask = FullMask

\* Mutant of ByteType: a signed byte gets a type of its own, which the registry lacks.
ByteType_Int8(p) == IF p.isSigned THEN "Int8" ELSE "Uint8"

ByteType(p) == IF p.isSigned THEN "Int16" ELSE "Uint8"

\* Mutant of PairType: the sign is looked up in the low byte.
PairType_LowByte(p, q) == IF p.isSigned THEN "Int16" ELSE "Uint16"

PairType(p, q) == IF q.isSigned THEN "Int16" ELSE "Uint16"

\* The registry type mapField gives a field, none when it returns ok = false.
MapType(f) ==
  LET p == f.parts IN
  CASE Len(p) = 1 /\ p[1].bitPos = 0 /\ p[1].mask = FullMask -> {ByteType(p[1])}
    [] Consecutive(f, 2) -> {PairType(p[1], p[2])}
    [] Consecutive(f, 4) -> {"Uint32"}
    [] OTHER -> {}

\* The line generate writes for a field.
FieldOf(f) ==
  [name |-> GoName(f.text), offset |-> f.parts[1].offset, type |-> CHOOSE t \in MapType(f) : TRUE,
   decimals |-> f.precision, unit |-> f.unit, bitIndex |-> 0]

Mapped(f) == MapType(f) # {}

\* The definition keeps the positions fields have in the packet; only their
\* order matters, and some fields are not there.
FieldsOf(pk) == [i \in {j \in DOMAIN pk.fields : Mapped(pk.fields[j])} |-> FieldOf(pk.fields[i])]

\* Broadcasts, of one exact source and destination, with a field that maps.
Generated(pk) ==
  /\ pk.dst = "0010" /\ pk.cmd = "0100"
  /\ pk.srcExact /\ pk.dstExact
  /\ DOMAIN FieldsOf(pk) # {}

KeyOf(pk) == pkey(pk.src, pk.dst, pk.cmd)

\* The keys of the specification's exact packets are all different.
Generate(packets) ==
  LET kept == {pk \in packets : Generated(pk)}
  IN [k \in {KeyOf(pk) : pk \in kept} |-> FieldsOf(CHOOSE pk \in kept : KeyOf(pk) = k)]

-------------------------------------------------------------------------------
(***************************************************************************)
(* What a field means, from the specification alone (properties compare    *)
(* with it).                                                               *)
(***************************************************************************)

PartValue(payload, p) ==
  LET b == payload[p.offset + 1]
  IN (IF p.isSigned /\ 2 * b >= Base THEN b - Base ELSE b) * p.rawFactor

\* The raw value of a field of one, two or four parts.
SpecRaw(payload, f) ==
  LET v(i) == PartValue(payload, f.parts[i])
  IN CASE Len(f.parts) = 1 -> v(1)
       [] Len(f.parts) = 2 -> v(1) + v(2)
       [] Len(f.parts) = 4 -> v(1) + v(2) + v(3) + v(4)

\* The bytes a field is read from are in the telegram.
Carried(payload, f) == \A i \in DOMAIN f.parts : f.parts[i].offset < Len(payload)

\* A number of hundredths is the value raw / 10^decimals, to the nearest hundredth.
Reads(h, raw, decimals) ==
  LET d == Pow10(decimals)
      e == 2 * (h * d - 100 * raw)
  IN -d <= e /\ e <= d

\* The shapes of mapped fields in the specification file: bytes in a row, unsigned
\* except for the highest one.
WellFormed(f) ==
  LET n == Len(f.parts) IN
  /\ n \in {1, 2, 4} /\ f.parts[1].rawFactor = 1
  /\ \A i \in 1..n : /\ f.parts[i].offset = f.parts[1].offset + i - 1
                     /\ i < n => ~f.parts[i].isSigned

SignedByte(f) == Len(f.parts) = 1 /\ f.parts[1].isSigned

\* A signed four-byte field below zero: mapField gives it Uint32.
NegativeLong(payload, f) ==
  Len(f.parts) = 4 /\ f.parts[4].isSigned /\ 2 * payload[f.parts[4].offset + 1] >= Base

\* What the decoder makes of a mapped field: the raw value, but for the two kinds of
\* field no registry type fits, a signed byte, which is taken with the one behind it
\* for its signed high byte, and a signed four-byte number, which is taken without sign.
ReadRaw(payload, f) ==
  LET byte(i) == payload[f.parts[1].offset + i]
  IN CASE SignedByte(f) ->
            byte(1) + Base * (IF 2 * byte(2) >= Base THEN byte(2) - Base ELSE byte(2))
       [] NegativeLong(payload, f) -> SpecRaw(payload, f) + Base * Base * Base * Base
       [] OTHER -> SpecRaw(payload, f)
===============================================================================
