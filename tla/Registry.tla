------------------------------- MODULE Registry -------------------------------
(***************************************************************************)
(* internal/vbus/registry.go as data and pure operators: what a device     *)
(* registry is, and how the fields of a telegram are read out of its       *)
(* payload.                                                                *)
(*                                                                         *)
(* A byte has Base values, 256 in the program.  Nothing here depends on    *)
(* that number, so the operators are proved for every even Base, and TLC   *)
(* enumerates payloads over a small one.                                   *)
(*                                                                         *)
(* Values are float64 rounded to hundredths in the program, and counted in *)
(* hundredths here.  A factor is a power of ten, 10^(-decimals).           *)
(*                                                                         *)
(* The definition of a packet is a function from the positions of its      *)
(* fields, in their order, to FieldDefs.                                   *)
(***************************************************************************)
EXTENDS Integers, Sequences

CONSTANTS
  Base,        \* the number of values a byte has
  Names,       \* the names of fields
  HalfUp(_, _) \* raw * factor * 100 at an exact half: does the float64 product
               \* round up?  It may fall on either side, by raw and decimals.

ASSUME BaseAssumption == Base \in Nat /\ Base >= 2 /\ Base % 2 = 0

Byte == 0..(Base - 1)
Payload == Seq(Byte)

FieldType == {"Int16", "Uint8", "Uint16", "Uint32", "Bit"}

FieldDef == [name : Names, offset : Nat, type : FieldType,
             decimals : 0..4, unit : STRING, bitIndex : Nat]

\* pkey packs the three 16-bit addresses of a telegram into one integer.
pkey(src, dst, cmd) == <<src, dst, cmd>>

-------------------------------------------------------------------------------
(***************************************************************************)
(* extractValue.                                                           *)
(***************************************************************************)

Width(type) == CASE type \in {"Uint8", "Bit"} -> 1
                 [] type \in {"Int16", "Uint16"} -> 2
                 [] type = "Uint32" -> 4

\* The bounds check of every case: extractValue returns no error.
InRange(payload, fd) == fd.offset + Width(fd.type) <= Len(payload)

\* binary.LittleEndian.Uint16 and Uint32 at an offset that counts from 0.
Uint16At(payload, o) == payload[o + 1] + Base * payload[o + 2]
Uint32At(payload, o) == Uint16At(payload, o) + Base * Base * Uint16At(payload, o + 2)

\* The conversion int16(...) of a Uint16.
Int16Of(u) == IF 2 * u >= Base * Base THEN u - Base * Base ELSE u

Raw(payload, fd) ==
  CASE fd.type = "Bit"    -> (payload[fd.offset + 1] \div 2^fd.bitIndex) % 2
    [] fd.type = "Uint8"  -> payload[fd.offset + 1]
    [] fd.type = "Int16"  -> Int16Of(Uint16At(payload, fd.offset))
    [] fd.type = "Uint16" -> Uint16At(payload, fd.offset)
    [] fd.type = "Uint32" -> Uint32At(payload, fd.offset)

Pow10(n) == CASE n = 0 -> 1 [] n = 1 -> 10 [] n = 2 -> 100 [] n = 3 -> 1000 [] n = 4 -> 10000

\* math.Round(raw * factor * 100): exact with up to two decimals.
Hundredths(raw, decimals) ==
  IF decimals <= 2
  THEN raw * Pow10(2 - decimals)
  ELSE LET d == Pow10(decimals - 2)
           r == raw % d
       IN IF 2 * r > d \/ (2 * r = d /\ HalfUp(raw, decimals))
          THEN raw \div d + 1
          ELSE raw \div d

\* A bit is returned as it is, the factor does not apply.
ExtractValue(payload, fd) ==
  Hundredths(Raw(payload, fd), IF fd.type = "Bit" THEN 0 ELSE fd.decimals)

-------------------------------------------------------------------------------
(***************************************************************************)
(* Registry and Decode.                                                    *)
(***************************************************************************)

Known(reg, frame) == pkey(frame.src, frame.dst, frame.cmd) \in DOMAIN reg
Lookup(reg, frame) == reg[pkey(frame.src, frame.dst, frame.cmd)]

\* Mutant of Decode: out of range ends the telegram, the fields behind are lost.
Decode_StopsAtError(payload, def) ==
  [i \in {j \in DOMAIN def : \A k \in DOMAIN def : k <= j => InRange(payload, def[k])} |->
     [name |-> def[i].name, value |-> ExtractValue(payload, def[i]), unit |-> def[i].unit]]

\* The telemetry of a telegram, by position in the definition: fields the
\* payload does not reach are skipped.
Decode(payload, def) ==
  [i \in {j \in DOMAIN def : InRange(payload, def[j])} |->
     [name |-> def[i].name, value |-> ExtractValue(payload, def[i]), unit |-> def[i].unit]]
===============================================================================
