---------------------------- MODULE RegistryTables ----------------------------
(***************************************************************************)
(* Device tables of internal/vbus/registry_gen.go and registry_custom.go.  *)
(*                                                                         *)
(* A generated entry is written as the packet of the specification it was  *)
(* generated from, so that the model's generator gives the entry and the   *)
(* specification says what its fields mean.  The kind of a field is its    *)
(* size and sign in the specification (tools/vbus_specification.vsf): U8,  *)
(* S8, U16, S16, U32, S32.  mapField turns S8 into Int16 and S32 into      *)
(* Uint32, and bit fields into nothing; those are left out.                *)
(*                                                                         *)
(* Run(kind, precision, unit, first, step, n) is n lines in a row that     *)
(* differ in offset, by step, and name only.  A field is named after what  *)
(* it reads.  Units are written in ASCII, with their leading blank.        *)
(***************************************************************************)
EXTENDS Generator, SequencesExt

Signed(kind) == kind \in {"S8", "S16", "S32"}

Bytes(kind) == CASE kind \in {"U8", "S8"} -> 1
                 [] kind \in {"U16", "S16"} -> 2
                 [] kind \in {"U32", "S32"} -> 4

Parts(kind, o) ==
  [i \in 1..Bytes(kind) |->
     [offset |-> o + i - 1, bitPos |-> 0, mask |-> FullMask,
      isSigned |-> Signed(kind) /\ i = Bytes(kind), rawFactor |-> Exp[i]]]

Field(text, kind, precision, unit, o) ==
  [text |-> text, unit |-> unit, precision |-> precision, parts |-> Parts(kind, o)]

Run(kind, precision, unit, first, step, n) ==
  [i \in 1..n |-> LET o == first + (i - 1) * step
                  IN Field(<<kind, o, precision, unit>>, kind, precision, unit, o)]

\* A packet to everyone, with the fields of the runs in their order.
Device(src, runs) ==
  [src |-> src, dst |-> "0010", cmd |-> "0100", srcExact |-> TRUE, dstExact |-> TRUE,
   fields |-> FlattenSeq(runs)]

-------------------------------------------------------------------------------
(***************************************************************************)
(* registry_gen.go, by source address.                                     *)
(***************************************************************************)

Dev1911 == Device("1911", <<
  Run("S16", 1, " degC", 0, 2, 15), Run("S16", 0, " W/m2", 30, 2, 1),
  Run("S16", 1, " degC", 32, 2, 4), Run("S32", 0, " l/h", 40, 4, 10),
  Run("S16", 2, " bar", 80, 2, 4), Run("U8", 0, "%", 88, 1, 15),
  Run("U8", 0, "%", 104, 1, 4), Run("S32", 0, "", 108, 4, 2)>>)

Dev3611 == [Dev1911 EXCEPT !.src = "3611"]

Dev1711 == Device("1711", <<
  Run("S16", 1, " degC", 0, 2, 15), Run("S16", 0, " W/m2", 30, 2, 1),
  Run("S16", 1, " degC", 32, 2, 4), Run("S32", 0, " l/h", 40, 4, 7),
  Run("S32", 0, " l/h", 104, 4, 1), Run("S16", 2, " bar", 68, 2, 4),
  Run("U8", 0, "%", 76, 1, 14), Run("U8", 0, "%", 100, 1, 4), Run("S32", 0, "", 92, 4, 2)>>)

Dev7E11 == [Dev1711 EXCEPT !.src = "7E11"]

Dev1161 == Device("1161", <<
  Run("S16", 1, " degC", 0, 2, 30)>>)

Dev7352 == [Dev1161 EXCEPT !.src = "7352"]

Dev7523 == [Dev1161 EXCEPT !.src = "7523"]

Dev7E12 == [Dev1161 EXCEPT !.src = "7E12"]

Dev1160 == Device("1160", <<
  Run("S16", 1, " degC", 0, 2, 15), Run("S16", 0, " W/m2", 30, 2, 1),
  Run("S16", 1, " degC", 32, 2, 4), Run("S32", 0, " l/h", 40, 4, 7),
  Run("S16", 2, " bar", 68, 2, 4), Run("U8", 0, "%", 76, 1, 14),
  Run("S32", 0, "", 92, 4, 2)>>)

Dev7351 == [Dev1160 EXCEPT !.src = "7351"]

Dev1D01 == Device("1D01", <<
  Run("S16", 1, " degC", 0, 2, 19), Run("S16", 0, " l/h", 38, 2, 4),
  Run("U8", 0, "%", 46, 1, 18), Run("S32", 0, "", 64, 4, 1)>>)

Dev7341 == Device("7341", <<
  Run("S16", 1, " degC", 0, 2, 16), Run("S32", 0, " l", 32, 4, 4),
  Run("S16", 2, " bar", 48, 2, 4), Run("S8", 0, "%", 56, 1, 14),
  Run("S16", 1, " degC", 72, 2, 6), Run("S32", 0, " Wh", 84, 4, 2),
  Run("S32", 0, "", 92, 4, 1), Run("U32", 0, "", 96, 4, 6), Run("U16", 0, "", 120, 2, 3)>>)

Dev7311 == Device("7311", <<
  Run("S16", 1, " degC", 0, 2, 12), Run("S16", 0, " W/m2", 24, 2, 1),
  Run("S32", 0, "", 28, 4, 2), Run("U16", 0, "", 36, 2, 3), Run("U8", 0, "%", 44, 1, 9),
  Run("U16", 0, "", 58, 2, 5)>>)

Dev7321 == [Dev7311 EXCEPT !.src = "7321"]

Dev7331 == Device("7331", <<
  Run("S16", 1, " degC", 0, 2, 22), Run("U8", 0, "%", 44, 1, 18),
  Run("U32", 0, "", 64, 4, 2), Run("U16", 0, "", 72, 2, 3), Run("S16", 0, "", 78, 2, 1),
  Run("U8", 0, "", 80, 1, 1)>>)

Dev7721 == Device("7721", <<
  Run("S16", 1, " degC", 0, 2, 10), Run("S16", 0, " W/m2", 20, 2, 1),
  Run("U16", 0, "", 22, 2, 2), Run("S8", 0, "%", 26, 1, 7), Run("U16", 0, "", 36, 2, 2),
  Run("S8", 0, "", 40, 1, 1), Run("U16", 0, "", 42, 2, 1),
  Run("S16", 1, " degC", 44, 2, 1), Run("U16", 0, "", 46, 2, 1),
  Run("S16", 1, " degC", 48, 2, 1), Run("U16", 0, "", 50, 2, 1),
  Run("S16", 1, " degC", 52, 2, 1), Run("U16", 0, "", 54, 2, 1),
  Run("S16", 1, " degC", 56, 2, 1), Run("U16", 0, "", 58, 2, 1),
  Run("S16", 0, "", 62, 2, 2), Run("S8", 0, "", 66, 1, 2)>>)

Dev7821 == [Dev7721 EXCEPT !.src = "7821"]

Dev1270 == Device("1270", <<
  Run("S32", 3, " W", 72, 4, 1), Run("S32", 3, " W", 68, 4, 1),
  Run("U32", 0, " W", 64, 4, 1), Run("S32", 0, " Wh", 80, 4, 1),
  Run("S16", 1, " degC", 16, 2, 5), Run("S16", 1, " degC", 120, 2, 2),
  Run("U16", 0, "", 128, 2, 1), Run("S16", 1, " degC", 112, 2, 1),
  Run("S16", 0, " l/h", 114, 2, 1), Run("S16", 2, " bar", 116, 2, 1),
  Run("S8", 0, "%", 118, 1, 1), Run("S16", 1, " degC", 136, 2, 1),
  Run("S16", 0, " l/h", 138, 2, 1), Run("S16", 2, " bar", 140, 2, 1),
  Run("S8", 0, "%", 142, 1, 1), Run("U16", 0, "%", 36, 94, 2),
  Run("U16", 0, "%", 26, 2, 5), Run("U32", 0, " h", 60, 72, 2),
  Run("U32", 0, " h", 40, 4, 5), Run("S32", 0, "", 4, 4, 1)>>)

Dev1A30 == [Dev1270 EXCEPT !.src = "1A30"]

Dev1A60 == [Dev1270 EXCEPT !.src = "1A60"]

Module(src) == Device(src, <<
  Run("S16", 1, " degC", 0, 2, 6), Run("U8", 0, "%", 12, 1, 5)>>)

Modules1961 == {Module(s) : s \in {"1961", "1962", "1963", "1964", "1965"}}

Modules1A41 == {Module(s) : s \in {"1A41", "1A42", "1A43", "1A44", "1A45"}}

Modules1A71 == {Module(s) : s \in {"1A71", "1A72", "1A73", "1A74", "1A75"}}

Modules7332 == {Module(s) : s \in {"7332", "7333", "7334", "7335"}}

Modules7342 == {Module(s) : s \in {"7342", "7343", "7344", "7345", "7346"}}

Dev7112 == Device("7112", <<
  Run("S16", 1, " degC", 0, 2, 9), Run("S16", 0, " W/m2", 18, 2, 1),
  Run("S16", 1, " degC", 20, 2, 2), Run("S32", 0, " l/h", 24, 4, 3),
  Run("S16", 2, " bar", 36, 2, 2), Run("U8", 0, "%", 40, 1, 5),
  Run("U8", 0, "%", 64, 1, 2), Run("S32", 0, "", 48, 4, 2), Run("S32", 0, "", 68, 4, 1)>>)

Dev7176 == Device("7176", <<
  Run("S16", 1, " degC", 0, 2, 10), Run("S16", 0, " W/m2", 20, 2, 1),
  Run("S16", 1, " degC", 24, 2, 2), Run("S32", 0, " l/h", 28, 4, 4),
  Run("S16", 2, " bar", 44, 2, 2), Run("U8", 0, "%", 48, 1, 5),
  Run("U8", 0, "%", 72, 1, 4), Run("S32", 0, "", 56, 4, 2)>>)

Dev1001 == Device("1001", <<
  Run("S32", 0, "", 0, 4, 1), Run("S16", 1, " degC", 4, 2, 6),
  Run("S32", 0, " l/h", 16, 4, 3), Run("S16", 2, " bar", 28, 2, 1),
  Run("S8", 0, "%", 30, 1, 6), Run("S32", 0, "", 36, 4, 2)>>)

Dev4278 == Device("4278", <<
  Run("S16", 1, " degC", 0, 2, 4), Run("U8", 0, "%", 8, 1, 2),
  Run("U16", 0, " h", 12, 2, 2), Run("S8", 0, "", 22, 1, 1), Run("U8", 0, "", 23, 1, 1),
  Run("U16", 2, "", 24, 2, 1)>>)

-------------------------------------------------------------------------------
(***************************************************************************)
(* registry_custom.go: the DeltaSol BS2 in place of the generated 4278.    *)
(***************************************************************************)

Entry(name, type, decimals, unit, o) ==
  [name |-> name, offset |-> o, type |-> type, decimals |-> decimals, unit |-> unit, bitIndex |-> 0]

DeltaSolBS2 ==
  [i \in 1..4 |-> Entry(<<"temp_sensor", i>>, "Int16", 1, "degC", 2 * (i - 1))] \o
  [i \in 1..2 |-> Entry(<<"pump_speed", i>>, "Uint8", 0, "%", 7 + i)] \o
  <<Entry(<<"relay_mask">>, "Uint16", 0, "", 10), Entry(<<"error_mask">>, "Uint16", 0, "", 12),
    Entry(<<"operating_hours", 1>>, "Uint32", 0, "h", 14),
    Entry(<<"operating_hours", 2>>, "Uint32", 0, "h", 18),
    Entry(<<"heat_quantity">>, "Uint32", 0, "Wh", 22)>>

CustomRegistry == [k \in {pkey("4278", "0010", "0100")} |-> DeltaSolBS2]
===============================================================================
