------------------------------ MODULE MCTelemetry ------------------------------
(* Small instances of Telemetry for TLC: three made-up packets with every kind  *)
(* of field and of packet, over eight pairs of bytes, and the tables of          *)
(* RegistryTables with a few telegrams each.                                     *)
EXTENDS Telemetry, RegistryTables

MCHalfUp(raw, decimals) == raw > 10   \* 0.005 rounds down, 0.015 up

MCGoName(text) == IF text = <<"Heat", "kWh">> THEN <<"heat">> ELSE
                  IF text = <<"Heat">> THEN <<"heat">> ELSE text

\* Bytes in a row, a bit and half a byte, wildcards and other commands.
Bit(text, o) == [Field(text, "U8", 0, "", o) EXCEPT !.parts[1].bitPos = 1, !.parts[1].mask = 2]

SmallA == Device("A", <<<<Field(<<"Volume">>, "U16", 3, " m3", 0), Bit(<<"Bit">>, 1),
                          Field(<<"Temperature">>, "S16", 1, " degC", 2)>>>>)
SmallB == Device("B", <<<<Field(<<"Sum">>, "S32", 0, "", 0), Field(<<"Heat">>, "U16", 0, " Wh", 0),
                          Field(<<"Heat", "kWh">>, "U16", 2, " kWh", 2), Field(<<"Rate">>, "S8", 0, "%", 2)>>>>)
SmallD == Device("D", <<<<Field(<<"relay_mask">>, "U8", 0, "%", 0), Field(<<"Volume">>, "U16", 3, " l", 1)>>>>)
Ignored == {[SmallA EXCEPT !.srcExact = FALSE, !.src = "A0"], [SmallA EXCEPT !.cmd = "0200"],
            [SmallA EXCEPT !.src = "C", !.fields = <<Bit(<<"Bit">>, 1)>>]}

MCPackets ==
  {Dev1911, Dev3611, Dev1711, Dev7E11, Dev1161, Dev7352, Dev7523, Dev7E12, Dev1160, Dev7351,
   Dev1D01, Dev7341, Dev7311, Dev7321, Dev7331, Dev7721, Dev7821, Dev1270, Dev1A30, Dev1A60,
   Dev7112, Dev7176, Dev1001, Dev4278, SmallA, SmallB, SmallD} \cup Ignored \cup
  Modules1961 \cup Modules1A41 \cup Modules1A71 \cup Modules7332 \cup Modules7342

MCTexts == UNION {{pk.fields[i].text : i \in DOMAIN pk.fields} : pk \in MCPackets}
MCNames == {MCGoName(t) : t \in MCTexts} \cup {DeltaSolBS2[i].name : i \in DOMAIN DeltaSolBS2}

Exact == {pk \in MCPackets : pk.srcExact /\ pk.cmd = "0100"}

\* One controller at a time, or the custom one and a small one that share a name.
MCBuses == {{pk.src} : pk \in Exact} \cup {{"4278", "D"}}

\* PUTs change the prefix where there are few telegrams.
MCPrefixes == [b \in MCBuses |-> IF b = {"D"} THEN {"vbus", "solar"} ELSE {"vbus"}]

\* The configs of a round get through, or one does not.
MCLosses == {{}, {<<"Volume">>}}
MCSignedBuses == {{"1001"}}

Length(pk) ==
  LET ends == {pk.fields[i].parts[Len(pk.fields[i].parts)].offset + 1 : i \in DOMAIN pk.fields}
  IN CHOOSE e \in ends : \A d \in ends : d <= e

Frame(src, cmd, payload) == [src |-> src, dst |-> "0010", cmd |-> cmd, payload |-> payload]

\* All bytes different from their neighbours, all signs set, and a short telegram.
TableTelegrams(pk) ==
  LET n == Length(pk)
      p == [i \in 1..n |-> (i + i \div 3) % Base]
  IN {Frame(pk.src, "0100", q) : q \in {p, [i \in 1..n |-> Base - 1], [i \in 1..((n + 1) \div 2) |-> p[i]]}}

\* Values at both kinds of exact half, both signs, a short telegram and another command.
SmallTelegrams(src) ==
  {Frame(src, "0100", <<a, b, b, a>>) : a \in Byte, b \in {1, 3}} \cup
  {Frame(src, "0100", <<1, 2, 3>>), Frame(src, "0200", <<1, 2, 3, 0>>)}

MCTelegrams ==
  [s \in UNION MCBuses |->
     IF s \in {"A", "B"} THEN SmallTelegrams(s)
     ELSE TableTelegrams(CHOOSE pk \in Exact : pk.src = s)]
===============================================================================
