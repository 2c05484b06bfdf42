--------------------------- MODULE MCHarnessPilot ---------------------------
(***************************************************************************)
(* An instance of HarnessPilot for TLC: a calibration arm with a frontier  *)
(* and a local generator, a main arm with two packets of the local one, a  *)
(* weak arm with the frontier one.  The benches are a sound one for every  *)
(* kernel, choice of budgets and arm, and all that depart from it in at    *)
(* most two respects.                                                      *)
(***************************************************************************)
EXTENDS HarnessPilot, TLC

CONSTANTS G1, G3, crc32, fir

MCArms == <<"calibration", "main", "dose_response">>
MCGeneratorsOf == "calibration" :> <<G1, G3>> @@ "main" :> <<G3>> @@ "dose_response" :> <<G1>>
MCPacketsOf == "calibration" :> <<crc32>> @@ "main" :> <<crc32, fir>> @@ "dose_response" :> <<fir>>
MCOutOfDomain == {3}

SoundBenches ==
  [committed : {TRUE}, kernel : {"tractable", "intractable"}, weak : BOOLEAN, lint : {TRUE},
   cc : {TRUE}, wrong : {{}}, ssh3 : {"answered"}, ssh5 : {"answered"}, cbmc : {"successful"},
   caps : {{}, {"text", "stack"}, {"text", "stack", "cycles"}}, build : {"built"},
   text : {"within"}, stack : {"within"}, pair : {TRUE}, base : {"clean"}, time : {"clean"},
   ratio : {"within"}, probes : {"counted"}]

Departures ==
  {<<"committed", FALSE>>, <<"kernel", "undeclared">>, <<"lint", FALSE>>, <<"cc", FALSE>>,
   <<"pair", FALSE>>, <<"ratio", "above">>, <<"build", "broken">>}
  \cup {<<"wrong", w>> : w \in {{0}, {1}, {3}}}
  \cup {<<f, s>> : f \in {"ssh3", "ssh5"}, s \in Ssh}
  \cup {<<"cbmc", c>> : c \in {"no harness", "no oracle", "not installed", "timeout", "failure", "no verdict"}}
  \cup {<<"build", s>> : s \in {"torn", "unreachable"}}
  \cup {<<f, s>> : f \in {"text", "stack"}, s \in {"above", "unreadable"}}
  \cup {<<f, t>> : f \in {"base", "time"}, t \in Timings}
  \cup {<<"probes", s>> : s \in {"no manifest", "absent", "mutated", "torn", "unreachable",
                             "silent", "unreadable", "no build", "truncated", "miscounted"}}

MCBenches == {[b EXCEPT ![d[1]] = d[2], ![e[1]] = e[2]] : b \in SoundBenches, d, e \in Departures}
=============================================================================
