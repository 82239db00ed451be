---- MODULE MCInvestigation ----
(***************************************************************************)
(* Two devices that one access point hears, each of them alone enough to    *)
(* fill a roster of one row.                                                *)
(***************************************************************************)
EXTENDS Investigation

MCSummaries == [mac : Macs, ap : {1}, sensor : Sensors, window : Windows]
MCFrames == <<1, 2>>
MCRanges == {<<1, 3>>}
MCJoined == {<<1, 1>>, <<2, 1>>}
MCSame == {<<1, 2>>}

====
