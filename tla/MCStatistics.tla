---------------------------- MODULE MCStatistics -----------------------------
(* Statistics on a small calendar: a day of two hours of two units, a week of *)
(* two days, months of three and two days.                                    *)
EXTENDS Statistics, TLC

CONSTANTS hades, celeste, rogue, indie

MCTagsOf == (hades :> {rogue, indie}) @@ (celeste :> {indie})
MCYearOf == (hades :> 2019) @@ (celeste :> 0)
MCMonthStarts == {0, 3, 5, 8, 12}
=============================================================================
