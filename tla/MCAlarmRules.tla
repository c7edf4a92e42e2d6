---------------------------- MODULE MCAlarmRules ----------------------------
(* Rules and indexes for model checking.                                   *)
EXTENDS AlarmRulesProperties

MCRule(year, wild, days, action, count) ==
    [number |-> Numeral(year), count |-> count, wild |-> wild, days |-> days,
     action |-> action]

\* 2016 is -32 as an int8_t and 2050 is 2: only the second is stored.
MCRules ==
    {MCRule(2050, {}, {1}, "ON", 8), MCRule(2051, {6}, {}, "OFF", 9),
     MCRule(2050, {}, {1}, "other", 8), MCRule(2050, {}, {1}, "ON", 7),
     MCRule(2016, {}, {0, 1}, "ON", 8), MCRule(2048, {}, {2}, "OFF", 8),
     [MCRule(0, {}, {}, "ON", 8) EXCEPT !.number = Overlong]}

MCIndexes == {Numeral(0), Numeral(1), Numeral(2), Numeral(256), Overlong,
              NotANumber}
=============================================================================
