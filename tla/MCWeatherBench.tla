--------------------------- MODULE MCWeatherBench ----------------------------
(* Two configurations: two workers with two query clients, one of each.       *)
EXTENDS WeatherBench

MCConfigs == <<[workers |-> 2, queries |-> 2], [workers |-> 1, queries |-> 1]>>
=============================================================================
