--------------------------- MODULE MCMeasurement ---------------------------
EXTENDS Measurement

MCBenches == <<"decode_prose", "cache_sessions">>
MCLogs == {<<-1>>, <<10, 0, 10, 10>>, <<10, 10, 5, 0, 5>>}
=============================================================================
