---------------------------- MODULE MCModelOpening ----------------------------
EXTENDS ModelOpening, TLC
\* a stream event of the second Step is recorded
MCStream == 0 :> 0 @@ 1 :> 1
\* two attempts under two names, or the same attempt driven twice
MCNames == {<<"r1", "r2">>, <<"r1", "r1">>}
=============================================================================
