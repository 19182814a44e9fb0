---------------------------- MODULE MCShadowTrading ----------------------------
(***************************************************************************)
(* Shadow trading on a small instance: two tokens, and one loss that is    *)
(* enough to reach the daily limit.                                        *)
(***************************************************************************)
EXTENDS ShadowTrading

CONSTANTS s1, m1, m2

MCStrategies == <<s1>>
MCGains == {-2, 1}
MCSymmetry == Permutations(Mints)

==============================================================================
