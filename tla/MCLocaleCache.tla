---------------------------- MODULE MCLocaleCache ----------------------------
(***************************************************************************)
(* Two threads and three codes: all collide on the first level, two of     *)
(* them on the second as well, one of these two without a locale.          *)
(***************************************************************************)
EXTENDS LocaleCache, TLC

CONSTANTS fi, cs, xx

CollidingWay == fi :> << 1, 1 >> @@ cs :> << 1, 2, 2 >> @@ xx :> << 1, 2, 1 >>

==============================================================================
