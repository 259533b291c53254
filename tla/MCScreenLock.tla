---------------------------- MODULE MCScreenLock ----------------------------
(***************************************************************************)
(* Instances of ScreenLock for TLC: one character of one byte and one of   *)
(* two, a two-byte PASSWORD_CAP that the second can straddle, up to two    *)
(* external clients and up to two flash timers pending at once.            *)
(***************************************************************************)
EXTENDS ScreenLock

CONSTANTS a, b, c1, c2, t1, t2

MCChar == {a, b}
MCWidth == [x \in MCChar |-> IF x = a THEN 1 ELSE 2]
MCRight == {<<a>>}

TwoClients == {c1, c2}
TwoTimers == {t1, t2}
=============================================================================
