---------------------------- MODULE MCCollector ----------------------------
(* Collector on a small instance: two codes, pages of two candles.          *)
EXTENDS Collector

CONSTANTS c1, c2

MCCodes == <<c1, c2>>
=============================================================================
