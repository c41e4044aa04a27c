---------------------------- MODULE MCMarketFeed ----------------------------
(* Small instances of MarketFeed.                                            *)
EXTENDS MarketFeed

(* The first account is in region 1; the second in region 2 or in none.      *)
OneEachOrNone == <<{{1}}, {{2}, {}}>>
=============================================================================
