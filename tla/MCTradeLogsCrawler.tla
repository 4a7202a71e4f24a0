-------------------------- MODULE MCTradeLogsCrawler -------------------------
(* Instances of TradeLogsCrawler for TLC: a chain of a few blocks on which *)
(* three users trade, with both generations in the boundary blocks.        *)
EXTENDS TradeLogsCrawler

Trade(block, idx, gen, user, big) ==
    [block |-> block, idx |-> idx, gen |-> gen, user |-> user, big |-> big]

MCTrades ==
    { Trade(1, 1, 1, "alice", FALSE), Trade(2, 1, 1, "bob", TRUE),
      Trade(4, 1, 2, "alice", TRUE),  Trade(5, 1, 2, "bob", FALSE),
      Trade(5, 2, 3, "carol", TRUE), Trade(7, 1, 3, "carol", TRUE) }

Daemon == {[from |-> Unset, to |-> Unset]}

(* Also ranges crawled by hand, one after the other and in any order.      *)
DaemonAndRanges ==
    Daemon \cup
    { [from |-> Unset, to |-> 4], [from |-> Unset, to |-> 6], [from |-> 1, to |-> 5] }
=============================================================================
