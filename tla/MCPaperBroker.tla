---------------------------- MODULE MCPaperBroker ----------------------------
(* Instances of PaperBroker for TLC: one symbol and the tickets of each run. *)
EXTENDS PaperBroker, TLC

\* Threads are alike: sound for the safety properties, not used for liveness.
Threads == Permutations(Workers)

BrokerTicket(side, quantity, tif, old) ==
  [symbol |-> "2330", side |-> side, quantity |-> quantity, tif |-> tif, replaces |-> old]

\* Two purchases that together cost more than the cash, and a replacement.
Competing ==
  [o \in 1..3 |->
     CASE o = 1 -> BrokerTicket("buy", 2, "rod", NoOne)
       [] o = 2 -> BrokerTicket("buy", 2, "fok", NoOne)
       [] o = 3 -> BrokerTicket("buy", 1, "rod", 1)]

\* A short sale that two covers close, the second one replaceable.
Covers ==
  [o \in 1..4 |->
     CASE o = 1 -> BrokerTicket("short_sell", 3, "rod", NoOne)
       [] o = 2 -> BrokerTicket("buy_to_cover", 3, "rod", NoOne)
       [] o = 3 -> BrokerTicket("buy_to_cover", 2, "ioc", NoOne)
       [] o = 4 -> BrokerTicket("buy_to_cover", 1, "rod", 2)]

\* A purchase, two sales of what it bought, and a short sale.
Rounds ==
  [o \in 1..4 |->
     CASE o = 1 -> BrokerTicket("buy", 2, "ioc", NoOne)
       [] o = 2 -> BrokerTicket("sell", 2, "rod", NoOne)
       [] o = 3 -> BrokerTicket("sell", 1, "ioc", NoOne)
       [] o = 4 -> BrokerTicket("short_sell", 1, "ioc", NoOne)]
=============================================================================
