----------------------------- MODULE MCPaperOms -----------------------------
(* Instances of PaperOms for TLC: one symbol and the tickets of each run. *)
EXTENDS PaperOms

OneTicket(side, quantity) == [symbol |-> "2330", side |-> side, quantity |-> quantity]

\* A purchase, a sale of part of it, a short sale and its cover.
MCTicket ==
  [o \in 1..4 |->
     CASE o = 1 -> OneTicket("buy", 3)
       [] o = 2 -> OneTicket("sell", 2)
       [] o = 3 -> OneTicket("short_sell", 2)
       [] o = 4 -> OneTicket("buy_to_cover", 1)]

\* A purchase and two sales that rest on the same holding.
TwoSales ==
  [o \in 1..3 |->
     CASE o = 1 -> OneTicket("buy", 3)
       [] o = 2 -> OneTicket("sell", 3)
       [] o = 3 -> OneTicket("sell", 2)]

\* A purchase and the sale of all of it.
RoundTrip == [o \in 1..2 |-> OneTicket(IF o = 1 THEN "buy" ELSE "sell", 1)]

\* A purchase and the sale of a part of it, in two fills.
PartialSale ==
  [o \in 1..2 |-> IF o = 1 THEN OneTicket("buy", 3) ELSE OneTicket("sell", 2)]
=============================================================================
