---------------------------- MODULE MCLiveOrders ----------------------------
EXTENDS LiveOrders

\* Two orders that the caps allow one at a time: a long and a short one.
MCOrders == {"long", "short"}

MCSymbols == {"BTC", "ETH"}

MCSymbolOf == [o \in MCOrders |-> IF o = "long" THEN "BTC" ELSE "ETH"]

MCQuantity == [o \in MCOrders |-> IF o = "long" THEN 1 ELSE -3]

MCMark == [s \in MCSymbols |-> IF s = "BTC" THEN 2 ELSE 1]

=============================================================================
