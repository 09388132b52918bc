------------------------------ MODULE MCStartup ------------------------------
(***************************************************************************)
(* Configurations of one or two sources for TLC.                           *)
(***************************************************************************)
EXTENDS StartupProperties

CONSTANTS orders, t1, t2

Legacy == [sources |-> <<>>, connectionString |-> TRUE,
           tracked |-> {[database |-> NoName, table |-> t1]}]
Invalid == [Legacy EXCEPT !.connectionString = FALSE]
OneSource == [sources |-> <<orders>>, connectionString |-> TRUE,
              tracked |-> {[database |-> NoName, table |-> t] : t \in Tables}]

\* A second source is added behind it; of the entries one gets a name.
BothSources ==
    [OneSource EXCEPT !.sources = <<orders, default>>,
                      !.tracked = {[database |-> orders, table |-> t1],
                                   [database |-> NoName, table |-> t2]}]
OtherOrder ==
    [OneSource EXCEPT !.sources = <<default, orders>>,
                      !.tracked = {[database |-> orders, table |-> t] : t \in Tables}]

AllConfigs == {Legacy, Invalid, OneSource, BothSources, OtherOrder}

\* Two changes of different tables in each source.
TwoChanges == [s \in Names |-> IF s = orders THEN <<t1, t2>> ELSE <<t2, t1>>]
===============================================================================
