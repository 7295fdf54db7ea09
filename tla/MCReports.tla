------------------------------ MODULE MCReports ------------------------------
(* Two accounts that share a name, one that is opened late, one whose code   *)
(* has a colon (the account every household is registered with).  Amounts in  *)
(* half units.                                                               *)
EXTENDS Reports

MCAccounts == {"bank", "gifts", "given", "seed"}
MCType == [bank |-> "asset", gifts |-> "income", given |-> "expense", seed |-> "equity"]
MCCode == [bank |-> <<"1100">>, gifts |-> <<>>, given |-> <<>>, seed |-> <<"Imbalance", "Unknown">>]
MCName == [bank |-> <<"Bank">>, gifts |-> <<"Gifts">>, given |-> <<"Gifts">>,
           seed |-> <<"Imbalance", " Unknown">>]
MCChart == {"bank", "gifts", "seed"}
Legs(to, from, amount) == [a \in MCAccounts |-> IF a = to THEN amount
                                                ELSE IF a = from THEN -amount ELSE 0]
MCPlan == [in   |-> [day |-> 1, legs |-> Legs("bank", "gifts", 2)],
           out  |-> [day |-> 2, legs |-> Legs("given", "bank", 3)],
           line |-> [day |-> 2, legs |-> Legs("bank", "seed", 2)]]
MCDates == 1 .. 2
=============================================================================
