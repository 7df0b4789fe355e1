------------------------------ MODULE MCTariff ------------------------------
(* A day of three hours: two configured segments and an hour in none.      *)
EXTENDS Tariff

MCSegTime == [s \in 0..4 |-> IF s = 0 THEN <<<<0, 1>>>> ELSE IF s = 2 THEN <<<<1, 2>>>> ELSE << >>]
\* a long period: a session over the night comes back to it
MCNightTime == [s \in 0..4 |-> IF s = 1 THEN <<<<0, 2>>>> ELSE IF s = 3 THEN <<<<2, 3>>>> ELSE << >>]
MCEnergyFee == [s \in 0..4 |-> IF s = 0 THEN 3 ELSE 2]
MCServFee == [s \in 0..4 |-> 1]

MCOrders == {NoLimits,
             [NoLimits EXCEPT !.card = TRUE, !.balance = 9],
             [NoLimits EXCEPT !.energy = 2],
             [NoLimits EXCEPT !.fee = 8],
             [NoLimits EXCEPT !.time = 3]}

=============================================================================
