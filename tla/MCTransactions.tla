--------------------------- MODULE MCTransactions ---------------------------
(* A small instance of Transactions.                                       *)
EXTENDS Transactions

CONSTANTS t1, t2, w1     \* two transactions and another task

OnlyPython == {"py"}
Both       == {"py", "js"}
TwoTasks   == {t1, t2}
OneWriter  == {w1}
TwoNoneOne == [t \in {t1, t2, w1} |-> IF t = t1 THEN 2 ELSE IF t = t2 THEN 0 ELSE 1]
=============================================================================
