------------------------------ MODULE MCObserver ------------------------------
EXTENDS Observer

\* No line, the hand-over, and it with a line that cannot be understood.
MCHistories == {<<>>, <<"task">>, <<"bad", "task">>, <<"drift">>}
MCWritten == {"task", "other", "bad"}

\* The budget is a multiple of the interval, or is not.
MCOptions == {[budget |-> 3, explicit |-> FALSE], [budget |-> 4, explicit |-> TRUE]}
=============================================================================
