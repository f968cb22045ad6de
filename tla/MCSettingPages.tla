---------------------------- MODULE MCSettingPages ----------------------------
EXTENDS SettingPages

\* The last minute of a leap day: every unit but the day can be edited into a
\* date that does not exist, and the clock into the next month.
MCTimes == {[year |-> 2024, month |-> 2, day |-> 29, hour |-> 23, min |-> 59]}

\* A plan, and one that only its seconds tell from none.
MCPlans == {[on |-> [hour |-> 1, min |-> 0], off |-> [hour |-> 0, min |-> 1],
             secs |-> FALSE, enable |-> TRUE],
            [on |-> Midnight, off |-> Midnight, secs |-> TRUE, enable |-> TRUE]}
=============================================================================
