----------------------------- MODULE MCAcVoltage -----------------------------
EXTENDS AcVoltage

\* No mains, 110 V and 220 V, the latter two with waves a volt apart.
MCMains == {{[low |-> 588, high |-> 590]},
            {[low |-> 344, high |-> 834], [low |-> 342, high |-> 836]},
            {[low |-> 100, high |-> 1023], [low |-> 98, high |-> 1023]}}
=============================================================================
