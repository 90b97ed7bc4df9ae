---------------------------- MODULE MCCommandCenter ----------------------------
EXTENDS CommandCenter

CONSTANTS d1, d2

MCDuels     == {d1, d2}
MCFinished  == {d1}
MCListSlots == {1}
MCSlots     == {1}
MCOutcomes  == {[status |-> "success", reward |-> 1]}

=============================================================================
