------------------------------ MODULE MCArenaTab ------------------------------
EXTENDS ArenaTab

CONSTANTS d1, d2

MCDuels    == {d1, d2}
MCFinished == {d1}
MCSlots    == 1..2
MCOutcomes == {[status |-> "success", reward |-> 1], [status |-> "failed", reward |-> 0]}

=============================================================================
