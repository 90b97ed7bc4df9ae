--------------------------------- MODULE MCApp ---------------------------------
EXTENDS App

CONSTANTS p1, p2

MCSlots == {1}
MCSteps == 1..2
MCBank  == <<p1, p2>>

=============================================================================
