----------------------------- MODULE MCRetrans -----------------------------
EXTENDS Retrans

CONSTANTS FirstSends, SecondSends

\* Two channels, of which the first is dropped more often.
SendBound == [c \in Chan |-> IF c = 1 THEN FirstSends ELSE SecondSends]
=============================================================================
