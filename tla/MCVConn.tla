------------------------------ MODULE MCVConn ------------------------------
EXTENDS VConn
CONSTANTS InitMsgs, AccMsgs
MsgBound == [e \in End |-> IF e = Initiator THEN InitMsgs ELSE AccMsgs]
=============================================================================
