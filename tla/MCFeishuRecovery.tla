------------------------- MODULE MCFeishuRecovery -------------------------
EXTENDS FeishuRecovery

CONSTANTS u1, m1, m2, m3

OneSender == [m \in Msgs |-> u1]
TextAndMedia == [m \in Msgs |-> IF m = m1 THEN "text" ELSE "media"]
FileAndCommand == [m \in Msgs |-> IF m = m1 THEN "file" ELSE "command"]
=============================================================================
