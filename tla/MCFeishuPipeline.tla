------------------------- MODULE MCFeishuPipeline -------------------------
EXTENDS FeishuPipeline

CONSTANTS u1, u2, m1, m2, m3, m4

\* One user, everything that can join one batch or one session.
OneSender == [m \in Msgs |-> u1]
BatchKinds == [m \in Msgs |-> IF m \in {m1, m2} THEN "media" ELSE "text"]

\* Every kind of dispatch, two users.
TwoSenders == [m \in Msgs |-> IF m = m4 THEN u2 ELSE u1]
MixedKinds == [m \in Msgs |-> CASE m = m1 -> "text" [] m = m2 -> "file"
                                [] m = m3 -> "text" [] OTHER -> "command"]
FileKinds == [m \in Msgs |-> CASE m = m1 -> "file" [] m = m3 -> "text" [] OTHER -> "media"]
=============================================================================
