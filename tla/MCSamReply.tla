----------------------------- MODULE MCSamReply -----------------------------
EXTENDS SamReplyProperties
\* every short line, and every short tail behind two words
MCLines == BoundedSeq(Char, 5)
           \cup {<<"a", " ", "a", " ">> \o tail : tail \in BoundedSeq(Char, 5)}
=============================================================================
