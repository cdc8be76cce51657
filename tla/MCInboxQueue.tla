----------------------------- MODULE MCInboxQueue -----------------------------
EXTENDS InboxQueue, TLC
CONSTANTS e1, e2, p1, p2

\* One of any two mixes that differ by the names of the events only.
KindNumber == "alert" :> 1 @@ "plain" :> 2 @@ "invalid" :> 3
MixesOnce == {mix \in [Events -> Kinds] : KindNumber[mix[e1]] <= KindNumber[mix[e2]]}
=============================================================================
