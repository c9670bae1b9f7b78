----------------------------- MODULE MCGateway -----------------------------
(* Instances of Gateway for TLC.                                           *)
EXTENDS Gateway, TLC

Answer(s, n, v) == [status |-> s, tokens |-> n, vendor |-> v]

\* Every way a response is charged, parks its key, or declines to.
Answers == {Answer("ok", TokensUnknown, "none"), Answer("ok", 3, "rate"),
            Answer("quota", 3, "none"), Answer("quota", 3, "healthy"),
            Answer("quota", TokensUnknown, "window_reset"), Answer("failed", 3, "balance")}

\* A vendor's deadline may be over by the time the store applies it.
AnyCooldown == (-2)..4
=============================================================================
