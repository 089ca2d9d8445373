----------------------------- MODULE MCRefreshToken -----------------------------
(***************************************************************************)
(* Small instances of RefreshToken.                                        *)
(***************************************************************************)
EXTENDS RefreshToken, TLC

CONSTANTS t1, t2, t3, t4, d1, d2, u1, q1, q2, q3

ThreeTokens == {t1, t2, t3}
FourTokens == {t1, t2, t3, t4}
OneUser == {u1}
OneDevice == {d1}
TwoDevices == {d1, d2}
TwoRequests == {q1, q2}
ThreeRequests == {q1, q2, q3}

\* Contexts, tokens and browsers are interchangeable.
Symmetry == Permutations(Token) \cup Permutations(Req) \cup Permutations(Device)
=================================================================================
