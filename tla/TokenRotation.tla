---------------------------- MODULE TokenRotation ----------------------------
(***************************************************************************)
(* What the rotation of refresh tokens promises, free of requests, rows    *)
(* and cookies (comments above markUsedAtomically, refresh-token-store.ts  *)
(* and packages/shared/src/lib/auth.ts): a token is redeemed at most once, *)
(* a redeemed token has at most one successor, and a successor stays in    *)
(* the family of its predecessor.                                          *)
(***************************************************************************)
CONSTANTS Token, None

VARIABLES family,     \* family[t]: the first token of t's family, None before issue
          parent,     \* parent[t]: the token whose redemption issued t, or None
          valid,      \* the tokens that can still be redeemed
          redeemed    \* the tokens that have been redeemed

rotationVars == <<family, parent, valid, redeemed>>

Unissued(t) == family[t] = None

RotationInit ==
  /\ family = [t \in Token |-> None]
  /\ parent = [t \in Token |-> None]
  /\ valid = {}
  /\ redeemed = {}

\* A sign-in starts a family.
Start(t) ==
  /\ Unissued(t)
  /\ family' = [family EXCEPT ![t] = t]
  /\ valid' = valid \cup {t}
  /\ UNCHANGED <<parent, redeemed>>

\* A valid token is redeemed, for the first and only time.
Redeem(t) ==
  /\ t \in valid \ redeemed
  /\ valid' = valid \ {t}
  /\ redeemed' = redeemed \cup {t}
  /\ UNCHANGED <<family, parent>>

\* The redemption of p is answered with its one successor.
Renew(p, t) ==
  /\ p \in redeemed
  /\ Unissued(t)
  /\ \A c \in Token : parent[c] # p
  /\ family' = [family EXCEPT ![t] = family[p]]
  /\ parent' = [parent EXCEPT ![t] = p]
  /\ valid' = valid \cup {t}
  /\ UNCHANGED redeemed

\* Tokens are revoked.
Withdraw ==
  /\ valid' \subseteq valid
  /\ UNCHANGED <<family, parent, redeemed>>

RotationNext ==
  \/ \E t \in Token : Start(t) \/ Redeem(t)
  \/ \E p, t \in Token : Renew(p, t)
  \/ Withdraw

RotationSpec == RotationInit /\ [][RotationNext]_rotationVars
==============================================================================
