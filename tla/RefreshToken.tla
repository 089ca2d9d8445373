----------------------------- MODULE RefreshToken -----------------------------
(***************************************************************************)
(* Refresh tokens: the handler of POST /api/auth/refresh (route.ts), the   *)
(* sign-in and sign-out events (lib/auth.ts) and both token stores         *)
(* (refresh-token-store.ts on PostgreSQL, InMemoryRefreshTokenStore).      *)
(*                                                                         *)
(* A request is cut at each await that touches the token table.  The       *)
(* browsers' cookies are part of the model: answers arrive in any order,   *)
(* or not at all, and tabs of one browser share a cookie.                  *)
(***************************************************************************)
EXTENDS Naturals, FiniteSets

CONSTANTS
  Token,       \* the raw tokens randomUUID may return
  User,
  Device,      \* browsers, each with one cookie jar
  Req,         \* contexts of concurrent requests
  None,
  Stores,      \* the stores to consider, of "prisma" and "memory"
  MaxMishaps   \* bound on Abort

ASSUME TokenAssumption ==
  /\ None \notin Token \cup User \cup Device
  /\ Stores \subseteq {"prisma", "memory"}
  /\ MaxMishaps \in Nat

VARIABLES
  store,       \* the store of this deployment; it never changes
  rows,        \* rows[t]: the refresh_tokens row of t: absent, live or used
  familyOf,    \* per issued token: its family (named after the family's first
  ownerOf,     \*   token), its user, the device and the token it was issued to
  deviceOf,
  parentOf,
  expired,     \* tokens whose expiresAt has passed
  jar,         \* jar[d]: the token in the refresh cookie
  session,     \* session[d]: user of the Auth.js session, None if absent or expired
  pc, kind,    \* per request: next await, and which handler
  dev, raw,    \*   the device, the token it presented
  late,        \*   expiresAt <= now, with the `now` of the handler
  who, new,    \*   its user, the token its answer sets
  redeemed,    \* history: tokens for which a markUsedAtomically took effect
  suspect,     \* history: devices that sent requests in parallel or missed an answer
  mishaps

tokenVars == <<store, familyOf, ownerOf, deviceOf, parentOf>>
clientVars == <<jar, session>>
localVars == <<kind, dev, raw, who>>
historyVars == <<redeemed, suspect, mishaps>>
vars == <<rows, tokenVars, expired, clientVars, pc, localVars, late, new, historyVars>>

Pc == {"idle", "mark", "load", "classify", "revoke", "save", "signout", "answer"}

\* The row states and locals a request can have; a row always has a family.
TypeOK ==
  /\ store \in Stores
  /\ rows \in [Token -> {"absent", "live", "used"}]
  /\ familyOf \in [Token -> Token \cup {None}]
  /\ ownerOf \in [Token -> User \cup {None}]
  /\ deviceOf \in [Token -> Device \cup {None}]
  /\ parentOf \in [Token -> Token \cup {None}]
  /\ \A t \in Token : rows[t] # "absent" => familyOf[t] # None
  /\ expired \subseteq Token
  /\ jar \in [Device -> Token \cup {None}]
  /\ session \in [Device -> User \cup {None}]
  /\ pc \in [Req -> Pc]
  /\ kind \in [Req -> {"refresh", "signin", "signout"}]
  /\ dev \in [Req -> Device \cup {None}]
  /\ raw \in [Req -> Token \cup {None}]
  /\ late \in [Req -> BOOLEAN]
  /\ who \in [Req -> User \cup {None}]
  /\ new \in [Req -> Token \cup {None}]
  /\ redeemed \subseteq Token
  /\ suspect \subseteq Device
  /\ mishaps \in 0..MaxMishaps

Init ==
  /\ store \in Stores
  /\ rows = [t \in Token |-> "absent"]
  /\ familyOf = [t \in Token |-> None]
  /\ ownerOf = [t \in Token |-> None]
  /\ deviceOf = [t \in Token |-> None]
  /\ parentOf = [t \in Token |-> None]
  /\ expired = {}
  /\ jar = [d \in Device |-> None]
  /\ session = [d \in Device |-> None]
  /\ pc = [r \in Req |-> "idle"]
  /\ kind = [r \in Req |-> "refresh"]
  /\ dev = [r \in Req |-> None]
  /\ raw = [r \in Req |-> None]
  /\ late = [r \in Req |-> FALSE]
  /\ who = [r \in Req |-> None]
  /\ new = [r \in Req |-> None]
  /\ redeemed = {}
  /\ suspect = {}
  /\ mishaps = 0

-------------------------------------------------------------------------------
(* Requests and answers                                                    *)

InFlight(d) == {r \in Req : pc[r] # "idle" /\ dev[r] = d}

\* Bound: a token is left for every request that may have to issue one.
TokensLeft ==
  Cardinality({t \in Token : familyOf[t] = None})
    > Cardinality({r \in Req : pc[r] \in {"mark", "load", "save"}})

\* A request of kind k leaves browser d with its cookie or its session.
Arrive(r, d, k, token, user, p) ==
  /\ pc[r] = "idle"
  /\ pc' = [pc EXCEPT ![r] = p]
  /\ kind' = [kind EXCEPT ![r] = k]
  /\ dev' = [dev EXCEPT ![r] = d]
  /\ raw' = [raw EXCEPT ![r] = token]
  /\ who' = [who EXCEPT ![r] = user]
  /\ suspect' = IF InFlight(d) = {} THEN suspect ELSE suspect \cup {d}
  /\ UNCHANGED <<expired, clientVars, redeemed, mishaps>>

Goto(r, p) == pc' = [pc EXCEPT ![r] = p]

\* The handler is done; its answer sets the cookie to token, or clears it.
Reply(r, token) ==
  /\ Goto(r, "answer")
  /\ new' = [new EXCEPT ![r] = token]

\* A context that is idle holds nothing.
Close(r) ==
  /\ Goto(r, "idle")
  /\ kind' = [kind EXCEPT ![r] = "refresh"]
  /\ dev' = [dev EXCEPT ![r] = None]
  /\ raw' = [raw EXCEPT ![r] = None]
  /\ late' = [late EXCEPT ![r] = FALSE]
  /\ who' = [who EXCEPT ![r] = None]
  /\ new' = [new EXCEPT ![r] = None]

\* createRefreshToken and store.save: a fresh UUID, a live row.
Issue(t, f, u, d, p) ==
  /\ familyOf[t] = None
  /\ rows' = [rows EXCEPT ![t] = "live"]
  /\ familyOf' = [familyOf EXCEPT ![t] = f]
  /\ ownerOf' = [ownerOf EXCEPT ![t] = u]
  /\ deviceOf' = [deviceOf EXCEPT ![t] = d]
  /\ parentOf' = [parentOf EXCEPT ![t] = p]
  /\ UNCHANGED store

\* deleteMany over the rows of S.
Delete(S) == rows' = [t \in Token |-> IF t \in S THEN "absent" ELSE rows[t]]

-------------------------------------------------------------------------------
(* Sign-in and sign-out                                                    *)

\* authorize accepts the password; the signIn event saves the first token of a family.
SignIn(r, d, u) ==
  \E t \in Token :
    /\ TokensLeft
    /\ Arrive(r, d, "signin", None, u, "answer")
    /\ Issue(t, t, u, d, None)
    /\ new' = [new EXCEPT ![r] = t]
    /\ UNCHANGED late

\* The signOut event gets the user from the session, so none when it has expired.
SignOut(r, d) ==
  /\ Arrive(r, d, "signout", None, session[d], "signout")
  /\ UNCHANGED <<rows, tokenVars, late, new>>

\* revokeAllForUser, if there is a user.
RevokeUser(r) ==
  /\ pc[r] = "signout"
  /\ Delete({t \in Token : who[r] # None /\ ownerOf[t] = who[r]})
  /\ Reply(r, None)
  /\ UNCHANGED <<tokenVars, expired, clientVars, localVars, late, historyVars>>

-------------------------------------------------------------------------------
(* The refresh handler                                                     *)

\* A browser with a cookie asks for a refresh; without one the handler answers 401.
\* markUsedAtomically reads the clock first.
Refresh(r, d) ==
  /\ TokensLeft
  /\ jar[d] # None
  /\ Arrive(r, d, "refresh", jar[d], None, "mark")
  /\ late' = [late EXCEPT ![r] = jar[d] \in expired]
  /\ UNCHANGED <<rows, tokenVars, new>>

\* The row turns from live to used, and the handler goes on to p.
Redeem(r, p) ==
  /\ rows' = [rows EXCEPT ![raw[r]] = "used"]
  /\ redeemed' = redeemed \cup {raw[r]}
  /\ Goto(r, p)

\* Mutation: the updateMany lacks `used: false`.
MarkAnyRow(r) ==
  /\ store = "prisma"
  /\ pc[r] = "mark"
  /\ LET wins == rows[raw[r]] # "absent" /\ ~late[r]
     IN  \/ wins /\ Redeem(r, "load")
         \/ ~wins /\ Goto(r, "classify") /\ UNCHANGED <<rows, redeemed>>
  /\ UNCHANGED <<tokenVars, expired, clientVars, localVars, late, new,
                 suspect, mishaps>>

\* Mutation: a second `new Date()` in the condition of updateMany.
MarkAtSecondClock(r) ==
  /\ store = "prisma"
  /\ pc[r] = "mark"
  /\ LET wins == rows[raw[r]] = "live" /\ raw[r] \notin expired
     IN  \/ wins /\ Redeem(r, "load")
         \/ ~wins /\ Goto(r, "classify") /\ UNCHANGED <<rows, redeemed>>
  /\ UNCHANGED <<tokenVars, expired, clientVars, localVars, late, new,
                 suspect, mishaps>>

\* The conditional updateMany of PrismaRefreshTokenStore.
Mark(r) ==
  /\ store = "prisma"
  /\ pc[r] = "mark"
  /\ LET wins == rows[raw[r]] = "live" /\ ~late[r]
     IN  \/ wins /\ Redeem(r, "load")
         \/ ~wins /\ Goto(r, "classify") /\ UNCHANGED <<rows, redeemed>>
  /\ UNCHANGED <<tokenVars, expired, clientVars, localVars, late, new,
                 suspect, mishaps>>

\* Mutation: the winner does not look whether its row is still there.
LoadUnchecked(r) ==
  /\ pc[r] = "load"
  /\ Goto(r, "save")
  /\ UNCHANGED <<rows, tokenVars, expired, clientVars, localVars, late, new, historyVars>>

\* The winner reads its row; if a revocation deleted it, the token is not found.
Load(r) ==
  /\ pc[r] = "load"
  /\ \/ rows[raw[r]] = "absent" /\ Reply(r, None)
     \/ rows[raw[r]] # "absent" /\ Goto(r, "save") /\ UNCHANGED new
  /\ UNCHANGED <<rows, tokenVars, expired, clientVars, localVars, late, historyVars>>

\* The loser reads the row to tell why: used is a reuse; expired and not found
\* are answered alike.
Classify(r) ==
  /\ pc[r] = "classify"
  /\ \/ rows[raw[r]] = "used" /\ Goto(r, "revoke") /\ UNCHANGED new
     \/ rows[raw[r]] # "used" /\ Reply(r, None)
  /\ UNCHANGED <<rows, tokenVars, expired, clientVars, localVars, late, historyVars>>

\* markUsedAtomically of InMemoryRefreshTokenStore has no await, and looks at the
\* expiry before `used`.
MarkInMemory(r) ==
  /\ store = "memory"
  /\ pc[r] = "mark"
  /\ LET row == rows[raw[r]]
         over == raw[r] \in expired
     IN  \/ row = "live" /\ ~over /\ Redeem(r, "save") /\ UNCHANGED new
         \/ row = "used" /\ ~over /\ Goto(r, "revoke") /\ UNCHANGED <<rows, redeemed, new>>
         \/ (row = "absent" \/ over) /\ Reply(r, None) /\ UNCHANGED <<rows, redeemed>>
  /\ UNCHANGED <<tokenVars, expired, clientVars, localVars, late,
                 suspect, mishaps>>

\* A reuse: revokeFamily, 403, cookie cleared.
Revoke(r) ==
  /\ pc[r] = "revoke"
  /\ Delete({t \in Token : familyOf[t] = familyOf[raw[r]]})
  /\ Reply(r, None)
  /\ UNCHANGED <<tokenVars, expired, clientVars, localVars, late, historyVars>>

\* Mutation: createRefreshToken is called without the family.
SaveNewFamily(r) ==
  /\ pc[r] = "save"
  /\ \E t \in Token :
       /\ Issue(t, t, ownerOf[raw[r]], dev[r], raw[r])
       /\ Reply(r, t)
  /\ UNCHANGED <<expired, clientVars, localVars, late, historyVars>>

\* The winner saves the successor, in the same family and for the same user.
Save(r) ==
  /\ pc[r] = "save"
  /\ \E t \in Token :
       /\ Issue(t, familyOf[raw[r]], ownerOf[raw[r]], dev[r], raw[r])
       /\ Reply(r, t)
  /\ UNCHANGED <<expired, clientVars, localVars, late, historyVars>>

-------------------------------------------------------------------------------
(* The browser and time                                                    *)

\* Mutation: the response of a refresh sets no cookie.
AnswerWithoutCookie(r) ==
  /\ pc[r] = "answer"
  /\ jar' = [jar EXCEPT ![dev[r]] = IF kind[r] = "refresh" THEN @ ELSE new[r]]
  /\ session' = [session EXCEPT ![dev[r]] = IF kind[r] = "refresh" THEN @ ELSE
                                            IF kind[r] = "signin" THEN who[r] ELSE None]
  /\ Close(r)
  /\ UNCHANGED <<rows, tokenVars, expired, historyVars>>

\* The browser applies the Set-Cookie headers of an answer.
Answer(r) ==
  /\ pc[r] = "answer"
  /\ jar' = [jar EXCEPT ![dev[r]] = new[r]]
  /\ session' = [session EXCEPT ![dev[r]] = CASE kind[r] = "refresh" -> @
                                              [] kind[r] = "signin" -> who[r]
                                              [] kind[r] = "signout" -> None]
  /\ Close(r)
  /\ UNCHANGED <<rows, tokenVars, expired, historyVars>>

\* An await throws, the process dies, or the answer is lost: no cookie changes.
Abort(r) ==
  /\ pc[r] # "idle"
  /\ mishaps < MaxMishaps
  /\ mishaps' = mishaps + 1
  /\ suspect' = suspect \cup {dev[r]}
  /\ Close(r)
  /\ UNCHANGED <<rows, tokenVars, expired, clientVars, redeemed>>

\* Seven days after its issue a token expires, and after its predecessor.
Expire(t) ==
  /\ familyOf[t] # None
  /\ t \notin expired
  /\ parentOf[t] \in expired \cup {None}
  /\ expired' = expired \cup {t}
  /\ UNCHANGED <<rows, tokenVars, clientVars, pc, localVars, late, new, historyVars>>

\* The cookie has the lifetime of its token; the browser's clock may be behind.
DropCookie(d) ==
  /\ jar[d] \in expired
  /\ jar' = [jar EXCEPT ![d] = None]
  /\ UNCHANGED <<rows, tokenVars, expired, session, pc, localVars, late, new, historyVars>>

\* The session lives fifteen minutes.
EndSession(d) ==
  /\ session[d] # None
  /\ session' = [session EXCEPT ![d] = None]
  /\ UNCHANGED <<rows, tokenVars, expired, jar, pc, localVars, late, new, historyVars>>

HandlerStep(r) ==
  \/ Mark(r) \/ Load(r) \/ Classify(r) \/ MarkInMemory(r) \/ Revoke(r) \/ Save(r)
  \/ RevokeUser(r)

Next ==
  \/ \E r \in Req, d \in Device : Refresh(r, d) \/ SignOut(r, d)
  \/ \E r \in Req, d \in Device, u \in User : SignIn(r, d, u)
  \/ \E r \in Req : HandlerStep(r) \/ Answer(r) \/ Abort(r)
  \/ \E t \in Token : Expire(t)
  \/ \E d \in Device : DropCookie(d) \/ EndSession(d)

Spec == Init /\ [][Next]_vars

-------------------------------------------------------------------------------
(* Properties                                                              *)

\* A family is a chain: never two of its tokens can be redeemed, however many
\* refreshes of it run at once (the atomic updateMany of markUsedAtomically).
OneLivePerFamily ==
  \A s, t \in Token :
    rows[s] = "live" /\ rows[t] = "live" /\ familyOf[s] = familyOf[t] => s = t

\* The family is revoked only if the browser that is refused ran requests in
\* parallel or missed an answer: who refreshes one at a time, and gets every
\* answer, is never accused of a reuse (the reuse branch of route.ts).
NoFalseAlarm ==
  \A r \in Req : pc[r] = "revoke" => dev[r] \in suspect

\* The classification after a lost updateMany finds one of its three reasons; the
\* last return of markUsedAtomically is "theoretically unreachable".
LossHasReason ==
  \A r \in Req : pc[r] = "classify" => rows[raw[r]] \in {"absent", "used"} \/ late[r]

\* A family without rows that no handler is about to extend.
Extinct(f) ==
  /\ familyOf[f] = f
  /\ \A t \in Token : familyOf[t] = f => rows[t] = "absent"
  /\ \A r \in Req : pc[r] = "save" => familyOf[raw[r]] # f

\* A family that a revocation or sign-out has removed stays removed, unless a
\* refresh had got past its last check before (the check of Load).
ExtinctStaysExtinct ==
  [][\A f \in Token : Extinct(f) => Extinct(f)']_vars

\* A family goes as a whole: once a row of it is deleted none is left.  Sign-out
\* "invalidates all refresh tokens of the user" (signOut event), a reuse "the whole
\* chain" (comment of revokeFamily).
RevokedFamilyIsGone ==
  \A s, t \in Token :
    familyOf[s] # None /\ familyOf[s] = familyOf[t] /\ rows[s] = "absent"
      => rows[t] = "absent"

\* An expired token never has its family revoked: "expired ... only 401 and the
\* cookie cleared" (header of route.ts).
ExpiredIsHarmless ==
  \A r \in Req : pc[r] = "revoke" => ~late[r]

\* The in-memory store keeps this: it looks at the expiry before `used`.
ExpiredIsHarmlessInMemory == store = "memory" => ExpiredIsHarmless

\* Both stores implement the rotation of TokenRotation.
Rotation == INSTANCE TokenRotation WITH
  family <- familyOf,
  parent <- parentOf,
  valid <- {t \in Token : rows[t] = "live"},
  redeemed <- redeemed

RotationImplemented == Rotation!RotationSpec
===============================================================================
