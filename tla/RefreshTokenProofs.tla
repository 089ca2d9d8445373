-------------------------- MODULE RefreshTokenProofs --------------------------
(***************************************************************************)
(* Proofs about RefreshToken, for every number of tokens, browsers, users  *)
(* and concurrent requests, and for both stores.                           *)
(***************************************************************************)
EXTENDS RefreshToken, TLAPS

\* The handlers that still hold the token of their request.
Holding == {"mark", "load", "classify", "revoke", "save"}
\* The handlers whose token has been redeemed, up to the save of the successor.
Winning == {"load", "save"}

\* Requests have a browser; tokens in cookies, requests and answers were issued.
Known ==
  /\ \A r \in Req : pc[r] # "idle" => dev[r] \in Device
  /\ \A r \in Req : pc[r] \in Holding => raw[r] \in Token /\ familyOf[raw[r]] # None
  /\ \A r \in Req : new[r] # None => pc[r] = "answer" /\ familyOf[new[r]] # None
  /\ \A d \in Device : jar[d] # None => familyOf[jar[d]] # None
  /\ \A t \in Token : familyOf[t] # None => familyOf[familyOf[t]] = familyOf[t]

\* In each family there is one live token or one request that will issue the next.
OneHead ==
  /\ OneLivePerFamily
  /\ \A r \in Req, t \in Token :
       pc[r] \in Winning /\ rows[t] = "live" => familyOf[t] # familyOf[raw[r]]
  /\ \A r, s \in Req :
       pc[r] \in Winning /\ pc[s] \in Winning /\ familyOf[raw[r]] = familyOf[raw[s]] => r = s

\* Only redeemed tokens have successors, and none before its request saves one.
Lineage ==
  /\ \A t \in Token : rows[t] = "live" \/ familyOf[t] = None => t \notin redeemed
  /\ \A t, c \in Token : parentOf[c] = t => t \in redeemed
  /\ \A t \in Token : familyOf[t] = None => parentOf[t] = None
  /\ \A r \in Req : pc[r] \in Winning =>
       raw[r] \in redeemed /\ \A c \in Token : parentOf[c] # raw[r]

ChainInv == TypeOK /\ Known /\ OneHead /\ Lineage

\* A token never leaves the browser it was issued to.
Home ==
  /\ \A d \in Device : jar[d] # None => deviceOf[jar[d]] = d
  /\ \A r \in Req : pc[r] \in Holding => deviceOf[raw[r]] = dev[r]
  /\ \A r \in Req : new[r] # None => deviceOf[new[r]] = dev[r]

\* A browser that is not suspect has one request at a time.
Alone ==
  \A r, s \in Req :
    pc[r] # "idle" /\ pc[s] # "idle" /\ dev[r] = dev[s] /\ r # s => dev[r] \in suspect

\* Such a browser holds a used token only until the answer that replaces it.
Fresh ==
  /\ \A r \in Req : dev[r] \notin suspect =>
       /\ pc[r] \in {"mark", "classify"} => rows[raw[r]] # "used"
       /\ pc[r] # "revoke"
       /\ new[r] # None => rows[new[r]] # "used"
  /\ \A d \in Device :
       d \notin suspect /\ jar[d] # None /\ rows[jar[d]] = "used"
         => \E r \in Req : pc[r] \in {"load", "save", "answer"} /\ dev[r] = d

HonestInv == TypeOK /\ Known /\ Home /\ Alone /\ Fresh
-------------------------------------------------------------------------------

\* Every step keeps the types.
LEMMA TypeStep ==
  ASSUME TypeOK, Known, [Next]_vars
  PROVE  TypeOK'
<1> USE TokenAssumption
    DEF TypeOK, tokenVars, clientVars, localVars, historyVars, Goto, Known, Pc,
        Holding
<1>1. ASSUME NEW r \in Req, NEW d \in Device, Refresh(r, d) PROVE TypeOK'
  BY <1>1 DEF Refresh, Arrive
<1>2. ASSUME NEW r \in Req, NEW d \in Device, SignOut(r, d) PROVE TypeOK'
  BY <1>2 DEF SignOut, Arrive
<1>3. ASSUME NEW r \in Req, NEW d \in Device, NEW u \in User, SignIn(r, d, u) PROVE TypeOK'
  BY <1>3 DEF SignIn, Arrive, Issue
<1>4. ASSUME NEW r \in Req, Mark(r) PROVE TypeOK'
  BY <1>4 DEF Mark, Redeem
<1>5. ASSUME NEW r \in Req, Load(r) PROVE TypeOK'
  BY <1>5 DEF Load, Reply
<1>6. ASSUME NEW r \in Req, Classify(r) PROVE TypeOK'
  BY <1>6 DEF Classify, Reply
<1>7. ASSUME NEW r \in Req, MarkInMemory(r) PROVE TypeOK'
  BY <1>7 DEF MarkInMemory, Redeem, Reply
<1>8. ASSUME NEW r \in Req, Revoke(r) PROVE TypeOK'
  BY <1>8 DEF Revoke, Delete, Reply
<1>9. ASSUME NEW r \in Req, Save(r) PROVE TypeOK'
  BY <1>9 DEF Save, Issue, Reply
<1>10. ASSUME NEW r \in Req, RevokeUser(r) PROVE TypeOK'
  BY <1>10 DEF RevokeUser, Delete, Reply
<1>11. ASSUME NEW r \in Req, Answer(r) PROVE TypeOK'
  BY <1>11 DEF Answer, Close
<1>12. ASSUME NEW r \in Req, Abort(r) PROVE TypeOK'
  BY <1>12 DEF Abort, Close
<1>13. ASSUME NEW t \in Token, Expire(t) PROVE TypeOK'
  BY <1>13 DEF Expire
<1>14. ASSUME NEW d \in Device, DropCookie(d) PROVE TypeOK'
  BY <1>14 DEF DropCookie
<1>15. ASSUME NEW d \in Device, EndSession(d) PROVE TypeOK'
  BY <1>15 DEF EndSession
<1>16. CASE UNCHANGED vars
  BY <1>16 DEF vars
<1>17. QED
  BY <1>1, <1>2, <1>3, <1>4, <1>5, <1>6, <1>7, <1>8, <1>9, <1>10, <1>11, <1>12,
     <1>13, <1>14, <1>15, <1>16
  DEF Next, HandlerStep

\* Every step keeps what is known of tokens.
LEMMA KnownStep ==
  ASSUME TypeOK, Known, [Next]_vars
  PROVE  Known'
<1> USE TokenAssumption
    DEF TypeOK, tokenVars, clientVars, localVars, historyVars, Goto, Known, Pc,
        Holding
<1>1. ASSUME NEW r \in Req, NEW d \in Device, Refresh(r, d) PROVE Known'
  BY <1>1 DEF Refresh, Arrive
<1>2. ASSUME NEW r \in Req, NEW d \in Device, SignOut(r, d) PROVE Known'
  BY <1>2 DEF SignOut, Arrive
<1>3. ASSUME NEW r \in Req, NEW d \in Device, NEW u \in User, SignIn(r, d, u) PROVE Known'
  BY <1>3 DEF SignIn, Arrive, Issue
<1>4. ASSUME NEW r \in Req, Mark(r) PROVE Known'
  BY <1>4 DEF Mark, Redeem
<1>5. ASSUME NEW r \in Req, Load(r) PROVE Known'
  BY <1>5 DEF Load, Reply
<1>6. ASSUME NEW r \in Req, Classify(r) PROVE Known'
  BY <1>6 DEF Classify, Reply
<1>7. ASSUME NEW r \in Req, MarkInMemory(r) PROVE Known'
  BY <1>7 DEF MarkInMemory, Redeem, Reply
<1>8. ASSUME NEW r \in Req, Revoke(r) PROVE Known'
  BY <1>8 DEF Revoke, Delete, Reply
<1>9. ASSUME NEW r \in Req, Save(r) PROVE Known'
  BY <1>9 DEF Save, Issue, Reply
<1>10. ASSUME NEW r \in Req, RevokeUser(r) PROVE Known'
  BY <1>10 DEF RevokeUser, Delete, Reply
<1>11. ASSUME NEW r \in Req, Answer(r) PROVE Known'
  BY <1>11 DEF Answer, Close
<1>12. ASSUME NEW r \in Req, Abort(r) PROVE Known'
  BY <1>12 DEF Abort, Close
<1>13. ASSUME NEW t \in Token, Expire(t) PROVE Known'
  BY <1>13 DEF Expire
<1>14. ASSUME NEW d \in Device, DropCookie(d) PROVE Known'
  BY <1>14 DEF DropCookie
<1>15. ASSUME NEW d \in Device, EndSession(d) PROVE Known'
  BY <1>15 DEF EndSession
<1>16. CASE UNCHANGED vars
  BY <1>16 DEF vars
<1>17. QED
  BY <1>1, <1>2, <1>3, <1>4, <1>5, <1>6, <1>7, <1>8, <1>9, <1>10, <1>11, <1>12,
     <1>13, <1>14, <1>15, <1>16
  DEF Next, HandlerStep

-------------------------------------------------------------------------------
(* The chain of tokens.                                                    *)

\* Every step keeps one head per family.
LEMMA OneHeadStep ==
  ASSUME TypeOK, Known, OneHead, [Next]_vars
  PROVE  OneHead'
<1> USE TokenAssumption
    DEF TypeOK, tokenVars, clientVars, localVars, historyVars, Goto, Known,
        OneHead, OneLivePerFamily, Winning, Holding
<1>1. ASSUME NEW r \in Req, NEW d \in Device, Refresh(r, d) PROVE OneHead'
  BY <1>1 DEF Refresh, Arrive
<1>2. ASSUME NEW r \in Req, NEW d \in Device, SignOut(r, d) PROVE OneHead'
  BY <1>2 DEF SignOut, Arrive
<1>3. ASSUME NEW r \in Req, NEW d \in Device, NEW u \in User, SignIn(r, d, u) PROVE OneHead'
  BY <1>3 DEF SignIn, Arrive, Issue
<1>4. ASSUME NEW r \in Req, Mark(r) PROVE OneHead'
  BY <1>4, SMTT(30) DEF Mark, Redeem
<1>5. ASSUME NEW r \in Req, Load(r) PROVE OneHead'
  BY <1>5 DEF Load, Reply
<1>6. ASSUME NEW r \in Req, Classify(r) PROVE OneHead'
  BY <1>6 DEF Classify, Reply
<1>7. ASSUME NEW r \in Req, MarkInMemory(r) PROVE OneHead'
  BY <1>7, SMTT(30) DEF MarkInMemory, Redeem, Reply
<1>8. ASSUME NEW r \in Req, Revoke(r) PROVE OneHead'
  BY <1>8 DEF Revoke, Delete, Reply
<1>9. ASSUME NEW r \in Req, Save(r) PROVE OneHead'
  BY <1>9 DEF Save, Issue, Reply
<1>10. ASSUME NEW r \in Req, RevokeUser(r) PROVE OneHead'
  BY <1>10 DEF RevokeUser, Delete, Reply
<1>11. ASSUME NEW r \in Req, Answer(r) PROVE OneHead'
  BY <1>11 DEF Answer, Close
<1>12. ASSUME NEW r \in Req, Abort(r) PROVE OneHead'
  BY <1>12 DEF Abort, Close
<1>13. ASSUME NEW t \in Token, Expire(t) PROVE OneHead'
  BY <1>13 DEF Expire
<1>14. ASSUME NEW d \in Device, DropCookie(d) PROVE OneHead'
  BY <1>14 DEF DropCookie
<1>15. ASSUME NEW d \in Device, EndSession(d) PROVE OneHead'
  BY <1>15 DEF EndSession
<1>16. CASE UNCHANGED vars
  BY <1>16 DEF vars
<1>17. QED
  BY <1>1, <1>2, <1>3, <1>4, <1>5, <1>6, <1>7, <1>8, <1>9, <1>10, <1>11, <1>12,
     <1>13, <1>14, <1>15, <1>16
  DEF Next, HandlerStep

\* Every step keeps the lineage.
LEMMA LineageStep ==
  ASSUME ChainInv, [Next]_vars
  PROVE  Lineage'
<1> USE TokenAssumption
    DEF TypeOK, tokenVars, clientVars, localVars, historyVars, Goto, ChainInv,
        Known, OneHead, OneLivePerFamily, Lineage, Winning, Holding
<1>1. ASSUME NEW r \in Req, NEW d \in Device, Refresh(r, d) PROVE Lineage'
  BY <1>1 DEF Refresh, Arrive
<1>2. ASSUME NEW r \in Req, NEW d \in Device, SignOut(r, d) PROVE Lineage'
  BY <1>2 DEF SignOut, Arrive
<1>3. ASSUME NEW r \in Req, NEW d \in Device, NEW u \in User, SignIn(r, d, u) PROVE Lineage'
  BY <1>3 DEF SignIn, Arrive, Issue
<1>4. ASSUME NEW r \in Req, Mark(r) PROVE Lineage'
  BY <1>4 DEF Mark, Redeem
<1>5. ASSUME NEW r \in Req, Load(r) PROVE Lineage'
  BY <1>5 DEF Load, Reply
<1>6. ASSUME NEW r \in Req, Classify(r) PROVE Lineage'
  BY <1>6 DEF Classify, Reply
<1>7. ASSUME NEW r \in Req, MarkInMemory(r) PROVE Lineage'
  BY <1>7 DEF MarkInMemory, Redeem, Reply
<1>8. ASSUME NEW r \in Req, Revoke(r) PROVE Lineage'
  BY <1>8 DEF Revoke, Delete, Reply
<1>9. ASSUME NEW r \in Req, Save(r) PROVE Lineage'
  BY <1>9 DEF Save, Issue, Reply
<1>10. ASSUME NEW r \in Req, RevokeUser(r) PROVE Lineage'
  BY <1>10 DEF RevokeUser, Delete, Reply
<1>11. ASSUME NEW r \in Req, Answer(r) PROVE Lineage'
  BY <1>11 DEF Answer, Close
<1>12. ASSUME NEW r \in Req, Abort(r) PROVE Lineage'
  BY <1>12 DEF Abort, Close
<1>13. ASSUME NEW t \in Token, Expire(t) PROVE Lineage'
  BY <1>13 DEF Expire
<1>14. ASSUME NEW d \in Device, DropCookie(d) PROVE Lineage'
  BY <1>14 DEF DropCookie
<1>15. ASSUME NEW d \in Device, EndSession(d) PROVE Lineage'
  BY <1>15 DEF EndSession
<1>16. CASE UNCHANGED vars
  BY <1>16 DEF vars
<1>17. QED
  BY <1>1, <1>2, <1>3, <1>4, <1>5, <1>6, <1>7, <1>8, <1>9, <1>10, <1>11, <1>12,
     <1>13, <1>14, <1>15, <1>16
  DEF Next, HandlerStep

\* Every step keeps tokens at home.
LEMMA HomeStep ==
  ASSUME TypeOK, Known, Home, [Next]_vars
  PROVE  Home'
<1> USE TokenAssumption
    DEF TypeOK, tokenVars, clientVars, localVars, historyVars, Goto, Known,
        Home, Holding
<1>1. ASSUME NEW r \in Req, NEW d \in Device, Refresh(r, d) PROVE Home'
  BY <1>1 DEF Refresh, Arrive
<1>2. ASSUME NEW r \in Req, NEW d \in Device, SignOut(r, d) PROVE Home'
  BY <1>2 DEF SignOut, Arrive
<1>3. ASSUME NEW r \in Req, NEW d \in Device, NEW u \in User, SignIn(r, d, u) PROVE Home'
  BY <1>3 DEF SignIn, Arrive, Issue
<1>4. ASSUME NEW r \in Req, Mark(r) PROVE Home'
  BY <1>4 DEF Mark, Redeem
<1>5. ASSUME NEW r \in Req, Load(r) PROVE Home'
  BY <1>5 DEF Load, Reply
<1>6. ASSUME NEW r \in Req, Classify(r) PROVE Home'
  BY <1>6 DEF Classify, Reply
<1>7. ASSUME NEW r \in Req, MarkInMemory(r) PROVE Home'
  BY <1>7 DEF MarkInMemory, Redeem, Reply
<1>8. ASSUME NEW r \in Req, Revoke(r) PROVE Home'
  BY <1>8 DEF Revoke, Delete, Reply
<1>9. ASSUME NEW r \in Req, Save(r) PROVE Home'
  BY <1>9 DEF Save, Issue, Reply
<1>10. ASSUME NEW r \in Req, RevokeUser(r) PROVE Home'
  BY <1>10 DEF RevokeUser, Delete, Reply
<1>11. ASSUME NEW r \in Req, Answer(r) PROVE Home'
  BY <1>11 DEF Answer, Close
<1>12. ASSUME NEW r \in Req, Abort(r) PROVE Home'
  BY <1>12 DEF Abort, Close
<1>13. ASSUME NEW t \in Token, Expire(t) PROVE Home'
  BY <1>13 DEF Expire
<1>14. ASSUME NEW d \in Device, DropCookie(d) PROVE Home'
  BY <1>14 DEF DropCookie
<1>15. ASSUME NEW d \in Device, EndSession(d) PROVE Home'
  BY <1>15 DEF EndSession
<1>16. CASE UNCHANGED vars
  BY <1>16 DEF vars
<1>17. QED
  BY <1>1, <1>2, <1>3, <1>4, <1>5, <1>6, <1>7, <1>8, <1>9, <1>10, <1>11, <1>12,
     <1>13, <1>14, <1>15, <1>16
  DEF Next, HandlerStep

\* A second request of a browser makes it suspect.
LEMMA AloneStep ==
  ASSUME TypeOK, Known, Alone, [Next]_vars
  PROVE  Alone'
<1> USE TokenAssumption
    DEF TypeOK, tokenVars, clientVars, localVars, historyVars, Goto, Known,
        Alone, InFlight
<1>1. ASSUME NEW r \in Req, NEW d \in Device, Refresh(r, d) PROVE Alone'
  BY <1>1 DEF Refresh, Arrive
<1>2. ASSUME NEW r \in Req, NEW d \in Device, SignOut(r, d) PROVE Alone'
  BY <1>2 DEF SignOut, Arrive
<1>3. ASSUME NEW r \in Req, NEW d \in Device, NEW u \in User, SignIn(r, d, u) PROVE Alone'
  BY <1>3 DEF SignIn, Arrive, Issue
<1>4. ASSUME NEW r \in Req, Mark(r) PROVE Alone'
  BY <1>4 DEF Mark, Redeem
<1>5. ASSUME NEW r \in Req, Load(r) PROVE Alone'
  BY <1>5 DEF Load, Reply
<1>6. ASSUME NEW r \in Req, Classify(r) PROVE Alone'
  BY <1>6 DEF Classify, Reply
<1>7. ASSUME NEW r \in Req, MarkInMemory(r) PROVE Alone'
  BY <1>7 DEF MarkInMemory, Redeem, Reply
<1>8. ASSUME NEW r \in Req, Revoke(r) PROVE Alone'
  BY <1>8 DEF Revoke, Delete, Reply
<1>9. ASSUME NEW r \in Req, Save(r) PROVE Alone'
  BY <1>9 DEF Save, Issue, Reply
<1>10. ASSUME NEW r \in Req, RevokeUser(r) PROVE Alone'
  BY <1>10 DEF RevokeUser, Delete, Reply
<1>11. ASSUME NEW r \in Req, Answer(r) PROVE Alone'
  BY <1>11 DEF Answer, Close
<1>12. ASSUME NEW r \in Req, Abort(r) PROVE Alone'
  BY <1>12 DEF Abort, Close
<1>13. ASSUME NEW t \in Token, Expire(t) PROVE Alone'
  BY <1>13 DEF Expire
<1>14. ASSUME NEW d \in Device, DropCookie(d) PROVE Alone'
  BY <1>14 DEF DropCookie
<1>15. ASSUME NEW d \in Device, EndSession(d) PROVE Alone'
  BY <1>15 DEF EndSession
<1>16. CASE UNCHANGED vars
  BY <1>16 DEF vars
<1>17. QED
  BY <1>1, <1>2, <1>3, <1>4, <1>5, <1>6, <1>7, <1>8, <1>9, <1>10, <1>11, <1>12,
     <1>13, <1>14, <1>15, <1>16
  DEF Next, HandlerStep

\* The browser that is not suspect keeps a token it may redeem.
LEMMA FreshStep ==
  ASSUME HonestInv, [Next]_vars
  PROVE  Fresh'
<1> USE TokenAssumption
    DEF TypeOK, tokenVars, clientVars, localVars, historyVars, Goto, HonestInv,
        Known, Home, Alone, Fresh, InFlight, Holding
<1>1. ASSUME NEW r \in Req, NEW d \in Device, Refresh(r, d) PROVE Fresh'
  BY <1>1 DEF Refresh, Arrive
<1>2. ASSUME NEW r \in Req, NEW d \in Device, SignOut(r, d) PROVE Fresh'
  BY <1>2 DEF SignOut, Arrive
<1>3. ASSUME NEW r \in Req, NEW d \in Device, NEW u \in User, SignIn(r, d, u) PROVE Fresh'
  BY <1>3 DEF SignIn, Arrive, Issue
<1>4. ASSUME NEW r \in Req, Mark(r) PROVE Fresh'
  BY <1>4 DEF Mark, Redeem
<1>5. ASSUME NEW r \in Req, Load(r) PROVE Fresh'
  BY <1>5 DEF Load, Reply
<1>6. ASSUME NEW r \in Req, Classify(r) PROVE Fresh'
  BY <1>6 DEF Classify, Reply
<1>7. ASSUME NEW r \in Req, MarkInMemory(r) PROVE Fresh'
  BY <1>7 DEF MarkInMemory, Redeem, Reply
<1>8. ASSUME NEW r \in Req, Revoke(r) PROVE Fresh'
  BY <1>8 DEF Revoke, Delete, Reply
<1>9. ASSUME NEW r \in Req, Save(r) PROVE Fresh'
  BY <1>9 DEF Save, Issue, Reply
<1>10. ASSUME NEW r \in Req, RevokeUser(r) PROVE Fresh'
  BY <1>10 DEF RevokeUser, Delete, Reply
<1>11. ASSUME NEW r \in Req, Answer(r) PROVE Fresh'
  BY <1>11 DEF Answer, Close
<1>12. ASSUME NEW r \in Req, Abort(r) PROVE Fresh'
  BY <1>12 DEF Abort, Close
<1>13. ASSUME NEW t \in Token, Expire(t) PROVE Fresh'
  BY <1>13 DEF Expire
<1>14. ASSUME NEW d \in Device, DropCookie(d) PROVE Fresh'
  BY <1>14 DEF DropCookie
<1>15. ASSUME NEW d \in Device, EndSession(d) PROVE Fresh'
  BY <1>15 DEF EndSession
<1>16. CASE UNCHANGED vars
  BY <1>16 DEF vars
<1>17. QED
  BY <1>1, <1>2, <1>3, <1>4, <1>5, <1>6, <1>7, <1>8, <1>9, <1>10, <1>11, <1>12,
     <1>13, <1>14, <1>15, <1>16
  DEF Next, HandlerStep

-------------------------------------------------------------------------------
(* What a lost updateMany, a revocation and the refinement need.            *)

\* A row that cannot be redeemed never can again.
LEMMA LossStep ==
  ASSUME TypeOK, Known, LossHasReason, [Next]_vars
  PROVE  LossHasReason'
<1> USE TokenAssumption
    DEF TypeOK, tokenVars, clientVars, localVars, historyVars, Goto, Known,
        LossHasReason, Holding
<1>1. ASSUME NEW r \in Req, NEW d \in Device, Refresh(r, d) PROVE LossHasReason'
  BY <1>1 DEF Refresh, Arrive
<1>2. ASSUME NEW r \in Req, NEW d \in Device, SignOut(r, d) PROVE LossHasReason'
  BY <1>2 DEF SignOut, Arrive
<1>3. ASSUME NEW r \in Req, NEW d \in Device, NEW u \in User, SignIn(r, d, u) PROVE LossHasReason'
  BY <1>3 DEF SignIn, Arrive, Issue
<1>4. ASSUME NEW r \in Req, Mark(r) PROVE LossHasReason'
  BY <1>4 DEF Mark, Redeem
<1>5. ASSUME NEW r \in Req, Load(r) PROVE LossHasReason'
  BY <1>5 DEF Load, Reply
<1>6. ASSUME NEW r \in Req, Classify(r) PROVE LossHasReason'
  BY <1>6 DEF Classify, Reply
<1>7. ASSUME NEW r \in Req, MarkInMemory(r) PROVE LossHasReason'
  BY <1>7 DEF MarkInMemory, Redeem, Reply
<1>8. ASSUME NEW r \in Req, Revoke(r) PROVE LossHasReason'
  BY <1>8 DEF Revoke, Delete, Reply
<1>9. ASSUME NEW r \in Req, Save(r) PROVE LossHasReason'
  BY <1>9 DEF Save, Issue, Reply
<1>10. ASSUME NEW r \in Req, RevokeUser(r) PROVE LossHasReason'
  BY <1>10 DEF RevokeUser, Delete, Reply
<1>11. ASSUME NEW r \in Req, Answer(r) PROVE LossHasReason'
  BY <1>11 DEF Answer, Close
<1>12. ASSUME NEW r \in Req, Abort(r) PROVE LossHasReason'
  BY <1>12 DEF Abort, Close
<1>13. ASSUME NEW t \in Token, Expire(t) PROVE LossHasReason'
  BY <1>13 DEF Expire
<1>14. ASSUME NEW d \in Device, DropCookie(d) PROVE LossHasReason'
  BY <1>14 DEF DropCookie
<1>15. ASSUME NEW d \in Device, EndSession(d) PROVE LossHasReason'
  BY <1>15 DEF EndSession
<1>16. CASE UNCHANGED vars
  BY <1>16 DEF vars
<1>17. QED
  BY <1>1, <1>2, <1>3, <1>4, <1>5, <1>6, <1>7, <1>8, <1>9, <1>10, <1>11, <1>12,
     <1>13, <1>14, <1>15, <1>16
  DEF Next, HandlerStep

\* No step revives a family that is extinct.
LEMMA ExtinctStep ==
  ASSUME TypeOK, Known, NEW f \in Token, Extinct(f), [Next]_vars
  PROVE  Extinct(f)'
<1> USE TokenAssumption
    DEF TypeOK, tokenVars, clientVars, localVars, historyVars, Goto, Known,
        Extinct, Holding
<1>1. ASSUME NEW r \in Req, NEW d \in Device, Refresh(r, d) PROVE Extinct(f)'
  BY <1>1 DEF Refresh, Arrive
<1>2. ASSUME NEW r \in Req, NEW d \in Device, SignOut(r, d) PROVE Extinct(f)'
  BY <1>2 DEF SignOut, Arrive
<1>3. ASSUME NEW r \in Req, NEW d \in Device, NEW u \in User, SignIn(r, d, u) PROVE Extinct(f)'
  BY <1>3 DEF SignIn, Arrive, Issue
<1>4. ASSUME NEW r \in Req, Mark(r) PROVE Extinct(f)'
  BY <1>4 DEF Mark, Redeem
<1>5. ASSUME NEW r \in Req, Load(r) PROVE Extinct(f)'
  BY <1>5 DEF Load, Reply
<1>6. ASSUME NEW r \in Req, Classify(r) PROVE Extinct(f)'
  BY <1>6 DEF Classify, Reply
<1>7. ASSUME NEW r \in Req, MarkInMemory(r) PROVE Extinct(f)'
  BY <1>7 DEF MarkInMemory, Redeem, Reply
<1>8. ASSUME NEW r \in Req, Revoke(r) PROVE Extinct(f)'
  BY <1>8 DEF Revoke, Delete, Reply
<1>9. ASSUME NEW r \in Req, Save(r) PROVE Extinct(f)'
  BY <1>9 DEF Save, Issue, Reply
<1>10. ASSUME NEW r \in Req, RevokeUser(r) PROVE Extinct(f)'
  BY <1>10 DEF RevokeUser, Delete, Reply
<1>11. ASSUME NEW r \in Req, Answer(r) PROVE Extinct(f)'
  BY <1>11 DEF Answer, Close
<1>12. ASSUME NEW r \in Req, Abort(r) PROVE Extinct(f)'
  BY <1>12 DEF Abort, Close
<1>13. ASSUME NEW t \in Token, Expire(t) PROVE Extinct(f)'
  BY <1>13 DEF Expire
<1>14. ASSUME NEW d \in Device, DropCookie(d) PROVE Extinct(f)'
  BY <1>14 DEF DropCookie
<1>15. ASSUME NEW d \in Device, EndSession(d) PROVE Extinct(f)'
  BY <1>15 DEF EndSession
<1>16. CASE UNCHANGED vars
  BY <1>16 DEF vars
<1>17. QED
  BY <1>1, <1>2, <1>3, <1>4, <1>5, <1>6, <1>7, <1>8, <1>9, <1>10, <1>11, <1>12,
     <1>13, <1>14, <1>15, <1>16
  DEF Next, HandlerStep

\* A step of the rotation, or none.
Rotates == [Rotation!RotationNext]_(Rotation!rotationVars)

\* Every step is a step of the rotation, or none.
LEMMA RotationStep ==
  ASSUME ChainInv, [Next]_vars
  PROVE  Rotates
<1> USE TokenAssumption
    DEF TypeOK, tokenVars, clientVars, localVars, historyVars, Goto, ChainInv,
        Known, OneHead, Lineage, Winning, Holding, Rotation!rotationVars,
        Rotation!RotationNext, Rotation!Start, Rotation!Redeem, Rotation!Renew,
        Rotation!Withdraw, Rotation!Unissued, Rotates
<1>1. ASSUME NEW r \in Req, NEW d \in Device, Refresh(r, d) PROVE Rotates
  BY <1>1 DEF Refresh, Arrive
<1>2. ASSUME NEW r \in Req, NEW d \in Device, SignOut(r, d) PROVE Rotates
  BY <1>2 DEF SignOut, Arrive
<1>3. ASSUME NEW r \in Req, NEW d \in Device, NEW u \in User, SignIn(r, d, u) PROVE Rotates
  <2>1. PICK t \in Token :
          /\ familyOf[t] = None
          /\ rows' = [rows EXCEPT ![t] = "live"]
          /\ familyOf' = [familyOf EXCEPT ![t] = t]
          /\ parentOf' = [parentOf EXCEPT ![t] = None]
          /\ redeemed' = redeemed
    BY <1>3 DEF SignIn, Arrive, Issue
  <2>2. parentOf[t] = None
    BY <2>1
  <2>3. parentOf' = parentOf
    BY <2>1, <2>2
  <2>4. {s \in Token : rows'[s] = "live"} = {s \in Token : rows[s] = "live"} \cup {t}
    BY <2>1
  <2>5. QED BY <2>1, <2>3, <2>4
<1>4. ASSUME NEW r \in Req, Mark(r) PROVE Rotates
  BY <1>4 DEF Mark, Redeem
<1>5. ASSUME NEW r \in Req, Load(r) PROVE Rotates
  BY <1>5 DEF Load, Reply
<1>6. ASSUME NEW r \in Req, Classify(r) PROVE Rotates
  BY <1>6 DEF Classify, Reply
<1>7. ASSUME NEW r \in Req, MarkInMemory(r) PROVE Rotates
  <2>1. CASE UNCHANGED <<rows, redeemed>>
    BY <1>7, <2>1 DEF MarkInMemory
  <2>2. CASE Redeem(r, "save") /\ rows[raw[r]] = "live"
    <3>1. /\ raw[r] \in Token
          /\ rows' = [rows EXCEPT ![raw[r]] = "used"]
          /\ redeemed' = redeemed \cup {raw[r]}
          /\ UNCHANGED <<familyOf, parentOf>>
      BY <1>7, <2>2 DEF MarkInMemory, Redeem
    <3>2. {s \in Token : rows'[s] = "live"} = {s \in Token : rows[s] = "live"} \ {raw[r]}
      BY <3>1
    <3>3. QED BY <2>2, <3>1, <3>2
  <2>3. QED BY <1>7, <2>1, <2>2 DEF MarkInMemory
<1>8. ASSUME NEW r \in Req, Revoke(r) PROVE Rotates
  BY <1>8 DEF Revoke, Delete, Reply
<1>9. ASSUME NEW r \in Req, Save(r) PROVE Rotates
  <2>1. PICK t \in Token :
          /\ familyOf[t] = None
          /\ rows' = [rows EXCEPT ![t] = "live"]
          /\ familyOf' = [familyOf EXCEPT ![t] = familyOf[raw[r]]]
          /\ parentOf' = [parentOf EXCEPT ![t] = raw[r]]
          /\ redeemed' = redeemed
    BY <1>9 DEF Save, Issue
  <2>2. /\ raw[r] \in Token /\ raw[r] \in redeemed
        /\ \A c \in Token : parentOf[c] # raw[r]
    BY <1>9 DEF Save
  <2>3. {s \in Token : rows'[s] = "live"} = {s \in Token : rows[s] = "live"} \cup {t}
    BY <2>1
  <2>4. Rotation!Renew(raw[r], t)
    BY <2>1, <2>2, <2>3
  <2>5. QED BY <2>2, <2>4
<1>10. ASSUME NEW r \in Req, RevokeUser(r) PROVE Rotates
  BY <1>10 DEF RevokeUser, Delete, Reply
<1>11. ASSUME NEW r \in Req, Answer(r) PROVE Rotates
  BY <1>11 DEF Answer, Close
<1>12. ASSUME NEW r \in Req, Abort(r) PROVE Rotates
  BY <1>12 DEF Abort, Close
<1>13. ASSUME NEW t \in Token, Expire(t) PROVE Rotates
  BY <1>13 DEF Expire
<1>14. ASSUME NEW d \in Device, DropCookie(d) PROVE Rotates
  BY <1>14 DEF DropCookie
<1>15. ASSUME NEW d \in Device, EndSession(d) PROVE Rotates
  BY <1>15 DEF EndSession
<1>16. CASE UNCHANGED vars
  BY <1>16 DEF vars
<1>17. QED
  BY <1>1, <1>2, <1>3, <1>4, <1>5, <1>6, <1>7, <1>8, <1>9, <1>10, <1>11, <1>12,
     <1>13, <1>14, <1>15, <1>16
  DEF Next, HandlerStep

-------------------------------------------------------------------------------
(* Theorems.                                                               *)

LEMMA ChainInvariance == Spec => []ChainInv
<1>1. Init => ChainInv
  BY TokenAssumption
  DEF Init, ChainInv, TypeOK, Known, OneHead, OneLivePerFamily, Lineage, Pc, Winning, Holding
<1>2. ChainInv /\ [Next]_vars => ChainInv'
  BY TypeStep, KnownStep, OneHeadStep, LineageStep DEF ChainInv
<1>3. QED BY <1>1, <1>2, PTL DEF Spec

\* Rows, cookies and the locals of the handlers keep their types, and every row has
\* a family (createRefreshToken).
THEOREM TokensTyped == Spec => []TypeOK
<1>1. ChainInv => TypeOK
  BY DEF ChainInv
<1>2. QED BY <1>1, ChainInvariance, PTL

\* However many refreshes race, a family never has two tokens that can be redeemed
\* (the conditional updateMany).
THEOREM SingleHead == Spec => []OneLivePerFamily
<1>1. ChainInv => OneLivePerFamily
  BY DEF ChainInv, OneHead
<1>2. QED BY <1>1, ChainInvariance, PTL

\* A browser that refreshes one at a time and gets every answer is never told of a
\* reuse, whatever other browsers do (the reuse branch of route.ts).
THEOREM NeverAccused == Spec => []NoFalseAlarm
<1>1. Init => HonestInv
  BY TokenAssumption
  DEF Init, HonestInv, TypeOK, Known, Home, Alone, Fresh, Pc, Holding
<1>2. HonestInv /\ [Next]_vars => HonestInv'
  BY TypeStep, KnownStep, HomeStep, AloneStep, FreshStep DEF HonestInv
<1>3. HonestInv => NoFalseAlarm
  BY DEF HonestInv, Fresh, NoFalseAlarm
<1>4. QED BY <1>1, <1>2, <1>3, PTL DEF Spec

\* The last return of markUsedAtomically is unreachable, as its comment says.
THEOREM EveryLossExplained == Spec => []LossHasReason
<1>1. Init => LossHasReason
  BY DEF Init, LossHasReason
<1>2. ChainInv /\ LossHasReason /\ [Next]_vars => LossHasReason'
  BY LossStep DEF ChainInv
<1>3. QED BY <1>1, <1>2, ChainInvariance, PTL DEF Spec

\* A revoked family is revived only by a handler that was already past its last
\* check (findUnique after a successful updateMany).
THEOREM NoRevival == Spec => ExtinctStaysExtinct
<1>1. ChainInv /\ [Next]_vars => [\A f \in Token : Extinct(f) => Extinct(f)']_vars
  BY ExtinctStep DEF ChainInv
<1>2. QED BY <1>1, ChainInvariance, PTL DEF Spec, ExtinctStaysExtinct

\* Both stores and their handlers implement TokenRotation: a token is redeemed at most
\* once and has at most one successor, in its family.
THEOREM ImplementsRotation == Spec => RotationImplemented
<1>1. Init => Rotation!RotationInit
  BY DEF Init, Rotation!RotationInit
<1>2. ChainInv /\ [Next]_vars => [Rotation!RotationNext]_(Rotation!rotationVars)
  BY RotationStep DEF Rotates
<1>3. QED
  BY <1>1, <1>2, ChainInvariance, PTL
  DEF Spec, RotationImplemented, Rotation!RotationSpec
===============================================================================
