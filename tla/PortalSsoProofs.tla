---------------------------- MODULE PortalSsoProofs ----------------------------
(***************************************************************************)
(* What the portal synchronisations promise for any list of courses, any   *)
(* number of faults and redirects, and any number of windows.              *)
(***************************************************************************)
EXTENDS PortalSso, TLAPS

Sync == [at : Logging \cup Working \cup Ended, page : Pages, hops : Nat, code : Nat,
         left : SUBSET Courses, found : SUBSET Courses, missed : SUBSET Courses, age : Nat]

Typed ==
  /\ sync \in [Syncs -> Sync]
  /\ window \in Nat /\ faults \in 0..MaxFaults
  /\ spent \subseteq Syncs \X Nat /\ refused \subseteq Syncs \X Nat

\* A code in hand is of this window or, at worst, of the last one.
CodesFresh ==
  \A s \in Syncs : sync[s].at = "otp" => sync[s].code \in {window - 1, window}

\* The stages up to the code: what is posted to a login is posted from these.
Entering == {"initial", "shibboleth", "password", "select", "otp"}

\* A sync that is still entering has had nothing accepted or refused: it never comes
\* back to these stages from the later ones.
Unsent ==
  \A s \in Syncs : sync[s].at \in Entering =>
    \A c \in Nat : <<s, c>> \notin spent \cup refused

\* Nothing is found or missed before the login is over; then no course is forgotten.
Accounted ==
  LET y == sync["syllabus"] IN
  /\ \A s \in Syncs : sync[s].at \in Searching => s = "syllabus"
  /\ y.at \in Logging => y.found = {} /\ y.missed = {}
  /\ y.at # "board"
  /\ y.at \in Searching => y.left # {} /\ y.left \cup y.found \cup y.missed = Courses

IInv ==
  /\ Typed /\ CodesFresh /\ Unsent /\ RefusedByRivalOnly
  /\ Accounted /\ EveryCourseAnswered

-------------------------------------------------------------------------------
LEMMA InitIInv == Init => IInv
<1> SUFFICES ASSUME Init PROVE IInv
  OBVIOUS
<1>1. \A s \in Syncs : Begin(s, world.flags) \in Sync
  BY DEF Begin, Sync, Logging, Working, Ended, Pages
<1>2. sync \in [Syncs -> Sync]
  BY <1>1 DEF Init
<1>3. Typed /\ Unsent /\ RefusedByRivalOnly
  BY <1>2, PortalAssumption DEF Init, Typed, Unsent, RefusedByRivalOnly
<1>4. CodesFresh /\ Accounted /\ EveryCourseAnswered
  BY DEF Init, Begin, CodesFresh, Accounted, EveryCourseAnswered, Syncs, Searching
<1> QED
  BY <1>3, <1>4 DEF IInv

\* The steps of a login, and of the board.
LoginStep(s) == sync[s].at \notin Searching /\ Answer(s)

\* A step of a login changes the stage, the page and the code in hand, and no course.
LoginResult(s, y) ==
  /\ sync' = [sync EXCEPT ![s] = y]
  /\ sync[s].at \in Logging \cup {"board"}
  /\ y.found = sync[s].found /\ y.missed = sync[s].missed
  /\ y.at = "otp" => \/ y.code = window
                     \/ sync[s].at = "otp" /\ y.code = sync[s].code
  /\ y.at \in Entering => sync[s].at \in Entering
  /\ \/ y.at \in Logging \cup {"failed"}
     \/ sync[s].at = "board" /\ y.at \in {"board", "done"}
     \/ y.at = AfterLogin(s) /\ y.left = IF s = "syllabus" THEN Courses ELSE {}

LEMMA StepResult ==
  ASSUME NEW s \in Syncs, Typed, NEW from \in Logging \cup {"board"},
         NEW to \in Logging \cup {"failed"} \cup (IF from = "board" THEN {"done"} ELSE {}),
         NEW page \in Pages, to # "otp", to \in Entering => from \in Entering,
         Step(s, from, to, page)
  PROVE  \E y \in Sync : LoginResult(s, y)
<1> DEFINE y == [sync[s] EXCEPT !.at = to, !.page = page, !.hops = 0, !.code = 0]
<1>1. sync[s] \in Sync
  BY DEF Typed
<1>2. y \in Sync
  BY <1>1 DEF Sync, Working, Ended
<1>3. sync' = [sync EXCEPT ![s] = y] /\ sync[s].at = from
  BY DEF Step
<1>4. y.found = sync[s].found /\ y.missed = sync[s].missed /\ y.at = to
  BY <1>1 DEF Sync
<1> HIDE DEF y
<1> QED
  BY <1>2, <1>3, <1>4 DEF LoginResult

LEMMA ThrowResult ==
  ASSUME NEW s \in Syncs, Typed, sync[s].at \in Logging \cup {"board"}, Throw(s)
  PROVE  \E y \in Sync : LoginResult(s, y) /\ y.at = "failed"
<1>1. sync[s] \in Sync
  BY DEF Typed
<1>2. Failed(sync[s]) \in Sync
  BY <1>1 DEF Failed, Sync, Pages, Ended
<1>3. /\ Failed(sync[s]).found = sync[s].found /\ Failed(sync[s]).missed = sync[s].missed
      /\ Failed(sync[s]).at = "failed"
  BY <1>1 DEF Failed, Sync
<1>4. sync' = [sync EXCEPT ![s] = Failed(sync[s])]
  BY DEF Throw
<1> QED
  BY <1>2, <1>3, <1>4 DEF LoginResult, Entering

LEMMA OtpFormResult ==
  ASSUME NEW s \in Syncs, Typed, NEW from \in {"password", "select"}, AtOtpForm(s, from)
  PROVE  \E y \in Sync : LoginResult(s, y)
<1> DEFINE y == [sync[s] EXCEPT !.at = "otp", !.page = "otp", !.hops = 0, !.code = window]
<1>1. sync[s] \in Sync /\ window \in Nat
  BY DEF Typed
<1>2. y \in Sync
  BY <1>1 DEF Sync, Logging, Pages
<1>3. sync' = [sync EXCEPT ![s] = y] /\ sync[s].at = from
  BY DEF AtOtpForm
<1>4. /\ y.found = sync[s].found /\ y.missed = sync[s].missed
      /\ y.at = "otp" /\ y.code = window
  BY <1>1 DEF Sync
<1> HIDE DEF y
<1> QED
  BY <1>2, <1>3, <1>4 DEF LoginResult, Logging, Entering

LEMMA LoggedInResult ==
  ASSUME NEW s \in Syncs, Typed, NEW page \in Pages, sync[s].at \in Logging, LoggedIn(s, page)
  PROVE  \E y \in Sync : LoginResult(s, y)
<1> DEFINE left == IF s = "syllabus" THEN Courses ELSE {}
           y == [sync[s] EXCEPT !.at = AfterLogin(s), !.page = page, !.hops = 0, !.left = left]
<1>1. sync[s] \in Sync
  BY DEF Typed
<1>2. AfterLogin(s) \in {"done", "board", "open"}
  BY DEF AfterLogin
<1>3. left \in SUBSET Courses
  OBVIOUS
<1>4. sync' = [sync EXCEPT ![s] = y]
  BY DEF LoggedIn
<1> HIDE DEF left
<1>5. y \in Sync
  BY <1>1, <1>2, <1>3 DEF Sync, Working, Searching, Ended
<1>6. /\ y.found = sync[s].found /\ y.missed = sync[s].missed
      /\ y.at = AfterLogin(s) /\ y.left = left
  BY <1>1 DEF Sync
<1> HIDE DEF y
<1> QED
  BY <1>2, <1>4, <1>5, <1>6 DEF LoginResult, left, Entering

LEMMA RedirectResult ==
  ASSUME NEW s \in Syncs, Typed, sync[s].at \in Logging \cup {"board"}, Redirect(s)
  PROVE  \E y \in Sync : LoginResult(s, y)
<1> DEFINE y == [sync[s] EXCEPT !.hops = sync[s].hops + 1]
<1>1. sync[s] \in Sync
  BY DEF Typed
<1>2. y \in Sync
  BY <1>1 DEF Sync
<1>3. /\ y.found = sync[s].found /\ y.missed = sync[s].missed
      /\ y.at = sync[s].at /\ y.code = sync[s].code
  BY <1>1 DEF Sync
<1>4. sync' = [sync EXCEPT ![s] = y]
  BY DEF Redirect
<1> HIDE DEF y
<1> QED
  BY <1>2, <1>3, <1>4 DEF LoginResult

LEMMA LoginStepResult ==
  ASSUME NEW s \in Syncs, Typed, LoginStep(s)
  PROVE  \E y \in Sync : LoginResult(s, y)
<1>1. CASE Redirect(s) /\ sync[s].at \notin Searching
  <2>1. sync[s].at \in Logging \cup {"board"}
    BY <1>1 DEF Redirect, Sent, Working
  <2> QED
    BY <1>1, <2>1, RedirectResult
<1>2. CASE RequestLost(s) /\ sync[s].at \notin Searching
  <2>1. sync[s].at \in Logging \cup {"board"} /\ Throw(s)
    BY <1>2 DEF RequestLost, Sent, Working
  <2> QED
    BY <2>1, ThrowResult
<1>3. CASE Unexpected(s)
  BY <1>3, ThrowResult DEF Unexpected
<1>4. CASE Initial(s) \/ Shibboleth(s) \/ Board(s)
  BY <1>4, StepResult DEF Initial, Shibboleth, Board, Only, Logging, Pages, Entering
<1>5. CASE Password(s)
  <2>1. CASE AtOtpForm(s, "password")
    BY <2>1, OtpFormResult
  <2>2. CASE Step(s, "password", "select", "select")
    BY <2>2, StepResult DEF Logging, Pages, Entering
  <2>3. CASE sync[s].at = "password" /\ Throw(s)
    BY <2>3, ThrowResult DEF Logging
  <2> QED
    BY <1>5, <2>1, <2>2, <2>3 DEF Password
<1>6. CASE Select(s)
  BY <1>6, OtpFormResult DEF Select
<1>7. CASE Otp(s)
  BY <1>7, StepResult, ThrowResult DEF Otp, Logging, Pages, Entering
<1>8. CASE Saml(s) \/ Autologin(s) \/ Menu(s) \/ Direct(s)
  <2>1. CASE \E from \in Logging, page \in Pages : Returned(s, from, page)
    BY <2>1, LoggedInResult DEF Returned
  <2>2. CASE \E from \in Logging, to \in {"autologin", "menu", "direct"}, page \in Pages :
               Only(s, from, to, page)
    BY <2>2, StepResult DEF Only, Logging, Entering
  <2> QED
    BY <1>8, <2>1, <2>2 DEF Saml, Autologin, Menu, Direct, Logging, Pages
<1>9. CASE SoftFault(s)
  <2>1. sync[s].page \in Pages /\ sync[s].at \in Logging
    BY <1>9 DEF Typed, Sync, SoftFault, Logging
  <2>2. CASE LoggedIn(s, sync[s].page)
    BY <2>1, <2>2, LoggedInResult
  <2>3. CASE Step(s, sync[s].at, "direct", sync[s].page)
    BY <2>1, <2>3, StepResult DEF Logging, Entering
  <2> QED
    BY <1>9, <2>2, <2>3 DEF SoftFault
<1>10. sync[s].at \notin Searching => ~Open(s) /\ ~Search(s) /\ ~Detail(s)
  BY DEF Open, Search, Detail, Searching
<1> QED
  BY <1>1, <1>2, <1>3, <1>4, <1>5, <1>6, <1>7, <1>8, <1>9, <1>10
     DEF LoginStep, Answer, Progress, Fault, TooManyRedirects

-------------------------------------------------------------------------------
\* The steps that answer courses.
CourseStep(s) == sync[s].at \in Searching /\ Answer(s)

\* The course c in hand is answered: `missed` is what it adds to the courses missed.
CourseResult(s, y, c, missed) ==
  /\ sync' = [sync EXCEPT ![s] = y]
  /\ c \in sync[s].left
  /\ y.at = IF y.left = {} THEN "done" ELSE "open"
  /\ y.left = sync[s].left \ {c}
  /\ y.found = sync[s].found \cup ({c} \ missed) /\ y.missed = sync[s].missed \cup missed

LEMMA CourseDoneResult ==
  ASSUME NEW s \in Syncs, Typed, sync[s].left # {}, NEW hit \in BOOLEAN, NEW age \in Nat,
         CourseDone(s, hit, age)
  PROVE  \E y \in Sync : CourseResult(s, y, Course(s), IF hit THEN {} ELSE {Course(s)})
<1> DEFINE c == Course(s)
           rest == sync[s].left \ {c}
           found == IF hit THEN sync[s].found \cup {c} ELSE sync[s].found
           missed == IF hit THEN sync[s].missed ELSE sync[s].missed \cup {c}
           y == [sync[s] EXCEPT !.at = IF rest = {} THEN "done" ELSE "open", !.hops = 0,
                   !.left = rest, !.age = age, !.found = found, !.missed = missed]
<1>1. sync[s] \in Sync
  BY DEF Typed
<1>2. c \in sync[s].left
  BY DEF Course
<1>3. sync' = [sync EXCEPT ![s] = y]
  BY DEF CourseDone
<1> HIDE DEF c
<1>4. rest \in SUBSET Courses /\ found \in SUBSET Courses /\ missed \in SUBSET Courses
  BY <1>1, <1>2 DEF Sync
<1>5. /\ found = sync[s].found \cup ({c} \ (IF hit THEN {} ELSE {c}))
      /\ missed = sync[s].missed \cup (IF hit THEN {} ELSE {c})
  OBVIOUS
<1> HIDE DEF rest, found, missed
<1>6. y \in Sync
  BY <1>1, <1>4 DEF Sync, Working, Searching, Ended
<1>7. /\ y.at = (IF rest = {} THEN "done" ELSE "open") /\ y.left = rest
      /\ y.found = found /\ y.missed = missed
  BY <1>1 DEF Sync
<1> HIDE DEF y
<1> QED
  BY <1>2, <1>3, <1>5, <1>6, <1>7 DEF CourseResult, c, rest

\* The next request for the course in hand.
OnwardResult(s, y) ==
  /\ sync' = [sync EXCEPT ![s] = y]
  /\ y.at \in Searching /\ y.left = sync[s].left
  /\ y.found = sync[s].found /\ y.missed = sync[s].missed

LEMMA OnwardStepResult ==
  ASSUME NEW s \in Syncs, Typed, NEW to \in Searching, NEW hops \in Nat, NEW age \in Nat,
         sync' = [sync EXCEPT ![s] = [@ EXCEPT !.at = to, !.hops = hops, !.age = age]]
  PROVE  \E y \in Sync : OnwardResult(s, y)
<1> DEFINE y == [sync[s] EXCEPT !.at = to, !.hops = hops, !.age = age]
<1>1. sync[s] \in Sync
  BY DEF Typed
<1>2. y \in Sync
  BY <1>1 DEF Sync, Working
<1>3. /\ y.at = to /\ y.left = sync[s].left
      /\ y.found = sync[s].found /\ y.missed = sync[s].missed
  BY <1>1 DEF Sync
<1>4. sync' = [sync EXCEPT ![s] = y]
  OBVIOUS
<1> HIDE DEF y
<1> QED
  BY <1>2, <1>3, <1>4 DEF OnwardResult

LEMMA OlderType == ASSUME NEW s \in Syncs, Typed PROVE Older(s) \in Nat /\ sync[s].age \in Nat
<1>1. sync[s].age \in Nat
  BY DEF Typed, Sync
<1> QED
  BY <1>1, PortalAssumption DEF Older

\* A course step goes on with the course in hand, or is done with it.
LEMMA CourseStepResult ==
  ASSUME NEW s \in Syncs, Typed, sync[s].left # {}, CourseStep(s)
  PROVE  \E y \in Sync :
           \/ OnwardResult(s, y)
           \/ \E missed \in SUBSET {Course(s)} : CourseResult(s, y, Course(s), missed)
<1>1. sync[s] \in Sync /\ sync[s].age \in Nat /\ Older(s) \in Nat
  BY OlderType DEF Typed
<1>2. ASSUME NEW hit \in BOOLEAN, NEW age \in Nat, CourseDone(s, hit, age)
      PROVE  \E y \in Sync : \E missed \in SUBSET {Course(s)} :
               CourseResult(s, y, Course(s), missed)
  BY <1>2, CourseDoneResult
<1>3. ASSUME CourseLost(s, sync[s].age)
      PROVE  \E y \in Sync : \E missed \in SUBSET {Course(s)} :
               CourseResult(s, y, Course(s), missed)
  BY <1>1, <1>2, <1>3 DEF CourseLost
<1>4. ASSUME NEW to \in Searching,
             sync' = [sync EXCEPT ![s] = [@ EXCEPT !.at = to, !.hops = 0, !.age = Older(s)]]
      PROVE  \E y \in Sync : OnwardResult(s, y)
  BY <1>1, <1>4, OnwardStepResult
<1>5. CASE Open(s)
  BY <1>3, <1>4, <1>5 DEF Open, Searching
<1>6. CASE Search(s)
  <2>1. ASSUME NEW age \in {0, Older(s)}, CourseDone(s, FALSE, age)
        PROVE  \E y \in Sync : \E missed \in SUBSET {Course(s)} :
                 CourseResult(s, y, Course(s), missed)
    BY <1>1, <1>2, <2>1
  <2> QED
    BY <1>3, <1>4, <1>6, <2>1 DEF Search, Searching
<1>7. CASE Detail(s)
  <2>1. PICK age \in {0, 1, Older(s)} : CourseDone(s, TRUE, age)
    BY <1>7 DEF Detail
  <2> QED
    BY <1>1, <1>2, <2>1
<1>8. CASE RequestLost(s) /\ sync[s].at \in Searching
  BY <1>3, <1>8 DEF RequestLost
<1>9. CASE Redirect(s) /\ sync[s].at \in Searching
  <2> DEFINE y == [sync[s] EXCEPT !.hops = sync[s].hops + 1]
  <2>1. y \in Sync
    BY <1>1 DEF Sync
  <2>2. /\ y.at = sync[s].at /\ y.left = sync[s].left
        /\ y.found = sync[s].found /\ y.missed = sync[s].missed
    BY <1>1 DEF Sync
  <2>3. sync' = [sync EXCEPT ![s] = y]
    BY <1>9 DEF Redirect
  <2> HIDE DEF y
  <2> QED
    BY <1>9, <2>1, <2>2, <2>3 DEF OnwardResult
<1>10. sync[s].at \in Searching =>
         /\ ~Initial(s) /\ ~Shibboleth(s) /\ ~Password(s) /\ ~Select(s) /\ ~Otp(s) /\ ~Saml(s)
         /\ ~Autologin(s) /\ ~Menu(s) /\ ~Direct(s) /\ ~Board(s) /\ ~Unexpected(s)
         /\ ~SoftFault(s)
  BY DEF Searching, Initial, Shibboleth, Password, Select, Otp, Saml, Autologin, Menu, Direct,
         Board, Unexpected, SoftFault, Only, Returned, Step, AtOtpForm, Logging
<1> QED
  BY <1>5, <1>6, <1>7, <1>8, <1>9, <1>10
     DEF CourseStep, Answer, Progress, Fault, TooManyRedirects

-------------------------------------------------------------------------------
\* A step of s adds to what is spent or refused the code or the password that s has
\* just posted, and only as s leaves the stages that post them.
Secrets(s) ==
  \/ UNCHANGED <<spent, refused>>
  \/ /\ sync[s].at \in Entering /\ sync'[s].at \notin Entering
     /\ \E c \in {0, sync[s].code} :
          \/ UNCHANGED refused /\ spent' = spent \cup {<<s, c>>}
          \/ UNCHANGED spent /\ refused' = refused \cup {<<s, c>>}

LEMMA AnswerFrame ==
  ASSUME NEW s \in Syncs, Typed, Answer(s)
  PROVE  UNCHANGED <<world, window>> /\ faults' \in 0..MaxFaults /\ Secrets(s)
<1>1. sync[s] \in Sync
  BY DEF Typed
<1>2. ASSUME Throw(s) PROVE sync'[s].at \notin Entering
  <2>1. sync'[s] = Failed(sync[s])
    BY <1>2 DEF Throw, Typed
  <2> QED
    BY <1>1, <2>1 DEF Failed, Sync, Entering
<1>3. faults' = faults \/ CountFault
  BY DEF Answer, Progress, Initial, Shibboleth, Password, Select, Otp, Saml, Autologin, Menu,
         Direct, Board, Open, Search, Detail, Redirect, Unexpected, Only, Returned, SoftFault,
         Fault, TooManyRedirects
<1>4. faults' \in 0..MaxFaults
  BY <1>3, PortalAssumption DEF Typed, CountFault
<1>5. UNCHANGED <<world, window>>
  BY DEF Answer, Progress, Initial, Shibboleth, Password, Select, Otp, Saml, Autologin, Menu,
         Direct, Board, Open, Search, Detail, Redirect, Unexpected, Only, Returned, SoftFault,
         Fault, TooManyRedirects, RequestLost
<1>6. Secrets(s)
  <2>1. CASE Password(s)
    <3>1. CASE UNCHANGED refused
      BY <2>1, <3>1 DEF Password, Secrets
    <3>2. CASE sync[s].at = "password" /\ Throw(s) /\ Refuse(s, 0)
      BY <1>2, <2>1, <3>2 DEF Password, Secrets, Refuse, Entering
    <3> QED
      BY <2>1, <3>1, <3>2 DEF Password
  <2>2. CASE Otp(s)
    <3>1. sync[s].at \in Entering
      BY <2>2 DEF Otp, Step, Entering
    <3>2. CASE Accepted(s)
      <4>1. sync'[s] = [sync[s] EXCEPT !.at = "saml", !.page = "saml", !.hops = 0, !.code = 0]
        BY <2>2, <3>2 DEF Otp, Step, Typed
      <4>2. sync'[s].at \notin Entering
        BY <1>1, <4>1 DEF Sync, Entering
      <4> QED
        BY <2>2, <3>1, <3>2, <4>2 DEF Otp, Secrets, Spend
    <3>3. CASE ~Accepted(s)
      <4>1. sync'[s].at \notin Entering
        BY <1>2, <2>2, <3>3 DEF Otp
      <4> QED
        BY <2>2, <3>1, <3>3, <4>1 DEF Otp, Secrets, Refuse
    <3> QED
      BY <3>2, <3>3
  <2>3. CASE RequestLost(s)
    <3>1. CASE UNCHANGED spent
      BY <2>3, <3>1 DEF RequestLost, Secrets
    <3>2. CASE sync[s].at = "otp" /\ Spend(s)
      <4>1. Throw(s) /\ UNCHANGED refused
        BY <2>3, <3>2 DEF RequestLost, Searching
      <4> QED
        BY <1>2, <3>2, <4>1 DEF Secrets, Spend, Entering
    <3> QED
      BY <2>3, <3>1, <3>2 DEF RequestLost
  <2>4. CASE UNCHANGED <<spent, refused>>
    BY <2>4 DEF Secrets
  <2>5. Password(s) \/ Otp(s) \/ RequestLost(s) \/ UNCHANGED <<spent, refused>>
    BY DEF Answer, Progress, Initial, Shibboleth, Select, Saml, Autologin, Menu,
           Direct, Board, Open, Search, Detail, Redirect, Unexpected, Only, Returned, SoftFault,
           Fault, TooManyRedirects
  <2> QED
    BY <2>1, <2>2, <2>3, <2>4, <2>5
<1> QED
  BY <1>4, <1>5, <1>6

\* A password is not refused when it is right; a code of this window is only refused
\* because it is spent, and not by the sync itself, which has had none accepted yet.
LEMMA AnswerRival ==
  ASSUME NEW s \in Syncs, Typed, CodesFresh, Unsent, RefusedByRivalOnly, Answer(s)
  PROVE  RefusedByRivalOnly'
<1>1. UNCHANGED <<world, window>> /\ spent \subseteq spent'
  BY AnswerFrame DEF Secrets
<1>2. ASSUME refused' = refused PROVE RefusedByRivalOnly'
  BY <1>1, <1>2 DEF RefusedByRivalOnly
<1>3. CASE Password(s) /\ ~world.password
  BY <1>1, <1>3 DEF RefusedByRivalOnly
<1>4. CASE Otp(s) /\ ~Accepted(s)
  <2>1. sync[s].at = "otp" /\ sync[s].code \in {window - 1, window}
    BY <1>4 DEF CodesFresh, Otp
  <2>2. sync[s].code \in Nat
    BY DEF Typed, Sync
  <2>3. \A c \in Nat : <<s, c>> \notin spent
    BY <2>1 DEF Unsent, Entering
  <2>4. world.device => \E rival \in Syncs \ {s} : <<rival, sync[s].code>> \in spent
    BY <1>4, <2>1, <2>2, <2>3 DEF Accepted
  <2>5. refused' = refused \cup {<<s, sync[s].code>>}
    BY <1>4 DEF Otp, Refuse
  <2>6. SUFFICES ASSUME world.password /\ world.device, NEW r \in refused'
                 PROVE  \E rival \in Syncs \ {r[1]} : <<rival, r[2]>> \in spent'
    BY <1>1 DEF RefusedByRivalOnly
  <2>7. CASE r \in refused
    BY <1>1, <2>6, <2>7 DEF RefusedByRivalOnly
  <2>8. CASE r = <<s, sync[s].code>>
    <3>1. r[1] = s /\ r[2] = sync[s].code
      BY <2>8
    <3> QED
      BY <1>1, <2>4, <2>6, <3>1
  <2> QED
    BY <2>5, <2>6, <2>7, <2>8
<1>5. refused' # refused => (Password(s) /\ ~world.password) \/ (Otp(s) /\ ~Accepted(s))
  BY DEF Answer, Progress, Initial, Shibboleth, Password, Select, Otp, Saml, Autologin, Menu,
         Direct, Board, Open, Search, Detail, Redirect, Unexpected, Only, Returned, SoftFault,
         Fault, TooManyRedirects, RequestLost
<1> QED
  BY <1>2, <1>3, <1>4, <1>5

\* What any step of s does to the stages, as far as secrets are concerned.
LEMMA AnswerUnsent ==
  ASSUME NEW s \in Syncs, Typed, Unsent, Secrets(s), NEW y \in Sync,
         sync' = [sync EXCEPT ![s] = y], y.at \in Entering => sync[s].at \in Entering
  PROVE  Unsent' /\ spent' \subseteq Syncs \X Nat /\ refused' \subseteq Syncs \X Nat
<1>1. /\ sync'[s] = y /\ \A q \in Syncs : q # s => sync'[q] = sync[q]
      /\ sync[s].code \in Nat
  BY DEF Typed, Sync
<1>2. spent' \subseteq Syncs \X Nat /\ refused' \subseteq Syncs \X Nat
  BY <1>1 DEF Typed, Secrets
<1>3. ASSUME NEW q \in Syncs, sync'[q].at \in Entering, NEW c \in Nat
      PROVE  <<q, c>> \notin spent' \cup refused'
  <2>1. sync[q].at \in Entering
    BY <1>1, <1>3
  <2>2. <<q, c>> \notin spent \cup refused
    BY <2>1 DEF Unsent
  <2>3. CASE UNCHANGED <<spent, refused>>
    BY <2>2, <2>3
  <2>4. CASE ~UNCHANGED <<spent, refused>>
    <3>1. q # s
      BY <1>3, <2>4 DEF Secrets
    <3> QED
      BY <2>2, <2>4, <3>1 DEF Secrets
  <2> QED
    BY <2>3, <2>4
<1> QED
  BY <1>2, <1>3 DEF Unsent

LEMMA AnswerIInv ==
  ASSUME NEW s \in Syncs, IInv, Answer(s)
  PROVE  IInv'
<1>1. /\ Typed /\ CodesFresh /\ Unsent /\ Accounted /\ EveryCourseAnswered /\ Secrets(s)
      /\ window' = window /\ window \in Nat /\ faults' \in 0..MaxFaults
      /\ LoginStep(s) \/ CourseStep(s)
  BY AnswerFrame DEF IInv, Typed, LoginStep, CourseStep
<1>2. RefusedByRivalOnly'
  BY AnswerRival DEF IInv
<1>3. ASSUME NEW y \in Sync, LoginResult(s, y)
      PROVE  Typed' /\ CodesFresh' /\ Unsent' /\ Accounted' /\ EveryCourseAnswered'
  <2>1. /\ sync'[s] = y /\ \A q \in Syncs : q # s => sync'[q] = sync[q]
        /\ sync' \in [Syncs -> Sync]
    BY <1>1, <1>3 DEF LoginResult, Typed
  <2>2. Unsent' /\ spent' \subseteq Syncs \X Nat /\ refused' \subseteq Syncs \X Nat
    BY <1>1, <1>3, AnswerUnsent DEF LoginResult
  <2>3. Typed'
    BY <1>1, <2>1, <2>2 DEF Typed
  <2>4. CodesFresh'
    BY <1>1, <1>3, <2>1 DEF LoginResult, CodesFresh
  <2>5. CASE s = "syllabus"
    <3>1. sync[s].at \in Logging /\ sync[s].found = {} /\ sync[s].missed = {}
      BY <1>1, <1>3, <2>5 DEF LoginResult, Accounted
    <3>2. AfterLogin(s) = IF Courses = {} THEN "done" ELSE "open"
      BY <2>5 DEF AfterLogin
    <3>3. /\ y.found = {} /\ y.missed = {}
          /\ y.at \in Logging \cup {"failed"} \/ (y.at = AfterLogin(s) /\ y.left = Courses)
      BY <1>3, <2>5, <3>1 DEF LoginResult, Logging
    <3>4. Accounted'
      BY <1>1, <2>1, <2>5, <3>2, <3>3 DEF Accounted, Logging, Searching
    <3>5. EveryCourseAnswered'
      BY <2>1, <2>5, <3>2, <3>3 DEF EveryCourseAnswered, Logging
    <3> QED
      BY <2>2, <2>3, <2>4, <3>4, <3>5
  <2>6. CASE s # "syllabus"
    <3>1. "syllabus" \in Syncs /\ sync'["syllabus"] = sync["syllabus"]
      BY <2>1, <2>6 DEF Syncs
    <3>2. y.at \notin Searching
      BY <1>3, <2>6 DEF LoginResult, AfterLogin, Syncs, Logging, Searching
    <3>3. Accounted' /\ EveryCourseAnswered'
      BY <1>1, <2>1, <3>1, <3>2 DEF Accounted, EveryCourseAnswered
    <3> QED
      BY <2>2, <2>3, <2>4, <3>3
  <2> QED
    BY <2>5, <2>6
<1>4. ASSUME CourseStep(s)
      PROVE  Typed' /\ CodesFresh' /\ Unsent' /\ Accounted' /\ EveryCourseAnswered'
  <2>1. sync[s].at \in Searching
    BY <1>4 DEF CourseStep
  <2>2. s = "syllabus" /\ sync[s].left # {}
    BY <1>1, <2>1 DEF Accounted
  <2>3. sync[s].left \cup sync[s].found \cup sync[s].missed = Courses
    BY <1>1, <2>1, <2>2 DEF Accounted
  <2>4. PICK y \in Sync :
          \/ OnwardResult(s, y)
          \/ \E missed \in SUBSET {Course(s)} : CourseResult(s, y, Course(s), missed)
    BY <1>1, <1>4, <2>2, CourseStepResult
  <2>5. sync' = [sync EXCEPT ![s] = y]
    BY <2>4 DEF OnwardResult, CourseResult
  <2>6. /\ sync'[s] = y /\ \A q \in Syncs : q # s => sync'[q] = sync[q]
        /\ sync' \in [Syncs -> Sync]
    BY <1>1, <2>5 DEF Typed
  <2>7. /\ y.left \cup y.found \cup y.missed = Courses
        /\ y.at \in {"open", "search", "detail", "done"}
        /\ y.at = "done" <=> y.left = {}
    <3>1. CASE OnwardResult(s, y)
      BY <2>2, <2>3, <3>1 DEF OnwardResult, Searching
    <3>2. ASSUME NEW missed \in SUBSET {Course(s)}, CourseResult(s, y, Course(s), missed)
          PROVE  /\ y.left \cup y.found \cup y.missed = Courses
                 /\ y.at \in {"open", "search", "detail", "done"}
                 /\ y.at = "done" <=> y.left = {}
      <4>1. y.left \cup y.found \cup y.missed
              = sync[s].left \cup sync[s].found \cup sync[s].missed
        BY <3>2 DEF CourseResult
      <4> QED
        BY <2>3, <3>2, <4>1 DEF CourseResult
    <3> QED
      BY <2>4, <3>1, <3>2
  <2>8. Unsent' /\ spent' \subseteq Syncs \X Nat /\ refused' \subseteq Syncs \X Nat
    <3>1. y.at \notin Entering
      BY <2>7 DEF Entering
    <3> QED
      BY <1>1, <2>5, <3>1, AnswerUnsent
  <2>9. Typed' /\ CodesFresh'
    BY <1>1, <2>6, <2>7, <2>8 DEF Typed, CodesFresh
  <2>10. Accounted' /\ EveryCourseAnswered'
    BY <1>1, <2>2, <2>6, <2>7 DEF Accounted, EveryCourseAnswered, Logging, Searching
  <2> QED
    BY <2>8, <2>9, <2>10
<1>5. Typed' /\ CodesFresh' /\ Unsent' /\ Accounted' /\ EveryCourseAnswered'
  BY <1>1, <1>3, <1>4, LoginStepResult
<1> QED
  BY <1>2, <1>5 DEF IInv

LEMMA NextIInv == IInv /\ [Next]_vars => IInv'
<1> SUFFICES ASSUME IInv, [Next]_vars PROVE IInv'
  OBVIOUS
<1>1. ASSUME NEW s \in Syncs, Answer(s) PROVE IInv'
  BY <1>1, AnswerIInv
<1>2. CASE NextWindow
  <2>1. /\ window' = window + 1 /\ UNCHANGED <<world, sync, spent, refused, faults>>
        /\ \A s \in Syncs : sync[s].at = "otp" => sync[s].code = window
    BY <1>2 DEF NextWindow
  <2>2. Typed' /\ CodesFresh'
    BY <2>1 DEF IInv, Typed, CodesFresh
  <2>3. Unsent' /\ RefusedByRivalOnly'
    BY <2>1 DEF IInv, Unsent, RefusedByRivalOnly
  <2>4. Accounted' /\ EveryCourseAnswered'
    BY <2>1 DEF IInv, Accounted, EveryCourseAnswered
  <2> QED
    BY <2>2, <2>3, <2>4 DEF IInv
<1>3. CASE UNCHANGED vars
  BY <1>3 DEF vars, IInv, Typed, CodesFresh, Unsent, RefusedByRivalOnly, Accounted,
              EveryCourseAnswered
<1> QED
  BY <1>1, <1>2, <1>3 DEF Next

\* However many codes the three syncs generate at the same time, a sync with the right
\* secrets is refused only a code that another one got in with.
THEOREM RefusalsHaveRivals == Spec => []RefusedByRivalOnly
<1>1. IInv => RefusedByRivalOnly
  BY DEF IInv
<1> QED
  BY InitIInv, NextIInv, <1>1, PTL DEF Spec

\* No sync posts a refused password or a code of its own a second time, however many
\* courses there are and whichever requests fail: one login serves a whole sync.
THEOREM SecretsSentOnce == Spec => []NoSecretRepeated
<1>1. IInv => NoSecretRepeated
  BY DEF IInv, Unsent, NoSecretRepeated, Typed, Sync, Entering
<1> QED
  BY InitIInv, NextIInv, <1>1, PTL DEF Spec

\* The loop over the courses forgets none, whichever requests fail.
THEOREM CoursesAnswered == Spec => []EveryCourseAnswered
<1>1. IInv => EveryCourseAnswered
  BY DEF IInv
<1> QED
  BY InitIInv, NextIInv, <1>1, PTL DEF Spec
===============================================================================
