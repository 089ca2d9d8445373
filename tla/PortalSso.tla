------------------------------- MODULE PortalSso -------------------------------
(***************************************************************************)
(* The three synchronisations of the CIT portal, which startScheduler      *)
(* starts together, each with a login of its own: the choice page, the     *)
(* Shibboleth link, the Keycloak forms for password, credential and one-   *)
(* time code, the SAML form, the relay page and the menu.  Then the        *)
(* timetable page is there, the board is one POST away, and syllabi are    *)
(* searched one course at a time in the same session.                      *)
(*                                                                         *)
(* A page is what the scraper can tell of it.  A request may be redirected *)
(* many times.  The identity provider accepts a code of this window or of  *)
(* the last one, once.  The portal remembers the last Keep views of a      *)
(* session; age is how many views ago the ViewState the scraper holds was  *)
(* made, Keep if more than that.  What is posted to a login is a code, or  *)
(* 0 for the password.  Any number of requests may fail.                   *)
(***************************************************************************)
EXTENDS Integers, FiniteSets

CONSTANTS
  Courses,       \* the courses whose syllabus is wanted
  Offered,       \* those the portal has a syllabus of
  Keep,          \* views of a session the portal remembers
  MaxHops,       \* redirects that portalFetch follows
  MaxWindow,     \* bound on the windows of the one-time code
  MaxFaults,     \* bound on the count of failed requests
  HeaderSafe     \* whether a search page can be the value of a header

ASSUME PortalAssumption ==
  /\ Offered \subseteq Courses
  /\ Keep \in Nat \ {0} /\ MaxHops \in Nat \ {0}
  /\ MaxWindow \in Nat /\ MaxFaults \in Nat
  /\ HeaderSafe \subseteq BOOLEAN /\ HeaderSafe # {}

VARIABLES
  world,     \* what does not change: flags and credentials
  sync,      \* per sync: stage, page in hand, code, courses, age
  window,    \* the current window of the one-time code
  spent,     \* <<sync, code>>: what the identity provider has accepted
  refused,   \* history: <<sync, code or 0>> that it has refused
  faults     \* failed requests, counted up to MaxFaults

vars == <<world, sync, window, spent, refused, faults>>

Syncs == {"timetable", "notifications", "syllabus"}

\* Pages: without a form or link the scraper knows; the choice of logins; Keycloak's
\* forms; SAML's form; the home page; the timetable; the board.  The relay page, which
\* only the next request looks at, counts as unknown.
Pages == {"unknown", "choice", "password", "select", "otp", "saml", "home", "timetable",
          "board"}

\* Stages: the request that is under way, or how the sync ended.
Logging == {"initial", "shibboleth", "password", "select", "otp", "saml", "autologin",
            "menu", "direct"}
Searching == {"open", "search", "detail"}
Working == {"board"} \cup Searching
Ended == {"off", "failed", "done"}

\* The environment of the worker: what is enabled, and whether its secrets are right.
Worlds == [flags : SUBSET Syncs, password : BOOLEAN, device : BOOLEAN]

\* Who sits at a stage of Logging or Working waits for an answer.
TypeOK ==
  /\ world \in Worlds
  /\ DOMAIN sync = Syncs
  /\ \A s \in Syncs :
       /\ sync[s].at \in Logging \cup Working \cup Ended
       /\ sync[s].page \in Pages
       /\ sync[s].hops \in 0..(MaxHops - 1)
       /\ sync[s].code \in 0..window /\ (sync[s].code > 0 <=> sync[s].at = "otp")
       /\ sync[s].left \cup sync[s].found \cup sync[s].missed \subseteq Courses
       /\ sync[s].found \cap sync[s].missed = {}
       /\ sync[s].age \in 0..Keep
  /\ window \in 1..MaxWindow /\ faults \in 0..MaxFaults
  /\ spent \subseteq Syncs \X (1..window) /\ refused \subseteq Syncs \X (0..window)

\* A sync that is enabled begins with a fresh cookie jar.
Begin(s, flags) ==
  [at |-> IF s \in flags THEN "initial" ELSE "off", page |-> "unknown", hops |-> 0,
   code |-> 0, left |-> {}, found |-> {}, missed |-> {}, age |-> 0]

Init ==
  /\ world \in Worlds
  /\ sync = [s \in Syncs |-> Begin(s, world.flags)]
  /\ window = 1
  /\ spent = {}
  /\ refused = {}
  /\ faults = 0

-------------------------------------------------------------------------------
(* Steps of a sync                                                         *)

\* The answer to the request of stage `from` is `page`; the next request is that of
\* stage `to`.  A code lives until it is posted.
Step(s, from, to, page) ==
  /\ sync[s].at = from
  /\ sync' = [sync EXCEPT ![s] = [@ EXCEPT !.at = to, !.page = page, !.hops = 0, !.code = 0]]

\* An error ends the sync.
Failed(y) == [y EXCEPT !.at = "failed", !.page = "unknown", !.hops = 0, !.code = 0]
Throw(s) == sync' = [sync EXCEPT ![s] = Failed(@)]

Only(s, from, to, page) ==
  /\ Step(s, from, to, page)
  /\ UNCHANGED <<world, window, spent, refused, faults>>

\* The first page: the choice of logins, or straight to Keycloak.  With a fresh cookie
\* jar it is never the timetable or the home page, which would end the login at once.
Initial(s) ==
  \/ Only(s, "initial", "shibboleth", "choice")
  \/ Only(s, "initial", "password", "password")

\* The Shibboleth link leads to Keycloak.
Shibboleth(s) == Only(s, "shibboleth", "password", "password")

\* The page is none the scraper can go on from: a link or a form it expects is missing.
Unexpected(s) ==
  /\ sync[s].at \in Logging \ {"menu", "direct", "autologin"}
  /\ Throw(s)
  /\ UNCHANGED <<world, window, spent, refused, faults>>

\* Mutation: the code is generated when the login begins.
AtOtpFormEarly(s, from) ==
  /\ sync[s].at = from
  /\ sync' = [sync EXCEPT ![s] = [@ EXCEPT !.at = "otp", !.page = "otp", !.hops = 0, !.code = 1]]

\* The code is generated as soon as the form for it is there.
AtOtpForm(s, from) ==
  /\ sync[s].at = from
  /\ sync' = [sync EXCEPT ![s] = [@ EXCEPT !.at = "otp", !.page = "otp", !.hops = 0,
                                           !.code = window]]

Refuse(s, secret) == refused' = refused \cup {<<s, secret>>}
Spend(s) == spent' = spent \cup {<<s, sync[s].code>>}

\* A wrong password brings back the form, and the login ends.
Password(s) ==
  /\ IF world.password
     THEN /\ AtOtpForm(s, "password") \/ Step(s, "password", "select", "select")
          /\ UNCHANGED refused
     ELSE sync[s].at = "password" /\ Throw(s) /\ Refuse(s, 0)
  /\ UNCHANGED <<world, window, spent, faults>>

\* The credential whose label has the device name, or the first one, is chosen.
Select(s) ==
  /\ AtOtpForm(s, "select")
  /\ UNCHANGED <<world, window, spent, refused, faults>>

Accepted(s) ==
  /\ world.device
  /\ sync[s].code \in {window - 1, window}
  /\ \A q \in Syncs : <<q, sync[s].code>> \notin spent

\* A code is accepted if it is the right device's, of this window or the last, and not
\* spent; otherwise the form comes back, and the login ends.
Otp(s) ==
  /\ IF Accepted(s)
     THEN Step(s, "otp", "saml", "saml") /\ Spend(s) /\ UNCHANGED refused
     ELSE sync[s].at = "otp" /\ Throw(s) /\ Refuse(s, sync[s].code) /\ UNCHANGED spent
  /\ UNCHANGED <<world, window, faults>>

\* What a sync does when login has returned, with whatever page.
AfterLogin(s) ==
  IF s = "timetable" THEN "done"
  ELSE IF s = "notifications" THEN "board"
  ELSE IF Courses = {} THEN "done" ELSE "open"

LoggedIn(s, page) ==
  sync' = [sync EXCEPT ![s] = [@ EXCEPT !.at = AfterLogin(s), !.page = page, !.hops = 0,
                                !.left = IF s = "syllabus" THEN Courses ELSE {}]]

Returned(s, from, page) ==
  /\ sync[s].at = from
  /\ LoggedIn(s, page)
  /\ UNCHANGED <<world, window, spent, refused, faults>>

\* After the SAML response the timetable may be there at once; else the relay page is
\* submitted, the menu item is followed, and at last, also after an answer that fits
\* nowhere, the timetable is asked for again.
Saml(s) ==
  \/ Returned(s, "saml", "timetable")
  \/ Only(s, "saml", "autologin", "unknown")
  \/ Only(s, "saml", "menu", "home")
  \/ Only(s, "saml", "direct", "unknown")

Autologin(s) ==
  \/ Returned(s, "autologin", "timetable")
  \/ Only(s, "autologin", "menu", "home")
  \/ Only(s, "autologin", "direct", "unknown")

Menu(s) ==
  \/ Returned(s, "menu", "timetable")
  \/ \E page \in {"home", "unknown"} : Only(s, "menu", "direct", page)

Direct(s) == \E page \in {"timetable", "home", "unknown"} : Returned(s, "direct", page)

CountFault == faults' = IF faults < MaxFaults THEN faults + 1 ELSE faults

\* These requests may be answered with an error status, and login goes on.
SoftFault(s) ==
  /\ CountFault
  /\ sync[s].at \in {"autologin", "menu", "direct"}
  /\ IF sync[s].at = "direct" THEN LoggedIn(s, sync[s].page)
                              ELSE Step(s, sync[s].at, "direct", sync[s].page)
  /\ UNCHANGED <<world, window, spent, refused>>

\* Only pages of the portal proper carry the menu.
HasMenu(page) == page \in {"home", "timetable"}

\* navigateMenuById does not look at the status: without a menu, some page is returned.
Board(s) ==
  Only(s, "board", "done", IF HasMenu(sync[s].page) THEN "board" ELSE "unknown")

-------------------------------------------------------------------------------
(* Syllabi, one course after the other                                     *)

\* The age of the ViewState in hand when another view is made.
Older(s) == IF sync[s].age < Keep THEN sync[s].age + 1 ELSE Keep

\* The course in hand, in the order of the list.
Course(s) == CHOOSE c \in sync[s].left : TRUE

\* The course is done with; the ViewState in hand is `age` views old.
CourseDone(s, hit, age) ==
  LET y == sync[s]
      c == Course(s)
      rest == y.left \ {c}
  IN sync' = [sync EXCEPT ![s] =
       [y EXCEPT !.at = IF rest = {} THEN "done" ELSE "open", !.hops = 0, !.left = rest,
                 !.age = age,
                 !.found = IF hit THEN y.found \cup {c} ELSE y.found,
                 !.missed = IF hit THEN y.missed ELSE y.missed \cup {c}]]

\* Mutation: the first error ends the loop.
CourseLostEndsLoop(s, age) ==
  sync' = [sync EXCEPT ![s].at = "done", ![s].missed = @ \cup {Course(s)}, ![s].left = {}]

\* Mutation: the login is repeated for the next course.
CourseLostLogsInAgain(s, age) == sync' = [sync EXCEPT ![s] = Begin(s, {s})]

\* An error is caught and the course recorded without a syllabus.
CourseLost(s, age) == CourseDone(s, FALSE, age)

\* The search form is opened by the menu of the login page; a view the portal has
\* forgotten, or a page without a menu, leads elsewhere, and the search throws.
Open(s) ==
  /\ sync[s].at = "open"
  /\ IF HasMenu(sync[s].page) /\ sync[s].age < Keep
     THEN sync' = [sync EXCEPT ![s] = [@ EXCEPT !.at = "search", !.hops = 0,
                                                !.age = Older(s)]]
     ELSE CourseLost(s, sync[s].age)
  /\ UNCHANGED <<world, window, spent, refused, faults>>

\* The search posts the form; postAjax puts the page itself into the Referer header, and
\* a page with a line break or a Japanese letter is no header value: it throws.  Without
\* a hit the ViewState of the answer is carried over, if it brought one.
Search(s) ==
  /\ sync[s].at = "search"
  /\ \/ FALSE \in HeaderSafe /\ CourseLost(s, sync[s].age)
     \/ /\ TRUE \in HeaderSafe /\ Course(s) \in Offered
        /\ sync' = [sync EXCEPT ![s] = [@ EXCEPT !.at = "detail", !.hops = 0, !.age = Older(s)]]
     \/ /\ TRUE \in HeaderSafe /\ Course(s) \notin Offered
        /\ \E age \in {0, Older(s)} : CourseDone(s, FALSE, age)
  /\ UNCHANGED <<world, window, spent, refused, faults>>

\* The first hit is opened; the ViewState of this answer, or else of the search, or else
\* the one before is used from now on.
Detail(s) ==
  /\ sync[s].at = "detail"
  /\ \E age \in {0, 1, Older(s)} : CourseDone(s, TRUE, age)
  /\ UNCHANGED <<world, window, spent, refused, faults>>

-------------------------------------------------------------------------------
(* Requests that are redirected or fail                                    *)

\* A request is under way: one whose headers are invalid never is.
Sent(s) ==
  /\ sync[s].at \in Logging \cup Working
  /\ sync[s].at = "search" => TRUE \in HeaderSafe

\* Mutation: redirects are followed without end.
RedirectForever(s) ==
  /\ Sent(s)
  /\ sync' = [sync EXCEPT ![s].hops = (@ + 1) % MaxHops]
  /\ UNCHANGED <<world, window, spent, refused, faults>>

\* portalFetch follows one more redirect.
Redirect(s) ==
  /\ Sent(s)
  /\ sync[s].hops + 1 < MaxHops
  /\ sync' = [sync EXCEPT ![s].hops = @ + 1]
  /\ UNCHANGED <<world, window, spent, refused, faults>>

\* A request throws, or is answered with an error status: that ends a login, and costs
\* the course in hand its syllabus.  A code may have been accepted before.
RequestLost(s) ==
  /\ Sent(s)
  /\ IF sync[s].at \in Searching THEN CourseLost(s, sync[s].age) ELSE Throw(s)
  /\ UNCHANGED spent \/ (sync[s].at = "otp" /\ Accepted(s) /\ Spend(s))
  /\ UNCHANGED <<world, window, refused>>

Fault(s) == CountFault /\ RequestLost(s)

\* After the last redirect it would follow, portalFetch throws.
TooManyRedirects(s) ==
  /\ sync[s].hops + 1 = MaxHops
  /\ CountFault
  /\ RequestLost(s)

-------------------------------------------------------------------------------
\* Thirty seconds pass; the post of a code takes less.
NextWindow ==
  /\ window < MaxWindow
  /\ \A s \in Syncs : sync[s].at = "otp" => sync[s].code = window
  /\ window' = window + 1
  /\ UNCHANGED <<world, sync, spent, refused, faults>>

\* What a sync does when it is answered as it should be.
Progress(s) ==
  \/ Initial(s) \/ Shibboleth(s) \/ Password(s) \/ Select(s) \/ Otp(s) \/ Saml(s)
  \/ Autologin(s) \/ Menu(s) \/ Direct(s) \/ Board(s)
  \/ Open(s) \/ Search(s) \/ Detail(s)

Answer(s) ==
  \/ Progress(s) \/ Redirect(s) \/ TooManyRedirects(s)
  \/ Unexpected(s) \/ SoftFault(s) \/ Fault(s)

Next == NextWindow \/ \E s \in Syncs : Answer(s)

Spec == Init /\ [][Next]_vars

\* A request is answered somehow, or fetch gives up: as long as any is under way, one is.
Fairness == WF_vars(\E s \in Syncs : Answer(s))
FairSpec == Spec /\ Fairness

-------------------------------------------------------------------------------
(* Properties                                                              *)

\* The syncs start together and may generate the same code, of which only one is
\* accepted.  With the right secrets nothing else is ever refused: the refused code is
\* one that another sync was let in with, and no code is too old when posted.
RefusedByRivalOnly ==
  world.password /\ world.device =>
    \A r \in refused : \E rival \in Syncs \ {r[1]} : <<rival, r[2]>> \in spent

\* No sync posts a password that it was refused, or a code that it has posted before,
\* whatever became of it, since refusals lock the account: a login is not tried again,
\* and all courses are searched with one (comment of fetchCitSyllabiForCourses).
NoSecretRepeated ==
  \A s \in Syncs :
    /\ sync[s].at = "password" => <<s, 0>> \notin refused
    /\ sync[s].at = "otp" => <<s, sync[s].code>> \notin spent \cup refused

AllEnded == \A s \in Syncs : sync[s].at \in Ended

\* Every course is answered, found or not, once the login has succeeded: a course that
\* fails does not stop the others.
EveryCourseAnswered ==
  LET y == sync["syllabus"]
  IN y.at = "done" => y.found \cup y.missed = Courses

\* Every sync comes to an end, also when the portal redirects in circles.
SyncsEnd == <>[]AllEnded

\* The syllabus of a course the portal has is returned, when no request fails (comment
\* of fetchCitSyllabusHtml: null only when there is no hit).
HitIsReturned ==
  LET y == sync["syllabus"]
  IN faults = 0 /\ HasMenu(y.page) => y.missed \cap Offered = {}
===============================================================================
