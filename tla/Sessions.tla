-------------------------------- MODULE Sessions --------------------------------
(***************************************************************************)
(* Sign-up, email verification, sign-in, sign-out and the session check    *)
(* that guards every command: the Identity service around the better-auth  *)
(* library, the gateway's routes that call it, and the cookie that the     *)
(* browsers keep.                                                          *)
(*                                                                         *)
(* Browsers send several requests at a time, each carries the cookie that  *)
(* the browser had when it was sent, and its answer sets or clears the     *)
(* cookie that the browser has when it arrives.  The users and sessions    *)
(* are the library's; a call of it succeeds, refuses, or throws.  What it  *)
(* does when its database fails is left open.                              *)
(***************************************************************************)
EXTENDS GatewayErrors

CONSTANTS
  Users, Browsers,
  Sessions,   \* session tokens: each is drawn once
  Requests,   \* requests in progress; one is used again after its answer
  NULL        \* absent

\* The HTTP statuses that browsers see.
Statuses == {200, 201, 204, 400, 401, 409, 500, 503}

ASSUME SessionsNullAssumption ==
  NULL \notin Users \cup Browsers \cup Sessions /\ NULL \notin Statuses

VARIABLES
  \* The Identity database:
  account,   \* user -> "none", "unverified" or "verified"
  owner,     \* session -> its user
  row,       \* session -> its row, and where its expiry is
  \* The users' mailboxes and browsers:
  link,      \* user -> the verification link: "none", "valid" or "expired"
  cookie,    \* browser -> the session its cookie names
  \* The requests:
  call,      \* request -> what it asks for
  stage,     \* request -> how far it is
  held,      \* request -> the session it carries, or that its sign-in made
  answer,    \* request -> its HTTP status
  \* For the properties only:
  home,      \* session -> the browser that signed in
  left       \* sessions whose sign-out was answered with success

database == <<account, owner, row>>
requests == <<call, stage, held, answer>>
vars == <<database, link, cookie, requests, home, left>>

\* What is asked for; a request that only carries a session has no user before the
\* check tells one.
Kinds == {"SignUp", "VerifyEmail", "SignIn", "SignOut", "CurrentUser"}
Calls ==
  [kind : Kinds \ {"SignOut", "CurrentUser"}, browser : Browsers, user : Users]
  \cup [kind : {"SignOut", "CurrentUser"}, browser : Browsers, user : {NULL}]

\* Calls as they are after the check.
KnownCalls == Calls \cup [kind : {"CurrentUser"}, browser : Browsers, user : Users]

TypeOK ==
  /\ account \in [Users -> {"none", "unverified", "verified"}]
  /\ owner \in [Sessions -> Users \cup {NULL}]
  /\ row \in [Sessions -> {"none", "live", "renewed", "late", "gone"}]
  /\ link \in [Users -> {"none", "valid", "expired"}]
  /\ cookie \in [Browsers -> Sessions \cup {NULL}]
  /\ call \in [Requests -> KnownCalls \cup {NULL}]
  /\ stage \in [Requests -> {"idle", "sent", "mailing", "created", "returned", "deleted",
                             "admitted", "answered"}]
  /\ held \in [Requests -> Sessions \cup {NULL}]
  /\ answer \in [Requests -> Statuses \cup {NULL}]
  /\ home \in [Sessions -> Browsers \cup {NULL}]
  /\ left \subseteq Sessions

Init ==
  /\ account = [u \in Users |-> "none"]
  /\ owner = [s \in Sessions |-> NULL]
  /\ row = [s \in Sessions |-> "none"]
  /\ link = [u \in Users |-> "none"]
  /\ cookie = [b \in Browsers |-> NULL]
  /\ call = [r \in Requests |-> NULL]
  /\ stage = [r \in Requests |-> "idle"]
  /\ held = [r \in Requests |-> NULL]
  /\ answer = [r \in Requests |-> NULL]
  /\ home = [s \in Sessions |-> NULL]
  /\ left = {}

-------------------------------------------------------------------------------
\* What Identity makes of the library's errors.  "Failure" is any error without a
\* status or code that it knows.
mapBetterAuthError(e) ==
  Lookup([Conflict |-> "ALREADY_EXISTS", ClientError |-> "INVALID_ARGUMENT"], e, "INTERNAL")

\* Mutant: every error is blamed on the credentials.
mapBetterAuthSignInErrorAlways(e) == "UNAUTHENTICATED"

mapBetterAuthSignInError(e) ==
  Lookup([EMAIL_NOT_VERIFIED |-> "UNAUTHENTICATED",
          INVALID_EMAIL_OR_PASSWORD |-> "UNAUTHENTICATED"], e, "INTERNAL")

mapEmailVerificationError(e) ==
  Lookup([INVALID_TOKEN |-> "UNAUTHENTICATED", TOKEN_EXPIRED |-> "UNAUTHENTICATED"], e, "INTERNAL")

\* Mutant: a session that cannot be read is taken for none.
currentUserErrorUnread(e) == "UNAUTHENTICATED"

currentUserError(e) == Lookup([NoSession |-> "UNAUTHENTICATED"], e, "INTERNAL")
mapBetterAuthSignOutError == "INTERNAL"

Is(r, kind, at) == stage[r] = at /\ call[r].kind = kind
User(r) == call[r].user
Browser(r) == call[r].browser
Live(s) == s # NULL /\ row[s] \in {"live", "renewed", "late"}

Advance(r, to) == stage' = [stage EXCEPT ![r] = to]

Answer(r, status) ==
  /\ Advance(r, "answered")
  /\ answer' = [answer EXCEPT ![r] = status]

AnswerError(r, code) == Answer(r, throwGatewayGrpcError(code, TRUE))

\* The gateway forwards the session cookie to CurrentUser and SignOut only.
SessionSent(c) == IF c.kind \in {"SignOut", "CurrentUser"} THEN cookie[c.browser] ELSE NULL

Send(r, c) ==
  /\ stage[r] \in {"idle", "answered"}
  /\ call' = [call EXCEPT ![r] = c]
  /\ held' = [held EXCEPT ![r] = SessionSent(c)]
  /\ answer' = [answer EXCEPT ![r] = NULL]
  /\ Advance(r, "sent")
  /\ UNCHANGED <<database, link, cookie, home, left>>

\* Validation in the gateway's pipe and in Identity.
RefuseInput(r) ==
  /\ stage[r] = "sent" /\ User(r) # NULL
  /\ AnswerError(r, "INVALID_ARGUMENT")
  /\ UNCHANGED <<database, link, cookie, call, held, home, left>>

\* Identity cannot be reached, or is lost before its answer: whatever it did stays.
LoseIdentity(r) ==
  /\ stage[r] \notin {"idle", "answered", "admitted"}
  /\ Answer(r, throwGatewayGrpcError("UNAVAILABLE", FALSE))
  /\ UNCHANGED <<database, link, cookie, call, held, home, left>>

(***************************************************************************)
(* Sign-up and email verification                                          *)
(***************************************************************************)
InsertUser(r) ==
  /\ Is(r, "SignUp", "sent") /\ account[User(r)] = "none"
  /\ account' = [account EXCEPT ![User(r)] = "unverified"]
  /\ Advance(r, "mailing")
  /\ UNCHANGED <<owner, row, link, cookie, call, held, answer, home, left>>

\* sendOnSignUp.  The library may or may not report that the mail was not sent; no
\* route sends it again.
SendVerificationEmail(r, sent) ==
  /\ Is(r, "SignUp", "mailing")
  /\ link' = IF sent THEN [link EXCEPT ![User(r)] = "valid"] ELSE link
  /\ \/ Answer(r, 201)
     \/ ~sent /\ AnswerError(r, mapBetterAuthError("Failure"))
  /\ UNCHANGED <<database, cookie, call, held, home, left>>

\* The email has an account: the library refuses, or pretends.
RefuseSignUp(r) ==
  /\ Is(r, "SignUp", "sent")
  /\ \/ account[User(r)] # "none" /\ \/ Answer(r, 201)
                                     \/ \E e \in {"Conflict", "ClientError"} :
                                          AnswerError(r, mapBetterAuthError(e))
     \/ AnswerError(r, mapBetterAuthError("Failure"))
  /\ UNCHANGED <<database, link, cookie, call, held, home, left>>

VerifyEmail(r) ==
  /\ Is(r, "VerifyEmail", "sent") /\ link[User(r)] = "valid"
  /\ account' = [account EXCEPT ![User(r)] = "verified"]
  /\ Answer(r, 200)
  /\ UNCHANGED <<owner, row, link, cookie, call, held, home, left>>

RefuseVerification(r) ==
  /\ Is(r, "VerifyEmail", "sent")
  /\ \/ link[User(r)] = "none" /\ AnswerError(r, mapEmailVerificationError("INVALID_TOKEN"))
     \/ link[User(r)] = "expired" /\ AnswerError(r, mapEmailVerificationError("TOKEN_EXPIRED"))
     \/ AnswerError(r, mapEmailVerificationError("Failure"))
  /\ UNCHANGED <<database, link, cookie, call, held, home, left>>

LinkExpires(u) ==
  /\ link[u] = "valid"
  /\ link' = [link EXCEPT ![u] = "expired"]
  /\ UNCHANGED <<database, cookie, requests, home, left>>

(***************************************************************************)
(* Sign-in                                                                 *)
(***************************************************************************)
\* Mutant: requireEmailVerification is off.
AdmissibleUnverified(u) == account[u] # "none"

\* emailAndPassword with requireEmailVerification.
Admissible(u) == account[u] = "verified"

CreateSession(r, s) ==
  /\ Is(r, "SignIn", "sent") /\ Admissible(User(r))
  /\ row[s] = "none"
  /\ row' = [row EXCEPT ![s] = "live"]
  /\ owner' = [owner EXCEPT ![s] = User(r)]
  /\ home' = [home EXCEPT ![s] = Browser(r)]
  /\ held' = [held EXCEPT ![r] = s]
  /\ Advance(r, "created")
  /\ UNCHANGED <<account, link, cookie, call, answer, left>>

RefuseSignIn(r) ==
  /\ Is(r, "SignIn", "sent")
  /\ \/ AnswerError(r, mapBetterAuthSignInError("INVALID_EMAIL_OR_PASSWORD"))
     \/ account[User(r)] = "unverified" /\ AnswerError(r, mapBetterAuthSignInError("EMAIL_NOT_VERIFIED"))
     \/ AnswerError(r, mapBetterAuthSignInError("Failure"))
  /\ UNCHANGED <<database, link, cookie, call, held, home, left>>

\* Identity reads the new session's expiry; if it fails or finds nothing, the session
\* stays.
GetSessionExpiry(r) ==
  /\ Is(r, "SignIn", "created")
  /\ \/ Live(held[r]) /\ Advance(r, "returned") /\ UNCHANGED answer
     \/ AnswerError(r, mapBetterAuthSignInError("Failure"))
  /\ UNCHANGED <<database, link, cookie, call, held, home, left>>

\* The gateway sets the cookie, with that expiry: a browser drops it when it is over.
SetCookie(r) ==
  /\ Is(r, "SignIn", "returned")
  /\ cookie' = [cookie EXCEPT ![Browser(r)] = IF row[held[r]] = "live" THEN held[r] ELSE NULL]
  /\ Answer(r, 200)
  /\ UNCHANGED <<database, link, call, held, home, left>>

\* Mutant: the cookie has no expiry.
CookiesKeptAtExpiry(s) == cookie

CookiesAtExpiry(s) == [b \in Browsers |-> IF cookie[b] = s THEN NULL ELSE cookie[b]]

\* The time that the cookie names has come, on one clock for browser and database.  A
\* session that was renewed lives on.
SessionExpires(s) ==
  /\ row[s] \in {"live", "renewed"}
  /\ row' = [row EXCEPT ![s] = IF @ = "renewed" THEN "late" ELSE "gone"]
  /\ cookie' = CookiesAtExpiry(s)
  /\ UNCHANGED <<account, owner, link, requests, home, left>>

RenewedSessionExpires(s) ==
  /\ row[s] = "late"
  /\ row' = [row EXCEPT ![s] = "gone"]
  /\ UNCHANGED <<account, owner, link, cookie, requests, home, left>>

(***************************************************************************)
(* The session check: GET /auth/currentuser, and the guard of every        *)
(* command, which goes on as the user it was told                          *)
(***************************************************************************)
\* getSession may move the session's expiry; the gateway does not move the cookie's.
CheckSession(r) ==
  /\ Is(r, "CurrentUser", "sent") /\ Live(held[r])
  /\ row' \in {row, [row EXCEPT ![held[r]] = IF @ = "live" THEN "renewed" ELSE @]}
  /\ call' = [call EXCEPT ![r].user = owner[held[r]]]
  /\ Advance(r, "admitted")
  /\ UNCHANGED <<account, owner, link, cookie, held, answer, home, left>>

DenySession(r) ==
  /\ Is(r, "CurrentUser", "sent")
  /\ \/ ~Live(held[r]) /\ AnswerError(r, currentUserError("NoSession"))
     \/ AnswerError(r, currentUserError("Failure"))
  /\ UNCHANGED <<database, link, cookie, call, held, home, left>>

Proceed(r) ==
  /\ stage[r] = "admitted"
  /\ Answer(r, 200)
  /\ UNCHANGED <<database, link, cookie, call, held, home, left>>

(***************************************************************************)
(* Sign-out                                                                *)
(***************************************************************************)
\* The library deletes the session that the cookie names.  When its database fails
\* it reports an error, or success all the same.
DeleteSession(r, done) ==
  /\ Is(r, "SignOut", "sent")
  /\ row' = IF done /\ Live(held[r]) THEN [row EXCEPT ![held[r]] = "gone"] ELSE row
  /\ \/ Advance(r, "deleted") /\ UNCHANGED answer
     \/ AnswerError(r, mapBetterAuthSignOutError)
  /\ UNCHANGED <<account, owner, link, cookie, call, held, home, left>>

\* Mutant: only the session is deleted.
CookieKept(b) == cookie

CookieCleared(b) == [cookie EXCEPT ![b] = NULL]

\* The gateway clears whatever cookie the browser has by now.
ClearCookie(r) ==
  /\ Is(r, "SignOut", "deleted")
  /\ cookie' = CookieCleared(Browser(r))
  /\ left' = left \cup ({held[r]} \ {NULL})
  /\ Answer(r, 204)
  /\ UNCHANGED <<database, link, call, held, home>>

-------------------------------------------------------------------------------
Handle(r) ==
  \/ InsertUser(r) \/ RefuseSignUp(r) \/ VerifyEmail(r) \/ RefuseVerification(r)
  \/ RefuseSignIn(r) \/ GetSessionExpiry(r) \/ SetCookie(r)
  \/ CheckSession(r) \/ DenySession(r) \/ Proceed(r) \/ ClearCookie(r)
  \/ RefuseInput(r) \/ LoseIdentity(r)
  \/ \E done \in BOOLEAN : SendVerificationEmail(r, done) \/ DeleteSession(r, done)
  \/ \E s \in Sessions : CreateSession(r, s)

Next ==
  \/ \E r \in Requests : Handle(r) \/ \E c \in Calls : Send(r, c)
  \/ \E u \in Users : LinkExpires(u)
  \/ \E s \in Sessions : SessionExpires(s) \/ RenewedSessionExpires(s)

Spec == Init /\ [][Next]_vars

-------------------------------------------------------------------------------
\* A command goes on only as a user who verified an email address, and in the
\* browser that user signed in with: no answer or cookie gets to another one.
AdmittedUserSignedInHere ==
  \A r \in Requests : stage[r] = "admitted" =>
    /\ home[held[r]] = Browser(r) /\ owner[held[r]] = User(r)
    /\ account[User(r)] = "verified"

\* A session whose sign-out was answered with success never comes back to the
\* browser, whatever other requests of it were under way.
SignedOutSessionStaysAway == \A b \in Browsers : cookie[b] \notin left

\* The inductive invariant of the proofs: a session is one verified user's ...
RowsInv ==
  \A s \in Sessions :
    IF row[s] = "none" THEN owner[s] = NULL /\ home[s] = NULL
    ELSE /\ owner[s] \in Users /\ account[owner[s]] = "verified"
         /\ home[s] \in Browsers
\* ... only the browser that signed in names it, up to the time that its cookie says ...
CookieInv ==
  \A b \in Browsers : cookie[b] # NULL => home[cookie[b]] = b /\ row[cookie[b]] # "late"
\* ... or a request of that browser, though no sign-up, verification or sign-in does ...
HeldInv ==
  \A r \in Requests :
    /\ stage[r] # "idle" => call[r] \in KnownCalls
    /\ held[r] # NULL => stage[r] # "idle" /\ home[held[r]] = Browser(r)
    /\ stage[r] = "sent" /\ call[r].kind \notin {"SignOut", "CurrentUser"} => held[r] = NULL
    /\ stage[r] = "admitted" =>
         held[r] # NULL /\ owner[held[r]] = User(r) /\ call[r].kind = "CurrentUser"
\* ... and before a sign-in of its user has set its cookie, it is the only one to name it.
FreshInv ==
  \A r \in Requests : Is(r, "SignIn", "created") \/ Is(r, "SignIn", "returned") =>
    /\ held[r] # NULL /\ held[r] \notin left /\ owner[held[r]] = User(r)
    /\ \A b \in Browsers : cookie[b] # held[r]
    /\ \A q \in Requests \ {r} : held[q] # held[r]
SessionsInv ==
  /\ TypeOK
  /\ RowsInv
  /\ CookieInv
  /\ HeldInv
  /\ FreshInv
  /\ \A s \in left : home[s] # NULL
  /\ SignedOutSessionStaysAway

\* No browser is left with the cookie of a session that has run out: one that dies
\* under a browser's cookie is being signed out by a request of that browser.
CookieIsNotStale ==
  [][\A b \in Browsers, s \in Sessions :
       cookie'[b] = s /\ row[s] # "gone" /\ row'[s] = "gone" =>
         \E r \in Requests : Is(r, "SignOut", "sent") /\ held[r] = s /\ Browser(r) = b]_vars

\* "Not authenticated" is never said because a database or a service failed: a
\* browser that is told so for its session has none, and a link that is refused is no
\* valid one.
UnauthenticatedIsTrue ==
  [][\A r \in Requests : answer[r] = NULL /\ answer'[r] = 401 =>
       CASE call[r].kind = "CurrentUser" -> ~Live(held[r])
         [] call[r].kind = "VerifyEmail" -> link[User(r)] # "valid"
         [] OTHER -> held[r] = NULL]_vars

\* A sign-in that is told success has made its browser's session, and one that is told
\* to correct its input or credentials has made none.
SignInTellsSession ==
  [][\A r \in Requests : answer[r] = NULL /\ answer'[r] # NULL /\ call[r].kind = "SignIn" =>
       /\ answer'[r] = 200 => owner[held[r]] = User(r) /\ cookie'[Browser(r)] \in {held[r], NULL}
       /\ answer'[r] \in {400, 401} => held[r] = NULL]_vars
===============================================================================
