---------------------------- MODULE SessionsProofs ----------------------------
(***************************************************************************)
(* Proofs about Sessions, for any users, browsers, sessions and requests.  *)
(***************************************************************************)
EXTENDS Sessions, TLAPS

Codes == {"INVALID_ARGUMENT", "UNAUTHENTICATED", "ALREADY_EXISTS", "INTERNAL"}

\* The statuses of the errors that Identity answers, from its codes ...
LEMMA CodeStatuses ==
  /\ \A code \in Codes : throwGatewayGrpcError(code, TRUE) \in Statuses
  /\ throwGatewayGrpcError("UNAVAILABLE", FALSE) \in Statuses
BY DEF Codes, Statuses, throwGatewayGrpcError, httpStatusFromGrpcCode, Lookup

\* ... and its tables of the library's errors.
LEMMA ErrorCodes ==
  /\ mapBetterAuthError("Conflict") = "ALREADY_EXISTS"
  /\ mapBetterAuthError("ClientError") = "INVALID_ARGUMENT"
  /\ mapBetterAuthError("Failure") = "INTERNAL"
  /\ mapEmailVerificationError("INVALID_TOKEN") = "UNAUTHENTICATED"
  /\ mapEmailVerificationError("TOKEN_EXPIRED") = "UNAUTHENTICATED"
  /\ mapEmailVerificationError("Failure") = "INTERNAL"
  /\ mapBetterAuthSignInError("INVALID_EMAIL_OR_PASSWORD") = "UNAUTHENTICATED"
  /\ mapBetterAuthSignInError("EMAIL_NOT_VERIFIED") = "UNAUTHENTICATED"
  /\ mapBetterAuthSignInError("Failure") = "INTERNAL"
  /\ currentUserError("NoSession") = "UNAUTHENTICATED"
  /\ currentUserError("Failure") = "INTERNAL"
  /\ mapBetterAuthSignOutError = "INTERNAL"
BY DEF mapBetterAuthError, mapEmailVerificationError, mapBetterAuthSignInError, currentUserError,
       mapBetterAuthSignOutError, Lookup

\* Every error code of the identity service is answered with some status.
LEMMA ErrorAnswer ==
  ASSUME NEW r \in Requests, NEW code \in Codes, AnswerError(r, code)
  PROVE  \E st \in Statuses : Answer(r, st)
BY CodeStatuses, Zenon DEF AnswerError

Refusal(r) ==
  \/ RefuseInput(r) \/ LoseIdentity(r) \/ RefuseSignUp(r) \/ RefuseVerification(r)
  \/ RefuseSignIn(r) \/ DenySession(r) \/ Proceed(r)

\* Every refusal only answers.
LEMMA RefusalAnswers ==
  ASSUME NEW r \in Requests, Refusal(r)
  PROVE  /\ stage[r] # "idle"
         /\ UNCHANGED <<database, link, cookie, call, held, home, left>>
         /\ \E st \in Statuses : Answer(r, st)
<1>1. /\ stage[r] # "idle"
      /\ UNCHANGED <<database, link, cookie, call, held, home, left>>
  BY DEF Refusal, RefuseInput, LoseIdentity, RefuseSignUp, RefuseVerification, RefuseSignIn,
         DenySession, Proceed, Is
<1>2. 201 \in Statuses /\ 200 \in Statuses /\ 503 \in Statuses
  BY DEF Statuses
<1>3. CASE RefuseInput(r)
  BY <1>1, <1>3, CodeStatuses, Zenon DEF RefuseInput, AnswerError, Codes
<1>4. CASE LoseIdentity(r)
  <2>1. Answer(r, throwGatewayGrpcError("UNAVAILABLE", FALSE))
    BY <1>4 DEF LoseIdentity
  <2>2. QED
    BY <1>1, <1>2, <2>1, CodeStatuses, Zenon
<1>5. CASE RefuseSignUp(r)
  <2>1. \/ Answer(r, 201)
        \/ \E e \in {"Conflict", "ClientError", "Failure"} : AnswerError(r, mapBetterAuthError(e))
    BY <1>5, Zenon DEF RefuseSignUp
  <2>2. \A e \in {"Conflict", "ClientError", "Failure"} :
          mapBetterAuthError(e) \in Codes
    BY ErrorCodes DEF Codes
  <2>3. QED
    BY <1>1, <1>2, <2>1, <2>2, ErrorAnswer, Zenon
<1>6. CASE RefuseVerification(r)
  <2>1. AnswerError(r, "UNAUTHENTICATED") \/ AnswerError(r, "INTERNAL")
    BY <1>6, ErrorCodes, Zenon DEF RefuseVerification
  <2>2. QED
    BY <1>1, <2>1, ErrorAnswer, Zenon DEF Codes
<1>7. CASE RefuseSignIn(r)
  <2>1. AnswerError(r, "UNAUTHENTICATED") \/ AnswerError(r, "INTERNAL")
    BY <1>7, ErrorCodes, Zenon DEF RefuseSignIn
  <2>2. QED
    BY <1>1, <2>1, ErrorAnswer, Zenon DEF Codes
<1>8. CASE DenySession(r)
  <2>1. AnswerError(r, "UNAUTHENTICATED") \/ AnswerError(r, "INTERNAL")
    BY <1>8, ErrorCodes, Zenon DEF DenySession
  <2>2. QED
    BY <1>1, <2>1, ErrorAnswer, Zenon DEF Codes
<1>9. CASE Proceed(r)
  BY <1>2, <1>9, Zenon DEF Proceed
<1>10. QED
  BY <1>1, <1>3, <1>4, <1>5, <1>6, <1>7, <1>8, <1>9, Zenon DEF Refusal

\* A step that makes no session and moves no expiry away from the cookie's.
RowsAge ==
  \A s \in Sessions : /\ row[s] = "none" <=> row'[s] = "none"
                      /\ row'[s] = "late" => row[s] = "late"

\* A request that goes on, with what it held, to a step that is not the guard's or a
\* sign-in's stays without a part in other requests' sessions.
LEMMA StageInv ==
  ASSUME TypeOK, HeldInv, FreshInv, NEW r \in Requests, stage[r] # "idle",
         NEW to \in {"mailing", "deleted", "answered"}, Advance(r, to),
         UNCHANGED <<owner, cookie, call, held, home, left>>
  PROVE  HeldInv' /\ FreshInv'
<1>1. /\ stage'[r] = to
      /\ \A q \in Requests : q # r => stage'[q] = stage[q]
  BY DEF TypeOK, Advance
<1>2. \A q \in Requests : stage'[q] \in {stage[q], "mailing", "deleted", "answered"}
                          /\ (stage[q] # "idle" \/ stage'[q] = stage[q])
  BY <1>1
<1>3. HeldInv'
  BY <1>2 DEF HeldInv, Browser, User
<1>4. FreshInv'
  BY <1>2 DEF FreshInv, Is, User
<1>5. QED
  BY <1>3, <1>4

\* An answer that sets no cookie keeps the invariant: what the request held is only
\* looked at before it.
LEMMA AnswerInv ==
  ASSUME SessionsInv, NEW r \in Requests, stage[r] # "idle",
         NEW st \in Statuses, Answer(r, st),
         UNCHANGED <<owner, cookie, call, held, home, left>>,
         row' \in [Sessions -> {"none", "live", "renewed", "late", "gone"}],
         RowsAge,
         account' \in [Users -> {"none", "unverified", "verified"}],
         \A u \in Users : account[u] = "verified" => account'[u] = "verified",
         link' \in [Users -> {"none", "valid", "expired"}]
  PROVE  SessionsInv'
<1>1. TypeOK'
  BY DEF SessionsInv, TypeOK, Answer, Advance, Statuses
<1>2. RowsInv' /\ CookieInv' /\ SignedOutSessionStaysAway'
  BY DEF SessionsInv, TypeOK, RowsAge, RowsInv, CookieInv, SignedOutSessionStaysAway
<1>3. HeldInv' /\ FreshInv'
  <2>1. TypeOK /\ HeldInv /\ FreshInv
    BY DEF SessionsInv
  <2>2. Advance(r, "answered")
    BY DEF Answer
  <2>3. QED
    BY <2>1, <2>2, StageInv
<1>4. QED
  BY <1>1, <1>2, <1>3 DEF SessionsInv

\* So does a request that goes on, with what it held, to a step that is not the
\* guard's or a sign-in's.
LEMMA AdvanceInv ==
  ASSUME SessionsInv, NEW r \in Requests, stage[r] # "idle",
         NEW to \in {"mailing", "deleted"}, Advance(r, to),
         UNCHANGED <<owner, cookie, link, call, held, answer, home, left>>,
         account' \in [Users -> {"none", "unverified", "verified"}],
         \A u \in Users : account[u] = "verified" => account'[u] = "verified",
         row' \in [Sessions -> {"none", "live", "renewed", "late", "gone"}],
         RowsAge
  PROVE  SessionsInv'
<1>1. TypeOK'
  BY DEF SessionsInv, TypeOK, Advance
<1>2. RowsInv' /\ CookieInv' /\ SignedOutSessionStaysAway'
  BY DEF SessionsInv, TypeOK, RowsAge, RowsInv, CookieInv, SignedOutSessionStaysAway
<1>3. HeldInv' /\ FreshInv'
  <2>1. TypeOK /\ HeldInv /\ FreshInv
    BY DEF SessionsInv
  <2>2. QED
    BY <2>1, StageInv
<1>4. QED
  BY <1>1, <1>2, <1>3 DEF SessionsInv

-------------------------------------------------------------------------------
\* A request takes the cookie that its browser has.
LEMMA SendInv ==
  ASSUME SessionsInv, NEW r \in Requests, NEW c \in Calls, Send(r, c)
  PROVE  SessionsInv'
<1> USE DEF SessionsInv, TypeOK, Send, Advance, database
<1>1. c \in KnownCalls /\ c.browser \in Browsers
  BY DEF Calls, KnownCalls
<1>2. /\ SessionSent(c) \in {NULL, cookie[c.browser]}
      /\ c.kind \notin {"SignOut", "CurrentUser"} => SessionSent(c) = NULL
  BY DEF SessionSent
<1>3. TypeOK'
  BY <1>1, <1>2
<1>4. RowsInv' /\ CookieInv' /\ SignedOutSessionStaysAway'
  BY DEF RowsInv, CookieInv, SignedOutSessionStaysAway
<1>5. HeldInv'
  <2>1. /\ stage'[r] = "sent" /\ call'[r] = c /\ held'[r] = SessionSent(c)
        /\ held'[r] # NULL => home[held'[r]] = c.browser
    BY <1>1, <1>2 DEF CookieInv
  <2>2. \A q \in Requests : q # r => /\ stage'[q] = stage[q] /\ call'[q] = call[q]
                                    /\ held'[q] = held[q]
    OBVIOUS
  <2>3. UNCHANGED <<home, owner>>
    OBVIOUS
  <2> HIDE DEF SessionsInv, TypeOK, Send, Advance, database
  <2>4. HeldInv
    BY DEF SessionsInv
  <2>5. QED
    BY <1>1, <1>2, <2>1, <2>2, <2>3, <2>4 DEF HeldInv, Browser, User
<1>6. FreshInv'
  BY <1>1, <1>2 DEF FreshInv, Is, User
<1>7. QED
  BY <1>3, <1>4, <1>5, <1>6

\* A new session is nobody's until its sign-in goes on.
LEMMA CreateInv ==
  ASSUME SessionsInv, NEW r \in Requests, NEW s \in Sessions, CreateSession(r, s)
  PROVE  SessionsInv'
<1> USE SessionsNullAssumption DEF SessionsInv, TypeOK, CreateSession, Advance, Is
<1>1. /\ \A q \in Requests : stage[q] # "idle" => Browser(q) \in Browsers
      /\ User(r) \in Users
  BY DEF HeldInv, Browser, User, KnownCalls, Calls, Kinds
<1>2. home[s] = NULL /\ s \notin left /\ \A b \in Browsers : cookie[b] # s
  BY DEF RowsInv, CookieInv
<1>3. \A q \in Requests : held[q] # s
  BY <1>1, <1>2 DEF HeldInv
<1>4. TypeOK'
  BY <1>1
<1>5. RowsInv' /\ CookieInv' /\ SignedOutSessionStaysAway'
  BY <1>1, <1>2 DEF RowsInv, CookieInv, SignedOutSessionStaysAway, Admissible, Browser, User
<1>6. HeldInv'
  BY <1>1, <1>2, <1>3 DEF HeldInv, Browser, User
<1>7. FreshInv'
  BY <1>2, <1>3 DEF FreshInv, User
<1>8. QED
  BY <1>1, <1>2, <1>4, <1>5, <1>6, <1>7

\* The expiry is read: the sign-in stays the only one to name its session.
LEMMA ReturnInv ==
  ASSUME SessionsInv, NEW r \in Requests, Is(r, "SignIn", "created"), Advance(r, "returned"),
         UNCHANGED <<database, link, cookie, call, held, answer, home, left>>
  PROVE  SessionsInv'
<1> USE DEF SessionsInv, TypeOK, Advance, Is, database
<1>1. TypeOK'
  OBVIOUS
<1>2. RowsInv' /\ CookieInv' /\ SignedOutSessionStaysAway'
  BY DEF RowsInv, CookieInv, SignedOutSessionStaysAway
<1>3. HeldInv'
  BY DEF HeldInv, Browser, User
<1>4. FreshInv'
  BY DEF FreshInv, User
<1>5. QED
  BY <1>1, <1>2, <1>3, <1>4

\* The session of a sign-in gets to the browser that asked for it, for the first time.
LEMMA SetCookieInv ==
  ASSUME SessionsInv, NEW r \in Requests, SetCookie(r)
  PROVE  SessionsInv'
<1> USE DEF SessionsInv, TypeOK, Statuses, SetCookie, Answer, Advance, Is, database
<1>1. /\ held[r] # NULL /\ held[r] \in Sessions /\ held[r] \notin left
      /\ home[held[r]] = Browser(r) /\ Browser(r) \in Browsers
  BY DEF FreshInv, HeldInv, Browser, KnownCalls, Calls
<1>2. \A b \in Browsers : cookie'[b] \in {cookie[b], NULL} \/ (b = Browser(r) /\ cookie'[b] = held[r])
  BY <1>1
<1>3. TypeOK'
  BY <1>1
<1>4. RowsInv' /\ CookieInv'
  BY <1>1, <1>2 DEF RowsInv, CookieInv
<1>5. SignedOutSessionStaysAway'
  BY <1>1, <1>2, SessionsNullAssumption DEF SignedOutSessionStaysAway
<1>6. HeldInv'
  BY DEF HeldInv, Browser, User
<1>7. FreshInv'
  BY <1>1, <1>2 DEF FreshInv, User
<1>8. QED
  BY <1>3, <1>4, <1>5, <1>6, <1>7

\* currentUser: a live session is read, its user with it, and perhaps renewed.
LEMMA CheckSessionInv ==
  ASSUME SessionsInv, NEW r \in Requests, CheckSession(r)
  PROVE  SessionsInv'
<1> USE DEF SessionsInv, TypeOK, CheckSession, Advance, Is, Live
<1>1. /\ held[r] \in Sessions /\ owner[held[r]] \in Users
      /\ call[r] \in [kind : {"CurrentUser"}, browser : Browsers, user : Users \cup {NULL}]
  BY DEF RowsInv, HeldInv, KnownCalls, Calls
<1>2. /\ call' = [call EXCEPT ![r] = [call[r] EXCEPT !.user = owner[held[r]]]]
      /\ call'[r].kind = call[r].kind /\ call'[r].browser = call[r].browser
      /\ call'[r].user = owner[held[r]]
      /\ call'[r] \in KnownCalls
  BY <1>1 DEF KnownCalls
<1>3. /\ row' \in [Sessions -> {"none", "live", "renewed", "late", "gone"}]
      /\ RowsAge
  BY DEF RowsAge
<1>4. TypeOK'
  BY <1>2, <1>3
<1>5. RowsInv' /\ CookieInv' /\ SignedOutSessionStaysAway'
  BY <1>3 DEF RowsAge, RowsInv, CookieInv, SignedOutSessionStaysAway
<1>6. HeldInv'
  BY <1>1, <1>2 DEF HeldInv, Browser, User
<1>7. FreshInv'
  BY <1>2 DEF FreshInv, User
<1>8. QED
  BY <1>4, <1>5, <1>6, <1>7

\* Time takes sessions, and with them cookies.
LEMMA ExpireInv ==
  ASSUME SessionsInv, NEW s \in Sessions, SessionExpires(s) \/ RenewedSessionExpires(s)
  PROVE  SessionsInv'
<1> USE DEF SessionsInv, TypeOK, requests
<1>1. /\ UNCHANGED <<account, owner, link, call, stage, held, answer, home, left>>
      /\ row' \in [Sessions -> {"none", "live", "renewed", "late", "gone"}]
      /\ \A p \in Sessions : row[p] = "none" <=> row'[p] = "none"
  BY DEF SessionExpires, RenewedSessionExpires
<1>2. /\ cookie' \in [Browsers -> Sessions \cup {NULL}]
      /\ \A b \in Browsers : cookie'[b] \in {cookie[b], NULL}
      /\ \A p \in Sessions : row'[p] = "late" =>
           row[p] = "late" \/ \A b \in Browsers : cookie'[b] # p
  BY SessionsNullAssumption DEF SessionExpires, RenewedSessionExpires, CookiesAtExpiry
<1>3. TypeOK'
  BY <1>1, <1>2
<1>4. RowsInv' /\ CookieInv'
  BY <1>1, <1>2 DEF RowsInv, CookieInv
<1>5. SignedOutSessionStaysAway'
  BY <1>1, <1>2, SessionsNullAssumption DEF SignedOutSessionStaysAway
<1>6. HeldInv'
  BY <1>1 DEF HeldInv, Browser, User
<1>7. FreshInv'
  BY <1>1, <1>2 DEF FreshInv, Is, User
<1>8. QED
  BY <1>1, <1>3, <1>4, <1>5, <1>6, <1>7

\* The cookie is cleared of the browser that sent the sign-out, the only one to have had
\* its session; no sign-in is about to set it.
LEMMA ClearCookieInv ==
  ASSUME SessionsInv, NEW r \in Requests, ClearCookie(r)
  PROVE  SessionsInv'
<1> USE SessionsNullAssumption DEF SessionsInv, TypeOK, Statuses, ClearCookie, CookieCleared, Answer, Advance, Is, database
<1>1. Browser(r) \in Browsers /\ (held[r] # NULL => home[held[r]] = Browser(r))
  BY DEF HeldInv, Browser, KnownCalls, Calls
<1>2. \A b \in Browsers : cookie'[b] = IF b = Browser(r) THEN NULL ELSE cookie[b]
  OBVIOUS
<1>3. TypeOK'
  BY <1>1
<1>4. RowsInv' /\ CookieInv'
  BY <1>2 DEF RowsInv, CookieInv
<1>5. SignedOutSessionStaysAway'
  BY <1>1, <1>2 DEF SignedOutSessionStaysAway, CookieInv
<1>6. HeldInv'
  BY DEF HeldInv, Browser, User
<1>7. FreshInv'
  BY <1>2 DEF FreshInv, User
<1>8. \A s \in left' : home'[s] # NULL
  BY <1>1
<1>9. QED
  BY <1>3, <1>4, <1>5, <1>6, <1>7, <1>8

\* Every step of the gateway, the identity service or the clock keeps the invariant.
LEMMA NextSessions ==
  ASSUME SessionsInv, [Next]_vars
  PROVE  SessionsInv'
<1>1. CASE UNCHANGED vars
  BY <1>1 DEF vars, database, requests, SessionsInv, TypeOK, RowsInv, CookieInv, HeldInv, FreshInv,
              SignedOutSessionStaysAway, Is, Browser, User
<1>2. CASE \E s \in Sessions : SessionExpires(s) \/ RenewedSessionExpires(s)
  BY <1>2, ExpireInv
<1>3. CASE \E r \in Requests, c \in Calls : Send(r, c)
  BY <1>3, SendInv
<1>4. ASSUME NEW u \in Users, LinkExpires(u)
      PROVE  SessionsInv'
  BY <1>4 DEF LinkExpires, database, requests, SessionsInv, TypeOK, RowsInv, CookieInv, HeldInv,
              FreshInv, SignedOutSessionStaysAway, Is, Browser, User
<1>5. ASSUME NEW r \in Requests, Handle(r)
      PROVE  SessionsInv'
  <2>1. CASE Refusal(r)
    <3>1. /\ stage[r] # "idle"
          /\ UNCHANGED <<account, owner, row, link, cookie, call, held, home, left>>
          /\ account' \in [Users -> {"none", "unverified", "verified"}]
          /\ link' \in [Users -> {"none", "valid", "expired"}]
          /\ row' \in [Sessions -> {"none", "live", "renewed", "late", "gone"}]
      BY <2>1, RefusalAnswers DEF database, SessionsInv, TypeOK
    <3>2. PICK st \in Statuses : Answer(r, st)
      BY <2>1, RefusalAnswers
    <3>3. QED
      BY <3>1, <3>2, AnswerInv DEF RowsAge
  <2>2. CASE InsertUser(r)
    BY <2>2, AdvanceInv DEF RowsAge, InsertUser, SessionsInv, TypeOK, Is
  <2>3. CASE VerifyEmail(r)
    <3>1. 200 \in Statuses /\ stage[r] # "idle"
      BY <2>3 DEF Statuses, VerifyEmail, Is
    <3>2. QED
      BY <2>3, <3>1, AnswerInv DEF RowsAge, VerifyEmail, SessionsInv, TypeOK
  <2>4. ASSUME NEW sent \in BOOLEAN, SendVerificationEmail(r, sent)
        PROVE  SessionsInv'
    <3>1. 201 \in Statuses /\ stage[r] # "idle" /\ mapBetterAuthError("Failure") \in Codes
      BY <2>4, ErrorCodes DEF Statuses, Codes, SendVerificationEmail, Is
    <3>2. PICK st \in Statuses : Answer(r, st)
      BY <2>4, <3>1, ErrorAnswer, Zenon DEF SendVerificationEmail
    <3>3. /\ UNCHANGED <<account, owner, row, cookie, call, held, home, left>>
          /\ link' \in [Users -> {"none", "valid", "expired"}]
      BY <2>4 DEF SendVerificationEmail, database, SessionsInv, TypeOK
    <3>4. QED
      BY <3>1, <3>2, <3>3, AnswerInv DEF RowsAge, SessionsInv, TypeOK
  <2>5. CASE SetCookie(r)
    BY <2>5, SetCookieInv
  <2>6. CASE CheckSession(r)
    BY <2>6, CheckSessionInv
  <2>7. CASE ClearCookie(r)
    BY <2>7, ClearCookieInv
  <2>8. CASE \E s \in Sessions : CreateSession(r, s)
    BY <2>8, CreateInv
  <2>9. CASE GetSessionExpiry(r)
    <3>1. /\ Is(r, "SignIn", "created") /\ stage[r] # "idle"
          /\ UNCHANGED <<database, link, cookie, call, held, home, left>>
      BY <2>9 DEF GetSessionExpiry, Is
    <3>2. CASE Advance(r, "returned") /\ UNCHANGED answer
      BY <3>1, <3>2, ReturnInv
    <3>3. CASE AnswerError(r, mapBetterAuthSignInError("Failure"))
      <4>1. mapBetterAuthSignInError("Failure") \in Codes
        BY ErrorCodes DEF Codes
      <4>2. PICK st \in Statuses : Answer(r, st)
        BY <3>3, <4>1, ErrorAnswer, Zenon
      <4>3. QED
        BY <3>1, <4>2, AnswerInv DEF RowsAge, database, SessionsInv, TypeOK
    <3>4. QED
      BY <2>9, <3>2, <3>3, Zenon DEF GetSessionExpiry
  <2>10. ASSUME NEW done \in BOOLEAN, DeleteSession(r, done)
         PROVE  SessionsInv'
    <3>1. /\ stage[r] # "idle"
          /\ UNCHANGED <<account, owner, link, cookie, call, held, home, left>>
          /\ row' \in [Sessions -> {"none", "live", "renewed", "late", "gone"}]
          /\ RowsAge
      BY <2>10 DEF RowsAge, DeleteSession, Is, Live, SessionsInv, TypeOK
    <3>2. CASE Advance(r, "deleted") /\ UNCHANGED answer
      BY <3>1, <3>2, AdvanceInv DEF RowsAge, SessionsInv, TypeOK
    <3>3. CASE AnswerError(r, mapBetterAuthSignOutError)
      <4>1. mapBetterAuthSignOutError \in Codes
        BY ErrorCodes DEF Codes
      <4>2. PICK st \in Statuses : Answer(r, st)
        BY <3>3, <4>1, ErrorAnswer, Zenon
      <4>3. QED
        BY <3>1, <4>2, AnswerInv DEF RowsAge, SessionsInv, TypeOK
    <3>4. QED
      BY <2>10, <3>2, <3>3, Zenon DEF DeleteSession
  <2>11. QED
    BY <1>5, <2>1, <2>2, <2>3, <2>4, <2>5, <2>6, <2>7, <2>8, <2>9, <2>10, Zenon DEF Handle, Refusal
<1>6. QED
  BY <1>1, <1>2, <1>3, <1>4, <1>5, Zenon DEF Next

\* Sessions keep to their user and their browser, whatever answers cross.
THEOREM SessionsInvariant == Spec => []SessionsInv
<1>1. Init => SessionsInv
  BY DEF Init, SessionsInv, TypeOK, RowsInv, CookieInv, HeldInv, FreshInv,
         SignedOutSessionStaysAway, Is
<1>2. SessionsInv /\ [Next]_vars => SessionsInv'
  BY NextSessions
<1>3. QED
  BY <1>1, <1>2, PTL DEF Spec

\* A command goes on as the verified user that signed in with this browser.
THEOREM AdmissionSafety == Spec => []AdmittedUserSignedInHere
<1>1. SessionsInv => \A r \in Requests : stage[r] # "idle" => Browser(r) \in Browsers
  BY DEF SessionsInv, HeldInv, KnownCalls, Calls, Browser
<1>2. SessionsInv => AdmittedUserSignedInHere
  BY <1>1, SessionsNullAssumption
     DEF SessionsInv, TypeOK, HeldInv, RowsInv, AdmittedUserSignedInHere
<1>3. QED
  BY <1>2, SessionsInvariant, PTL

\* A session that was signed out with success does not come back to a browser.
THEOREM SignOutIsFinal == Spec => []SignedOutSessionStaysAway
<1>1. SessionsInv => SignedOutSessionStaysAway
  BY DEF SessionsInv
<1>2. QED
  BY <1>1, SessionsInvariant, PTL

-------------------------------------------------------------------------------
\* The action properties.  A session runs out by time, of which its cookie was told unless
\* it was renewed, or is deleted by a sign-out.
LEMMA RowStep ==
  ASSUME SessionsInv, [Next]_vars, NEW s \in Sessions, row[s] # "gone", row'[s] = "gone"
  PROVE  \/ SessionExpires(s)
         \/ RenewedSessionExpires(s)
         \/ \E r \in Requests : Is(r, "SignOut", "sent") /\ held[r] = s /\ UNCHANGED cookie
<1> USE DEF database, requests
<1>0. row \in [Sessions -> {"none", "live", "renewed", "late", "gone"}]
  BY DEF SessionsInv, TypeOK
<1>1. row' # row
  OBVIOUS
<1>2. ASSUME NEW p \in Sessions, SessionExpires(p) \/ RenewedSessionExpires(p)
      PROVE  p = s
  BY <1>0, <1>2 DEF SessionExpires, RenewedSessionExpires
<1>3. ASSUME NEW r \in Requests, Handle(r)
      PROVE  \E done \in BOOLEAN : DeleteSession(r, done)
  <2>1. CASE \/ InsertUser(r) \/ VerifyEmail(r) \/ Refusal(r) \/ GetSessionExpiry(r) \/ SetCookie(r)
             \/ ClearCookie(r) \/ \E done \in BOOLEAN : SendVerificationEmail(r, done)
    BY <1>1, <2>1 DEF InsertUser, VerifyEmail, Refusal, RefuseSignUp, RefuseVerification,
       RefuseSignIn, DenySession, Proceed, RefuseInput, LoseIdentity, GetSessionExpiry, SetCookie,
       ClearCookie, SendVerificationEmail
  <2>2. CASE CheckSession(r)
    BY <1>0, <2>2 DEF CheckSession
  <2>3. CASE \E p \in Sessions : CreateSession(r, p)
    BY <1>0, <2>3 DEF CreateSession
  <2>4. QED
    BY <1>3, <2>1, <2>2, <2>3, Zenon DEF Handle, Refusal
<1>4. ASSUME NEW r \in Requests, NEW done \in BOOLEAN, DeleteSession(r, done)
      PROVE  Is(r, "SignOut", "sent") /\ held[r] = s /\ UNCHANGED cookie
  BY <1>0, <1>4 DEF DeleteSession
<1>5. ASSUME NEW r \in Requests, NEW c \in Calls, Send(r, c) PROVE FALSE
  BY <1>1, <1>5 DEF Send
<1>6. ASSUME NEW u \in Users, LinkExpires(u) PROVE FALSE
  BY <1>1, <1>6 DEF LinkExpires
<1>7. UNCHANGED vars => FALSE
  BY <1>1 DEF vars
<1>8. QED
  BY <1>2, <1>3, <1>4, <1>5, <1>6, <1>7, Zenon DEF Next

\* A browser is left with the cookie of a dead session only while it signs it out.
THEOREM CookiesDieWithSessions == Spec => CookieIsNotStale
<1>1. ASSUME SessionsInv, [Next]_vars, NEW b \in Browsers, NEW s \in Sessions,
             cookie'[b] = s, row[s] # "gone", row'[s] = "gone"
      PROVE  \E r \in Requests : Is(r, "SignOut", "sent") /\ held[r] = s /\ Browser(r) = b
  <2>1. CASE SessionExpires(s)
    BY <1>1, <2>1, SessionsNullAssumption DEF SessionExpires, CookiesAtExpiry
  <2>2. CASE RenewedSessionExpires(s)
    BY <1>1, <2>2, SessionsNullAssumption DEF RenewedSessionExpires, SessionsInv, CookieInv
  <2>3. ASSUME NEW r \in Requests, Is(r, "SignOut", "sent"), held[r] = s, UNCHANGED cookie
        PROVE  Browser(r) = b
    BY <1>1, <2>3, SessionsNullAssumption DEF SessionsInv, CookieInv, HeldInv
  <2>4. QED
    BY <1>1, <2>1, <2>2, <2>3, RowStep
<1>2. SessionsInv /\ [Next]_vars =>
        [\A b \in Browsers, s \in Sessions :
           cookie'[b] = s /\ row[s] # "gone" /\ row'[s] = "gone" =>
             \E r \in Requests : Is(r, "SignOut", "sent") /\ held[r] = s /\ Browser(r) = b]_vars
  BY <1>1
<1>3. QED
  BY <1>2, SessionsInvariant, PTL DEF Spec, CookieIsNotStale

\* What a request is told, and when.
Told(r, st) ==
  \/ st \in {201, 204, 409, 500, 503}
  \/ st = 400 /\ stage[r] = "sent"
  \/ st = 401 /\ \/ Is(r, "VerifyEmail", "sent") /\ link[User(r)] # "valid"
                 \/ Is(r, "SignIn", "sent")
                 \/ Is(r, "CurrentUser", "sent") /\ ~Live(held[r])
  \/ st = 200 /\ \/ Is(r, "VerifyEmail", "sent")
                 \/ stage[r] = "admitted"
                 \/ SetCookie(r)

\* The status codes that the gateway gives to the codes it knows.
LEMMA CodeNumbers ==
  /\ throwGatewayGrpcError("INVALID_ARGUMENT", TRUE) = 400
  /\ throwGatewayGrpcError("UNAUTHENTICATED", TRUE) = 401
  /\ throwGatewayGrpcError("ALREADY_EXISTS", TRUE) = 409
  /\ throwGatewayGrpcError("INTERNAL", TRUE) = 500
  /\ throwGatewayGrpcError("UNAVAILABLE", FALSE) = 503
BY DEF throwGatewayGrpcError, httpStatusFromGrpcCode, Lookup

\* Every handler answers with a status that tells what became of the request.
LEMMA HandleTells ==
  ASSUME NEW r \in Requests, Handle(r)
  PROVE  UNCHANGED answer \/ \E st : Answer(r, st) /\ Told(r, st)
<1>1. \A st \in {201, 204, 409, 500, 503} : Told(r, st)
  BY DEF Told
<1>0. /\ AnswerError(r, "INTERNAL") => Answer(r, 500)
      /\ AnswerError(r, "INVALID_ARGUMENT") => Answer(r, 400)
      /\ AnswerError(r, "UNAUTHENTICATED") => Answer(r, 401)
      /\ AnswerError(r, "ALREADY_EXISTS") => Answer(r, 409)
      /\ Answer(r, throwGatewayGrpcError("UNAVAILABLE", FALSE)) => Answer(r, 503)
  BY CodeNumbers DEF AnswerError
<1>2. ASSUME AnswerError(r, "INTERNAL") PROVE \E st : Answer(r, st) /\ Told(r, st)
  BY <1>0, <1>1, <1>2
<1>3. ASSUME AnswerError(r, "INVALID_ARGUMENT"), stage[r] = "sent"
      PROVE  \E st : Answer(r, st) /\ Told(r, st)
  <2>1. Told(r, 400)
    BY <1>3 DEF Told
  <2>2. QED
    BY <1>0, <1>3, <2>1
<1>4. ASSUME AnswerError(r, "UNAUTHENTICATED"), Told(r, 401)
      PROVE  \E st : Answer(r, st) /\ Told(r, st)
  BY <1>0, <1>4
<1>5. CASE RefuseInput(r)
  BY <1>3, <1>5 DEF RefuseInput
<1>6. CASE LoseIdentity(r)
  BY <1>0, <1>1, <1>6 DEF LoseIdentity
<1>7. CASE RefuseSignUp(r)
  <2>1. \/ Answer(r, 201)
        \/ AnswerError(r, "ALREADY_EXISTS") \/ AnswerError(r, "INVALID_ARGUMENT")
        \/ AnswerError(r, "INTERNAL")
    BY <1>7, ErrorCodes DEF RefuseSignUp
  <2>2. stage[r] = "sent"
    BY <1>7 DEF RefuseSignUp, Is
  <2>3. CASE AnswerError(r, "ALREADY_EXISTS")
    BY <1>0, <1>1, <2>3
  <2>4. QED
    BY <1>1, <1>2, <1>3, <2>1, <2>2, <2>3
<1>8. CASE VerifyEmail(r)
  <2>1. Answer(r, 200) /\ Told(r, 200)
    BY <1>8 DEF VerifyEmail, Told
  <2>2. QED
    BY <2>1
<1>9. CASE RefuseVerification(r)
  <2>0. "none" # "valid" /\ "expired" # "valid"
    OBVIOUS
  <2>1. \/ AnswerError(r, "INTERNAL")
        \/ AnswerError(r, "UNAUTHENTICATED") /\ link[User(r)] # "valid"
    <3>1. /\ AnswerError(r, mapEmailVerificationError("INVALID_TOKEN")) => AnswerError(r, "UNAUTHENTICATED")
          /\ AnswerError(r, mapEmailVerificationError("TOKEN_EXPIRED")) => AnswerError(r, "UNAUTHENTICATED")
          /\ AnswerError(r, mapEmailVerificationError("Failure")) => AnswerError(r, "INTERNAL")
      BY ErrorCodes, Zenon
    <3>2. QED
      BY <1>9, <2>0, <3>1 DEF RefuseVerification
  <2>2. link[User(r)] # "valid" => Told(r, 401)
    BY <1>9 DEF RefuseVerification, Told
  <2>3. QED
    BY <1>2, <1>4, <2>1, <2>2
<1>10. CASE RefuseSignIn(r)
  <2>1. AnswerError(r, "INTERNAL") \/ AnswerError(r, "UNAUTHENTICATED")
    BY <1>10, ErrorCodes DEF RefuseSignIn
  <2>2. Told(r, 401)
    BY <1>10 DEF RefuseSignIn, Told
  <2>3. QED
    BY <1>2, <1>4, <2>1, <2>2
<1>11. CASE GetSessionExpiry(r)
  BY <1>2, <1>11, ErrorCodes DEF GetSessionExpiry
<1>12. CASE SetCookie(r)
  <2>1. Answer(r, 200) /\ Told(r, 200)
    BY <1>12 DEF SetCookie, Told
  <2>2. QED
    BY <2>1
<1>13. CASE DenySession(r)
  <2>1. AnswerError(r, "INTERNAL") \/ (AnswerError(r, "UNAUTHENTICATED") /\ ~Live(held[r]))
    <3>1. /\ AnswerError(r, currentUserError("NoSession")) => AnswerError(r, "UNAUTHENTICATED")
          /\ AnswerError(r, currentUserError("Failure")) => AnswerError(r, "INTERNAL")
      BY ErrorCodes, Zenon
    <3>2. QED
      BY <1>13, <3>1 DEF DenySession
  <2>2. ~Live(held[r]) => Told(r, 401)
    BY <1>13 DEF DenySession, Told
  <2>3. QED
    BY <1>2, <1>4, <2>1, <2>2
<1>14. CASE Proceed(r)
  <2>1. Answer(r, 200) /\ Told(r, 200)
    BY <1>14 DEF Proceed, Told
  <2>2. QED
    BY <2>1
<1>15. CASE ClearCookie(r)
  BY <1>1, <1>15 DEF ClearCookie
<1>16. CASE \E sent \in BOOLEAN : SendVerificationEmail(r, sent)
  BY <1>1, <1>2, <1>16, ErrorCodes DEF SendVerificationEmail
<1>17. CASE \E done \in BOOLEAN : DeleteSession(r, done)
  BY <1>2, <1>17, ErrorCodes DEF DeleteSession
<1>18. CASE InsertUser(r) \/ CheckSession(r) \/ \E s \in Sessions : CreateSession(r, s)
  BY <1>18 DEF InsertUser, CheckSession, CreateSession
<1>19. QED
  BY <1>5, <1>6, <1>7, <1>8, <1>9, <1>10, <1>11, <1>12, <1>13, <1>14, <1>15, <1>16, <1>17,
     <1>18, Zenon DEF Handle

\* A request is answered by its own handler alone.
LEMMA AnswerStep ==
  ASSUME SessionsInv, [Next]_vars, NEW r \in Requests, answer[r] = NULL, answer'[r] # NULL
  PROVE  Told(r, answer'[r])
<1>1. answer' # answer
  OBVIOUS
<1>2. ASSUME NEW q \in Requests, NEW st, Answer(q, st)
      PROVE  q = r /\ answer'[r] = st
  BY <1>2 DEF Answer, SessionsInv, TypeOK
<1>3. ASSUME NEW q \in Requests, Handle(q) PROVE Told(r, answer'[r])
  BY <1>1, <1>2, <1>3, HandleTells
<1>4. ASSUME NEW q \in Requests, NEW c \in Calls, Send(q, c) PROVE FALSE
  BY <1>4 DEF Send, SessionsInv, TypeOK
<1>5. ASSUME \/ UNCHANGED vars \/ \E u \in Users : LinkExpires(u)
             \/ \E s \in Sessions : SessionExpires(s) \/ RenewedSessionExpires(s)
      PROVE  FALSE
  BY <1>1, <1>5 DEF vars, requests, LinkExpires, SessionExpires, RenewedSessionExpires
<1>6. QED
  BY <1>3, <1>4, <1>5, Zenon DEF Next

\* A browser is told that it is not authenticated only when it is not.
THEOREM NotAuthenticatedIsTrue == Spec => UnauthenticatedIsTrue
<1>1. ASSUME SessionsInv, [Next]_vars, NEW r \in Requests, answer[r] = NULL, answer'[r] = 401
      PROVE  CASE call[r].kind = "CurrentUser" -> ~Live(held[r])
               [] call[r].kind = "VerifyEmail" -> link[User(r)] # "valid"
               [] OTHER -> held[r] = NULL
  <2>1. Told(r, 401)
    BY <1>1, AnswerStep, SessionsNullAssumption DEF Statuses
  <2>2. \/ Is(r, "VerifyEmail", "sent") /\ link[User(r)] # "valid"
        \/ Is(r, "SignIn", "sent")
        \/ Is(r, "CurrentUser", "sent") /\ ~Live(held[r])
    BY <2>1 DEF Told
  <2>3. Is(r, "SignIn", "sent") => held[r] = NULL
    BY <1>1 DEF SessionsInv, HeldInv, Is
  <2>4. QED
    BY <2>2, <2>3 DEF Is
<1>2. SessionsInv /\ [Next]_vars =>
        [\A r \in Requests : answer[r] = NULL /\ answer'[r] = 401 =>
           CASE call[r].kind = "CurrentUser" -> ~Live(held[r])
             [] call[r].kind = "VerifyEmail" -> link[User(r)] # "valid"
             [] OTHER -> held[r] = NULL]_vars
  BY <1>1
<1>3. QED
  BY <1>2, SessionsInvariant, PTL DEF Spec, UnauthenticatedIsTrue

\* A sign-in that is told success has made the session that its browser gets.
THEOREM SignInsTellSession == Spec => SignInTellsSession
<1>1. ASSUME SessionsInv, [Next]_vars, NEW r \in Requests, answer[r] = NULL, answer'[r] # NULL,
             call[r].kind = "SignIn"
      PROVE  /\ answer'[r] = 200 =>
                  owner[held[r]] = User(r) /\ cookie'[Browser(r)] \in {held[r], NULL}
             /\ answer'[r] \in {400, 401} => held[r] = NULL
  <2>1. Told(r, answer'[r])
    BY <1>1, AnswerStep
  <2>2. ASSUME answer'[r] \in {400, 401} PROVE held[r] = NULL
    <3>1. stage[r] = "sent"
      BY <2>1, <2>2 DEF Told, Is
    <3>2. QED
      BY <1>1, <3>1 DEF SessionsInv, HeldInv
  <2>3. ASSUME answer'[r] = 200
        PROVE  owner[held[r]] = User(r) /\ cookie'[Browser(r)] \in {held[r], NULL}
    <3>1. SetCookie(r)
      BY <1>1, <2>1, <2>3 DEF Told, Is, SessionsInv, HeldInv
    <3>2. Browser(r) \in Browsers
      BY <1>1, <3>1 DEF SetCookie, Is, SessionsInv, HeldInv, KnownCalls, Calls, Browser
    <3>3. cookie'[Browser(r)] \in {held[r], NULL}
      BY <1>1, <3>1, <3>2 DEF SetCookie, SessionsInv, TypeOK
    <3>4. owner[held[r]] = User(r)
      BY <1>1, <3>1 DEF SetCookie, SessionsInv, FreshInv
    <3>5. QED
      BY <3>3, <3>4
  <2>4. QED
    BY <2>2, <2>3
<1>2. SessionsInv /\ [Next]_vars =>
        [\A r \in Requests : answer[r] = NULL /\ answer'[r] # NULL /\ call[r].kind = "SignIn" =>
           /\ answer'[r] = 200 =>
                owner[held[r]] = User(r) /\ cookie'[Browser(r)] \in {held[r], NULL}
           /\ answer'[r] \in {400, 401} => held[r] = NULL]_vars
  BY <1>1
<1>3. QED
  BY <1>2, SessionsInvariant, PTL DEF Spec, SignInTellsSession
===============================================================================
