----------------------------- MODULE Enrollment -----------------------------
(***************************************************************************)
(* Passkeys (apps/webauthn_auth): enrollment tokens, the registration and  *)
(* sign-in ceremonies, and the browser sessions that carry a ceremony from *)
(* its start request to its finish request.                                *)
(*                                                                         *)
(* A request loads the session once, works on that copy, and the session   *)
(* middleware writes the whole copy back with the response                 *)
(* (SESSION_SAVE_EVERY_REQUEST), unless the response is a server error or  *)
(* the session's key is gone.  The reads a request makes before its first  *)
(* write are one step.  Signatures are unforgeable: a response names the   *)
(* credential that signed it and the challenge it signed.                  *)
(***************************************************************************)
EXTENDS Naturals, FiniteSets, Sequences

CONSTANTS
    Users,
    Tokens,        \* the rows of EnrollmentToken
    Browsers,      \* each sends the key of one session
    Creds,         \* the credentials authenticators may create
    Workers,       \* threads serving requests
    Faulty,        \* the workers that may be killed
    MaxChallenge,  \* bound on the challenges issued
    MaxCount,      \* bound on the counters authenticators report
    TTL,           \* _ENROLLMENT_TOKEN_TTL_SECONDS, in ticks of the clock
    MaxClock,      \* bound on the clock
    NoUser, NoToken, NoBrowser, NoCred

ASSUME EnrollmentAssumption ==
    /\ Faulty \subseteq Workers
    /\ MaxChallenge \in Nat /\ MaxCount \in Nat /\ TTL \in Nat /\ MaxClock \in Nat
    /\ NoUser \notin Users
    /\ {NoToken, NoBrowser, NoCred} \cap (Tokens \cup Browsers \cup Creds) = {}

VARIABLES
    token,      \* the EnrollmentToken rows
    owner,      \* the WebAuthnCredential rows: the user, NoUser if absent
    count,      \* and their sign_count
    session,    \* what the cache holds for the key each browser sends
    clock,      \* timezone.now()
    pc,         \* what a worker does next
    job,        \* what its request is about
    copy,       \* the session as the request holds it
    issued,     \* history: the challenges handed out, in order
    uses,       \* history: who answered each challenge, and whether it was
                \* answered more than once
    by,         \* history: the token a credential was registered with
    contended   \* history: what overlapping or killed requests were about

tables == <<token, owner, count, clock>>
history == <<issued, uses, by, contended>>
vars == <<token, owner, count, session, clock, pc, job, copy,
          issued, uses, by, contended>>

-----------------------------------------------------------------------------
(* Data.                                                                   *)

None == 0
Challenges == 1..MaxChallenge

Token == [user : Users \cup {NoUser}, used : BOOLEAN, expiresAt : Nat]

\* webauthn_reg_challenge, webauthn_reg_user, webauthn_auth_challenge and the
\* id of the signed-in user.
Session == [reg : {None} \cup Challenges, regUser : Users \cup {NoUser},
            auth : {None} \cup Challenges, user : Users \cup {NoUser}]

NoSession == [reg |-> None, regUser |-> NoUser, auth |-> None, user |-> NoUser]

\* The key of a request's session: the one its browser "sent" and still sends,
\* one "deleted" since, or an "other" one, which no other request has.
Keys == {"sent", "deleted", "other"}

Job == [browser : Browsers \cup {NoBrowser}, token : Tokens \cup {NoToken},
        cred : Creds \cup {NoCred}, challenge : {None} \cup Challenges,
        count : Nat, user : Users \cup {NoUser}, key : Keys]

NoJob == [browser |-> NoBrowser, token |-> NoToken, cred |-> NoCred,
          challenge |-> None, count |-> 0, user |-> NoUser, key |-> "sent"]

Labels == {"idle", "register", "burn", "count", "login", "respond"}

Init ==
    /\ token = [t \in Tokens |-> [user |-> NoUser, used |-> FALSE, expiresAt |-> 0]]
    /\ owner = [c \in Creds |-> NoUser]
    /\ count = [c \in Creds |-> 0]
    /\ session = [b \in Browsers |-> NoSession]
    /\ clock = 0
    /\ pc = [w \in Workers |-> "idle"]
    /\ job = [w \in Workers |-> NoJob]
    /\ copy = [w \in Workers |-> NoSession]
    /\ issued = <<>>
    /\ uses = [h \in Challenges |-> [by |-> {}, twice |-> FALSE]]
    /\ by = [c \in Creds |-> NoToken]
    /\ contended = {}

-----------------------------------------------------------------------------
(* Moving a worker.                                                        *)

\* What a job touches that another job may touch too.
Things(j) == {j.browser, j.token, j.cred} \ {NoBrowser, NoToken, NoCred}

Busy(w) == UNION {Things(job[x]) : x \in Workers \ {w}}

\* A request arrives; s is its copy of the session.
Begin(w, j, s, label) ==
    /\ pc[w] = "idle"
    /\ pc' = [pc EXCEPT ![w] = label]
    /\ job' = [job EXCEPT ![w] = j]
    /\ copy' = [copy EXCEPT ![w] = s]
    /\ contended' = contended \cup (Things(j) \cap Busy(w))

Goto(w, label) == pc' = [pc EXCEPT ![w] = label] /\ UNCHANGED <<job, copy>>

Finish(w) ==
    /\ pc' = [pc EXCEPT ![w] = "idle"]
    /\ job' = [job EXCEPT ![w] = NoJob]
    /\ copy' = [copy EXCEPT ![w] = NoSession]

-----------------------------------------------------------------------------
(* Enrollment tokens.                                                      *)

\* EnrollmentToken.issue, from the user page or the bootstrap command.
Issue(t, u) ==
    /\ token[t].user = NoUser
    /\ token' = [token EXCEPT ![t] = [user |-> u, used |-> FALSE, expiresAt |-> clock + TTL]]
    /\ UNCHANGED <<owner, count, session, clock, pc, job, copy, history>>

\* _lookup_active_token
Active(t) == token[t].user # NoUser /\ ~token[t].used /\ token[t].expiresAt > clock

-----------------------------------------------------------------------------
(* Registration.                                                           *)

Challenge(b, kind) ==
    /\ Len(issued) < MaxChallenge
    /\ issued' = Append(issued, [browser |-> b, kind |-> kind])

\* registration_start
StartRegistration(w, b, t) ==
    /\ Active(t)
    /\ Challenge(b, "registration")
    /\ Begin(w, [NoJob EXCEPT !.browser = b, !.token = t],
             [session[b] EXCEPT !.reg = Len(issued) + 1, !.regUser = token[t].user],
             "respond")
    /\ UNCHANGED <<tables, session, uses, by>>

\* Credential c has answered challenge h.
Used(h, c) ==
    [uses EXCEPT ![h] = [by |-> @.by \cup {c}, twice |-> @.by # {}]]

\* Variant: the challenge in the response is not compared.
Verified_AnyChallenge(h, expected) == expected # None

\* A response to challenge h, against the challenge of the session.
Verified(h, expected) == expected # None /\ h = expected

\* The session with the ceremony taken out of it.
PopRegistration(s) == [s EXCEPT !.reg = None, !.regUser = NoUser]

\* A request that is refused: its response, and no more.
Refuse(w, b, s) == Begin(w, [NoJob EXCEPT !.browser = b], s, "respond")

\* A response to challenge h by credential c, in a request with token t.
AcceptRegistration(w, b, t, c, h) ==
    LET s == session[b] IN
    Begin(w, [NoJob EXCEPT !.browser = b, !.token = t, !.cred = c,
                           !.challenge = h, !.user = s.regUser],
          PopRegistration(s), "register")

\* Variant: the token is burned before the response is verified.
FinishRegistration_BurnsFirst(w, b, t, c, h) ==
    /\ Active(t)
    /\ token' = [token EXCEPT ![t].used = TRUE]
    /\ \/ Verified(h, session[b].reg) /\ AcceptRegistration(w, b, t, c, h)
       \/ Refuse(w, b, PopRegistration(session[b]))
    /\ UNCHANGED <<owner, count, clock, session, issued, uses, by>>

\* registration_finish up to its first write.  A body that is not JSON or does
\* not verify for another reason is refused too.
FinishRegistration(w, b, t, c, h) ==
    /\ Active(t)
    /\ \/ Verified(h, session[b].reg) /\ AcceptRegistration(w, b, t, c, h)
       \/ Refuse(w, b, PopRegistration(session[b]))
    /\ UNCHANGED <<tables, session, issued, uses, by>>

\* Variant: the row refers to the token, not to its user.
CreateCredential_NamesToken(w) ==
    LET j == job[w] IN
    /\ pc[w] = "register"
    /\ owner[j.cred] = NoUser
    /\ owner' = [owner EXCEPT ![j.cred] = j.token]
    /\ Goto(w, "burn")
    /\ UNCHANGED <<token, count, session, clock, history>>

\* The INSERT.  A credential_id already there is an IntegrityError, which
\* nobody catches: the response is a server error.
CreateCredential(w) ==
    LET j == job[w] IN
    /\ pc[w] = "register"
    /\ \/ /\ owner[j.cred] = NoUser
          /\ owner' = [owner EXCEPT ![j.cred] = j.user]
          /\ \E n \in 0..MaxCount : count' = [count EXCEPT ![j.cred] = n]
          /\ by' = [by EXCEPT ![j.cred] = j.token]
          /\ uses' = Used(j.challenge, j.cred)
          /\ Goto(w, "burn")
       \/ /\ owner[j.cred] # NoUser
          /\ Finish(w)
          /\ UNCHANGED <<owner, count, by, uses>>
    /\ UNCHANGED <<token, session, clock, issued, contended>>

\* Variant: used_at is set but not saved.
MarkUsed_NotSaved(w) ==
    /\ pc[w] = "burn"
    /\ Goto(w, "respond")
    /\ UNCHANGED <<tables, session, history>>

\* mark_used
MarkUsed(w) ==
    /\ pc[w] = "burn"
    /\ token' = [token EXCEPT ![job[w].token].used = TRUE]
    /\ Goto(w, "respond")
    /\ UNCHANGED <<owner, count, clock, session, history>>

-----------------------------------------------------------------------------
(* Signing in and out.                                                     *)

\* login_start_usernameless
StartSignIn(w, b) ==
    /\ Challenge(b, "sign-in")
    /\ Begin(w, [NoJob EXCEPT !.browser = b],
             [session[b] EXCEPT !.auth = Len(issued) + 1], "respond")
    /\ UNCHANGED <<tables, session, uses, by>>

\* Variant: the counter is not looked at.
CounterOK_Any(stored, n) == n \in Nat

\* The clone check: authenticators without a counter always report 0.
CounterOK(stored, n) == stored > 0 => n > stored

\* An assertion over challenge h by credential c with counter n; s is the
\* session the request goes on with.
AcceptSignIn(w, b, c, h, n, s) ==
    Begin(w, [NoJob EXCEPT !.browser = b, !.cred = c, !.challenge = h,
                           !.count = n, !.user = owner[c]],
          s, "count")

\* Variant: the challenge is read, not popped.
FinishSignIn_Keeps(w, b, c, h, n) ==
    /\ owner[c] # NoUser /\ Verified(h, session[b].auth) /\ CounterOK(count[c], n)
    /\ AcceptSignIn(w, b, c, h, n, session[b])
    /\ UNCHANGED <<tables, session, issued, uses, by>>

\* login_finish_usernameless up to its first write.  An inactive owner, a wrong
\* userHandle or signature are refused too.
FinishSignIn(w, b, c, h, n) ==
    LET popped == [session[b] EXCEPT !.auth = None] IN
    /\ \/ /\ owner[c] # NoUser /\ Verified(h, session[b].auth) /\ CounterOK(count[c], n)
          /\ AcceptSignIn(w, b, c, h, n, popped)
       \/ Refuse(w, b, popped)
    /\ UNCHANGED <<tables, session, issued, uses, by>>

\* UPDATE sign_count, last_used_at.
SaveCount(w) ==
    LET j == job[w] IN
    /\ pc[w] = "count"
    /\ count' = [count EXCEPT ![j.cred] = j.count]
    /\ uses' = Used(j.challenge, j.cred)
    /\ Goto(w, "login")
    /\ UNCHANGED <<token, owner, clock, session, issued, by, contended>>

\* Requests of browser b but w that came with the key it sends get key k.
Rekey(b, w, k) ==
    [x \in Workers |-> IF x # w /\ job[x].browser = b /\ job[x].key = "sent"
                       THEN [job[x] EXCEPT !.key = k] ELSE job[x]]

\* django_login: unless its user is signed in, the session goes on under a new
\* key, emptied first if another user was.  The old key is deleted: requests
\* that came with it have lost their session.
Login(w) ==
    LET j == job[w]
        kept == IF copy[w].user = NoUser THEN copy[w] ELSE NoSession IN
    /\ pc[w] = "login"
    /\ pc' = [pc EXCEPT ![w] = "respond"]
    /\ \/ copy[w].user = j.user /\ UNCHANGED <<session, job, copy>>
       \/ /\ copy[w].user # j.user
          /\ copy' = [copy EXCEPT ![w] = [kept EXCEPT !.user = j.user]]
          /\ session' = IF j.key = "sent" THEN [session EXCEPT ![j.browser] = NoSession]
                        ELSE session
          /\ job' = [IF j.key = "sent" THEN Rekey(j.browser, w, "deleted") ELSE job
                     EXCEPT ![w].key = "other"]
    /\ UNCHANGED <<tables, history>>

\* logout_view: the session is flushed.
Logout(b) ==
    /\ session[b].user # NoUser
    /\ session' = [session EXCEPT ![b] = NoSession]
    /\ job' = [x \in Workers |->
                  IF job[x].browser = b /\ job[x].key = "sent"
                  THEN [job[x] EXCEPT !.key = "deleted"] ELSE job[x]]
    /\ UNCHANGED <<tables, pc, copy, history>>

-----------------------------------------------------------------------------
(* The session middleware.                                                 *)

\* Any other request: it saves the session it loaded.
Visit(w, b) ==
    /\ Begin(w, [NoJob EXCEPT !.browser = b], session[b], "respond")
    /\ UNCHANGED <<tables, session, issued, uses, by>>

\* SessionMiddleware.process_response: the response names the key the browser
\* sends from then on.
Respond(w) ==
    LET j == job[w] IN
    /\ pc[w] = "respond"
    /\ session' = IF j.key = "deleted" THEN session
                  ELSE [session EXCEPT ![j.browser] = copy[w]]
    /\ pc' = [pc EXCEPT ![w] = "idle"]
    /\ job' = [IF j.key = "other" THEN Rekey(j.browser, w, "other") ELSE job
               EXCEPT ![w] = NoJob]
    /\ copy' = [copy EXCEPT ![w] = NoSession]
    /\ UNCHANGED <<tables, history>>

\* The process is killed, or a statement fails: nothing more is written.
Crash(w) ==
    /\ w \in Faulty /\ pc[w] # "idle"
    /\ contended' = contended \cup Things(job[w])
    /\ Finish(w)
    /\ UNCHANGED <<tables, session, issued, uses, by>>

Tick ==
    /\ clock < MaxClock
    /\ clock' = clock + 1
    /\ UNCHANGED <<token, owner, count, session, pc, job, copy, history>>

-----------------------------------------------------------------------------
Next ==
    \/ \E t \in Tokens, u \in Users : Issue(t, u)
    \/ \E w \in Workers, b \in Browsers :
          \/ StartSignIn(w, b) \/ Visit(w, b)
          \/ \E t \in Tokens : StartRegistration(w, b, t)
          \/ \E c \in Creds, h \in 1..Len(issued) :
                \/ \E t \in Tokens : FinishRegistration(w, b, t, c, h)
                \/ \E n \in 0..MaxCount : FinishSignIn(w, b, c, h, n)
    \/ \E w \in Workers :
          \/ CreateCredential(w) \/ MarkUsed(w) \/ SaveCount(w) \/ Login(w)
          \/ Respond(w) \/ Crash(w)
    \/ \E b \in Browsers : Logout(b)
    \/ Tick

Spec == Init /\ [][Next]_vars

-----------------------------------------------------------------------------
(* Correctness.                                                            *)

\* The values the tables, the sessions and the workers' variables range over.
TypeOK ==
    /\ token \in [Tokens -> Token]
    /\ owner \in [Creds -> Users \cup {NoUser}]
    /\ count \in [Creds -> Nat]
    /\ session \in [Browsers -> Session]
    /\ clock \in Nat
    /\ pc \in [Workers -> Labels]
    /\ job \in [Workers -> Job]
    /\ copy \in [Workers -> Session]
    /\ issued \in Seq([browser : Browsers, kind : {"registration", "sign-in"}])
    /\ uses \in [Challenges -> [by : SUBSET Creds, twice : BOOLEAN]]
    /\ by \in [Creds -> Tokens \cup {NoToken}]
    /\ contended \subseteq Browsers \cup Tokens \cup Creds

\* login_finish_usernameless: a browser is signed in as a user only if a
\* credential of that user signed a sign-in challenge issued to this browser,
\* whatever sessions are saved over one another.
SignedInByOwnCredential ==
    \A b \in Browsers :
        session[b].user # NoUser =>
            \E h \in 1..Len(issued) :
                /\ issued[h] = [browser |-> b, kind |-> "sign-in"]
                /\ \E c \in uses[h].by : owner[c] = session[b].user

\* registration_finish burns the token last: a used token has its credential,
\* so a ceremony that fails or is killed leaves the link usable.
UsedTokenRegistered ==
    \A t \in Tokens : token[t].used => \E c \in Creds : by[c] = t

Registered(t) == {c \in Creds : by[c] = t}

\* A token whose requests neither overlap nor are killed is used once, from
\* however many browsers and sessions its ceremonies are started.
OneShotUnlessContended ==
    \A t \in Tokens \ contended : Cardinality(Registered(t)) <= 1

\* The session pops a challenge before it is verified: unless requests of its
\* browser overlap or are killed, a challenge is good for one credential and
\* one ceremony.
ChallengeUsedOnce ==
    \A h \in 1..Len(issued) :
        issued[h].browser \notin contended => ~uses[h].twice

\* The clone check: unless requests with it overlap or are killed, the
\* counter of a credential never goes back.
CounterNeverBack ==
    [][\A c \in Creds \ contended' :
          owner[c] # NoUser => count'[c] >= count[c]]_vars
=============================================================================
