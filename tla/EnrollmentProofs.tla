-------------------------- MODULE EnrollmentProofs --------------------------
(***************************************************************************)
(* Theorems about Enrollment, for every set of users, tokens, browsers,    *)
(* credentials and workers.                                                *)
(***************************************************************************)
EXTENDS Enrollment, FiniteSetTheorems, TLAPS

-----------------------------------------------------------------------------
(* The inductive invariant, part one: what holds under any overlap.  A     *)
(* session, wherever it is held, has only challenges of its own browser    *)
(* and only a user whose credential answered one.                          *)

\* Challenge h was handed out to browser b.
Issued(h, b, kind) == h \in 1..Len(issued) /\ issued[h] = [browser |-> b, kind |-> kind]

\* A credential of user u answered a sign-in challenge of browser b.
Proven(b, u) ==
    \E h \in 1..Len(issued) :
        Issued(h, b, "sign-in") /\ \E c \in uses[h].by : owner[c] = u

Fair(b, s) ==
    /\ s.reg # None => Issued(s.reg, b, "registration") /\ s.regUser \in Users
    /\ s.auth # None => Issued(s.auth, b, "sign-in")
    /\ s.user # NoUser => Proven(b, s.user)

\* What worker w holds suits the statements it has yet to run.
Task(w) ==
    /\ pc[w] = "idle" => job[w] = NoJob
    /\ pc[w] # "idle" => job[w].browser \in Browsers /\ Fair(job[w].browser, copy[w])
    /\ pc[w] = "register" =>
          /\ job[w].token \in Tokens /\ job[w].cred \in Creds /\ job[w].user \in Users
          /\ Issued(job[w].challenge, job[w].browser, "registration")
    /\ pc[w] = "burn" =>
          job[w].token \in Tokens /\ job[w].cred \in Creds /\ by[job[w].cred] = job[w].token
    /\ pc[w] \in {"count", "login"} =>
          /\ job[w].cred \in Creds /\ job[w].user \in Users /\ owner[job[w].cred] = job[w].user
          /\ Issued(job[w].challenge, job[w].browser, "sign-in")
    /\ pc[w] = "login" => job[w].cred \in uses[job[w].challenge].by

Bound ==
    /\ TypeOK
    /\ Len(issued) <= MaxChallenge
    /\ \A b \in Browsers : Fair(b, session[b])
    /\ \A w \in Workers : Task(w)
    /\ \A c \in Creds : by[c] # NoToken => owner[c] # NoUser
    /\ UsedTokenRegistered

\* Nothing that was done is undone.
Grows ==
    /\ \A h \in 1..Len(issued) : h \in 1..Len(issued)' /\ issued'[h] = issued[h]
    /\ \A c \in Creds : owner[c] # NoUser => owner'[c] = owner[c]
    /\ \A c \in Creds : by[c] # NoToken => by'[c] = by[c]
    /\ \A h \in Challenges : uses[h].by \subseteq uses'[h].by

\* Job j is i, but for the key of its session.
Rekeyed(i, j) == \E k \in Keys : j = [i EXCEPT !.key = k]

\* Worker x is not the one that acts; the key of its session may.
Same(x) ==
    /\ pc'[x] = pc[x] /\ copy'[x] = copy[x]
    /\ \/ job'[x] = job[x]
       \/ pc[x] # "idle" /\ Rekeyed(job[x], job'[x])

-----------------------------------------------------------------------------
(* Steps.                                                                  *)

\* Challenges are as many as the bound says.
LEMMA IssuedTyped ==
    ASSUME TypeOK, NEW h, NEW b, NEW kind, Issued(h, b, kind), Len(issued) <= MaxChallenge
    PROVE  h \in Challenges
  BY EnrollmentAssumption DEF Issued, TypeOK, Challenges

\* What a session holds stays true.
LEMMA FairGrows ==
    ASSUME TypeOK, Len(issued) <= MaxChallenge, Grows, NEW b, NEW s \in Session, Fair(b, s)
    PROVE  Fair(b, s)'
<1>1. \A h \in 1..Len(issued) : h \in Challenges
  BY EnrollmentAssumption DEF TypeOK, Challenges
<1>2. \A h, kind : Issued(h, b, kind) => Issued(h, b, kind)'
  BY DEF Issued, Grows
<1>3. ASSUME NEW u, u # NoUser, Proven(b, u) PROVE Proven(b, u)'
  <2>1. PICK h \in 1..Len(issued) : Issued(h, b, "sign-in") /\ \E c \in uses[h].by : owner[c] = u
    BY <1>3 DEF Proven
  <2>2. PICK c \in uses[h].by : owner[c] = u
    BY <2>1
  <2>3. c \in Creds /\ c \in uses'[h].by /\ owner'[c] = u
    BY <1>1, <1>3, <2>1, <2>2 DEF TypeOK, Grows
  <2>4. Issued(h, b, "sign-in")' /\ h \in 1..Len(issued')
    BY <1>2, <2>1 DEF Issued
  <2> QED BY <2>3, <2>4 DEF Proven
<1> QED BY <1>2, <1>3 DEF Fair

\* Nor does what a worker holds get wrong when others act.
LEMMA SameTask ==
    ASSUME Bound, Grows, NEW x \in Workers, Same(x)
    PROVE  Task(x)'
<1>1. TypeOK /\ Len(issued) <= MaxChallenge /\ Task(x) /\ job[x] \in Job /\ copy[x] \in Session
  BY DEF Bound, TypeOK
<1>2. /\ pc'[x] = pc[x] /\ copy'[x] = copy[x] /\ job'[x].browser = job[x].browser
      /\ job'[x].token = job[x].token /\ job'[x].cred = job[x].cred
      /\ job'[x].user = job[x].user /\ job'[x].challenge = job[x].challenge
      /\ pc[x] = "idle" => job'[x] = job[x]
  BY <1>1 DEF Same, Rekeyed, Job
<1> DEFINE b == job[x].browser
           s == copy[x]
<1>3. ASSUME pc[x] # "idle" PROVE Fair(b, copy[x]) /\ copy[x] \in Session
  BY <1>1, <1>3 DEF Task
<1>4. ASSUME NEW z \in Session, NEW a, a = b, z = copy[x], pc[x] # "idle" PROVE Fair(a, z)'
  BY <1>1, <1>3, <1>4, FairGrows
<1>5. pc'[x] # "idle" => Fair(job[x].browser, copy[x])'
  <2> SUFFICES ASSUME pc[x] # "idle" PROVE Fair(job[x].browser, copy[x])'
    BY <1>2
  <2>1. PICK a : a = b
    OBVIOUS
  <2>2. PICK z \in Session : z = copy[x]
    BY <1>1
  <2>3. Fair(a, z)'
    BY <1>4, <2>1, <2>2
  <2> HIDE DEF b
  <2> QED BY <1>2, <2>1, <2>2, <2>3 DEF Fair, b
<1>6. \A h, kind, a : Issued(h, a, kind) => Issued(h, a, kind)' /\ h \in Challenges
  BY <1>1, IssuedTyped DEF Issued, Grows
<1>7. /\ pc[x] = "burn" => by'[job[x].cred] = by[job[x].cred]
      /\ pc[x] \in {"count", "login"} => owner'[job[x].cred] = owner[job[x].cred]
  BY <1>1, EnrollmentAssumption DEF Task, Grows
<1>8. pc[x] = "login" => job[x].cred \in uses'[job[x].challenge].by
  BY <1>1, <1>6 DEF Task, Grows
<1>9. \A kind : Issued(job[x].challenge, job[x].browser, kind) => Issued(job[x].challenge, job[x].browser, kind)'
  BY <1>2 DEF Issued, Grows
<1> QED BY <1>1, <1>2, <1>5, <1>7, <1>8, <1>9 DEF Task

\* Where the session of browser b comes from: the middleware keeps it, it is
\* deleted, or a request of that browser saves its copy.
Saved(b) ==
    \/ session'[b] \in {session[b], NoSession}
    \/ \E x \in Workers : pc[x] # "idle" /\ job[x].browser = b /\ session'[b] = copy[x]

\* A step that undoes nothing, mixes no sessions and leaves every worker with
\* what it needs keeps the invariant.
LEMMA BoundStep ==
    ASSUME Bound, TypeOK', Len(issued)' <= MaxChallenge, Grows, UsedTokenRegistered',
           \A x \in Workers : Same(x) \/ Task(x)',
           \A b \in Browsers : Saved(b),
           \A c \in Creds : by'[c] # NoToken => owner'[c] # NoUser
    PROVE  Bound'
<1>1. \A x \in Workers : Task(x)'
  BY SameTask
<1>2. ASSUME NEW b \in Browsers PROVE Fair(b, session[b])'
  <2>1. PICK s \in Session : s = session'[b]
    BY DEF TypeOK
  <2>2. Fair(b, NoSession)
    BY DEF Fair, NoSession
  <2>3. Fair(b, s)
    <3>1. CASE session'[b] \in {session[b], NoSession}
      BY <2>1, <2>2, <3>1 DEF Bound
    <3>2. ASSUME NEW x \in Workers, pc[x] # "idle", job[x].browser = b, session'[b] = copy[x]
          PROVE  Fair(b, s)
      BY <2>1, <3>2 DEF Bound, Task
    <3> QED BY <3>1, <3>2 DEF Saved
  <2>4. Fair(b, s)'
    BY <2>3, FairGrows DEF Bound
  <2> QED BY <2>1, <2>4 DEF Fair
<1> QED BY <1>1, <1>2 DEF Bound

\* A job and what it is about.
LEMMA JobFacts ==
    ASSUME NEW j \in Job
    PROVE  Things(j) \subseteq Browsers \cup Tokens \cup Creds
  BY DEF Job, Things

\* A request that arrives moves its worker only.
LEMMA BeginFacts ==
    ASSUME TypeOK, NEW w \in Workers, NEW j \in Job, NEW s \in Session,
           NEW label \in Labels, Begin(w, j, s, label)
    PROVE  /\ pc'[w] = label /\ job'[w] = j /\ copy'[w] = s
           /\ pc' \in [Workers -> Labels] /\ job' \in [Workers -> Job]
           /\ copy' \in [Workers -> Session]
           /\ contended' \subseteq Browsers \cup Tokens \cup Creds
           /\ \A x \in Workers \ {w} : Same(x)
<1>1. Things(j) \subseteq Browsers \cup Tokens \cup Creds
  BY JobFacts
<1> QED BY <1>1 DEF TypeOK, Begin, Same

\* So does one that is over.
LEMMA FinishFacts ==
    ASSUME TypeOK, NEW w \in Workers, Finish(w)
    PROVE  /\ Task(w)'
           /\ pc' \in [Workers -> Labels] /\ job' \in [Workers -> Job]
           /\ copy' \in [Workers -> Session]
           /\ \A x \in Workers \ {w} : Same(x)
<1>1. NoJob \in Job /\ NoSession \in Session
  BY DEF NoJob, Job, Keys, NoSession, Session, None
<1> QED BY <1>1 DEF TypeOK, Finish, Same, Task, Labels

\* And one that goes on.
LEMMA GotoFacts ==
    ASSUME TypeOK, NEW w \in Workers, NEW label \in Labels, Goto(w, label)
    PROVE  /\ pc'[w] = label /\ job'[w] = job[w] /\ copy'[w] = copy[w]
           /\ pc' \in [Workers -> Labels] /\ job' = job /\ copy' = copy
           /\ \A x \in Workers \ {w} : Same(x)
  BY DEF TypeOK, Goto, Same

\* A challenge handed out.
LEMMA ChallengeFacts ==
    ASSUME TypeOK, NEW b \in Browsers, NEW kind \in {"registration", "sign-in"},
           Challenge(b, kind)
    PROVE  /\ issued' \in Seq([browser : Browsers, kind : {"registration", "sign-in"}])
           /\ Len(issued)' = Len(issued) + 1 /\ Len(issued)' <= MaxChallenge
           /\ \A h \in 1..Len(issued) : h \in 1..Len(issued)' /\ issued'[h] = issued[h]
           /\ \E m \in Challenges : m = Len(issued) + 1 /\ Issued(m, b, kind)'
<1>1. Len(issued) \in Nat /\ Len(issued) < MaxChallenge
      /\ issued' = Append(issued, [browser |-> b, kind |-> kind])
  BY DEF TypeOK, Challenge
<1>2. [browser |-> b, kind |-> kind] \in [browser : Browsers, kind : {"registration", "sign-in"}]
  OBVIOUS
<1>3. issued \in Seq([browser : Browsers, kind : {"registration", "sign-in"}])
  BY DEF TypeOK
<1>4. Len(issued)' = Len(issued) + 1 /\ Len(issued) + 1 \in Challenges
  BY <1>1, <1>2, <1>3, EnrollmentAssumption DEF Challenges
<1>5. issued'[Len(issued) + 1] = [browser |-> b, kind |-> kind]
      /\ \A h \in 1..Len(issued) : issued'[h] = issued[h]
  BY <1>1, <1>2, <1>3
<1>6. PICK m \in Challenges : m = Len(issued) + 1
  BY <1>4
<1>7. Issued(m, b, kind)'
  BY <1>1, <1>4, <1>5, <1>6 DEF Issued
<1> QED BY <1>1, <1>2, <1>3, <1>4, <1>5, <1>6, <1>7, EnrollmentAssumption DEF Challenges

-----------------------------------------------------------------------------
(* The actions.                                                            *)

\* Before any request, nothing is held and nobody is signed in.
LEMMA InitBound == Init => Bound
<1> SUFFICES ASSUME Init PROVE Bound
  OBVIOUS
<1>1. NoJob \in Job /\ NoSession \in Session
  BY DEF NoJob, Job, Keys, NoSession, Session, None
<1>2. TypeOK
  BY <1>1, EnrollmentAssumption DEF Init, TypeOK, Token, Labels
<1> QED BY <1>2, EnrollmentAssumption
        DEF Init, Bound, Fair, NoSession, Task, UsedTokenRegistered

\* A link is made for a user; nobody holds it yet.
LEMMA IssueBound ==
    ASSUME Bound, NEW t \in Tokens, NEW u \in Users, Issue(t, u)
    PROVE  Bound'
<1>1. TypeOK'
  BY EnrollmentAssumption DEF Bound, TypeOK, Issue, Token, history
<1>2. UsedTokenRegistered'
  BY DEF Bound, TypeOK, Issue, Token, history, UsedTokenRegistered
<1>3. Grows /\ Len(issued)' <= MaxChallenge
  BY DEF Bound, Issue, history, Grows
<1>4. \A x \in Workers : Same(x)
  BY DEF Issue, Same
<1> QED BY <1>1, <1>2, <1>3, <1>4, BoundStep DEF Bound, Issue, history, Saved

\* The challenge a ceremony starts with is issued to its browser, and the user
\* the session remembers is that of the link.
LEMMA StartRegistrationBound ==
    ASSUME Bound, NEW w \in Workers, NEW b \in Browsers, NEW t \in Tokens,
           StartRegistration(w, b, t)
    PROVE  Bound'
<1> USE DEF StartRegistration, tables
<1> DEFINE j == [NoJob EXCEPT !.browser = b, !.token = t]
           s == [session[b] EXCEPT !.reg = Len(issued) + 1, !.regUser = token[t].user]
<1>1. TypeOK /\ token[t].user \in Users /\ session[b] \in Session
  BY DEF Bound, TypeOK, Active, Token
<1>2. /\ issued' \in Seq([browser : Browsers, kind : {"registration", "sign-in"}])
      /\ Len(issued)' <= MaxChallenge
      /\ \A h \in 1..Len(issued) : h \in 1..Len(issued)' /\ issued'[h] = issued[h]
      /\ \E m \in Challenges : m = Len(issued) + 1 /\ Issued(m, b, "registration")'
  BY <1>1, ChallengeFacts
<1>m. PICK m \in Challenges : m = Len(issued) + 1 /\ Issued(m, b, "registration")'
  BY <1>2
<1>3. j \in Job /\ j.browser = b /\ "respond" \in Labels
  BY DEF NoJob, Job, Keys, None, Labels
<1>4. s \in Session /\ s.reg = m /\ s.regUser \in Users
      /\ s.auth = session[b].auth /\ s.user = session[b].user
  BY <1>1, <1>m DEF Session
<1>5. Begin(w, j, s, "respond")
  OBVIOUS
<1>6. PICK jj \in Job, ss \in Session : jj = j /\ ss = s
  BY <1>3, <1>4
<1> HIDE DEF j, s
<1>7. /\ pc'[w] = "respond" /\ job'[w] = jj /\ copy'[w] = ss
      /\ pc' \in [Workers -> Labels] /\ job' \in [Workers -> Job]
      /\ copy' \in [Workers -> Session]
      /\ contended' \subseteq Browsers \cup Tokens \cup Creds
      /\ \A x \in Workers \ {w} : Same(x)
  BY <1>1, <1>3, <1>5, <1>6, BeginFacts
<1>8. Grows
  BY <1>2 DEF Grows
<1>9. PICK z \in Session : z = session[b]
  BY <1>1
<1>10. Fair(b, z)'
  BY <1>1, <1>8, <1>9, FairGrows DEF Bound
<1>11. Task(w)'
  <2>1. Fair(b, ss)'
    BY <1>m, <1>4, <1>6, <1>9, <1>10 DEF Fair
  <2>2. Fair(job[w].browser, copy[w])'
    BY <2>1, <1>3, <1>6, <1>7 DEF Fair
  <2> QED BY <2>2, <1>3, <1>6, <1>7 DEF Task
<1>12. TypeOK'
  BY <1>1, <1>2, <1>7 DEF TypeOK
<1>13. UsedTokenRegistered'
  BY DEF Bound, UsedTokenRegistered
<1> QED BY <1>2, <1>7, <1>8, <1>11, <1>12, <1>13, BoundStep DEF Bound, Saved

\* A request that writes nothing as it arrives.
LEMMA ArriveBound ==
    ASSUME Bound, NEW w \in Workers, NEW j \in Job, NEW s \in Session,
           NEW label \in Labels, Begin(w, j, s, label),
           UNCHANGED <<tables, session, issued, uses, by>>, Task(w)'
    PROVE  Bound'
<1>1. TypeOK
  BY DEF Bound
<1>2. /\ pc' \in [Workers -> Labels] /\ job' \in [Workers -> Job]
      /\ copy' \in [Workers -> Session]
      /\ contended' \subseteq Browsers \cup Tokens \cup Creds
      /\ \A x \in Workers \ {w} : Same(x)
  BY <1>1, BeginFacts
<1>3. TypeOK'
  BY <1>1, <1>2 DEF TypeOK, tables
<1>4. Grows /\ UsedTokenRegistered' /\ Len(issued)' <= MaxChallenge
  BY DEF Bound, Grows, UsedTokenRegistered, tables
<1> QED BY <1>2, <1>3, <1>4, BoundStep DEF Bound, Saved, tables

\* A request whose only task is to respond, with what the session of its
\* browser held or less.
LEMMA RefuseBound ==
    ASSUME Bound, NEW w \in Workers, NEW b \in Browsers, NEW s \in Session,
           Fair(b, s), Refuse(w, b, s), UNCHANGED <<tables, session, issued, uses, by>>
    PROVE  Bound'
<1>j. [NoJob EXCEPT !.browser = b] \in Job /\ [NoJob EXCEPT !.browser = b].browser = b
  BY DEF NoJob, Job, Keys, None
<1>1. PICK j \in Job : j = [NoJob EXCEPT !.browser = b] /\ j.browser = b
  BY <1>j
<1>2. TypeOK /\ "respond" \in Labels /\ Begin(w, j, s, "respond")
  BY <1>1 DEF Bound, Refuse, Labels
<1>3. pc'[w] = "respond" /\ job'[w] = j /\ copy'[w] = s
  BY <1>2, BeginFacts
<1>4. Grows
  BY DEF Grows, tables
<1>5. Fair(b, s)'
  BY <1>2, <1>4, FairGrows DEF Bound
<1>6. Fair(job[w].browser, copy[w])'
  BY <1>1, <1>3, <1>5 DEF Fair
<1>7. Task(w)'
  BY <1>1, <1>3, <1>6 DEF Task
<1> QED BY <1>2, <1>7, ArriveBound

\* Any other request saves the session it loaded.
LEMMA VisitBound ==
    ASSUME Bound, NEW w \in Workers, NEW b \in Browsers, Visit(w, b)
    PROVE  Bound'
<1>1. PICK s \in Session : s = session[b]
  BY DEF Bound, TypeOK
<1> QED BY <1>1, RefuseBound DEF Visit, Refuse, Bound

\* registration_finish accepts only the challenge of its own session.
LEMMA FinishRegistrationBound ==
    ASSUME Bound, NEW w \in Workers, NEW b \in Browsers, NEW t \in Tokens,
           NEW c \in Creds, NEW h \in 1..Len(issued), FinishRegistration(w, b, t, c, h)
    PROVE  Bound'
<1>1. PICK s \in Session : s = session[b]
  BY DEF Bound, TypeOK
<1>2. PICK z \in Session : z = PopRegistration(s)
  BY DEF PopRegistration, Session, None
<1>3. Fair(b, s) /\ Fair(b, z)
  BY <1>1, <1>2 DEF Bound, Fair, PopRegistration, Session
<1>4. UNCHANGED <<tables, session, issued, uses, by>>
  BY DEF FinishRegistration
<1>5. CASE Refuse(w, b, PopRegistration(session[b]))
  BY <1>1, <1>2, <1>3, <1>4, <1>5, RefuseBound
<1>6. CASE Verified(h, session[b].reg) /\ AcceptRegistration(w, b, t, c, h)
  <2>1. TypeOK /\ h = s.reg /\ s.reg # None /\ s.regUser \in Users /\ h \in Challenges
        /\ Issued(h, b, "registration")
    BY <1>1, <1>3, <1>6, IssuedTyped DEF Bound, Fair, Verified
  <2> DEFINE k == [NoJob EXCEPT !.browser = b, !.token = t, !.cred = c,
                                !.challenge = h, !.user = s.regUser]
  <2>k. /\ k \in Job /\ k.browser = b /\ k.token = t /\ k.cred = c
        /\ k.challenge = h /\ k.user = s.regUser
    BY <2>1 DEF NoJob, Job, Keys
  <2>2. PICK j \in Job : /\ j = k /\ j.browser = b /\ j.token = t /\ j.cred = c
                         /\ j.challenge = h /\ j.user = s.regUser
    BY <2>k
  <2>3. Begin(w, j, z, "register") /\ "register" \in Labels
    BY <1>1, <1>2, <1>6, <2>2 DEF AcceptRegistration, Labels
  <2>4. pc'[w] = "register" /\ job'[w] = j /\ copy'[w] = z
    BY <2>1, <2>3, BeginFacts
  <2>5. Grows
    BY <1>4 DEF Grows, tables
  <2>6. Fair(b, z)' /\ Issued(h, b, "registration")'
    BY <1>3, <1>4, <2>1, <2>5, FairGrows DEF Bound, Issued
  <2>7. Fair(job[w].browser, copy[w])' /\ Issued(job[w].challenge, job[w].browser, "registration")'
    BY <2>2, <2>4, <2>6 DEF Fair, Issued
  <2>8. Task(w)'
    BY <2>1, <2>2, <2>4, <2>7 DEF Task
  <2> QED BY <1>4, <2>3, <2>8, ArriveBound
<1> QED BY <1>5, <1>6 DEF FinishRegistration

\* A sign-in starts with a challenge issued to its browser.
LEMMA StartSignInBound ==
    ASSUME Bound, NEW w \in Workers, NEW b \in Browsers, StartSignIn(w, b)
    PROVE  Bound'
<1> USE DEF StartSignIn, tables
<1>1. TypeOK
  BY DEF Bound
<1>2. /\ issued' \in Seq([browser : Browsers, kind : {"registration", "sign-in"}])
      /\ Len(issued)' <= MaxChallenge
      /\ \A h \in 1..Len(issued) : h \in 1..Len(issued)' /\ issued'[h] = issued[h]
      /\ \E m \in Challenges : m = Len(issued) + 1 /\ Issued(m, b, "sign-in")'
  BY <1>1, ChallengeFacts
<1>3. PICK m \in Challenges : m = Len(issued) + 1 /\ Issued(m, b, "sign-in")'
  BY <1>2
<1>j. [NoJob EXCEPT !.browser = b] \in Job /\ [NoJob EXCEPT !.browser = b].browser = b
  BY DEF NoJob, Job, Keys, None
<1>4. PICK j \in Job : j = [NoJob EXCEPT !.browser = b] /\ j.browser = b
  BY <1>j
<1>5. PICK z \in Session : z = session[b]
  BY <1>1 DEF TypeOK
<1> DEFINE y == [z EXCEPT !.auth = m]
<1>y. /\ y \in Session /\ y.auth = m /\ y.reg = z.reg
      /\ y.regUser = z.regUser /\ y.user = z.user
  BY <1>3 DEF Session
<1>6. PICK s \in Session : /\ s = y /\ s.auth = m /\ s.reg = z.reg
                           /\ s.regUser = z.regUser /\ s.user = z.user
  BY <1>y
<1>7. Begin(w, j, s, "respond") /\ "respond" \in Labels
  BY <1>3, <1>4, <1>5, <1>6 DEF Labels
<1>8. /\ pc'[w] = "respond" /\ job'[w] = j /\ copy'[w] = s
      /\ pc' \in [Workers -> Labels] /\ job' \in [Workers -> Job]
      /\ copy' \in [Workers -> Session]
      /\ contended' \subseteq Browsers \cup Tokens \cup Creds
      /\ \A x \in Workers \ {w} : Same(x)
  BY <1>1, <1>7, BeginFacts
<1>9. Grows /\ UsedTokenRegistered'
  BY <1>2 DEF Grows, Bound, UsedTokenRegistered
<1>10. Fair(b, z)'
  BY <1>1, <1>5, <1>9, FairGrows DEF Bound
<1>11. Fair(b, s)'
  BY <1>3, <1>6, <1>10 DEF Fair
<1>12. Fair(job[w].browser, copy[w])'
  BY <1>4, <1>8, <1>11 DEF Fair
<1>13. Task(w)'
  BY <1>4, <1>8, <1>12 DEF Task
<1>14. TypeOK'
  BY <1>1, <1>2, <1>8 DEF TypeOK
<1> QED BY <1>2, <1>8, <1>9, <1>13, <1>14, BoundStep DEF Bound, Saved

\* login_finish_usernameless accepts only the challenge of its own session,
\* and goes on for the owner of the credential.
LEMMA FinishSignInBound ==
    ASSUME Bound, NEW w \in Workers, NEW b \in Browsers, NEW c \in Creds,
           NEW h \in 1..Len(issued), NEW n \in 0..MaxCount, FinishSignIn(w, b, c, h, n)
    PROVE  Bound'
<1>1. PICK s \in Session : s = session[b]
  BY DEF Bound, TypeOK
<1>2. PICK z \in Session : z = [s EXCEPT !.auth = None]
  BY DEF Session, None
<1>3. Fair(b, s) /\ Fair(b, z)
  BY <1>1, <1>2 DEF Bound, Fair, Session
<1>4. UNCHANGED <<tables, session, issued, uses, by>>
  BY DEF FinishSignIn
<1>5. CASE Refuse(w, b, z)
  BY <1>3, <1>4, <1>5, RefuseBound
<1>6. CASE /\ owner[c] # NoUser /\ Verified(h, session[b].auth)
           /\ AcceptSignIn(w, b, c, h, n, z)
  <2>1. TypeOK /\ h = s.auth /\ s.auth # None /\ h \in Challenges
        /\ Issued(h, b, "sign-in")
    BY <1>1, <1>3, <1>6, IssuedTyped DEF Bound, Fair, Verified
  <2>2. PICK u \in Users : u = owner[c]
    BY <1>6, <2>1 DEF TypeOK
  <2> DEFINE k == [NoJob EXCEPT !.browser = b, !.cred = c, !.challenge = h,
                                !.count = n, !.user = u]
  <2>n. n \in Nat
    BY EnrollmentAssumption
  <2>k. /\ k \in Job /\ k.browser = b /\ k.cred = c /\ k.challenge = h /\ k.user = u
    BY <2>1, <2>n DEF NoJob, Job, Keys
  <2>3. PICK j \in Job : /\ j = k /\ j.browser = b /\ j.cred = c
                         /\ j.challenge = h /\ j.user = u
    BY <2>k
  <2>4. Begin(w, j, z, "count") /\ "count" \in Labels
    BY <1>6, <2>2, <2>3 DEF AcceptSignIn, Labels
  <2>5. pc'[w] = "count" /\ job'[w] = j /\ copy'[w] = z
    BY <2>1, <2>4, BeginFacts
  <2>6. Grows
    BY <1>4 DEF Grows, tables
  <2>7. Fair(b, z)' /\ Issued(h, b, "sign-in")'
    BY <1>3, <1>4, <2>1, <2>6, FairGrows DEF Bound, Issued
  <2>8. Fair(job[w].browser, copy[w])' /\ Issued(job[w].challenge, job[w].browser, "sign-in")'
    BY <2>3, <2>5, <2>7 DEF Fair, Issued
  <2>9. Task(w)'
    BY <1>4, <2>2, <2>3, <2>5, <2>8 DEF Task, tables
  <2> QED BY <1>4, <2>4, <2>9, ArriveBound
<1> QED BY <1>1, <1>2, <1>5, <1>6 DEF FinishSignIn

\* A credential belongs to the user of its ceremony and names its link, or is
\* already there.
LEMMA CreateCredentialBound ==
    ASSUME Bound, NEW w \in Workers, CreateCredential(w)
    PROVE  Bound'
<1>1. TypeOK /\ Task(w) /\ pc[w] = "register"
  BY DEF Bound, CreateCredential
<1>2. PICK j \in Job : j = job[w]
  BY <1>1 DEF TypeOK
<1>3. /\ j.token \in Tokens /\ j.cred \in Creds /\ j.user \in Users
      /\ Issued(j.challenge, j.browser, "registration")
  BY <1>1, <1>2 DEF Task
<1>4. j.challenge \in Challenges
  BY <1>1, <1>3, IssuedTyped DEF Bound
<1>5. UNCHANGED <<token, session, clock, issued, contended>>
  BY DEF CreateCredential
<1>6. CASE /\ owner[j.cred] = NoUser
           /\ owner' = [owner EXCEPT ![j.cred] = j.user]
           /\ \E n \in 0..MaxCount : count' = [count EXCEPT ![j.cred] = n]
           /\ by' = [by EXCEPT ![j.cred] = j.token]
           /\ uses' = Used(j.challenge, j.cred)
           /\ Goto(w, "burn")
  <2>1. /\ pc'[w] = "burn" /\ job'[w] = j /\ copy'[w] = copy[w]
        /\ pc' \in [Workers -> Labels] /\ job' = job /\ copy' = copy
        /\ \A x \in Workers \ {w} : Same(x)
    BY <1>1, <1>2, <1>6, GotoFacts DEF Labels
  <2>2. uses' \in [Challenges -> [by : SUBSET Creds, twice : BOOLEAN]]
        /\ \A h \in Challenges : uses[h].by \subseteq uses'[h].by
    BY <1>1, <1>3, <1>4, <1>6 DEF TypeOK, Used
  <2>3. owner' \in [Creds -> Users \cup {NoUser}] /\ by' \in [Creds -> Tokens \cup {NoToken}]
        /\ by[j.cred] = NoToken
    BY <1>1, <1>3, <1>6 DEF TypeOK, Bound
  <2>4. count' \in [Creds -> Nat]
    BY <1>1, <1>3, <1>6, EnrollmentAssumption DEF TypeOK
  <2>5. TypeOK'
    BY <1>1, <1>5, <2>1, <2>2, <2>3, <2>4 DEF TypeOK
  <2>6. Grows
    BY <1>1, <1>3, <1>5, <1>6, <2>2, <2>3 DEF TypeOK, Grows
  <2>7. UsedTokenRegistered'
    BY <1>1, <1>3, <1>5, <1>6, <2>3, EnrollmentAssumption DEF TypeOK, Bound, UsedTokenRegistered
  <2>8. PICK s \in Session, b \in Browsers : s = copy[w] /\ b = j.browser /\ Fair(b, s)
    BY <1>1, <1>2 DEF TypeOK, Task
  <2>9. Fair(b, s)'
    BY <1>1, <2>6, <2>8, FairGrows DEF Bound
  <2>10. Fair(job[w].browser, copy[w])'
    BY <2>1, <2>8, <2>9 DEF Fair
  <2>11. by'[j.cred] = j.token
    BY <1>1, <1>3, <1>6 DEF TypeOK
  <2>12. Task(w)'
    BY <1>3, <2>1, <2>8, <2>10, <2>11 DEF Task
  <2>13. \A c \in Creds : by'[c] # NoToken => owner'[c] # NoUser
    BY <1>1, <1>3, <1>6, EnrollmentAssumption DEF TypeOK, Bound
  <2> QED BY <1>5, <2>1, <2>5, <2>6, <2>7, <2>12, <2>13, BoundStep DEF Bound, Saved
<1>7. CASE Finish(w) /\ UNCHANGED <<owner, count, by, uses>>
  <2>1. /\ Task(w)'
        /\ pc' \in [Workers -> Labels] /\ job' \in [Workers -> Job]
        /\ copy' \in [Workers -> Session]
        /\ \A x \in Workers \ {w} : Same(x)
    BY <1>1, <1>7, FinishFacts
  <2>2. TypeOK'
    BY <1>1, <1>5, <1>7, <2>1 DEF TypeOK
  <2>3. Grows /\ UsedTokenRegistered'
    BY <1>5, <1>7 DEF Grows, Bound, UsedTokenRegistered
  <2> QED BY <1>5, <1>7, <2>1, <2>2, <2>3, BoundStep DEF Bound, Saved
<1> QED BY <1>2, <1>6, <1>7 DEF CreateCredential

\* A link is burned for the credential its worker has just registered.
LEMMA MarkUsedBound ==
    ASSUME Bound, NEW w \in Workers, MarkUsed(w)
    PROVE  Bound'
<1> USE DEF MarkUsed, history
<1>1. TypeOK /\ Task(w) /\ pc[w] = "burn"
  BY DEF Bound
<1>2. PICK j \in Job : j = job[w]
  BY <1>1 DEF TypeOK
<1>3. j.token \in Tokens /\ j.cred \in Creds /\ by[j.cred] = j.token
  BY <1>1, <1>2 DEF Task
<1>4. /\ pc'[w] = "respond" /\ job'[w] = j /\ copy'[w] = copy[w]
      /\ pc' \in [Workers -> Labels] /\ job' = job /\ copy' = copy
      /\ \A x \in Workers \ {w} : Same(x)
  <2>1. Goto(w, "respond") /\ "respond" \in Labels
    BY DEF Labels
  <2> QED BY <1>1, <1>2, <2>1, GotoFacts
<1>5. token' \in [Tokens -> Token]
  <2>1. token[j.token] \in Token /\ token \in [Tokens -> Token]
    BY <1>1, <1>3 DEF TypeOK
  <2>2. PICK z \in Token : z = [token[j.token] EXCEPT !.used = TRUE]
    BY <2>1 DEF Token
  <2>3. token' = [token EXCEPT ![j.token] = z]
    BY <1>2, <2>2
  <2> QED BY <1>3, <2>1, <2>3
<1>6. TypeOK'
  BY <1>1, <1>4, <1>5 DEF TypeOK
<1>7. Grows
  BY DEF Grows
<1>8. UsedTokenRegistered'
  BY <1>1, <1>2, <1>3 DEF TypeOK, Bound, UsedTokenRegistered, Token
<1>9. PICK s \in Session, b \in Browsers : s = copy[w] /\ b = j.browser /\ Fair(b, s)
  BY <1>1, <1>2 DEF TypeOK, Task
<1>10. Fair(b, s)'
  BY <1>1, <1>7, <1>9, FairGrows DEF Bound
<1>11. Fair(job[w].browser, copy[w])'
  BY <1>4, <1>9, <1>10 DEF Fair
<1>12. Task(w)'
  BY <1>4, <1>9, <1>11 DEF Task
<1> QED BY <1>4, <1>6, <1>7, <1>8, <1>12, BoundStep DEF Bound, Saved

\* The row update is what shows that the credential answered.
LEMMA SaveCountBound ==
    ASSUME Bound, NEW w \in Workers, SaveCount(w)
    PROVE  Bound'
<1> USE DEF SaveCount
<1>1. TypeOK /\ Task(w) /\ pc[w] = "count"
  BY DEF Bound
<1>2. PICK j \in Job : j = job[w]
  BY <1>1 DEF TypeOK
<1>3. /\ j.cred \in Creds /\ j.user \in Users /\ owner[j.cred] = j.user
      /\ Issued(j.challenge, j.browser, "sign-in")
  BY <1>1, <1>2 DEF Task
<1>4. j.challenge \in Challenges
  BY <1>1, <1>3, IssuedTyped DEF Bound
<1>5. /\ pc'[w] = "login" /\ job'[w] = j /\ copy'[w] = copy[w]
      /\ pc' \in [Workers -> Labels] /\ job' = job /\ copy' = copy
      /\ \A x \in Workers \ {w} : Same(x)
  BY <1>1, <1>2, GotoFacts DEF Labels
<1>6. /\ uses' \in [Challenges -> [by : SUBSET Creds, twice : BOOLEAN]]
      /\ \A h \in Challenges : uses[h].by \subseteq uses'[h].by
      /\ j.cred \in uses'[j.challenge].by
  BY <1>1, <1>2, <1>3, <1>4 DEF TypeOK, Used
<1>7. count' \in [Creds -> Nat]
  BY <1>1, <1>2 DEF TypeOK, Job
<1>8. TypeOK'
  BY <1>1, <1>5, <1>6, <1>7 DEF TypeOK
<1>9. Grows /\ UsedTokenRegistered'
  BY <1>6 DEF Grows, Bound, UsedTokenRegistered
<1>10. PICK s \in Session, b \in Browsers : s = copy[w] /\ b = j.browser /\ Fair(b, s)
  BY <1>1, <1>2 DEF TypeOK, Task
<1>11. Fair(b, s)'
  BY <1>1, <1>9, <1>10, FairGrows DEF Bound
<1>12. Fair(job[w].browser, copy[w])'
  BY <1>5, <1>10, <1>11 DEF Fair
<1>13. Issued(job[w].challenge, job[w].browser, "sign-in")'
  BY <1>3, <1>5 DEF Issued
<1>14. Task(w)'
  BY <1>3, <1>5, <1>6, <1>10, <1>12, <1>13 DEF Task
<1> QED BY <1>5, <1>8, <1>9, <1>14, BoundStep DEF Bound, Saved

\* A session that goes on under another key.
LEMMA KeyTyped ==
    ASSUME NEW i \in Job, NEW k \in Keys
    PROVE  /\ [i EXCEPT !.key = k] \in Job /\ [i EXCEPT !.key = k].key = k
           /\ [i EXCEPT !.key = k].browser = i.browser
  BY DEF Job

\* Requests that get another key, and no more.
LEMMA RekeyFacts ==
    ASSUME TypeOK, NEW b \in Browsers, NEW w \in Workers, NEW k \in Keys
    PROVE  /\ Rekey(b, w, k) \in [Workers -> Job] /\ Rekey(b, w, k)[w] = job[w]
           /\ \A x \in Workers : job[x].browser # b => Rekey(b, w, k)[x] = job[x]
           /\ \A x \in Workers : \/ Rekey(b, w, k)[x] = job[x]
                                 \/ /\ job[x].browser = b
                                    /\ Rekey(b, w, k)[x] = [job[x] EXCEPT !.key = k]
                                    /\ Rekey(b, w, k)[x].key = k
<1>1. \A x \in Workers : job[x] \in Job
  BY DEF TypeOK
<1> QED BY <1>1, KeyTyped DEF TypeOK, Rekey

\* django_login signs in the user whose credential answered a challenge of
\* this browser.
LEMMA LoginBound ==
    ASSUME Bound, NEW w \in Workers, Login(w)
    PROVE  Bound'
<1>1. TypeOK /\ Task(w) /\ pc[w] = "login"
  BY DEF Bound, Login
<1>2. PICK j \in Job : j = job[w]
  BY <1>1 DEF TypeOK
<1>3. PICK b \in Browsers : b = j.browser
  BY <1>1, <1>2 DEF Task
<1>4. PICK s \in Session : s = IF copy[w].user \in {NoUser, j.user} THEN copy[w] ELSE NoSession
  BY <1>1 DEF TypeOK, NoSession, Session, None
<1> DEFINE y == [s EXCEPT !.user = j.user]
<1>5. /\ y \in Session /\ y.user = j.user /\ y.reg = s.reg
      /\ y.regUser = s.regUser /\ y.auth = s.auth
  BY <1>2 DEF Session, Job
<1>6. PICK z \in Session : /\ z = y /\ z.user = j.user /\ z.reg = s.reg
                           /\ z.regUser = s.regUser /\ z.auth = s.auth
  BY <1>5
<1>7. copy' = [copy EXCEPT ![w] = z] /\ pc' = [pc EXCEPT ![w] = "respond"]
      /\ UNCHANGED <<tables, history>>
  <2>1. CASE copy[w].user = j.user /\ UNCHANGED <<session, job, copy>>
    <3>1. [copy[w] EXCEPT !.user = j.user] = copy[w]
      BY <1>1, <2>1 DEF TypeOK, Session
    <3> QED BY <1>1, <1>4, <1>6, <2>1, <3>1 DEF Login, TypeOK
  <2>2. CASE copy[w].user # j.user
    BY <1>2, <1>4, <1>6, <2>2 DEF Login
  <2> QED BY <1>2, <2>1, <2>2 DEF Login
<1> HIDE DEF y
<1>8. /\ session' = session \/ session' = [session EXCEPT ![b] = NoSession]
      /\ \/ job' = job
         \/ \E f \in {job, Rekey(b, w, "deleted")} : job' = [f EXCEPT ![w].key = "other"]
  BY <1>2, <1>3 DEF Login
<1>9. /\ job' \in [Workers -> Job] /\ job'[w].browser = b
      /\ \A x \in Workers \ {w} :
            \/ job'[x] = job[x]
            \/ job[x].browser = b /\ Rekeyed(job[x], job'[x])
  <2>1. CASE job' = job
    BY <1>1, <1>2, <1>3, <2>1 DEF TypeOK
  <2>2. ASSUME NEW f \in {job, Rekey(b, w, "deleted")}, job' = [f EXCEPT ![w].key = "other"]
        PROVE  /\ job' \in [Workers -> Job] /\ job'[w].browser = b
               /\ \A x \in Workers \ {w} :
                     \/ job'[x] = job[x]
                     \/ job[x].browser = b /\ Rekeyed(job[x], job'[x])
    <3>1. "deleted" \in Keys /\ "other" \in Keys
      BY DEF Keys
    <3>2. /\ f \in [Workers -> Job] /\ f[w] = job[w]
          /\ \A x \in Workers :
                \/ f[x] = job[x]
                \/ job[x].browser = b /\ f[x] = [job[x] EXCEPT !.key = "deleted"]
      <4>1. CASE f = job
        BY <1>1, <4>1 DEF TypeOK
      <4>2. CASE f = Rekey(b, w, "deleted")
        BY <1>1, <3>1, <4>2, RekeyFacts
      <4> QED BY <2>2, <4>1, <4>2
    <3>3. [f[w] EXCEPT !.key = "other"] \in Job /\ [f[w] EXCEPT !.key = "other"].browser = b
      BY <1>2, <1>3, <3>1, <3>2, KeyTyped
    <3>4. /\ job' \in [Workers -> Job] /\ job'[w] = [f[w] EXCEPT !.key = "other"]
          /\ \A x \in Workers \ {w} : job'[x] = f[x]
      <4>1. PICK i \in Job : i = [f[w] EXCEPT !.key = "other"]
        BY <3>3
      <4>2. job' = [f EXCEPT ![w] = i]
        BY <2>2, <4>1
      <4> QED BY <3>2, <4>1, <4>2
    <3>5. \A x \in Workers \ {w} :
             \/ f[x] = job[x]
             \/ job[x].browser = b /\ Rekeyed(job[x], f[x])
      BY <3>1, <3>2 DEF Rekeyed
    <3> QED BY <3>3, <3>4, <3>5
  <2>3. CASE \E f \in {job, Rekey(b, w, "deleted")} : job' = [f EXCEPT ![w].key = "other"]
    BY <2>2, <2>3
  <2> QED BY <1>8, <2>1, <2>3
<1>10. session' \in [Browsers -> Session] /\ \A x \in Browsers : Saved(x)
  <2>1. NoSession \in Session /\ session \in [Browsers -> Session]
    BY <1>1 DEF TypeOK, NoSession, Session, None
  <2>2. CASE session' = session
    BY <2>1, <2>2 DEF Saved
  <2>3. CASE session' = [session EXCEPT ![b] = NoSession]
    BY <2>1, <2>3 DEF Saved
  <2> QED BY <1>8, <2>2, <2>3
<1>11. \A x \in Workers \ {w} : Same(x)
  <2>1. \A x \in Workers : job[x].browser = b => pc[x] # "idle"
    BY EnrollmentAssumption DEF Bound, Task, NoJob
  <2> QED BY <1>1, <1>7, <1>9, <2>1 DEF TypeOK, Same
<1>12. /\ copy'[w] = z /\ pc'[w] = "respond" /\ copy' \in [Workers -> Session]
       /\ pc' \in [Workers -> Labels]
  BY <1>1, <1>7 DEF TypeOK, Labels
<1>13. TypeOK'
  BY <1>1, <1>7, <1>9, <1>10, <1>12 DEF TypeOK, tables, history
<1>14. Grows /\ UsedTokenRegistered'
  BY <1>7 DEF Grows, Bound, UsedTokenRegistered, tables, history
<1>15. Fair(b, s)
  BY <1>1, <1>2, <1>3, <1>4 DEF Task, Fair, NoSession
<1>16. Fair(b, s)'
  BY <1>1, <1>14, <1>15, FairGrows DEF Bound
<1>17. Proven(b, j.user)
  BY <1>1, <1>2, <1>3 DEF Task, Proven, Issued
<1>18. PICK u \in Users : u = j.user
  BY <1>1, <1>2 DEF Task
<1>19. Proven(b, u)'
  BY <1>7, <1>17, <1>18 DEF Proven, Issued, tables, history
<1>20. Fair(b, z)'
  BY <1>6, <1>16, <1>18, <1>19 DEF Fair
<1>21. Fair(job[w].browser, copy[w])'
  BY <1>9, <1>12, <1>20 DEF Fair
<1>22. Task(w)'
  BY <1>9, <1>12, <1>21 DEF Task
<1> QED BY <1>7, <1>10, <1>11, <1>13, <1>14, <1>22, BoundStep DEF Bound, tables, history

\* A flushed session holds nothing.
LEMMA LogoutBound ==
    ASSUME Bound, NEW b \in Browsers, Logout(b)
    PROVE  Bound'
<1> USE DEF Logout, tables, history
<1>1. TypeOK /\ NoSession \in Session
  BY DEF Bound, NoSession, Session, None
<1>2. \A x \in Workers : job[x].browser = b => pc[x] # "idle"
  BY EnrollmentAssumption DEF Bound, Task, NoJob
<1>3. \A x \in Workers : Same(x)
  BY <1>1, <1>2 DEF TypeOK, Same, Rekeyed, Keys
<1>4. job' \in [Workers -> Job]
  <2>1. "deleted" \in Keys /\ \A x \in Workers : job[x] \in Job
    BY <1>1 DEF TypeOK, Keys
  <2>2. \A x \in Workers : [job[x] EXCEPT !.key = "deleted"] \in Job
    BY <2>1, KeyTyped
  <2> QED BY <2>1, <2>2
<1>5. TypeOK'
  BY <1>1, <1>4 DEF TypeOK
<1>6. Grows /\ UsedTokenRegistered'
  BY DEF Grows, Bound, UsedTokenRegistered
<1>7. \A x \in Browsers : Saved(x)
  BY <1>1 DEF TypeOK, Saved
<1> QED BY <1>3, <1>5, <1>6, <1>7, BoundStep DEF Bound

\* A request that responds is over; others may go on under another key.
LEMMA RespondFacts ==
    ASSUME Bound, NEW w \in Workers, Respond(w)
    PROVE  /\ Task(w)' /\ job'[w] = NoJob /\ pc'[w] = "idle"
           /\ pc' \in [Workers -> Labels] /\ job' \in [Workers -> Job]
           /\ copy' \in [Workers -> Session]
           /\ \A x \in Workers \ {w} : Same(x)
           /\ \A x \in Workers \ {w} : job[x].browser # job[w].browser => job'[x] = job[x]
<1>1. TypeOK /\ pc[w] = "respond" /\ NoJob \in Job /\ NoSession \in Session /\ "other" \in Keys
  BY DEF Bound, Respond, NoJob, Job, Keys, NoSession, Session, None
<1>2. PICK b \in Browsers : b = job[w].browser
  BY <1>1 DEF Bound, Task
<1>3. PICK f \in {job, Rekey(b, w, "other")} : job' = [f EXCEPT ![w] = NoJob]
  BY <1>2 DEF Respond
<1>4. /\ f \in [Workers -> Job]
      /\ \A x \in Workers : job[x].browser # b => f[x] = job[x]
      /\ \A x \in Workers :
            f[x] = job[x] \/ (job[x].browser = b /\ f[x] = [job[x] EXCEPT !.key = "other"])
  BY <1>1, RekeyFacts DEF TypeOK
<1>5. /\ job' \in [Workers -> Job] /\ job'[w] = NoJob
      /\ \A x \in Workers \ {w} : job'[x] = f[x]
  BY <1>1, <1>3, <1>4
<1>6. /\ pc' = [pc EXCEPT ![w] = "idle"] /\ copy' = [copy EXCEPT ![w] = NoSession]
  BY DEF Respond
<1>7. \A x \in Workers : job[x].browser = b => pc[x] # "idle"
  BY EnrollmentAssumption DEF Bound, Task, NoJob
<1>8. \A x \in Workers \ {w} : Same(x)
  BY <1>1, <1>4, <1>5, <1>6, <1>7 DEF TypeOK, Same, Rekeyed
<1> QED BY <1>1, <1>2, <1>4, <1>5, <1>6, <1>8 DEF TypeOK, Task, Labels

\* The copy that is saved is one of the same browser.
LEMMA RespondBound ==
    ASSUME Bound, NEW w \in Workers, Respond(w)
    PROVE  Bound'
<1> USE DEF Respond, tables, history
<1>1. TypeOK /\ Task(w)
  BY DEF Bound
<1>2. /\ Task(w)'
      /\ pc' \in [Workers -> Labels] /\ job' \in [Workers -> Job]
      /\ copy' \in [Workers -> Session]
      /\ \A x \in Workers \ {w} : Same(x)
  BY <1>1, RespondFacts
<1>3. session' \in [Browsers -> Session]
  BY <1>1 DEF TypeOK, Task
<1>4. TypeOK'
  BY <1>1, <1>2, <1>3 DEF TypeOK
<1>5. Grows /\ UsedTokenRegistered'
  BY DEF Grows, Bound, UsedTokenRegistered
<1>6. \A x \in Browsers : Saved(x)
  BY <1>1 DEF TypeOK, Saved
<1> QED BY <1>2, <1>4, <1>5, <1>6, BoundStep DEF Bound

\* A killed request writes nothing more.
LEMMA CrashBound ==
    ASSUME Bound, NEW w \in Workers, Crash(w)
    PROVE  Bound'
<1> USE DEF Crash, tables
<1>1. TypeOK /\ job[w] \in Job
  BY DEF Bound, TypeOK
<1>2. /\ Task(w)'
      /\ pc' \in [Workers -> Labels] /\ job' \in [Workers -> Job]
      /\ copy' \in [Workers -> Session]
      /\ \A x \in Workers \ {w} : Same(x)
  BY <1>1, FinishFacts
<1>3. Things(job[w]) \subseteq Browsers \cup Tokens \cup Creds
  BY <1>1, JobFacts
<1>4. TypeOK'
  BY <1>1, <1>2, <1>3 DEF TypeOK
<1>5. Grows /\ UsedTokenRegistered'
  BY DEF Grows, Bound, UsedTokenRegistered
<1> QED BY <1>2, <1>4, <1>5, BoundStep DEF Bound, Saved

\* Time alone changes nothing that is held.
LEMMA TickBound ==
    ASSUME Bound, Tick
    PROVE  Bound'
<1> USE DEF Tick, history
<1>1. TypeOK'
  BY DEF Bound, TypeOK
<1>2. Grows /\ UsedTokenRegistered' /\ \A x \in Workers : Same(x)
  BY DEF Grows, Bound, UsedTokenRegistered, Same
<1> QED BY <1>1, <1>2, BoundStep DEF Bound, Saved

\* A step that changes nothing.
LEMMA StutterBound ==
    ASSUME Bound, UNCHANGED vars
    PROVE  Bound'
<1> USE DEF vars
<1>1. TypeOK'
  BY DEF Bound, TypeOK
<1>2. Grows /\ UsedTokenRegistered' /\ \A x \in Workers : Same(x)
  BY DEF Grows, Bound, UsedTokenRegistered, Same
<1> QED BY <1>1, <1>2, BoundStep DEF Bound, Saved

\* Every step keeps part one.
LEMMA NextBound == Bound /\ [Next]_vars => Bound'
<1> SUFFICES ASSUME Bound, [Next]_vars PROVE Bound'
  OBVIOUS
<1>1. CASE UNCHANGED vars
  BY <1>1, StutterBound
<1>2. ASSUME NEW t \in Tokens, NEW u \in Users, Issue(t, u) PROVE Bound'
  BY <1>2, IssueBound
<1>3. ASSUME NEW w \in Workers, NEW b \in Browsers,
             \/ StartSignIn(w, b) \/ Visit(w, b)
             \/ \E t \in Tokens : StartRegistration(w, b, t)
             \/ \E c \in Creds, h \in 1..Len(issued) :
                   \/ \E t \in Tokens : FinishRegistration(w, b, t, c, h)
                   \/ \E n \in 0..MaxCount : FinishSignIn(w, b, c, h, n)
      PROVE  Bound'
  BY <1>3, StartSignInBound, VisitBound, StartRegistrationBound,
     FinishRegistrationBound, FinishSignInBound
<1>4. ASSUME NEW w \in Workers,
             \/ CreateCredential(w) \/ MarkUsed(w) \/ SaveCount(w) \/ Login(w)
             \/ Respond(w) \/ Crash(w)
      PROVE  Bound'
  BY <1>4, CreateCredentialBound, MarkUsedBound, SaveCountBound, LoginBound,
     RespondBound, CrashBound
<1>5. ASSUME NEW b \in Browsers, Logout(b) PROVE Bound'
  BY <1>5, LogoutBound
<1>6. CASE Tick
  BY <1>6, TickBound
<1> QED BY <1>1, <1>2, <1>3, <1>4, <1>5, <1>6 DEF Next

\* The inductive invariant, part one: every session, whether stored or held by a
\* request, has only challenges issued to its browser and only a user whose
\* credential answered one of them.
THEOREM Invariant == Spec => []Bound
<1> QED BY InitBound, NextBound, PTL DEF Spec

\* The tables, sessions and workers' variables keep their types.
THEOREM TypeCorrect == Spec => []TypeOK
<1>1. Bound => TypeOK
  BY DEF Bound
<1> QED BY <1>1, Invariant, PTL

\* login_finish_usernameless: whatever sessions are saved over one another, a
\* browser is signed in only by a credential of that user over a challenge
\* issued to it.
THEOREM SignedIn == Spec => []SignedInByOwnCredential
<1>1. Bound => SignedInByOwnCredential
  BY DEF Bound, Fair, Proven, Issued, SignedInByOwnCredential
<1> QED BY <1>1, Invariant, PTL

\* registration_finish burns a link only after its credential was inserted.
THEOREM UsedRegistered == Spec => []UsedTokenRegistered
<1>1. Bound => UsedTokenRegistered
  BY DEF Bound
<1> QED BY <1>1, Invariant, PTL

-----------------------------------------------------------------------------
(* Part two: what holds for tokens, browsers and credentials whose requests *)
(* neither overlap nor are killed.                                          *)

\* Two requests that are about the same thing have marked it.
Apart ==
    \A w, x \in Workers : w # x => Things(job[w]) \cap Things(job[x]) \subseteq contended

\* The token of a credential is used, or about to be; the token of a request
\* about to create a credential is not.
OneShot ==
    /\ \A t \in Tokens :
          (\E c \in Creds : by[c] = t) \/ (\E w \in Workers : job[w].token = t)
              => token[t].user # NoUser
    /\ \A t \in Tokens \ contended, c \in Creds :
          by[c] = t => token[t].used \/ \E w \in Workers : pc[w] = "burn" /\ job[w].token = t
    /\ \A w \in Workers :
          pc[w] = "register" /\ job[w].token \notin contended => ~token[job[w].token].used
    /\ \A c, d \in Creds : by[c] = by[d] /\ by[c] \in Tokens \ contended => c = d

\* The challenges a session holds, and those that have been answered.
Holds(s) == {s.reg, s.auth} \ {None}

Spent == {h \in Challenges : uses[h].by # {}}

\* Worker w has no answered challenge left to save or to answer again.
Clean(w) ==
    /\ Holds(copy[w]) \cap Spent = {}
    /\ job[w].key = "deleted" => session[job[w].browser] = NoSession
    /\ pc[w] \in {"register", "count"} => job[w].challenge \notin Spent \cup Holds(copy[w])

\* A session holds an answered challenge only until its request has responded.
Fresh(b) ==
    \/ Holds(session[b]) \cap Spent = {}
    \/ \E w \in Workers : job[w].browser = b /\ pc[w] \in {"burn", "login", "respond"}

Once ==
    /\ Spent \subseteq 1..Len(issued)
    /\ \A h \in Challenges : uses[h].twice => h \in Spent
    /\ ChallengeUsedOnce
    /\ \A w \in Workers : pc[w] # "idle" /\ job[w].browser \notin contended => Clean(w)
    /\ \A b \in Browsers \ contended : Fresh(b)

\* The counter a request is about to save has been checked against the row.
Counters ==
    \A w \in Workers :
        pc[w] = "count" /\ job[w].cred \notin contended =>
            CounterOK(count[job[w].cred], job[w].count)

Separate == Apart /\ OneShot /\ Once /\ Counters

-----------------------------------------------------------------------------
(* Steps.                                                                  *)

\* Who shares a token, a browser or a credential has marked it.
LEMMA Marked ==
    ASSUME Apart, NEW w \in Workers, NEW x \in Workers, w # x
    PROVE  /\ \A b \in Browsers : job[w].browser = b /\ job[x].browser = b
                  => b \in contended \/ b \in {NoBrowser, NoToken, NoCred}
           /\ \A t \in Tokens : job[w].token = t /\ job[x].token = t => t \in contended
           /\ \A c \in Creds : job[w].cred = c /\ job[x].cred = c => c \in contended
  BY EnrollmentAssumption DEF Apart, Things

\* A worker that does not act is about what it was about.
LEMMA SameFacts ==
    ASSUME TypeOK, NEW x \in Workers, Same(x)
    PROVE  /\ Things(job'[x]) = Things(job[x])
           /\ pc'[x] = pc[x] /\ copy'[x] = copy[x]
           /\ job'[x].browser = job[x].browser /\ job'[x].token = job[x].token
           /\ job'[x].cred = job[x].cred /\ job'[x].challenge = job[x].challenge
           /\ job'[x].count = job[x].count /\ job'[x].user = job[x].user
<1>1. job[x] \in Job
  BY DEF TypeOK
<1>2. /\ pc'[x] = pc[x] /\ copy'[x] = copy[x]
      /\ job'[x].browser = job[x].browser /\ job'[x].token = job[x].token
      /\ job'[x].cred = job[x].cred /\ job'[x].challenge = job[x].challenge
      /\ job'[x].count = job[x].count /\ job'[x].user = job[x].user
  BY <1>1 DEF Same, Rekeyed, Job
<1> QED BY <1>2 DEF Things

\* A step that brings no request up.
LEMMA ApartStep ==
    ASSUME Apart, contended \subseteq contended',
           \A x \in Workers : Things(job'[x]) \subseteq Things(job[x])
    PROVE  Apart'
  BY DEF Apart

\* A step that neither registers a credential nor writes a token.
LEMMA OneShotStep ==
    ASSUME OneShot, contended \subseteq contended', UNCHANGED <<by, token>>,
           \A x \in Workers :
              /\ pc[x] = "burn" => \/ pc'[x] = "burn" /\ job'[x].token = job[x].token
                                   \/ job[x].token \in contended'
              /\ pc'[x] = "register" => \/ pc[x] = "register" /\ job'[x].token = job[x].token
                                        \/ ~token[job'[x].token].used
              /\ \/ job'[x].token \notin Tokens \/ job'[x].token = job[x].token
                 \/ token[job'[x].token].user # NoUser
    PROVE  OneShot'
<1>1. \A t \in Tokens :
          (\E c \in Creds : by'[c] = t) \/ (\E w \in Workers : job'[w].token = t)
              => token'[t].user # NoUser
  BY DEF OneShot
<1>2. \A t \in Tokens \ contended', c \in Creds :
          by'[c] = t => token'[t].used \/ \E w \in Workers : pc'[w] = "burn" /\ job'[w].token = t
  BY DEF OneShot
<1>3. \A w \in Workers :
          pc'[w] = "register" /\ job'[w].token \notin contended' => ~token'[job'[w].token].used
  BY DEF OneShot
<1>4. \A c, d \in Creds : by'[c] = by'[d] /\ by'[c] \in Tokens \ contended' => c = d
  BY DEF OneShot
<1> QED BY <1>1, <1>2, <1>3, <1>4 DEF OneShot

\* A step that answers no challenge, hands none out and brings no request up.
LEMMA OnceStep ==
    ASSUME Once, contended \subseteq contended', UNCHANGED <<issued, uses>>,
           \A x \in Workers :
              pc'[x] # "idle" =>
                 /\ pc[x] # "idle" /\ job'[x].browser = job[x].browser
                 /\ Holds(copy'[x]) \subseteq Holds(copy[x])
                 /\ pc'[x] \in {"register", "count"} =>
                       pc'[x] = pc[x] /\ job'[x].challenge = job[x].challenge
                 /\ job'[x].key = "deleted" =>
                       \/ job[x].browser \in contended'
                       \/ session'[job[x].browser] = NoSession
                       \/ job[x].key = "deleted" /\ session'[job[x].browser] = session[job[x].browser],
           \A b \in Browsers :
              \/ b \in contended'
              \/ Holds(session'[b]) \cap Spent = {}
              \/ /\ session'[b] = session[b]
                 /\ \A x \in Workers :
                       job[x].browser = b /\ pc[x] \in {"burn", "login", "respond"} =>
                          job'[x].browser = b /\ pc'[x] \in {"burn", "login", "respond"}
    PROVE  Once'
<1>1. Spent' = Spent
  BY DEF Spent
<1>2. /\ Spent' \subseteq 1..Len(issued') /\ ChallengeUsedOnce'
      /\ \A h \in Challenges : uses'[h].twice => h \in Spent'
  BY <1>1 DEF Once, ChallengeUsedOnce
<1>3. ASSUME NEW x \in Workers, pc'[x] # "idle", job'[x].browser \notin contended'
      PROVE  Clean(x)'
  <2>1. Clean(x)
    BY <1>3 DEF Once
  <2>2. Holds(copy'[x]) \cap Spent = {}
    BY <1>3, <2>1 DEF Clean
  <2>3. job'[x].key = "deleted" => session'[job'[x].browser] = NoSession
    BY <1>3, <2>1 DEF Clean
  <2>4. pc'[x] \in {"register", "count"} => job'[x].challenge \notin Spent \cup Holds(copy'[x])
    BY <1>3, <2>1 DEF Clean
  <2> QED BY <1>1, <2>2, <2>3, <2>4 DEF Clean, Holds
<1>4. ASSUME NEW b \in Browsers \ contended' PROVE Fresh(b)'
  <2>1. Fresh(b)
    BY <1>4 DEF Once
  <2>2. \/ Holds(session'[b]) \cap Spent = {}
        \/ \E w \in Workers : job'[w].browser = b /\ pc'[w] \in {"burn", "login", "respond"}
    BY <1>4, <2>1 DEF Fresh
  <2> QED BY <1>1, <2>2 DEF Fresh, Holds
<1> QED BY <1>2, <1>3, <1>4 DEF Once

\* A step that writes no counter and checks none.
LEMMA CountersStep ==
    ASSUME Counters, contended \subseteq contended', UNCHANGED count,
           \A x \in Workers :
              pc'[x] = "count" => /\ pc[x] = "count" /\ job'[x].cred = job[x].cred
                                  /\ job'[x].count = job[x].count
    PROVE  Counters'
  BY DEF Counters, CounterOK

\* A request that arrives: what it may take from the session and the rows.
LEMMA BeginSeparate ==
    ASSUME Bound, Bound', Separate, NEW w \in Workers, NEW j \in Job, NEW s \in Session,
           NEW b \in Browsers, NEW label \in {"register", "count", "respond"},
           Begin(w, j, s, label), UNCHANGED <<tables, session, uses, by>>,
           \A h \in 1..Len(issued) : h \in 1..Len(issued)' /\ issued'[h] = issued[h],
           j.browser = b, j.key = "sent",
           \A h \in Holds(s) : h \in Holds(session[b]) \/ h \notin 1..Len(issued),
           label \in {"register", "count"} => j.challenge \in Holds(session[b]) \ Holds(s),
           label = "register" => ~token[j.token].used,
           j.token \in Tokens => token[j.token].user # NoUser,
           label = "count" => CounterOK(count[j.cred], j.count)
    PROVE  Separate'
<1>1. TypeOK /\ Apart /\ OneShot /\ Once /\ Counters /\ pc[w] = "idle" /\ label \in Labels
  BY DEF Bound, Separate, Begin, Labels
<1>2. /\ pc'[w] = label /\ job'[w] = j /\ copy'[w] = s
      /\ \A x \in Workers \ {w} : Same(x)
  BY <1>1, BeginFacts
<1>3. \A x \in Workers \ {w} : job'[x] = job[x] /\ pc'[x] = pc[x] /\ copy'[x] = copy[x]
  BY <1>1 DEF Begin, TypeOK
<1>4. /\ contended \subseteq contended'
      /\ \A x \in Workers \ {w} : Things(j) \cap Things(job[x]) \subseteq contended'
  BY DEF Begin, Busy
<1>5. Apart'
  BY <1>1, <1>2, <1>3, <1>4 DEF Apart
<1>6. OneShot'
  BY <1>1, <1>2, <1>3, <1>4, OneShotStep DEF tables
<1>7. Counters'
  BY <1>1, <1>2, <1>3, <1>4 DEF Counters, CounterOK, tables
<1>8. Spent' = Spent
  BY DEF Spent
<1>9. /\ Spent \subseteq 1..Len(issued)'
      /\ \A h \in Challenges : uses'[h].twice => h \in Spent'
  BY <1>1, <1>8 DEF Once
<1>10. ChallengeUsedOnce'
  <2> SUFFICES ASSUME NEW h \in 1..Len(issued)', issued'[h].browser \notin contended'
               PROVE  ~uses[h].twice
    BY DEF ChallengeUsedOnce
  <2>1. CASE h \in 1..Len(issued)
    BY <1>1, <1>4, <2>1 DEF Once, ChallengeUsedOnce
  <2>2. CASE h \notin 1..Len(issued)
    <3>1. h \in Challenges
      BY EnrollmentAssumption DEF Bound, TypeOK, Challenges
    <3> QED BY <1>1, <2>2, <3>1 DEF Once
  <2> QED BY <2>1, <2>2
<1>11. \A x \in Browsers \ contended' : Fresh(x)'
  <2> SUFFICES ASSUME NEW x \in Browsers \ contended' PROVE Fresh(x)'
    OBVIOUS
  <2>1. Fresh(x)
    BY <1>1, <1>4 DEF Once
  <2>2. \/ Holds(session'[x]) \cap Spent = {}
        \/ \E y \in Workers : job'[y].browser = x /\ pc'[y] \in {"burn", "login", "respond"}
    BY <1>1, <1>3, <2>1 DEF Fresh
  <2> QED BY <1>8, <2>2 DEF Fresh, Holds
<1>12. ASSUME b \notin contended' PROVE Clean(w)'
  <2>1. \A x \in Workers \ {w} : job[x].browser # b
    BY <1>4, <1>12, EnrollmentAssumption DEF Things
  <2>2. Holds(session[b]) \cap Spent = {}
    BY <1>1, <1>4, <1>12, <2>1 DEF Once, Fresh
  <2>3. Holds(s) \cap Spent = {}
    BY <1>1, <2>2 DEF Once
  <2>4. label \in {"register", "count"} => j.challenge \notin Spent \cup Holds(s)
    BY <2>2
  <2> QED BY <1>2, <1>8, <2>3, <2>4 DEF Clean, Holds
<1>13. ASSUME NEW x \in Workers \ {w}, pc[x] # "idle", job[x].browser \notin contended'
       PROVE  Clean(x)'
  BY <1>1, <1>3, <1>4, <1>8, <1>13 DEF Once, Clean, Holds
<1>14. Once'
  BY <1>2, <1>3, <1>8, <1>9, <1>10, <1>11, <1>12, <1>13 DEF Once
<1> QED BY <1>5, <1>6, <1>7, <1>14 DEF Separate

\* A request that only responds, with what its session held or less.
LEMMA RefuseSeparate ==
    ASSUME Bound, Bound', Separate, NEW w \in Workers, NEW b \in Browsers, NEW s \in Session,
           Refuse(w, b, s), UNCHANGED <<tables, session, issued, uses, by>>,
           Holds(s) \subseteq Holds(session[b])
    PROVE  Separate'
<1>1. [NoJob EXCEPT !.browser = b] \in Job
      /\ [NoJob EXCEPT !.browser = b].browser = b
      /\ [NoJob EXCEPT !.browser = b].key = "sent"
      /\ [NoJob EXCEPT !.browser = b].token = NoToken
  BY DEF NoJob, Job, Keys, None
<1>2. PICK j \in Job : /\ j = [NoJob EXCEPT !.browser = b] /\ j.browser = b
                       /\ j.key = "sent" /\ j.token = NoToken
  BY <1>1
<1>3. j.token \notin Tokens
  BY <1>2, EnrollmentAssumption
<1>4. Begin(w, j, s, "respond")
  BY <1>2 DEF Refuse
<1>5. UNCHANGED <<tables, session, uses, by>>
      /\ \A h \in 1..Len(issued) : h \in 1..Len(issued)' /\ issued'[h] = issued[h]
  OBVIOUS
<1> QED BY <1>2, <1>3, <1>4, <1>5, BeginSeparate

\* Any other request begins with the session as it is.
LEMMA VisitSeparate ==
    ASSUME Bound, Bound', Separate, NEW w \in Workers, NEW b \in Browsers, Visit(w, b)
    PROVE  Separate'
<1>1. PICK s \in Session : s = session[b]
  BY DEF Bound, TypeOK
<1>2. Refuse(w, b, s) /\ UNCHANGED <<tables, session, issued, uses, by>>
  BY <1>1 DEF Visit, Refuse
<1> QED BY <1>1, <1>2, RefuseSeparate

\* A new challenge has not been answered, and the link has its user.
LEMMA StartRegistrationSeparate ==
    ASSUME Bound, Bound', Separate, NEW w \in Workers, NEW b \in Browsers, NEW t \in Tokens,
           StartRegistration(w, b, t)
    PROVE  Separate'
<1> USE DEF StartRegistration
<1> DEFINE k == [NoJob EXCEPT !.browser = b, !.token = t]
           y == [session[b] EXCEPT !.reg = Len(issued) + 1, !.regUser = token[t].user]
<1>1. TypeOK /\ token[t].user # NoUser /\ token[t].user \in Users /\ session[b] \in Session
  BY DEF Bound, TypeOK, Active, Token
<1>2. /\ Len(issued) + 1 \in Challenges
      /\ \A h \in 1..Len(issued) : h \in 1..Len(issued)' /\ issued'[h] = issued[h]
  BY <1>1, ChallengeFacts
<1>3. k \in Job /\ k.browser = b /\ k.token = t /\ k.key = "sent"
  BY DEF NoJob, Job, Keys, None
<1>4. y \in Session /\ y.reg = Len(issued) + 1 /\ y.auth = session[b].auth
  BY <1>1, <1>2 DEF Session
<1>5. PICK j \in Job, s \in Session :
          j = k /\ s = y /\ j.browser = b /\ j.token = t /\ j.key = "sent"
          /\ s.reg = Len(issued) + 1 /\ s.auth = session[b].auth
  BY <1>3, <1>4
<1>6. Begin(w, j, s, "respond") /\ UNCHANGED <<tables, session, uses, by>>
  BY <1>5
<1> HIDE DEF k, y, StartRegistration
<1>7. \A h \in Holds(s) : h \in Holds(session[b]) \/ h \notin 1..Len(issued)
  BY <1>1, <1>5 DEF Holds, TypeOK
<1> QED BY <1>1, <1>2, <1>5, <1>6, <1>7, BeginSeparate

\* A new challenge has not been answered.
LEMMA StartSignInSeparate ==
    ASSUME Bound, Bound', Separate, NEW w \in Workers, NEW b \in Browsers, StartSignIn(w, b)
    PROVE  Separate'
<1> USE DEF StartSignIn
<1> DEFINE k == [NoJob EXCEPT !.browser = b]
           y == [session[b] EXCEPT !.auth = Len(issued) + 1]
<1>1. TypeOK /\ session[b] \in Session
  BY DEF Bound, TypeOK
<1>2. /\ Len(issued) + 1 \in Challenges
      /\ \A h \in 1..Len(issued) : h \in 1..Len(issued)' /\ issued'[h] = issued[h]
  BY <1>1, ChallengeFacts
<1>3. k \in Job /\ k.browser = b /\ k.token = NoToken /\ k.key = "sent"
  BY DEF NoJob, Job, Keys, None
<1>4. y \in Session /\ y.auth = Len(issued) + 1 /\ y.reg = session[b].reg
  BY <1>1, <1>2 DEF Session
<1>5. PICK j \in Job, s \in Session :
          j = k /\ s = y /\ j.browser = b /\ j.token = NoToken /\ j.key = "sent"
          /\ s.auth = Len(issued) + 1 /\ s.reg = session[b].reg
  BY <1>3, <1>4
<1>6. Begin(w, j, s, "respond") /\ UNCHANGED <<tables, session, uses, by>>
  BY <1>5
<1> HIDE DEF k, y, StartSignIn
<1>7. \A h \in Holds(s) : h \in Holds(session[b]) \/ h \notin 1..Len(issued)
  BY <1>1, <1>5 DEF Holds, TypeOK
<1>8. j.token \notin Tokens
  BY <1>5, EnrollmentAssumption
<1> QED BY <1>1, <1>2, <1>5, <1>6, <1>7, <1>8, BeginSeparate

\* The challenge is popped from the copy, the link is not used: both were so when
\* the request arrived.
LEMMA FinishRegistrationSeparate ==
    ASSUME Bound, Bound', Separate, NEW w \in Workers, NEW b \in Browsers, NEW t \in Tokens,
           NEW c \in Creds, NEW h \in 1..Len(issued), FinishRegistration(w, b, t, c, h)
    PROVE  Separate'
<1>1. PICK s \in Session : s = session[b]
  BY DEF Bound, TypeOK
<1>2. PICK z \in Session : z = PopRegistration(s)
  BY DEF PopRegistration, Session, None
<1>3. z.reg = None /\ z.auth = s.auth /\ Holds(z) \subseteq Holds(s)
  BY <1>2 DEF PopRegistration, Session, Holds
<1>4. UNCHANGED <<tables, session, issued, uses, by>>
  BY DEF FinishRegistration
<1>5. CASE Refuse(w, b, PopRegistration(session[b]))
  BY <1>1, <1>2, <1>3, <1>4, <1>5, RefuseSeparate
<1>6. CASE Verified(h, session[b].reg) /\ AcceptRegistration(w, b, t, c, h)
  <2>1. Fair(b, s)
    BY <1>1 DEF Bound
  <2>2. /\ h = s.reg /\ s.reg # None /\ s.regUser \in Users
        /\ Issued(h, b, "registration") /\ s.auth # h
    BY <1>1, <1>6, <2>1 DEF Fair, Verified, Issued
  <2>3. TypeOK /\ h \in Challenges /\ token[t].user # NoUser /\ ~token[t].used
    BY <2>2, IssuedTyped DEF Bound, FinishRegistration, Active
  <2> DEFINE k == [NoJob EXCEPT !.browser = b, !.token = t, !.cred = c,
                                !.challenge = h, !.user = s.regUser]
  <2>4. k \in Job /\ k.browser = b /\ k.token = t /\ k.challenge = h /\ k.key = "sent"
    BY <2>2, <2>3 DEF NoJob, Job, Keys
  <2>5. PICK j \in Job : j = k /\ j.browser = b /\ j.token = t /\ j.challenge = h /\ j.key = "sent"
    BY <2>4
  <2>6. Begin(w, j, z, "register")
    BY <1>1, <1>2, <1>6, <2>5 DEF AcceptRegistration
  <2> HIDE DEF k
  <2>7. j.challenge \in Holds(session[b]) \ Holds(z)
    BY <1>1, <1>3, <2>2, <2>5 DEF Holds
  <2>8. UNCHANGED <<tables, session, uses, by>>
        /\ \A i \in 1..Len(issued) : i \in 1..Len(issued)' /\ issued'[i] = issued[i]
    BY <1>4
  <2> QED BY <1>1, <1>3, <2>3, <2>5, <2>6, <2>7, <2>8, BeginSeparate
<1> QED BY <1>5, <1>6 DEF FinishRegistration

\* The challenge is popped from the copy and the counter is checked.
LEMMA FinishSignInSeparate ==
    ASSUME Bound, Bound', Separate, NEW w \in Workers, NEW b \in Browsers, NEW c \in Creds,
           NEW h \in 1..Len(issued), NEW n \in 0..MaxCount, FinishSignIn(w, b, c, h, n)
    PROVE  Separate'
<1>1. PICK s \in Session : s = session[b]
  BY DEF Bound, TypeOK
<1>2. PICK z \in Session : z = [s EXCEPT !.auth = None]
  BY DEF Session, None
<1>3. z.auth = None /\ z.reg = s.reg /\ Holds(z) \subseteq Holds(s)
  BY <1>2 DEF Session, Holds
<1>4. UNCHANGED <<tables, session, issued, uses, by>>
  BY DEF FinishSignIn
<1>5. CASE Refuse(w, b, z)
  BY <1>1, <1>3, <1>4, <1>5, RefuseSeparate
<1>6. CASE /\ owner[c] # NoUser /\ Verified(h, session[b].auth) /\ CounterOK(count[c], n)
           /\ AcceptSignIn(w, b, c, h, n, z)
  <2>1. Fair(b, s)
    BY <1>1 DEF Bound
  <2>2. /\ h = s.auth /\ s.auth # None /\ Issued(h, b, "sign-in") /\ s.reg # h
    BY <1>1, <1>6, <2>1 DEF Fair, Verified, Issued
  <2>3. TypeOK /\ h \in Challenges
    BY <2>2, IssuedTyped DEF Bound
  <2>4. PICK u \in Users : u = owner[c]
    BY <1>6, <2>3 DEF TypeOK
  <2> DEFINE k == [NoJob EXCEPT !.browser = b, !.cred = c, !.challenge = h,
                                !.count = n, !.user = u]
  <2>5. n \in Nat
    BY EnrollmentAssumption
  <2>6. /\ k \in Job /\ k.browser = b /\ k.token = NoToken /\ k.cred = c
        /\ k.challenge = h /\ k.count = n /\ k.key = "sent"
    BY <2>3, <2>5 DEF NoJob, Job, Keys
  <2>7. PICK j \in Job : /\ j = k /\ j.browser = b /\ j.token = NoToken /\ j.cred = c
                         /\ j.challenge = h /\ j.count = n /\ j.key = "sent"
    BY <2>6
  <2>8. Begin(w, j, z, "count")
    BY <1>6, <2>4, <2>7 DEF AcceptSignIn
  <2> HIDE DEF k
  <2>9. j.challenge \in Holds(session[b]) \ Holds(z)
    BY <1>1, <1>3, <2>2, <2>7 DEF Holds
  <2>10. UNCHANGED <<tables, session, uses, by>>
        /\ \A i \in 1..Len(issued) : i \in 1..Len(issued)' /\ issued'[i] = issued[i]
    BY <1>4
  <2>11. j.token \notin Tokens /\ CounterOK(count[j.cred], j.count)
    BY <1>6, <2>7, EnrollmentAssumption
  <2> QED BY <1>1, <1>3, <2>7, <2>8, <2>9, <2>10, <2>11, BeginSeparate
<1> QED BY <1>1, <1>2, <1>5, <1>6 DEF FinishSignIn

\* The challenges of a session were issued to its browser.
LEMMA FairHolds ==
    ASSUME NEW b, NEW s, Fair(b, s), NEW h \in Holds(s)
    PROVE  h \in 1..Len(issued) /\ issued[h].browser = b
  BY DEF Fair, Holds, Issued

\* A response is accepted: its challenge is spent.
LEMMA AnswerOnce ==
    ASSUME Bound, Apart, Once, NEW w \in Workers, pc[w] \in {"register", "count"},
           uses' = Used(job[w].challenge, job[w].cred), pc'[w] \in {"burn", "login"},
           \A x \in Workers \ {w} : pc'[x] = pc[x],
           UNCHANGED <<job, copy, issued, session, contended>>
    PROVE  Once'
<1>1. TypeOK /\ Task(w)
  BY DEF Bound
<1>2. PICK h, b : h = job[w].challenge /\ b = job[w].browser
  OBVIOUS
<1>3. /\ b \in Browsers /\ h \in 1..Len(issued) /\ issued[h].browser = b /\ h \in Challenges
      /\ job[w].cred \in Creds
  <2>1. \E kind : Issued(h, b, kind)
    BY <1>1, <1>2 DEF Task
  <2> QED BY <1>1, <1>2, <2>1, IssuedTyped DEF Task, Issued, Bound
<1>4. Spent' = Spent \cup {h}
  BY <1>1, <1>2, <1>3 DEF Spent, Used, TypeOK
<1>5. /\ \A i \in Challenges \ {h} : uses'[i] = uses[i]
      /\ uses'[h].twice = (h \in Spent)
  BY <1>1, <1>2, <1>3 DEF Spent, Used, TypeOK
<1>6. b \notin contended => h \notin Spent \cup Holds(copy[w])
  BY <1>1, <1>2, <1>3 DEF Once, Clean
<1>7. /\ Spent' \subseteq 1..Len(issued')
      /\ \A i \in Challenges : uses'[i].twice => i \in Spent'
  BY <1>3, <1>4, <1>5 DEF Once
<1>8. ChallengeUsedOnce'
  <2> SUFFICES ASSUME NEW i \in 1..Len(issued), issued[i].browser \notin contended
               PROVE  ~uses'[i].twice
    BY DEF ChallengeUsedOnce
  <2>1. i \in Challenges
    BY EnrollmentAssumption, <1>1 DEF Bound, TypeOK, Challenges
  <2> QED BY <1>3, <1>5, <1>6, <2>1 DEF Once, ChallengeUsedOnce
<1>9. ASSUME NEW x \in Workers, pc'[x] # "idle", job'[x].browser \notin contended'
      PROVE  Clean(x)'
  <2>1. CASE x = w
    BY <1>1, <1>2, <1>4, <1>6, <1>9, <2>1 DEF Once, Clean, Holds
  <2>2. CASE x # w
    <3>1. job[x].browser # b /\ Clean(x) /\ Task(x) /\ pc[x] # "idle"
      BY <1>2, <1>3, <1>9, <2>2, Marked, EnrollmentAssumption DEF Bound, Once
    <3>2. Fair(job[x].browser, copy[x])
      BY <3>1 DEF Task
    <3>3. h \notin Holds(copy[x])
      BY <1>3, <3>1, <3>2, FairHolds
    <3>4. pc[x] \in {"register", "count"} => job[x].challenge # h
      BY <1>3, <3>1 DEF Task, Issued
    <3> QED BY <1>4, <2>2, <3>1, <3>3, <3>4 DEF Clean, Holds
  <2> QED BY <2>1, <2>2
<1>10. ASSUME NEW a \in Browsers \ contended' PROVE Fresh(a)'
  <2>1. CASE a = b
    BY <1>2, <2>1 DEF Fresh
  <2>2. CASE a # b
    <3>1. h \notin Holds(session[a])
      BY <1>3, <2>2, FairHolds DEF Bound
    <3>2. \/ Holds(session[a]) \cap Spent = {}
          \/ \E x \in Workers : job[x].browser = a /\ pc[x] \in {"burn", "login", "respond"}
      BY <1>10 DEF Once, Fresh
    <3>3. \/ Holds(session[a]) \cap Spent' = {}
          \/ \E x \in Workers : job[x].browser = a /\ pc'[x] \in {"burn", "login", "respond"}
      BY <1>2, <1>4, <2>2, <3>1, <3>2
    <3> QED BY <3>3 DEF Fresh, Holds
  <2> QED BY <2>1, <2>2
<1> QED BY <1>7, <1>8, <1>9, <1>10 DEF Once

\* Nobody has the link yet that is made.
LEMMA IssueSeparate ==
    ASSUME Bound, Separate, NEW t \in Tokens, NEW u \in Users, Issue(t, u)
    PROVE  Separate'
<1> USE DEF Issue, history
<1>1. TypeOK /\ Apart /\ OneShot /\ Once /\ Counters
  BY DEF Bound, Separate
<1>2. Apart' /\ Counters' /\ Once'
  BY <1>1, ApartStep, CountersStep, OnceStep
<1>3. /\ token'[t].user # NoUser /\ \A v \in Tokens \ {t} : token'[v] = token[v]
      /\ ~token'[t].used
  BY <1>1, EnrollmentAssumption DEF TypeOK
<1>4. OneShot'
  BY <1>1, <1>3 DEF OneShot
<1> QED BY <1>2, <1>4 DEF Separate

\* A link whose requests do not overlap has no credential when one is created, and
\* its challenge has not been answered.
LEMMA CreateCredentialSeparate ==
    ASSUME Bound, Separate, NEW w \in Workers, CreateCredential(w)
    PROVE  Separate'
<1>1. TypeOK /\ Apart /\ OneShot /\ Once /\ Counters /\ Task(w) /\ pc[w] = "register"
  BY DEF Bound, Separate, CreateCredential
<1>2. PICK j \in Job : j = job[w]
  BY <1>1 DEF TypeOK
<1>3. /\ j.token \in Tokens /\ j.cred \in Creds /\ j.user \in Users
  BY <1>1, <1>2 DEF Task
<1>4. UNCHANGED <<token, session, clock, issued, contended>>
  BY DEF CreateCredential
<1>5. CASE /\ owner[j.cred] = NoUser
           /\ \E n \in 0..MaxCount : count' = [count EXCEPT ![j.cred] = n]
           /\ by' = [by EXCEPT ![j.cred] = j.token]
           /\ uses' = Used(j.challenge, j.cred)
           /\ Goto(w, "burn")
  <2>1. /\ pc'[w] = "burn" /\ job' = job /\ copy' = copy
        /\ \A x \in Workers \ {w} : pc'[x] = pc[x]
    BY <1>1, <1>5, GotoFacts DEF Labels, Same
  <2>2. Once'
    BY <1>1, <1>2, <1>4, <1>5, <2>1, AnswerOnce
  <2>3. Apart'
    BY <1>1, <1>4, <2>1, ApartStep
  <2>4. \A x \in Workers : pc'[x] = "count" =>
            /\ x # w /\ pc[x] = "count"
            /\ job[x].cred = j.cred => job[x].cred \in contended
            /\ job[x].cred \in Creds
    BY <1>1, <1>2, <1>3, <2>1, Marked DEF Bound, Task
  <2>5. Counters'
    BY <1>1, <1>4, <1>5, <2>1, <2>4 DEF Counters, CounterOK, TypeOK
  <2>6. by[j.cred] = NoToken /\ by'[j.cred] = j.token
        /\ \A c \in Creds \ {j.cred} : by'[c] = by[c]
    BY <1>1, <1>3, <1>5 DEF TypeOK, Bound
  <2>7. \A t \in Tokens :
          (\E c \in Creds : by'[c] = t) \/ (\E x \in Workers : job[x].token = t)
              => token[t].user # NoUser
    BY <1>1, <1>2, <2>6 DEF OneShot
  <2>8. \A t \in Tokens \ contended, c \in Creds :
          by'[c] = t => token[t].used \/ \E x \in Workers : pc'[x] = "burn" /\ job[x].token = t
    <3> SUFFICES ASSUME NEW t \in Tokens \ contended, NEW c \in Creds, by'[c] = t
                 PROVE  token[t].used \/ \E x \in Workers : pc'[x] = "burn" /\ job[x].token = t
      OBVIOUS
    <3>1. CASE c = j.cred
      BY <1>2, <2>1, <2>6, <3>1
    <3>2. CASE c # j.cred
      BY <1>1, <2>1, <2>6, <3>2 DEF OneShot
    <3> QED BY <3>1, <3>2
  <2>9. \A x \in Workers :
          pc'[x] = "register" /\ job[x].token \notin contended => ~token[job[x].token].used
    BY <1>1, <2>1 DEF OneShot
  <2>10. ASSUME NEW d \in Creds, by[d] = j.token PROVE j.token \in contended
    <3>1. CASE token[j.token].used
      BY <1>1, <1>2, <3>1 DEF OneShot
    <3>2. ASSUME NEW x \in Workers, pc[x] = "burn", job[x].token = j.token
          PROVE  j.token \in contended
      BY <1>1, <1>2, <1>3, <3>2, Marked
    <3> QED BY <1>1, <1>3, <2>10, <3>1, <3>2 DEF OneShot
  <2>11. \A c, d \in Creds : by'[c] = by'[d] /\ by'[c] \in Tokens \ contended => c = d
    <3>1. \A c, d \in Creds \ {j.cred} :
             by'[c] = by'[d] /\ by'[c] \in Tokens \ contended => c = d
      BY <1>1, <2>6 DEF OneShot
    <3>2. \A d \in Creds \ {j.cred} : by'[d] = by'[j.cred] => by'[d] \in contended
      BY <2>6, <2>10
    <3> QED BY <3>1, <3>2
  <2>12. OneShot'
    BY <1>4, <2>1, <2>7, <2>8, <2>9, <2>11 DEF OneShot
  <2> QED BY <2>2, <2>3, <2>5, <2>12 DEF Separate
<1>6. CASE Finish(w) /\ UNCHANGED <<owner, count, by, uses>>
  <2>1. /\ job'[w] = NoJob /\ pc'[w] = "idle"
        /\ \A x \in Workers \ {w} : job'[x] = job[x] /\ pc'[x] = pc[x] /\ copy'[x] = copy[x]
    BY <1>1, <1>6 DEF Finish, TypeOK
  <2>2. Things(NoJob) = {} /\ NoJob.token = NoToken /\ NoToken \notin Tokens
    BY EnrollmentAssumption DEF Things, NoJob
  <2>3. Apart'
    BY <1>1, <1>4, <2>1, <2>2, ApartStep
  <2>4. OneShot'
    BY <1>1, <1>4, <1>6, <2>1, <2>2, OneShotStep
  <2>5. Counters'
    BY <1>1, <1>4, <1>6, <2>1, CountersStep
  <2>6. Once'
    BY <1>1, <1>4, <1>6, <2>1, OnceStep
  <2> QED BY <2>3, <2>4, <2>5, <2>6 DEF Separate
<1> QED BY <1>2, <1>5, <1>6 DEF CreateCredential

\* Nobody else is about to register with the link that is burned.
LEMMA MarkUsedSeparate ==
    ASSUME Bound, Separate, NEW w \in Workers, MarkUsed(w)
    PROVE  Separate'
<1> USE DEF MarkUsed, history
<1>1. TypeOK /\ Apart /\ OneShot /\ Once /\ Counters /\ Task(w) /\ pc[w] = "burn"
  BY DEF Bound, Separate
<1>2. PICK t \in Tokens : t = job[w].token
  BY <1>1 DEF Task
<1>3. /\ pc'[w] = "respond" /\ job' = job /\ copy' = copy
      /\ \A x \in Workers \ {w} : pc'[x] = pc[x]
  BY <1>1, GotoFacts DEF Labels, Same
<1>4. /\ token'[t].used /\ token'[t].user = token[t].user
      /\ \A v \in Tokens \ {t} : token'[v] = token[v]
  BY <1>1, <1>2 DEF TypeOK, Token
<1>5. Apart' /\ Counters' /\ Once'
  BY <1>1, <1>3, ApartStep, CountersStep, OnceStep
<1>6. \A v \in Tokens :
         (\E c \in Creds : by[c] = v) \/ (\E x \in Workers : job[x].token = v)
             => token'[v].user # NoUser
  BY <1>1, <1>4 DEF OneShot
<1>7. \A v \in Tokens \ contended, c \in Creds :
         by[c] = v => token'[v].used \/ \E x \in Workers : pc'[x] = "burn" /\ job[x].token = v
  BY <1>1, <1>2, <1>3, <1>4 DEF OneShot
<1>8. ASSUME NEW x \in Workers, pc'[x] = "register", job[x].token \notin contended
      PROVE  ~token'[job[x].token].used
  <2>1. x # w /\ pc[x] = "register" /\ job[x].token \in Tokens
    BY <1>3, <1>8 DEF Bound, Task
  <2>2. job[x].token # t
    BY <1>1, <1>2, <1>8, <2>1, Marked
  <2> QED BY <1>1, <1>4, <1>8, <2>1, <2>2 DEF OneShot
<1>9. OneShot'
  BY <1>1, <1>3, <1>6, <1>7, <1>8 DEF OneShot
<1> QED BY <1>5, <1>9 DEF Separate

\* Nobody else is about to save a counter of this credential.
LEMMA SaveCountSeparate ==
    ASSUME Bound, Separate, NEW w \in Workers, SaveCount(w)
    PROVE  Separate'
<1> USE DEF SaveCount
<1>1. TypeOK /\ Apart /\ OneShot /\ Once /\ Counters /\ Task(w) /\ pc[w] = "count"
  BY DEF Bound, Separate
<1>2. PICK c \in Creds : c = job[w].cred
  BY <1>1 DEF Task
<1>3. /\ pc'[w] = "login" /\ job' = job /\ copy' = copy
      /\ \A x \in Workers \ {w} : pc'[x] = pc[x]
  BY <1>1, GotoFacts DEF Labels, Same
<1>4. Apart'
  BY <1>1, <1>3, ApartStep
<1>5. OneShot'
  BY <1>1, <1>3, OneShotStep DEF OneShot
<1>6. Once'
  BY <1>1, <1>3, AnswerOnce
<1>7. \A x \in Workers : pc'[x] = "count" =>
          /\ x # w /\ pc[x] = "count"
          /\ job[x].cred = c => job[x].cred \in contended
          /\ job[x].cred \in Creds
  BY <1>1, <1>2, <1>3, Marked DEF Bound, Task
<1>8. Counters'
  BY <1>1, <1>2, <1>3, <1>7 DEF Counters, CounterOK, TypeOK
<1> QED BY <1>4, <1>5, <1>6, <1>8 DEF Separate

\* The old key is deleted and with it the challenges under it.
LEMMA LoginSeparate ==
    ASSUME Bound, Separate, NEW w \in Workers, Login(w)
    PROVE  Separate'
<1>1. TypeOK /\ Apart /\ OneShot /\ Once /\ Counters /\ Task(w) /\ pc[w] = "login"
  BY DEF Bound, Separate, Login
<1>2. PICK b \in Browsers, j \in Job : b = job[w].browser /\ j = job[w]
  BY <1>1 DEF Task, TypeOK
<1>3. UNCHANGED <<tables, history>> /\ pc' = [pc EXCEPT ![w] = "respond"]
  BY DEF Login
<1>4. PICK s \in Session : s = IF copy[w].user \in {NoUser, j.user} THEN copy[w] ELSE NoSession
  BY <1>1 DEF TypeOK, NoSession, Session, None
<1>5. /\ Holds(copy'[w]) \subseteq Holds(copy[w]) /\ pc'[w] = "respond"
      /\ \A x \in Workers \ {w} : copy'[x] = copy[x] /\ pc'[x] = pc[x]
  <2>1. copy' = [copy EXCEPT ![w] = [s EXCEPT !.user = j.user]]
    <3>1. CASE copy[w].user = j.user /\ UNCHANGED <<session, job, copy>>
      <4>1. [copy[w] EXCEPT !.user = j.user] = copy[w]
        BY <1>1, <3>1 DEF TypeOK, Session
      <4> QED BY <1>1, <1>4, <3>1, <4>1 DEF TypeOK
    <3>2. CASE copy[w].user # j.user
      BY <1>2, <1>4, <3>2 DEF Login
    <3> QED BY <1>2, <3>1, <3>2 DEF Login
  <2>2. copy'[w].reg = s.reg /\ copy'[w].auth = s.auth
    BY <1>1, <2>1 DEF TypeOK, Session
  <2>3. Holds(s) \subseteq Holds(copy[w])
    BY <1>4 DEF Holds, NoSession
  <2>4. Holds(copy'[w]) = Holds(s)
    BY <2>2 DEF Holds
  <2> QED BY <1>1, <1>3, <2>1, <2>3, <2>4 DEF TypeOK
<1>6. /\ \A x \in Workers : /\ Things(job'[x]) = Things(job[x])
                            /\ job'[x].browser = job[x].browser
                            /\ job'[x].token = job[x].token /\ job'[x].cred = job[x].cred
                            /\ job'[x].challenge = job[x].challenge
                            /\ job'[x].count = job[x].count
      /\ job' = job \/ job'[w].key # "deleted"
      /\ \A x \in Workers \ {w} : pc[x] # "idle" /\ job'[x].key = "deleted" =>
            job[x].key = "deleted" \/ (job[x].browser = b /\ session'[b] = NoSession)
      /\ \/ session' = session
         \/ session' = [session EXCEPT ![b] = NoSession] /\ job'[w].key # "deleted"
  <2>1. /\ \A x \in Workers : job[x] \in Job
        /\ "deleted" \in Keys /\ "other" \in Keys
    BY <1>1 DEF TypeOK, Keys
  <2>2. CASE UNCHANGED <<session, job>>
    BY <1>1, <2>2
  <2>3. ASSUME NEW f \in {job, Rekey(b, w, "deleted")}, job' = [f EXCEPT ![w].key = "other"],
               IF f = job THEN session' \in {session, [session EXCEPT ![b] = NoSession]}
               ELSE session' = [session EXCEPT ![b] = NoSession]
        PROVE  /\ \A x \in Workers : /\ Things(job'[x]) = Things(job[x])
                                     /\ job'[x].browser = job[x].browser
                                     /\ job'[x].token = job[x].token /\ job'[x].cred = job[x].cred
                                     /\ job'[x].challenge = job[x].challenge
                                     /\ job'[x].count = job[x].count
               /\ job'[w].key = "other"
               /\ \A x \in Workers \ {w} : job'[x].key = "deleted" =>
                     job[x].key = "deleted" \/ (job[x].browser = b /\ session'[b] = NoSession)
    <3>1. /\ f \in [Workers -> Job] /\ f[w] = job[w]
          /\ \A x \in Workers :
                \/ f[x] = job[x]
                \/ job[x].browser = b /\ f # job /\ f[x] = [job[x] EXCEPT !.key = "deleted"]
      <4>1. CASE f = job
        BY <1>1, <4>1 DEF TypeOK
      <4>2. CASE f # job
        BY <1>1, <2>1, <2>3, <4>2, RekeyFacts
      <4> QED BY <4>1, <4>2
    <3>2. job'[w] = [job[w] EXCEPT !.key = "other"] /\ \A x \in Workers \ {w} : job'[x] = f[x]
      BY <2>3, <3>1
    <3>3. /\ job'[w].browser = job[w].browser /\ job'[w].challenge = job[w].challenge
          /\ job'[w].token = job[w].token /\ job'[w].cred = job[w].cred
          /\ job'[w].count = job[w].count /\ job'[w].key = "other"
      BY <2>1, <3>2 DEF Job
    <3>4. \A x \in Workers \ {w} :
             /\ job'[x].browser = job[x].browser /\ job'[x].challenge = job[x].challenge
             /\ job'[x].token = job[x].token /\ job'[x].cred = job[x].cred
             /\ job'[x].count = job[x].count
      BY <2>1, <3>1, <3>2 DEF Job
    <3>5. f # job => session'[b] = NoSession
      BY <1>1, <1>2, <2>3 DEF TypeOK
    <3>6. \A x \in Workers : /\ job'[x].browser = job[x].browser
                             /\ job'[x].token = job[x].token /\ job'[x].cred = job[x].cred
      BY <3>3, <3>4
    <3> QED BY <3>1, <3>2, <3>3, <3>4, <3>5, <3>6 DEF Things
  <2>4. \/ UNCHANGED <<session, job>>
        \/ \E f \in {job, Rekey(b, w, "deleted")} :
              /\ job' = [f EXCEPT ![w].key = "other"]
              /\ IF f = job THEN session' \in {session, [session EXCEPT ![b] = NoSession]}
                 ELSE session' = [session EXCEPT ![b] = NoSession]
              /\ session' = session \/ session' = [session EXCEPT ![b] = NoSession]
    BY <1>2 DEF Login
  <2> QED BY <2>2, <2>3, <2>4
<1>7. Apart'
  BY <1>1, <1>3, <1>6, ApartStep DEF history
<1>8. OneShot'
  BY <1>1, <1>3, <1>5, <1>6, OneShotStep DEF history, tables
<1>9. Counters'
  BY <1>1, <1>3, <1>5, <1>6, CountersStep DEF history, tables
<1>10. \A x \in Workers :
          pc'[x] # "idle" =>
             /\ pc[x] # "idle" /\ job'[x].browser = job[x].browser
             /\ Holds(copy'[x]) \subseteq Holds(copy[x])
             /\ pc'[x] \in {"register", "count"} =>
                   pc'[x] = pc[x] /\ job'[x].challenge = job[x].challenge
             /\ job'[x].key = "deleted" =>
                   \/ job[x].browser \in contended'
                   \/ session'[job[x].browser] = NoSession
                   \/ job[x].key = "deleted" /\ session'[job[x].browser] = session[job[x].browser]
  <2> SUFFICES ASSUME NEW x \in Workers, pc'[x] # "idle"
               PROVE  /\ pc[x] # "idle"
                      /\ Holds(copy'[x]) \subseteq Holds(copy[x])
                      /\ pc'[x] \in {"register", "count"} => pc'[x] = pc[x]
                      /\ job'[x].key = "deleted" =>
                            \/ session'[job[x].browser] = NoSession
                            \/ job[x].key = "deleted" /\ session'[job[x].browser] = session[job[x].browser]
    BY <1>6
  <2>1. CASE x = w
    BY <1>1, <1>5, <1>6, <2>1
  <2>2. CASE x # w
    <3>1. pc[x] # "idle" /\ copy'[x] = copy[x] /\ pc'[x] = pc[x] /\ job[x].browser \in Browsers
      BY <1>5, <2>2 DEF Bound, Task
    <3>2. session'[job[x].browser] \in {session[job[x].browser], NoSession}
      BY <1>1, <1>6, <3>1 DEF TypeOK
    <3> QED BY <1>6, <2>2, <3>1, <3>2
  <2> QED BY <2>1, <2>2
<1>11. \A a \in Browsers :
          \/ Holds(session'[a]) \cap Spent = {}
          \/ session'[a] = session[a]
  BY <1>1, <1>6 DEF TypeOK, Holds, NoSession
<1>12. \A a \in Browsers, x \in Workers :
          job[x].browser = a /\ pc[x] \in {"burn", "login", "respond"} =>
             job'[x].browser = a /\ pc'[x] \in {"burn", "login", "respond"}
  BY <1>5, <1>6
<1>13. Once'
  BY <1>1, <1>3, <1>10, <1>11, <1>12, OnceStep DEF history
<1> QED BY <1>7, <1>8, <1>9, <1>13 DEF Separate

\* Requests of a flushed session know that it is gone.
LEMMA LogoutSeparate ==
    ASSUME Bound, Separate, NEW b \in Browsers, Logout(b)
    PROVE  Separate'
<1> USE DEF Logout, tables, history
<1>1. TypeOK /\ Apart /\ OneShot /\ Once /\ Counters
  BY DEF Bound, Separate
<1>2. \A x \in Workers : job[x].browser = b => pc[x] # "idle"
  BY EnrollmentAssumption DEF Bound, Task, NoJob
<1>3. \A x \in Workers : Same(x)
  BY <1>1, <1>2 DEF TypeOK, Same, Rekeyed, Keys
<1>4. \A x \in Workers :
          /\ Things(job'[x]) = Things(job[x])
          /\ job'[x].browser = job[x].browser /\ job'[x].token = job[x].token
          /\ job'[x].cred = job[x].cred /\ job'[x].challenge = job[x].challenge
          /\ job'[x].count = job[x].count
  BY <1>1, <1>3, SameFacts
<1>5. Apart' /\ OneShot' /\ Counters'
  BY <1>1, <1>4, ApartStep, OneShotStep, CountersStep
<1>6. \A x \in Workers : job'[x].key = "deleted" =>
          \/ session'[job[x].browser] = NoSession
          \/ job[x].key = "deleted" /\ session'[job[x].browser] = session[job[x].browser]
  BY <1>1, <1>4 DEF TypeOK
<1>7. \A a \in Browsers : Holds(session'[a]) \cap Spent = {} \/ session'[a] = session[a]
  BY <1>1 DEF TypeOK, Holds, NoSession
<1>8. Once'
  BY <1>1, <1>4, <1>6, <1>7, OnceStep
<1> QED BY <1>5, <1>8 DEF Separate

\* A request that is over is about nothing.
LEMMA FinishStep ==
    ASSUME Bound, Separate, NEW w \in Workers, Finish(w), contended \subseteq contended',
           UNCHANGED <<by, token, count>>,
           pc[w] = "burn" => job[w].token \in contended'
    PROVE  /\ Apart' /\ OneShot' /\ Counters' /\ pc'[w] = "idle"
           /\ \A x \in Workers \ {w} :
                 job'[x] = job[x] /\ pc'[x] = pc[x] /\ copy'[x] = copy[x]
<1>1. TypeOK /\ Apart /\ OneShot /\ Counters
  BY DEF Bound, Separate
<1>2. /\ job'[w] = NoJob /\ pc'[w] = "idle"
      /\ \A x \in Workers \ {w} : job'[x] = job[x] /\ pc'[x] = pc[x] /\ copy'[x] = copy[x]
  BY <1>1 DEF Finish, TypeOK
<1>3. Things(NoJob) = {} /\ NoJob.token = NoToken /\ NoToken \notin Tokens
  BY EnrollmentAssumption DEF Things, NoJob
<1>4. Apart'
  BY <1>1, <1>2, <1>3, ApartStep
<1>5. OneShot'
  BY <1>1, <1>2, <1>3, OneShotStep
<1>6. Counters'
  BY <1>1, <1>2, CountersStep
<1> QED BY <1>2, <1>4, <1>5, <1>6

\* The copy that is saved has no answered challenge.
LEMMA RespondSeparate ==
    ASSUME Bound, Separate, NEW w \in Workers, Respond(w)
    PROVE  Separate'
<1> USE DEF Respond, tables, history
<1>1. TypeOK /\ Apart /\ Once /\ Task(w) /\ pc[w] = "respond"
  BY DEF Bound, Separate
<1>2. /\ Apart' /\ OneShot' /\ Counters' /\ pc'[w] = "idle"
      /\ \A x \in Workers \ {w} :
            /\ job'[x].browser = job[x].browser /\ job'[x].challenge = job[x].challenge
            /\ pc'[x] = pc[x] /\ copy'[x] = copy[x]
      /\ \A x \in Workers \ {w} : job[x].browser # job[w].browser => job'[x] = job[x]
  <2>1. /\ job'[w] = NoJob /\ pc'[w] = "idle" /\ \A x \in Workers \ {w} : Same(x)
        /\ \A x \in Workers \ {w} : job[x].browser # job[w].browser => job'[x] = job[x]
    BY RespondFacts
  <2>2. \A x \in Workers \ {w} :
           /\ Things(job'[x]) = Things(job[x])
           /\ pc'[x] = pc[x] /\ copy'[x] = copy[x]
           /\ job'[x].browser = job[x].browser /\ job'[x].token = job[x].token
           /\ job'[x].cred = job[x].cred /\ job'[x].challenge = job[x].challenge
           /\ job'[x].count = job[x].count
    BY <1>1, <2>1, SameFacts
  <2>3. Things(NoJob) = {} /\ NoJob.token = NoToken /\ NoToken \notin Tokens
    BY EnrollmentAssumption DEF Things, NoJob
  <2>4. OneShot /\ Counters
    BY DEF Separate
  <2>5. Apart'
    BY <1>1, <2>1, <2>2, <2>3, ApartStep
  <2>6. OneShot'
    BY <1>1, <2>1, <2>2, <2>3, <2>4, OneShotStep
  <2>7. Counters'
    BY <1>1, <2>1, <2>2, <2>4, CountersStep
  <2> QED BY <2>1, <2>2, <2>5, <2>6, <2>7
<1>3. PICK b \in Browsers : b = job[w].browser
  BY <1>1 DEF Task
<1>4. \A x \in Workers \ {w} : job[x].browser = b => b \in contended
  BY <1>1, <1>3, Marked, EnrollmentAssumption
<1>5. \A a \in Browsers \ {b} : session'[a] = session[a]
  BY <1>1, <1>3 DEF TypeOK
<1>6. b \in contended \/ Holds(session'[b]) \cap Spent = {}
  <2> SUFFICES ASSUME b \notin contended PROVE Holds(session'[b]) \cap Spent = {}
    OBVIOUS
  <2>1. Clean(w)
    BY <1>1, <1>3 DEF Once
  <2>2. CASE job[w].key = "deleted"
    BY <1>3, <2>1, <2>2 DEF Clean, Holds, NoSession
  <2>3. CASE job[w].key # "deleted"
    <3>1. session'[b] = copy[w]
      BY <1>1, <1>3, <2>3 DEF TypeOK
    <3> QED BY <2>1, <3>1 DEF Clean
  <2> QED BY <2>2, <2>3
<1>7. \A x \in Workers : pc'[x] # "idle" => x # w /\ job[x].browser \in Browsers
  BY <1>2 DEF Bound, Task
<1>8. Once'
  BY <1>1, <1>2, <1>3, <1>4, <1>5, <1>6, <1>7, OnceStep
<1> QED BY <1>2, <1>8 DEF Separate

\* What a killed request was about is marked.
LEMMA CrashSeparate ==
    ASSUME Bound, Separate, NEW w \in Workers, Crash(w)
    PROVE  Separate'
<1> USE DEF Crash, tables
<1>1. TypeOK /\ Apart /\ Once /\ Task(w)
  BY DEF Bound, Separate
<1>2. /\ job[w].browser \in contended'
      /\ pc[w] = "burn" => job[w].token \in contended'
  BY <1>1, EnrollmentAssumption DEF Task, Things
<1>3. /\ Apart' /\ OneShot' /\ Counters' /\ pc'[w] = "idle"
      /\ \A x \in Workers \ {w} :
            job'[x] = job[x] /\ pc'[x] = pc[x] /\ copy'[x] = copy[x]
  BY <1>2, FinishStep
<1>4. Once'
  BY <1>1, <1>2, <1>3, OnceStep
<1> QED BY <1>3, <1>4 DEF Separate

\* Nothing happens but time.
LEMMA StillSeparate ==
    ASSUME Bound, Separate, Tick \/ UNCHANGED vars
    PROVE  Separate'
<1> USE DEF Tick, history, vars
<1>1. Apart /\ OneShot /\ Once /\ Counters
  BY DEF Separate
<1>2. Apart' /\ OneShot' /\ Counters'
  BY <1>1, ApartStep, OneShotStep, CountersStep
<1>3. Once'
  BY <1>1, OnceStep
<1> QED BY <1>2, <1>3 DEF Separate

\* Before any request, no challenge is answered.
LEMMA InitSeparate == Init => Separate
<1> SUFFICES ASSUME Init PROVE Separate
  OBVIOUS
<1> USE EnrollmentAssumption DEF Init
<1>1. Apart
  BY DEF Apart, Things, NoJob
<1>2. OneShot
  BY DEF OneShot, NoJob
<1>3. Spent = {}
  BY DEF Spent
<1>4. Once
  BY <1>3 DEF Once, ChallengeUsedOnce, Fresh
<1>5. Counters
  BY DEF Counters
<1> QED BY <1>1, <1>2, <1>4, <1>5 DEF Separate

\* Every step keeps part two.
LEMMA NextSeparate == Bound /\ Bound' /\ Separate /\ [Next]_vars => Separate'
<1> SUFFICES ASSUME Bound, Bound', Separate, [Next]_vars PROVE Separate'
  OBVIOUS
<1>1. CASE Tick \/ UNCHANGED vars
  BY <1>1, StillSeparate
<1>2. ASSUME NEW t \in Tokens, NEW u \in Users, Issue(t, u) PROVE Separate'
  BY <1>2, IssueSeparate
<1>3. ASSUME NEW w \in Workers, NEW b \in Browsers,
             \/ StartSignIn(w, b) \/ Visit(w, b)
             \/ \E t \in Tokens : StartRegistration(w, b, t)
             \/ \E c \in Creds, h \in 1..Len(issued) :
                   \/ \E t \in Tokens : FinishRegistration(w, b, t, c, h)
                   \/ \E n \in 0..MaxCount : FinishSignIn(w, b, c, h, n)
      PROVE  Separate'
  BY <1>3, StartSignInSeparate, VisitSeparate, StartRegistrationSeparate,
     FinishRegistrationSeparate, FinishSignInSeparate
<1>4. ASSUME NEW w \in Workers,
             \/ CreateCredential(w) \/ MarkUsed(w) \/ SaveCount(w) \/ Login(w)
             \/ Respond(w) \/ Crash(w)
      PROVE  Separate'
  BY <1>4, CreateCredentialSeparate, MarkUsedSeparate, SaveCountSeparate,
     LoginSeparate, RespondSeparate, CrashSeparate
<1>5. ASSUME NEW b \in Browsers, Logout(b) PROVE Separate'
  BY <1>5, LogoutSeparate
<1> QED BY <1>1, <1>2, <1>3, <1>4, <1>5 DEF Next

\* The inductive invariant, part two: requests about the same thing have marked it,
\* and for what is not marked, links, challenges and counters are as the one
\* request about them has read them.
THEOREM SeparateInvariant == Spec => []Separate
<1>1. Spec => []Bound
  BY Invariant
<1> QED BY <1>1, InitSeparate, NextSeparate, PTL DEF Spec

\* The session pops a challenge before verification: unless requests of its browser
\* overlap or are killed, a challenge is good for one credential and one ceremony.
THEOREM OneUse == Spec => []ChallengeUsedOnce
<1>1. Separate => ChallengeUsedOnce
  BY DEF Separate, Once
<1> QED BY <1>1, SeparateInvariant, PTL

\* A link whose requests neither overlap nor are killed registers one credential.
THEOREM OneCredential == Spec => []OneShotUnlessContended
<1>1. Separate => OneShotUnlessContended
  <2> SUFFICES ASSUME Separate, NEW t \in Tokens \ contended
               PROVE  Cardinality(Registered(t)) <= 1
    BY DEF OneShotUnlessContended
  <2>1. \A c, d \in Registered(t) : c = d
    BY DEF Separate, OneShot, Registered
  <2>2. CASE Registered(t) = {}
    <3>1. Cardinality(Registered(t)) = 0
      BY <2>2, FS_EmptySet
    <3> QED BY <3>1
  <2>3. ASSUME NEW c \in Registered(t) PROVE Cardinality(Registered(t)) <= 1
    <3>1. Registered(t) = {c}
      BY <2>1, <2>3
    <3>2. Cardinality({c}) = 1
      BY FS_Singleton
    <3> QED BY <3>1, <3>2
  <2> QED BY <2>2, <2>3
<1> QED BY <1>1, SeparateInvariant, PTL

\* The clone check: unless requests with it overlap or are killed, the counter of a
\* credential never goes back.
THEOREM CounterForward == Spec => CounterNeverBack
<1>1. ASSUME Bound, Separate, [Next]_vars
      PROVE  [\A c \in Creds \ contended' : owner[c] # NoUser => count'[c] >= count[c]]_vars
  <2> SUFFICES ASSUME NEW c \in Creds \ contended', owner[c] # NoUser, ~UNCHANGED vars
               PROVE  count'[c] >= count[c]
    BY DEF vars
  <2>1. count[c] \in Nat
    BY <1>1 DEF Bound, TypeOK
  <2>2. CASE count' = count
    BY <2>1, <2>2
  <2>3. ASSUME NEW w \in Workers, CreateCredential(w) PROVE count'[c] >= count[c]
    BY <1>1, <2>1, <2>3 DEF CreateCredential, Bound, TypeOK
  <2>4. ASSUME NEW w \in Workers, SaveCount(w) PROVE count'[c] >= count[c]
    <3>1. job[w].count \in Nat /\ count' = [count EXCEPT ![job[w].cred] = job[w].count]
          /\ contended' = contended /\ pc[w] = "count"
      BY <1>1, <2>4 DEF SaveCount, Bound, TypeOK, Job
    <3>2. CASE c = job[w].cred
      <4>1. CounterOK(count[c], job[w].count)
        BY <1>1, <3>1, <3>2 DEF Separate, Counters
      <4>2. count'[c] = job[w].count
        BY <1>1, <3>1, <3>2 DEF Bound, TypeOK
      <4> QED BY <2>1, <3>1, <4>1, <4>2 DEF CounterOK
    <3>3. CASE c # job[w].cred
      BY <1>1, <2>1, <3>1, <3>3 DEF Bound, TypeOK
    <3> QED BY <3>2, <3>3
  <2>5. ASSUME NEW w \in Workers, NEW b \in Browsers,
               \/ StartSignIn(w, b) \/ Visit(w, b)
               \/ \E t \in Tokens : StartRegistration(w, b, t)
               \/ \E d \in Creds, h \in 1..Len(issued) :
                     \/ \E t \in Tokens : FinishRegistration(w, b, t, d, h)
                     \/ \E n \in 0..MaxCount : FinishSignIn(w, b, d, h, n)
        PROVE  count' = count
    BY <2>5 DEF StartSignIn, Visit, StartRegistration, FinishRegistration, FinishSignIn, tables
  <2>6. ASSUME NEW w \in Workers, MarkUsed(w) \/ Login(w) \/ Respond(w) \/ Crash(w)
        PROVE  count' = count
    BY <2>6 DEF MarkUsed, Login, Respond, Crash, tables
  <2>7. (\E t \in Tokens, u \in Users : Issue(t, u)) \/ (\E b \in Browsers : Logout(b)) \/ Tick
            => count' = count
    BY DEF Issue, Logout, Tick, tables
  <2> QED BY <1>1, <2>2, <2>3, <2>4, <2>5, <2>6, <2>7 DEF Next, vars
<1> QED BY <1>1, Invariant, SeparateInvariant, PTL DEF Spec, CounterNeverBack
=============================================================================
