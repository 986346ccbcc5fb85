--------------------------- MODULE TwoPersonRule ---------------------------
(***************************************************************************)
(* What the approvals application promises, without saying how            *)
(* (apps/approvals/__init__.py, apps/approvals/models.py): a privileged    *)
(* action asked for by one superadmin takes effect only after a different  *)
(* superadmin has endorsed it.                                             *)
(*                                                                         *)
(* A superadmin here is a user who has held the role at some time: a web   *)
(* request acts with the user row it loaded when it started.               *)
(***************************************************************************)
CONSTANTS
    Users,      \* every e-mail address that may name an account
    Founders,   \* the superadmins present from the start
    Requests,   \* the submissions that may be made, one per approval row
    Email,      \* [Requests -> Users], the account a submission is about
    NoUser      \* no user at all

VARIABLES
    authority,  \* users who have held the superadmin role
    asker,      \* who asked for a submission, NoUser if nobody has
    endorser,   \* who endorsed it last, NoUser if nobody has
    performed   \* submissions whose account was created

ruleVars == <<authority, asker, endorser, performed>>

RuleInit ==
    /\ authority = Founders
    /\ asker = [r \in Requests |-> NoUser]
    /\ endorser = [r \in Requests |-> NoUser]
    /\ performed = {}

\* A superadmin submits a request.
Ask(u, r) ==
    /\ u \in authority
    /\ asker[r] = NoUser
    /\ asker' = [asker EXCEPT ![r] = u]
    /\ UNCHANGED <<authority, endorser, performed>>

\* Another superadmin endorses it; a later endorsement replaces the name.
Endorse(u, r) ==
    /\ u \in authority
    /\ asker[r] \notin {NoUser, u}
    /\ endorser' = [endorser EXCEPT ![r] = u]
    /\ UNCHANGED <<authority, asker, performed>>

\* An endorsed request takes effect: its account becomes a superadmin.
Perform(r) ==
    /\ endorser[r] # NoUser
    /\ performed' = performed \cup {r}
    /\ authority' = authority \cup {Email[r]}
    /\ UNCHANGED <<asker, endorser>>

\* The paths outside the rule: the bootstrap command on the server and the
\* role field of the admin site.
Appoint(u) ==
    /\ authority' = authority \cup {u}
    /\ UNCHANGED <<asker, endorser, performed>>

RuleNext ==
    \/ \E u \in Users, r \in Requests : Ask(u, r) \/ Endorse(u, r)
    \/ \E r \in Requests : Perform(r)
    \/ \E u \in Users : Appoint(u)

RuleSpec == RuleInit /\ [][RuleNext]_ruleVars
=============================================================================
