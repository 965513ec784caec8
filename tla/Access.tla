------------------------------- MODULE Access -------------------------------
(***************************************************************************)
(* Accounts, sessions, one-time tokens, second factors and GitHub          *)
(* identities: api-gateway routes/auth.ts over middleware/session-store.ts *)
(* and middleware/mfa-store.ts, on the tables users, user_sessions,        *)
(* auth_tokens, mfa_credentials, auth_providers, freelancer_profiles.      *)
(*                                                                         *)
(* A request is a process; each of its statements is a step, since none of *)
(* these routes holds a lock from its first read to its last write. A      *)
(* request that is refused changes nothing and simply ends. A user stands  *)
(* for the canonical email address, a password for its hash.               *)
(***************************************************************************)
EXTENDS Integers, Sequences, FiniteSets

CONSTANTS
  Users,          \* addresses, of which some have an account
  Identities,     \* GitHub identities
  EmailOf,        \* the address GitHub gives for each
  Passwords, Unusable,   \* 'unusable-no-login' verifies against nothing
  Requests,       \* requests served at the same time
  None,
  MaxRequests, MaxFaults   \* bounds

ASSUME AccessAssumption ==
  /\ EmailOf \in [Identities -> Users]
  /\ Unusable \notin Passwords
  /\ None \notin Users \cup [pw : Passwords \cup {Unusable}, mfa : BOOLEAN]
  /\ {MaxRequests, MaxFaults} \subseteq Nat

VARIABLES
  account,     \* users: password and second-factor flag by address, None without a row
  verified,    \* users.email_verified_at is set
  sessions,    \* user_sessions in the order of their creation
  tokens,      \* auth_tokens in the order of their creation
  creds,       \* mfa_credentials in the order of their creation
  owner,       \* auth_providers: the account of each identity
  profiles,    \* freelancer_profiles
  issued,      \* signed challenges, link states and exchange codes not yet expired
  req,         \* the requests under way
  ended,       \* history: sessions an answered password change was to end
  spent,       \* history: tokens whose use was answered
  used         \* requests and faults so far

people == <<account, verified, profiles, owner>>
past   == <<ended, spent>>
vars   == <<people, sessions, tokens, creds, issued, req, past, used>>

NoRequest == [pc |-> "idle", user |-> None, session |-> 0, token |-> 0,
              cred |-> 0, identity |-> None, found |-> "unknown", seen |-> {}]

Active(s)     == s \in DOMAIN sessions /\ sessions[s].live
Redeemable(t) == t \in DOMAIN tokens /\ tokens[t].state = "unused"
CredsOf(u, state) == {c \in DOMAIN creds : creds[c].user = u /\ creds[c].state = state}
Newest(S) == CHOOSE c \in S : \A d \in S : d <= c

Init ==
  /\ account = [u \in Users |-> None] /\ verified = {} /\ profiles = {}
  /\ owner = [i \in Identities |-> None]
  /\ sessions = <<>> /\ tokens = <<>> /\ creds = <<>> /\ issued = {}
  /\ req = [r \in Requests |-> NoRequest]
  /\ ended = {} /\ spent = {}
  /\ used = [requests |-> 0, faults |-> 0]

-------------------------------------------------------------------------------
\* Steps of a request.

At(r, pc)   == req[r].pc = pc
Goto(r, pc) == req' = [req EXCEPT ![r].pc = pc]
Done(r)     == req' = [req EXCEPT ![r] = NoRequest]
Use(what, max) == used[what] < max /\ used' = [used EXCEPT ![what] = @ + 1]

\* A request arrives and has passed its first read.
Begin(r, first) ==
  /\ At(r, "idle")
  /\ Use("requests", MaxRequests)
  /\ req' = [req EXCEPT ![r] = first]

For(u, pc) == [NoRequest EXCEPT !.pc = pc, !.user = u]

\* The onRequest hook: the session named in the token is looked up every time.
Authenticated(s, pc) ==
  [NoRequest EXCEPT !.pc = pc, !.user = sessions[s].user, !.session = s,
                    !.seen = {x \in DOMAIN sessions : sessions[x].user = sessions[s].user} \ {s}]

Grant(u)        == sessions' = Append(sessions, [user |-> u, live |-> TRUE])
End(S)          == sessions' = [s \in DOMAIN sessions |-> [sessions[s] EXCEPT !.live = @ /\ s \notin S]]
SessionsOf(u)   == {s \in DOMAIN sessions : sessions[s].user = u}

\* revokeAllSessions with "<>" in the place of IS DISTINCT FROM: with no session
\* to spare the condition is NULL and no row qualifies.
RevokedUnequal(u, spared) == IF spared = 0 THEN {} ELSE SessionsOf(u) \ {spared}

\* revokeAllSessions, sparing one, or none.
Revoked(u, spared) == SessionsOf(u) \ {spared}

-------------------------------------------------------------------------------
\* Signing in.

\* POST /auth/login with the right password: a challenge, or on to a session.
Login(r, u) ==
  /\ account[u] # None /\ account[u].pw \in Passwords
  /\ IF account[u].mfa
     THEN issued' = issued \cup {<<"challenge", u>>} /\ Use("requests", MaxRequests) /\ UNCHANGED req
     ELSE Begin(r, For(u, "session")) /\ UNCHANGED issued
  /\ UNCHANGED <<people, sessions, tokens, creds, past>>

\* POST /auth/mfa/challenge with a valid code of the newest active secret.
Challenge(r, u) ==
  /\ <<"challenge", u>> \in issued
  /\ CredsOf(u, "active") # {}
  /\ Begin(r, For(u, "session"))
  /\ UNCHANGED <<people, sessions, tokens, creds, issued, past>>

\* issueSession
IssueSession(r) ==
  /\ At(r, "session")
  /\ Grant(req[r].user) /\ Done(r)
  /\ UNCHANGED <<people, tokens, creds, issued, past, used>>

\* POST /auth/register: no such account when it looked, and none when it inserts.
Register(r, u) ==
  /\ account[u] = None
  /\ Begin(r, For(u, "insert"))
  /\ UNCHANGED <<people, sessions, tokens, creds, issued, past>>

NewAccount(u, pw) == account' = [account EXCEPT ![u] = [pw |-> pw, mfa |-> FALSE]]

RegisterInsert(r) ==
  /\ At(r, "insert")
  /\ IF account[req[r].user] = None
     THEN /\ \E p \in Passwords : NewAccount(req[r].user, p)
          /\ Goto(r, "confirm")
     ELSE Done(r) /\ UNCHANGED account
  /\ UNCHANGED <<verified, profiles, owner, sessions, tokens, creds, issued, past, used>>

NewToken(u, type) == tokens' = Append(tokens, [user |-> u, type |-> type, state |-> "unused"])

RegisterToken(r) ==
  /\ At(r, "confirm")
  /\ NewToken(req[r].user, "EMAIL_VERIFICATION") /\ Goto(r, "session")
  /\ UNCHANGED <<people, sessions, creds, issued, past, used>>

\* POST /auth/logout
Logout(s) ==
  /\ Active(s) /\ End({s})
  /\ Use("requests", MaxRequests)
  /\ UNCHANGED <<people, tokens, creds, issued, req, past>>

\* Time: a session, a token or a signed code runs out.
Expire ==
  /\ Use("faults", MaxFaults)
  /\ \/ \E s \in DOMAIN sessions : Active(s) /\ End({s}) /\ UNCHANGED <<tokens, issued>>
     \/ \E t \in DOMAIN tokens : /\ Redeemable(t)
                                 /\ tokens' = [tokens EXCEPT ![t].state = "expired"]
                                 /\ UNCHANGED <<sessions, issued>>
     \/ \E i \in issued : issued' = issued \ {i} /\ UNCHANGED <<sessions, tokens>>
  /\ UNCHANGED <<people, creds, req, past>>

-------------------------------------------------------------------------------
\* Passwords and one-time tokens.

\* POST /auth/change-password: the current password was right when it was read.
ChangePassword(r, s) ==
  /\ Active(s) /\ account[sessions[s].user].pw \in Passwords
  /\ Begin(r, Authenticated(s, "update"))
  /\ UNCHANGED <<people, sessions, tokens, creds, issued, past>>

\* POST /auth/reset-password: the token was unused when it was read.
ResetPassword(r, t) ==
  /\ Redeemable(t) /\ tokens[t].type = "PASSWORD_RESET"
  /\ Begin(r, [For(tokens[t].user, "update") EXCEPT
                 !.token = t, !.seen = SessionsOf(tokens[t].user)])
  /\ UNCHANGED <<people, sessions, tokens, creds, issued, past>>

UpdatePassword(r) ==
  /\ At(r, "update")
  /\ \E p \in Passwords : account' = [account EXCEPT ![req[r].user].pw = p]
  /\ Goto(r, IF req[r].token = 0 THEN "revoke" ELSE "spend")
  /\ UNCHANGED <<verified, profiles, owner, sessions, tokens, creds, issued, past, used>>

\* A token that is never marked.
SpendNothing(t) == tokens

\* UPDATE auth_tokens SET used_at: of a row that may have been deleted meanwhile.
Spend(t) == IF tokens[t].state = "gone" THEN tokens ELSE [tokens EXCEPT ![t].state = "used"]

SpendToken(r) ==
  /\ At(r, "spend")
  /\ tokens' = Spend(req[r].token) /\ Goto(r, "revoke")
  /\ UNCHANGED <<people, sessions, creds, issued, past, used>>

\* revokeAllSessions, and the answer.
RevokeAll(r) ==
  /\ At(r, "revoke")
  /\ End(Revoked(req[r].user, req[r].session))
  /\ ended' = ended \cup req[r].seen
  /\ spent' = spent \cup ({req[r].token} \ {0})
  /\ Done(r)
  /\ UNCHANGED <<people, tokens, creds, issued, used>>

\* POST /auth/forgot-password: unused reset tokens are deleted, and one is inserted.
ForgotPassword(r, u) ==
  /\ account[u] # None
  /\ Begin(r, For(u, "forget"))
  /\ UNCHANGED <<people, sessions, tokens, creds, issued, past>>

DeleteTokens(r) ==
  /\ At(r, "forget") /\ Goto(r, "mail")
  /\ tokens' = [t \in DOMAIN tokens |->
       IF tokens[t].user = req[r].user /\ tokens[t].type = "PASSWORD_RESET" /\ tokens[t].state # "used"
       THEN [tokens[t] EXCEPT !.state = "gone"] ELSE tokens[t]]
  /\ UNCHANGED <<people, sessions, creds, issued, past, used>>

InsertToken(r) ==
  /\ At(r, "mail") /\ Done(r)
  /\ NewToken(req[r].user, "PASSWORD_RESET")
  /\ UNCHANGED <<people, sessions, creds, issued, past, used>>

\* POST /auth/verify-email
VerifyEmail(r, t) ==
  /\ Redeemable(t) /\ tokens[t].type = "EMAIL_VERIFICATION"
  /\ Begin(r, [For(tokens[t].user, "verified") EXCEPT !.token = t])
  /\ UNCHANGED <<people, sessions, tokens, creds, issued, past>>

MarkVerified(r) ==
  /\ At(r, "verified") /\ Goto(r, "verifiedSpend")
  /\ verified' = verified \cup {req[r].user}
  /\ UNCHANGED <<account, profiles, owner, sessions, tokens, creds, issued, past, used>>

SpendVerification(r) ==
  /\ At(r, "verifiedSpend") /\ Done(r)
  /\ tokens' = Spend(req[r].token)
  /\ spent' = spent \cup {req[r].token}
  /\ UNCHANGED <<people, sessions, creds, issued, ended, used>>

-------------------------------------------------------------------------------
\* The second factor.

\* POST /auth/mfa/enroll: refused while the flag is set; one pending secret.
Enroll(r, s) ==
  /\ Active(s) /\ ~account[sessions[s].user].mfa
  /\ Begin(r, Authenticated(s, "clear"))
  /\ UNCHANGED <<people, sessions, tokens, creds, issued, past>>

ClearPending(r) ==
  /\ At(r, "clear") /\ Goto(r, "enroll")
  /\ creds' = [c \in DOMAIN creds |->
       IF c \in CredsOf(req[r].user, "pending") THEN [creds[c] EXCEPT !.state = "gone"] ELSE creds[c]]
  /\ UNCHANGED <<people, sessions, tokens, issued, past, used>>

InsertPending(r) ==
  /\ At(r, "enroll") /\ Done(r)
  /\ creds' = Append(creds, [user |-> req[r].user, state |-> "pending"])
  /\ UNCHANGED <<people, sessions, tokens, issued, past, used>>

\* POST /auth/mfa/verify with a valid code of the newest pending secret.
VerifyEnrollment(r, s) ==
  /\ Active(s) /\ CredsOf(sessions[s].user, "pending") # {}
  /\ Begin(r, [Authenticated(s, "activate") EXCEPT
                 !.cred = Newest(CredsOf(sessions[s].user, "pending"))])
  /\ UNCHANGED <<people, sessions, tokens, creds, issued, past>>

Flag(u, on) == account' = [account EXCEPT ![u].mfa = on]

\* Its transaction: the secret, if the row is still there, and the flag.
Activate(r) ==
  /\ At(r, "activate") /\ Done(r)
  /\ creds' = [creds EXCEPT ![req[r].cred].state = IF @ = "gone" THEN @ ELSE "active"]
  /\ Flag(req[r].user, TRUE)
  /\ UNCHANGED <<verified, profiles, owner, sessions, tokens, issued, past, used>>

\* POST /auth/mfa/disable with a valid code of the newest active secret.
DisableMfa(r, s) ==
  /\ Active(s) /\ CredsOf(sessions[s].user, "active") # {}
  /\ Begin(r, Authenticated(s, "deactivate"))
  /\ UNCHANGED <<people, sessions, tokens, creds, issued, past>>

\* Its transaction: no row is deleted, and the flag goes.
Deactivate(r) ==
  /\ At(r, "deactivate") /\ Done(r)
  /\ creds' = [c \in DOMAIN creds |->
       IF c \in CredsOf(req[r].user, "active") THEN [creds[c] EXCEPT !.state = "pending"] ELSE creds[c]]
  /\ Flag(req[r].user, FALSE)
  /\ UNCHANGED <<verified, profiles, owner, sessions, tokens, issued, past, used>>

-------------------------------------------------------------------------------
\* GitHub.

\* GET /auth/github/link-url: the signed state carries the account.
LinkUrl(s) ==
  /\ Active(s)
  /\ issued' = issued \cup {<<"link", sessions[s].user>>}
  /\ Use("requests", MaxRequests)
  /\ UNCHANGED <<people, sessions, tokens, creds, req, past>>

\* GET /auth/github/callback with such a state: refused for somebody else's identity.
CallbackLink(r, u, i) ==
  /\ <<"link", u>> \in issued
  /\ owner[i] \in {None, u}
  /\ Begin(r, [For(u, "link") EXCEPT !.identity = i])
  /\ UNCHANGED <<people, sessions, tokens, creds, issued, past>>

\* The conflicting row takes the account of whoever connects last.
UpsertMoving(i, u) == owner' = [owner EXCEPT ![i] = u]

\* INSERT ... ON CONFLICT DO UPDATE, which leaves user_id alone.
Upsert(i, u) == owner' = [owner EXCEPT ![i] = IF @ = None THEN u ELSE @]

Link(r) ==
  /\ At(r, "link") /\ Goto(r, "profileLinked")
  /\ Upsert(req[r].identity, req[r].user)
  /\ UNCHANGED <<account, verified, profiles, sessions, tokens, creds, issued, past, used>>

\* The callback without one: the account of the identity, of the address, or a new one.
CallbackLogin(r, i) ==
  /\ IF owner[i] # None
     THEN Begin(r, [For(owner[i], "signIn") EXCEPT !.identity = i, !.found = "identity"])
     ELSE Begin(r, [For(EmailOf[i], "byEmail") EXCEPT !.identity = i])
  /\ UNCHANGED <<people, sessions, tokens, creds, issued, past>>

FindByEmail(r) ==
  /\ At(r, "byEmail")
  /\ req' = [req EXCEPT ![r].pc = "signIn",
                        ![r].found = IF account[req[r].user] = None THEN "nothing" ELSE "email"]
  /\ UNCHANGED <<people, sessions, tokens, creds, issued, past, used>>

\* The rest of its transaction; a second account with the address is refused.
SignIn(r) ==
  /\ At(r, "signIn")
  /\ \/ /\ req[r].found = "nothing" /\ account[req[r].user] # None
        /\ Done(r) /\ UNCHANGED <<account, owner>>
     \/ /\ req[r].found = "nothing" /\ account[req[r].user] = None
        /\ NewAccount(req[r].user, Unusable)
        /\ Upsert(req[r].identity, req[r].user) /\ Goto(r, "profile")
     \/ /\ req[r].found # "nothing" /\ UNCHANGED account
        /\ Upsert(req[r].identity, req[r].user) /\ Goto(r, "profile")
  /\ UNCHANGED <<verified, profiles, sessions, tokens, creds, issued, past, used>>

\* ensureFreelancerProfile, which may fail quietly; then the answer.
EnsureProfile(r) ==
  /\ At(r, "profile") \/ At(r, "profileLinked")
  /\ profiles' \in {profiles, profiles \cup {req[r].user}}
  /\ issued' = IF At(r, "profile") THEN issued \cup {<<"exchange", req[r].user>>} ELSE issued
  /\ Done(r)
  /\ UNCHANGED <<account, verified, owner, sessions, tokens, creds, past, used>>

\* POST /auth/github/exchange
Exchange(r, u) ==
  /\ <<"exchange", u>> \in issued
  /\ Begin(r, For(u, "session"))
  /\ UNCHANGED <<people, sessions, tokens, creds, issued, past>>

\* The gateway dies in the middle of a request, or one of its statements fails.
Abort(r) ==
  /\ req[r].pc # "idle" /\ Done(r)
  /\ Use("faults", MaxFaults)
  /\ UNCHANGED <<people, sessions, tokens, creds, issued, past>>

-------------------------------------------------------------------------------
Arrive(r) ==
  \/ \E u \in Users : \/ Login(r, u) \/ Challenge(r, u) \/ Register(r, u)
                      \/ ForgotPassword(r, u) \/ Exchange(r, u)
  \/ \E s \in DOMAIN sessions : \/ ChangePassword(r, s) \/ Enroll(r, s)
                                \/ VerifyEnrollment(r, s) \/ DisableMfa(r, s)
  \/ \E t \in DOMAIN tokens : ResetPassword(r, t) \/ VerifyEmail(r, t)
  \/ \E i \in Identities : \/ CallbackLogin(r, i)
                           \/ \E u \in Users : CallbackLink(r, u, i)

Proceed(r) ==
  \/ IssueSession(r) \/ RegisterInsert(r) \/ RegisterToken(r)
  \/ UpdatePassword(r) \/ SpendToken(r) \/ RevokeAll(r)
  \/ DeleteTokens(r) \/ InsertToken(r) \/ MarkVerified(r) \/ SpendVerification(r)
  \/ ClearPending(r) \/ InsertPending(r) \/ Activate(r) \/ Deactivate(r)
  \/ Link(r) \/ FindByEmail(r) \/ SignIn(r) \/ EnsureProfile(r)

Next ==
  \/ \E r \in Requests : Arrive(r) \/ Proceed(r) \/ Abort(r)
  \/ \E s \in DOMAIN sessions : Logout(s) \/ LinkUrl(s)
  \/ Expire

Spec == Init /\ [][Next]_vars

-------------------------------------------------------------------------------
\* Properties.

(***************************************************************************)
(* Once a password reset is answered, every session the account had when   *)
(* the reset began has ended; once a change is answered, every one but the *)
(* caller's own - whatever logins, resets, changes and logouts overlap it  *)
(* (session-store.ts:74-85, auth.ts:479-483).                              *)
(***************************************************************************)
PasswordChangeEndsSessions == \A s \in ended : ~sessions[s].live

(***************************************************************************)
(* No request takes up a one-time token once a use of it was answered,     *)
(* whatever overlapped that use: two uses of one token overlap each other. *)
(* Those both succeed, the last password staying, since reading, using and *)
(* marking the token are three statements (auth.ts:578-593) and none of    *)
(* them claims it, though it is called single-use (auth.ts:558, V025:9).   *)
(***************************************************************************)
UseSpendsToken ==
  [][\A r \in Requests :
       At(r, "idle") /\ ~At(r, "idle")' => req'[r].token \notin spent]_vars

(***************************************************************************)
(* A GitHub identity that belongs to an account never passes to another,   *)
(* when the check that it is free is made long before the insert and       *)
(* several callbacks make it at once (auth.ts:793-812, 836-850).           *)
(***************************************************************************)
IdentityNeverMoves ==
  [][\A i \in Identities : owner[i] # None => owner'[i] = owner[i]]_owner
=============================================================================
