----------------------------- MODULE AccessProofs -----------------------------
(***************************************************************************)
(* Proofs about module Access, for any accounts, identities, sessions and  *)
(* tokens and any number of overlapping requests; and, at the end, about   *)
(* module Browser, for any number of people, contracts and calls in flight.*)
(***************************************************************************)
EXTENDS Access, Browser, SequenceTheorems, TLAPS

Account == [pw : Passwords \cup {Unusable}, mfa : BOOLEAN]
Session == [user : Users, live : BOOLEAN]
Token   == [user : Users, type : {"EMAIL_VERIFICATION", "PASSWORD_RESET"},
            state : {"unused", "used", "expired", "gone"}]

Typed ==
  /\ account \in [Users -> Account \cup {None}]
  /\ owner \in [Identities -> Users \cup {None}]
  /\ sessions \in Seq(Session) /\ tokens \in Seq(Token)

\* The tables' foreign keys to users, and what signed codes say.
HasAccount(u) == u \in Users /\ account[u] # None
RowsHaveAccounts ==
  /\ \A s \in DOMAIN sessions : HasAccount(sessions[s].user)
  /\ \A t \in DOMAIN tokens : HasAccount(tokens[t].user)
  /\ \A i \in Identities : owner[i] # None => HasAccount(owner[i])
  /\ \A c \in issued : HasAccount(c[2])

\* A request is about somebody, who may be without an account only before it has
\* looked for one or made one.
Fields == {"pc", "user", "session", "token", "cred", "identity", "found", "seen"}
Accountless(q) ==
  q.pc \in {"idle", "insert", "byEmail"} \/ (q.pc = "signIn" /\ q.found = "nothing")
KnowsWhom(q) ==
  /\ DOMAIN q = Fields
  /\ q.pc # "idle" => q.user \in Users
  /\ q.pc \in {"link", "byEmail", "signIn"} => q.identity \in Identities
  /\ Accountless(q) \/ HasAccount(q.user)

\* One that changes a password knows sessions of its own account, the caller's
\* excepted, and nobody else's.
SeenAreOwn(q) ==
  q.pc \in {"update", "spend", "revoke"} => q.seen \subseteq SessionsOf(q.user) \ {q.session}

\* The token a request holds is a row, and not redeemable once the request is past
\* marking it.
HoldsToken(q) ==
  /\ q.pc = "update" => q.token \in {0} \cup DOMAIN tokens
  /\ q.pc \in {"spend", "verified", "verifiedSpend"} => q.token \in DOMAIN tokens
  /\ q.pc = "revoke" => \/ q.token = 0
                        \/ q.token \in DOMAIN tokens /\ tokens[q.token].state # "unused"

Sound(q) == KnowsWhom(q) /\ SeenAreOwn(q) /\ HoldsToken(q)
RequestsAreSound == DOMAIN req = Requests /\ \A r \in Requests : Sound(req[r])

\* A token whose use was answered is not open any more.
SpentIsClosed == \A t \in spent : ~Redeemable(t)

IInv == /\ Typed /\ RowsHaveAccounts /\ RequestsAreSound
        /\ ended \subseteq DOMAIN sessions /\ PasswordChangeEndsSessions
        /\ spent \subseteq DOMAIN tokens /\ SpentIsClosed

\* What no step undoes: a session never comes back and never changes hands, a token
\* that is no longer unused never is again, an account stays.
SessionsOnlyEnd ==
  \A s \in DOMAIN sessions :
    /\ s \in DOMAIN sessions' /\ sessions'[s].user = sessions[s].user
    /\ sessions'[s].live => sessions[s].live
TokensOnlyClose ==
  \A t \in DOMAIN tokens :
    /\ t \in DOMAIN tokens' /\ tokens'[t].user = tokens[t].user
    /\ tokens'[t].state = "unused" => tokens[t].state = "unused"
AccountsStay == \A u \in Users : HasAccount(u) => HasAccount(u)'

-------------------------------------------------------------------------------

\* What Append does to a sequence.
LEMMA Appended ==
  ASSUME NEW S, NEW s \in Seq(S), NEW e \in S
  PROVE  /\ Append(s, e) \in Seq(S)
         /\ DOMAIN Append(s, e) = DOMAIN s \cup {Len(s) + 1}
         /\ \A i \in DOMAIN s : Append(s, e)[i] = s[i]
         /\ Append(s, e)[Len(s) + 1] = e
         /\ Len(s) + 1 \notin DOMAIN s
         /\ 0 \notin DOMAIN s
PROOF
  <1>1. Len(s) \in Nat /\ DOMAIN s = 1..Len(s)
    BY LenProperties
  <1>2. Append(s, e) \in Seq(S) /\ Len(Append(s, e)) = Len(s) + 1
    OBVIOUS
  <1>3. DOMAIN Append(s, e) = 1..(Len(s) + 1)
    BY <1>1, <1>2, LenProperties
  <1>4. \A i \in 1..Len(s) : Append(s, e)[i] = s[i]
    BY <1>1
  <1>5. Append(s, e)[Len(s) + 1] = e
    OBVIOUS
  <1> QED BY <1>1, <1>2, <1>3, <1>4, <1>5

\* A function on the positions of a sequence is one as well.
LEMMA Mapped ==
  ASSUME NEW S, NEW s \in Seq(S), NEW f, f \in [DOMAIN s -> S]
  PROVE  f \in Seq(S) /\ DOMAIN f = DOMAIN s
PROOF
  <1>1. Len(s) \in Nat /\ DOMAIN s = 1..Len(s)
    BY LenProperties
  <1> QED BY <1>1, SeqDef

\* Sessions that are granted and ended.
LEMMA GrantFacts ==
  ASSUME Typed, NEW u \in Users, Grant(u)
  PROVE  /\ sessions' \in Seq(Session) /\ SessionsOnlyEnd
         /\ \A s \in DOMAIN sessions' : s \in DOMAIN sessions \/ sessions'[s].user = u
PROOF
  <1> DEFINE e == [user |-> u, live |-> TRUE]
  <1>1. sessions \in Seq(Session) /\ e \in Session
    BY DEF Typed, Session
  <1> QED BY <1>1, Appended DEF Grant, SessionsOnlyEnd

LEMMA EndFacts ==
  ASSUME Typed, NEW S, End(S)
  PROVE  /\ sessions' \in Seq(Session) /\ SessionsOnlyEnd
         /\ DOMAIN sessions' = DOMAIN sessions
         /\ \A s \in S \cap DOMAIN sessions : ~sessions'[s].live
PROOF
  <1>1. sessions \in Seq(Session) /\ \A s \in DOMAIN sessions : sessions[s] \in Session
    BY ElementOfSeq, LenProperties DEF Typed
  <1>2. sessions' \in [DOMAIN sessions -> Session]
    BY <1>1 DEF End, Session
  <1>3. sessions' \in Seq(Session) /\ DOMAIN sessions' = DOMAIN sessions
    BY <1>1, <1>2, Mapped
  <1>4. \A s \in DOMAIN sessions : /\ sessions'[s].user = sessions[s].user
                                   /\ sessions'[s].live = (sessions[s].live /\ s \notin S)
    BY <1>1 DEF End, Session
  <1> QED BY <1>3, <1>4 DEF SessionsOnlyEnd

\* Tokens that are made, spent and deleted.
LEMMA NewTokenFacts ==
  ASSUME Typed, NEW u \in Users, NEW type \in {"EMAIL_VERIFICATION", "PASSWORD_RESET"},
         NewToken(u, type)
  PROVE  /\ tokens' \in Seq(Token) /\ TokensOnlyClose
         /\ \A t \in DOMAIN tokens' : t \in DOMAIN tokens \/ tokens'[t].user = u
PROOF
  <1> DEFINE e == [user |-> u, type |-> type, state |-> "unused"]
  <1>1. tokens \in Seq(Token) /\ e \in Token
    BY DEF Typed, Token
  <1> QED BY <1>1, Appended DEF NewToken, TokensOnlyClose

LEMMA TokenStateFacts ==
  ASSUME Typed,
         NEW f \in [DOMAIN tokens -> {"unused", "used", "expired", "gone"}],
         \A t \in DOMAIN tokens : f[t] = "unused" => tokens[t].state = "unused",
         tokens' = [t \in DOMAIN tokens |-> [tokens[t] EXCEPT !.state = f[t]]]
  PROVE  /\ tokens' \in Seq(Token) /\ TokensOnlyClose
         /\ DOMAIN tokens' = DOMAIN tokens
         /\ \A t \in DOMAIN tokens : tokens'[t].state = f[t]
PROOF
  <1>1. tokens \in Seq(Token) /\ \A t \in DOMAIN tokens : tokens[t] \in Token
    BY ElementOfSeq, LenProperties DEF Typed
  <1>2. tokens' \in [DOMAIN tokens -> Token]
    BY <1>1 DEF Token
  <1>3. tokens' \in Seq(Token) /\ DOMAIN tokens' = DOMAIN tokens
    BY <1>1, <1>2, Mapped
  <1> QED BY <1>1, <1>3 DEF TokensOnlyClose, Token

LEMMA Elements ==
  ASSUME Typed
  PROVE  /\ \A s \in DOMAIN sessions : sessions[s] \in Session
         /\ \A t \in DOMAIN tokens : tokens[t] \in Token
         /\ 0 \notin DOMAIN sessions /\ 0 \notin DOMAIN tokens
PROOF
  BY ElementOfSeq, LenProperties DEF Typed

\* What a request knows stays true, whatever the others do.
LEMMA SoundStays ==
  ASSUME Typed, SessionsOnlyEnd, TokensOnlyClose, AccountsStay, NEW q, Sound(q)
  PROVE  Sound(q)'
PROOF
  <1>1. KnowsWhom(q)'
    BY DEF Sound, KnowsWhom, AccountsStay, HasAccount, Accountless
  <1>2. SessionsOf(q.user) \subseteq SessionsOf(q.user)'
    BY DEF SessionsOnlyEnd, SessionsOf
  <1>3. SeenAreOwn(q)'
    BY <1>2 DEF Sound, SeenAreOwn
  <1>4. HoldsToken(q)'
    BY DEF Sound, HoldsToken, TokensOnlyClose, Redeemable
  <1> QED BY <1>1, <1>3, <1>4 DEF Sound

\* What is unchanged has only changed as it may.
LEMMA Unchanged ==
  /\ UNCHANGED sessions => SessionsOnlyEnd
  /\ UNCHANGED tokens => TokensOnlyClose
  /\ UNCHANGED account => AccountsStay
PROOF
  BY DEF SessionsOnlyEnd, TokensOnlyClose, AccountsStay, HasAccount

\* A step that gives one request another record, a sound one, leaves all of them so.
LEMMA OneRequest ==
  ASSUME IInv, SessionsOnlyEnd, TokensOnlyClose, AccountsStay,
         NEW r \in Requests, NEW q, req' = [req EXCEPT ![r] = q], Sound(q)'
  PROVE  RequestsAreSound'
PROOF
  <1>1. DOMAIN req' = Requests /\ req'[r] = q /\ \A x \in Requests \ {r} : req'[x] = req[x]
    BY DEF IInv, RequestsAreSound
  <1>2. \A x \in Requests \ {r} : Sound(req[x])'
    <2> TAKE x \in Requests \ {r}
    <2>1. PICK y : y = req[x]
      OBVIOUS
    <2>2. Typed /\ Sound(y)
      BY <2>1 DEF IInv, RequestsAreSound
    <2>3. Sound(y)' /\ y = req'[x]
      BY <1>1, <2>1, <2>2, SoundStays
    <2> QED BY <2>3
  <1> QED BY <1>1, <1>2 DEF RequestsAreSound

\* The records of requests under way.
LEMMA NoRequestFacts ==
  /\ DOMAIN NoRequest = Fields /\ NoRequest.pc = "idle"
  /\ NoRequest.session = 0 /\ NoRequest.token = 0
PROOF
  BY DEF NoRequest, Fields

LEMMA ForFacts ==
  ASSUME NEW u, NEW pc, NEW q, q = For(u, pc)
  PROVE  /\ DOMAIN q = Fields
         /\ q.pc = pc /\ q.user = u /\ q.session = 0 /\ q.token = 0
PROOF
  <1> DEFINE p == [NoRequest EXCEPT !.pc = pc]
  <1>2. DOMAIN p = Fields /\ p.pc = pc /\ p.session = 0 /\ p.token = 0
    BY NoRequestFacts DEF Fields
  <1>3. q = [p EXCEPT !.user = u]
    BY DEF For
  <1> QED BY <1>2, <1>3 DEF Fields

LEMMA AuthenticatedFacts ==
  ASSUME NEW s \in DOMAIN sessions, NEW pc, NEW q, q = Authenticated(s, pc)
  PROVE  /\ DOMAIN q = Fields
         /\ q.pc = pc /\ q.user = sessions[s].user /\ q.session = s /\ q.token = 0
         /\ q.seen = SessionsOf(q.user) \ {s}
PROOF
  <1> DEFINE S == {x \in DOMAIN sessions : sessions[x].user = sessions[s].user} \ {s}
             p == [NoRequest EXCEPT !.pc = pc]
             w == [p EXCEPT !.user = sessions[s].user]
             v == [w EXCEPT !.session = s]
  <1>1. DOMAIN p = Fields /\ p.pc = pc /\ p.token = 0
    BY NoRequestFacts DEF Fields
  <1>2. DOMAIN w = Fields /\ w.pc = pc /\ w.token = 0 /\ w.user = sessions[s].user
    BY <1>1 DEF Fields
  <1>3. DOMAIN v = Fields /\ v.pc = pc /\ v.token = 0 /\ v.user = sessions[s].user /\ v.session = s
    BY <1>2 DEF Fields
  <1>4. q = [v EXCEPT !.seen = S]
    BY DEF Authenticated
  <1> QED BY <1>3, <1>4 DEF Fields, SessionsOf

-------------------------------------------------------------------------------
\* Each step preserves the invariant.

\* A request arrives: it takes notes of what it has read, and nothing else happens.
LEMMA BeginPreserves ==
  ASSUME IInv, NEW r \in Requests, NEW q, Begin(r, q), Sound(q),
         UNCHANGED <<people, sessions, tokens, creds, issued, past>>
  PROVE  IInv'
PROOF
  <1>1. req' = [req EXCEPT ![r] = q] /\ SessionsOnlyEnd /\ TokensOnlyClose /\ AccountsStay
    BY Unchanged DEF Begin, people
  <1>2. Sound(q)'
    BY <1>1, SoundStays DEF IInv
  <1>3. RequestsAreSound'
    BY <1>1, <1>2, OneRequest
  <1> QED BY <1>3 DEF IInv, Typed, RowsHaveAccounts, HasAccount, people, past,
            PasswordChangeEndsSessions, SpentIsClosed, Redeemable

\* A challenge was left instead.
LEMMA LoginPreserves ==
  ASSUME IInv, NEW r \in Requests, NEW u \in Users, Login(r, u)
  PROVE  IInv'
PROOF
  <1>1. CASE account[u].mfa
    <2>1. /\ issued' = issued \cup {<<"challenge", u>>} /\ account[u] # None
          /\ UNCHANGED <<people, sessions, tokens, creds, past, req>>
      BY <1>1 DEF Login
    <2> QED BY <2>1 DEF IInv, Typed, RowsHaveAccounts, HasAccount, RequestsAreSound, Sound,
              KnowsWhom, SeenAreOwn, HoldsToken, SessionsOf, Accountless, people, past,
              PasswordChangeEndsSessions, SpentIsClosed, Redeemable
  <1>2. CASE ~account[u].mfa
    <2>1. PICK q : q = For(u, "session")
      OBVIOUS
    <2>2. Begin(r, q) /\ UNCHANGED <<people, sessions, tokens, creds, issued, past>> /\ account[u] # None
      BY <1>2, <2>1 DEF Login
    <2>3. Sound(q)
      BY <2>1, <2>2, ForFacts DEF Sound, KnowsWhom, HasAccount, SeenAreOwn, HoldsToken
    <2> QED BY <2>2, <2>3, BeginPreserves
  <1> QED BY <1>1, <1>2

LEMMA ArrivePreserves ==
  ASSUME IInv, NEW r \in Requests, Arrive(r)
  PROVE  IInv'
PROOF
  <1> DEFINE Still == UNCHANGED <<people, sessions, tokens, creds, issued, past>>
  <1>1. ASSUME NEW u \in Users, Challenge(r, u) \/ Register(r, u) \/ ForgotPassword(r, u) \/ Exchange(r, u)
        PROVE  IInv'
    <2>0. PICK pc \in {"session", "insert", "forget"} :
            /\ Begin(r, For(u, pc)) /\ Still
            /\ pc = "insert" \/ HasAccount(u)
      BY <1>1 DEF Challenge, Register, ForgotPassword, Exchange, IInv, RowsHaveAccounts, HasAccount
    <2>1. PICK q : q = For(u, pc) /\ Begin(r, q)
      BY <2>0
    <2>2. Sound(q)
      BY <2>0, <2>1, ForFacts DEF Sound, KnowsWhom, Accountless, HasAccount, SeenAreOwn, HoldsToken
    <2> QED BY <2>0, <2>1, <2>2, BeginPreserves
  <1>2. ASSUME NEW s \in DOMAIN sessions,
               ChangePassword(r, s) \/ Enroll(r, s) \/ DisableMfa(r, s) \/ VerifyEnrollment(r, s)
        PROVE  IInv'
    <2>1. PICK pc, p, q :
            /\ pc \in {"update", "clear", "deactivate", "activate"}
            /\ p = Authenticated(s, pc) /\ Begin(r, q) /\ Still
            /\ q = p \/ \E c : q = [p EXCEPT !.cred = c]
      BY <1>2 DEF ChangePassword, Enroll, DisableMfa, VerifyEnrollment
    <2>2. /\ DOMAIN q = Fields /\ q.pc = pc /\ q.user = sessions[s].user
          /\ q.token = 0 /\ q.seen = SessionsOf(q.user) \ {q.session}
      BY <2>1, AuthenticatedFacts DEF Fields
    <2>3. Sound(q)
      BY <2>1, <2>2 DEF Sound, KnowsWhom, Accountless, HasAccount, SeenAreOwn, HoldsToken, IInv, RowsHaveAccounts
    <2> QED BY <2>1, <2>3, BeginPreserves
  <1>3. ASSUME NEW t \in DOMAIN tokens, ResetPassword(r, t)
        PROVE  IInv'
    <2> DEFINE u == tokens[t].user
    <2>1. PICK p, w, q : /\ p = For(u, "update") /\ w = [p EXCEPT !.token = t]
                         /\ q = [w EXCEPT !.seen = SessionsOf(u)] /\ Begin(r, q) /\ Still
      BY <1>3 DEF ResetPassword
    <2>2. DOMAIN w = Fields /\ w.pc = "update" /\ w.user = u /\ w.token = t /\ w.session = 0
      BY <2>1, ForFacts DEF Fields
    <2>3. DOMAIN q = Fields /\ q.pc = "update" /\ q.user = u /\ q.token = t /\ q.session = 0
          /\ q.seen = SessionsOf(u)
      BY <2>1, <2>2 DEF Fields
    <2>4. 0 \notin SessionsOf(u) /\ HasAccount(u)
      BY Elements DEF SessionsOf, IInv, RowsHaveAccounts
    <2>5. Sound(q)
      BY <2>3, <2>4 DEF Sound, KnowsWhom, Accountless, HasAccount, SeenAreOwn, HoldsToken
    <2> QED BY <2>1, <2>5, BeginPreserves
  <1>4. ASSUME NEW t \in DOMAIN tokens, VerifyEmail(r, t)
        PROVE  IInv'
    <2> DEFINE u == tokens[t].user
    <2>1. PICK p, q : p = For(u, "verified") /\ q = [p EXCEPT !.token = t] /\ Begin(r, q) /\ Still
      BY <1>4 DEF VerifyEmail
    <2>2. DOMAIN q = Fields /\ q.pc = "verified" /\ q.user = u /\ q.token = t
      BY <2>1, ForFacts DEF Fields
    <2>3. Sound(q)
      BY <2>2 DEF Sound, KnowsWhom, Accountless, HasAccount, SeenAreOwn, HoldsToken, IInv, RowsHaveAccounts
    <2> QED BY <2>1, <2>3, BeginPreserves
  <1>5. ASSUME NEW i \in Identities, CallbackLogin(r, i)
        PROVE  IInv'
    <2>1. CASE owner[i] # None
      <3>1. PICK p, w, q : /\ p = For(owner[i], "signIn") /\ w = [p EXCEPT !.identity = i]
                           /\ q = [w EXCEPT !.found = "identity"] /\ Begin(r, q) /\ Still
        BY <1>5, <2>1 DEF CallbackLogin
      <3>2. DOMAIN w = Fields /\ w.pc = "signIn" /\ w.user = owner[i] /\ w.identity = i
        BY <3>1, ForFacts DEF Fields
      <3>3. DOMAIN q = Fields /\ q.pc = "signIn" /\ q.user = owner[i] /\ q.identity = i
        BY <3>1, <3>2 DEF Fields
      <3>4. Sound(q)
        BY <2>1, <3>3 DEF Sound, KnowsWhom, Accountless, HasAccount, SeenAreOwn, HoldsToken, IInv, RowsHaveAccounts
      <3> QED BY <3>1, <3>4, BeginPreserves
    <2>2. CASE owner[i] = None
      <3>1. PICK p, q : /\ p = For(EmailOf[i], "byEmail") /\ q = [p EXCEPT !.identity = i]
                        /\ Begin(r, q) /\ Still
        BY <1>5, <2>2 DEF CallbackLogin
      <3>2. DOMAIN q = Fields /\ q.pc = "byEmail" /\ q.user = EmailOf[i] /\ q.identity = i
        BY <3>1, ForFacts DEF Fields
      <3>3. Sound(q)
        BY <3>2, AccessAssumption DEF Sound, KnowsWhom, Accountless, SeenAreOwn, HoldsToken
      <3> QED BY <3>1, <3>3, BeginPreserves
    <2> QED BY <2>1, <2>2
  <1>6. ASSUME NEW i \in Identities, NEW u \in Users, CallbackLink(r, u, i)
        PROVE  IInv'
    <2>1. PICK p, q : /\ p = For(u, "link") /\ q = [p EXCEPT !.identity = i]
                      /\ Begin(r, q) /\ Still /\ HasAccount(u)
      BY <1>6 DEF CallbackLink, IInv, RowsHaveAccounts
    <2>2. DOMAIN q = Fields /\ q.pc = "link" /\ q.user = u /\ q.identity = i
      BY <2>1, ForFacts DEF Fields
    <2>3. Sound(q)
      BY <2>1, <2>2 DEF Sound, KnowsWhom, HasAccount, SeenAreOwn, HoldsToken
    <2> QED BY <2>1, <2>3, BeginPreserves
  <1> QED BY <1>1, <1>2, <1>3, <1>4, <1>5, <1>6, LoginPreserves DEF Arrive

\* A request goes on to its next step, or ends.
LEMMA GotoFacts ==
  ASSUME IInv, NEW r \in Requests, NEW pc, Goto(r, pc)
  PROVE  \E q : /\ req' = [req EXCEPT ![r] = q]
                /\ DOMAIN q = Fields /\ q.pc = pc /\ q.user = req[r].user
                /\ q.session = req[r].session /\ q.token = req[r].token
                /\ q.identity = req[r].identity /\ q.found = req[r].found /\ q.seen = req[r].seen
PROOF
  <1> DEFINE q == [req[r] EXCEPT !.pc = pc]
  <1>1. DOMAIN req[r] = Fields
    BY DEF IInv, RequestsAreSound, Sound, KnowsWhom
  <1>2. /\ DOMAIN q = Fields /\ q.pc = pc /\ q.user = req[r].user
        /\ q.session = req[r].session /\ q.token = req[r].token
        /\ q.identity = req[r].identity /\ q.found = req[r].found /\ q.seen = req[r].seen
    BY <1>1 DEF Fields
  <1>3. req' = [req EXCEPT ![r] = q]
    BY DEF Goto
  <1> QED BY <1>2, <1>3

LEMMA DonePreserves ==
  ASSUME IInv, SessionsOnlyEnd, TokensOnlyClose, AccountsStay, NEW r \in Requests, Done(r)
  PROVE  RequestsAreSound'
PROOF
  <1>1. PICK q : q = NoRequest
    OBVIOUS
  <1>2. Sound(q)'
    BY <1>1, NoRequestFacts DEF Sound, KnowsWhom, Accountless, SeenAreOwn, HoldsToken
  <1> QED BY <1>1, <1>2, OneRequest DEF Done

\* Sessions that are granted, ended and run out.
LEMMA SessionStepPreserves ==
  ASSUME IInv, NEW r \in Requests, IssueSession(r)
  PROVE  IInv'
PROOF
  <1>1. HasAccount(req[r].user)
    BY DEF IssueSession, At, IInv, RequestsAreSound, Sound, KnowsWhom, Accountless
  <1>2. /\ sessions' \in Seq(Session) /\ SessionsOnlyEnd
        /\ \A s \in DOMAIN sessions' : s \in DOMAIN sessions \/ sessions'[s].user = req[r].user
    BY <1>1, GrantFacts DEF IssueSession, IInv, HasAccount
  <1>3. TokensOnlyClose /\ AccountsStay
    BY Unchanged DEF IssueSession, people
  <1>4. RequestsAreSound'
    BY <1>2, <1>3, DonePreserves DEF IssueSession
  <1>5. Typed'
    BY <1>2 DEF IssueSession, IInv, Typed, people
  <1>6. RowsHaveAccounts'
    BY <1>1, <1>2 DEF IssueSession, IInv, RowsHaveAccounts, HasAccount, SessionsOnlyEnd, people
  <1>7. ended' \subseteq DOMAIN sessions' /\ PasswordChangeEndsSessions'
    BY <1>2 DEF IssueSession, IInv, SessionsOnlyEnd, PasswordChangeEndsSessions, past
  <1>8. spent' \subseteq DOMAIN tokens' /\ SpentIsClosed'
    BY DEF IssueSession, IInv, SpentIsClosed, Redeemable, past
  <1> QED BY <1>4, <1>5, <1>6, <1>7, <1>8 DEF IInv

LEMMA RevokePreserves ==
  ASSUME IInv, NEW r \in Requests, RevokeAll(r)
  PROVE  IInv'
PROOF
  <1> DEFINE S == SessionsOf(req[r].user) \ {req[r].session}
  <1>1. /\ sessions' \in Seq(Session) /\ SessionsOnlyEnd /\ DOMAIN sessions' = DOMAIN sessions
        /\ \A s \in S : ~sessions'[s].live
    BY EndFacts DEF RevokeAll, Revoked, IInv, SessionsOf
  <1>2. TokensOnlyClose /\ AccountsStay
    BY Unchanged DEF RevokeAll, people
  <1>3. /\ req[r].seen \subseteq S
        /\ req[r].token = 0 \/ (req[r].token \in DOMAIN tokens /\ tokens[req[r].token].state # "unused")
    BY DEF RevokeAll, At, IInv, RequestsAreSound, Sound, SeenAreOwn, HoldsToken
  <1>4. RequestsAreSound'
    BY <1>1, <1>2, DonePreserves DEF RevokeAll
  <1>5. Typed'
    BY <1>1 DEF RevokeAll, IInv, Typed, people
  <1>6. RowsHaveAccounts'
    BY <1>1 DEF RevokeAll, IInv, RowsHaveAccounts, HasAccount, SessionsOnlyEnd, people
  <1>7. ended' \subseteq DOMAIN sessions' /\ PasswordChangeEndsSessions'
    BY <1>1, <1>3 DEF RevokeAll, IInv, SessionsOnlyEnd, PasswordChangeEndsSessions, SessionsOf
  <1>8. spent' \subseteq DOMAIN tokens' /\ SpentIsClosed'
    BY <1>3 DEF RevokeAll, IInv, SpentIsClosed, Redeemable
  <1> QED BY <1>4, <1>5, <1>6, <1>7, <1>8 DEF IInv

\* What ends sessions or closes tokens, or lets a code run out, and touches no request.
LEMMA ClosingPreserves ==
  ASSUME IInv, SessionsOnlyEnd, TokensOnlyClose,
         sessions' \in Seq(Session), DOMAIN sessions' = DOMAIN sessions,
         tokens' \in Seq(Token), DOMAIN tokens' = DOMAIN tokens,
         issued' \subseteq issued, UNCHANGED <<people, past>>
  PROVE  /\ Typed' /\ RowsHaveAccounts'
         /\ ended' \subseteq DOMAIN sessions' /\ PasswordChangeEndsSessions'
         /\ spent' \subseteq DOMAIN tokens' /\ SpentIsClosed'
         /\ UNCHANGED req => RequestsAreSound'
PROOF
  <1>1. Typed'
    BY DEF IInv, Typed, people
  <1>2. RowsHaveAccounts'
    BY DEF IInv, RowsHaveAccounts, HasAccount, SessionsOnlyEnd, TokensOnlyClose, people
  <1>3. ended' \subseteq DOMAIN sessions' /\ PasswordChangeEndsSessions'
    BY DEF IInv, SessionsOnlyEnd, PasswordChangeEndsSessions, past
  <1>4. spent' \subseteq DOMAIN tokens' /\ SpentIsClosed'
    BY DEF IInv, SpentIsClosed, Redeemable, TokensOnlyClose, past
  <1>5. ASSUME UNCHANGED req PROVE RequestsAreSound'
    <2>1. \A q : Sound(q) => Sound(q)'
      BY SoundStays, Unchanged DEF IInv, people
    <2> SUFFICES ASSUME NEW x \in Requests PROVE Sound(req[x])'
      BY <1>5 DEF IInv, RequestsAreSound
    <2>2. PICK q : q = req[x] /\ Sound(q)
      BY DEF IInv, RequestsAreSound
    <2> QED BY <1>5, <2>1, <2>2
  <1> QED BY <1>1, <1>2, <1>3, <1>4, <1>5

LEMMA LogoutPreserves ==
  ASSUME IInv, NEW s \in DOMAIN sessions, Logout(s) \/ LinkUrl(s)
  PROVE  IInv'
PROOF
  <1>1. CASE Logout(s)
    <2>1. sessions' \in Seq(Session) /\ SessionsOnlyEnd /\ DOMAIN sessions' = DOMAIN sessions
      BY <1>1, EndFacts DEF Logout, IInv
    <2>2. TokensOnlyClose /\ UNCHANGED <<people, past, tokens, issued, req>> /\ tokens' \in Seq(Token)
      BY <1>1, Unchanged DEF Logout, IInv, Typed
    <2> QED BY <2>1, <2>2, ClosingPreserves DEF IInv
  <1>2. CASE LinkUrl(s)
    <2>1. HasAccount(sessions[s].user)
      BY DEF IInv, RowsHaveAccounts
    <2> QED BY <1>2, <2>1 DEF LinkUrl, IInv, Typed, RowsHaveAccounts, HasAccount, RequestsAreSound,
              Sound, KnowsWhom, SeenAreOwn, HoldsToken, SessionsOf, Accountless, people, past,
              PasswordChangeEndsSessions, SpentIsClosed, Redeemable
  <1> QED BY <1>1, <1>2

LEMMA ExpirePreserves ==
  ASSUME IInv, Expire
  PROVE  IInv'
PROOF
  <1>1. UNCHANGED <<people, past, req>> /\ sessions \in Seq(Session) /\ tokens \in Seq(Token)
    BY DEF Expire, IInv, Typed
  <1>2. CASE \E s \in DOMAIN sessions : Active(s) /\ End({s}) /\ UNCHANGED <<tokens, issued>>
    <2>1. sessions' \in Seq(Session) /\ SessionsOnlyEnd /\ DOMAIN sessions' = DOMAIN sessions
      BY <1>2, EndFacts DEF IInv
    <2> QED BY <1>1, <1>2, <2>1, Unchanged, ClosingPreserves DEF IInv
  <1>3. CASE \E t \in DOMAIN tokens : /\ Redeemable(t)
                                      /\ tokens' = [tokens EXCEPT ![t].state = "expired"]
                                      /\ UNCHANGED <<sessions, issued>>
    <2>1. PICK t \in DOMAIN tokens : Redeemable(t) /\ tokens' = [tokens EXCEPT ![t].state = "expired"]
      BY <1>3
    <2> DEFINE f == [x \in DOMAIN tokens |-> IF x = t THEN "expired" ELSE tokens[x].state]
    <2>2. f \in [DOMAIN tokens -> {"unused", "used", "expired", "gone"}]
      BY Elements DEF IInv, Token
    <2>3. tokens' = [x \in DOMAIN tokens |-> [tokens[x] EXCEPT !.state = f[x]]]
      BY <2>1, Elements DEF IInv, Token
    <2>4. tokens' \in Seq(Token) /\ TokensOnlyClose /\ DOMAIN tokens' = DOMAIN tokens
      BY <2>2, <2>3, TokenStateFacts DEF IInv
    <2> QED BY <1>1, <1>3, <2>4, Unchanged, ClosingPreserves DEF IInv
  <1>4. CASE \E i \in issued : issued' = issued \ {i} /\ UNCHANGED <<sessions, tokens>>
    BY <1>1, <1>4, Unchanged, ClosingPreserves DEF IInv
  <1> QED BY <1>2, <1>3, <1>4 DEF Expire

\* A token that is spent.
LEMMA SpendFacts ==
  ASSUME IInv, NEW t \in DOMAIN tokens, tokens' = Spend(t)
  PROVE  /\ tokens' \in Seq(Token) /\ TokensOnlyClose /\ DOMAIN tokens' = DOMAIN tokens
         /\ tokens'[t].state # "unused"
PROOF
  <1> DEFINE f == [x \in DOMAIN tokens |->
                     IF x = t /\ tokens[t].state # "gone" THEN "used" ELSE tokens[x].state]
  <1>1. f \in [DOMAIN tokens -> {"unused", "used", "expired", "gone"}]
    BY Elements DEF IInv, Token
  <1>2. tokens' = [x \in DOMAIN tokens |-> [tokens[x] EXCEPT !.state = f[x]]]
    <2>1. \A x \in DOMAIN tokens : tokens[x] \in Token /\ [tokens[x] EXCEPT !.state = tokens[x].state] = tokens[x]
      BY Elements DEF IInv, Token
    <2>2. tokens \in Seq(Token) /\ tokens = [x \in DOMAIN tokens |-> tokens[x]]
      BY LenProperties DEF IInv, Typed
    <2>3. CASE tokens[t].state = "gone"
      BY <2>1, <2>2, <2>3 DEF Spend
    <2>4. CASE tokens[t].state # "gone"
      BY <2>1, <2>2, <2>4 DEF Spend
    <2> QED BY <2>3, <2>4
  <1> QED BY <1>1, <1>2, TokenStateFacts DEF IInv

\* The token of a request is marked: by a reset, which goes on, or a verification.
LEMMA SpendPreserves ==
  ASSUME IInv, NEW r \in Requests, SpendToken(r) \/ SpendVerification(r)
  PROVE  IInv'
PROOF
  <1> DEFINE t == req[r].token
  <1>1. t \in DOMAIN tokens /\ HasAccount(req[r].user)
    BY DEF SpendToken, SpendVerification, At, IInv, RequestsAreSound, Sound, HoldsToken, KnowsWhom, Accountless
  <1>2. tokens' \in Seq(Token) /\ TokensOnlyClose /\ DOMAIN tokens' = DOMAIN tokens /\ tokens'[t].state # "unused"
    BY <1>1, SpendFacts DEF SpendToken, SpendVerification
  <1>3. /\ SessionsOnlyEnd /\ AccountsStay /\ UNCHANGED <<people, sessions, issued, ended>>
        /\ sessions' \in Seq(Session)
    BY Unchanged DEF SpendToken, SpendVerification, people, past, IInv, Typed
  <1>4. Typed' /\ RowsHaveAccounts'
    BY <1>2, <1>3 DEF IInv, Typed, RowsHaveAccounts, HasAccount, TokensOnlyClose, people
  <1>5. ended' \subseteq DOMAIN sessions' /\ PasswordChangeEndsSessions'
    BY <1>3 DEF IInv, PasswordChangeEndsSessions
  <1>6. spent' \subseteq DOMAIN tokens' /\ SpentIsClosed'
    BY <1>1, <1>2 DEF SpendToken, SpendVerification, past, IInv, SpentIsClosed, Redeemable, TokensOnlyClose
  <1>7. RequestsAreSound'
    <2>1. CASE SpendVerification(r)
      BY <2>1, <1>2, <1>3, DonePreserves DEF SpendVerification
    <2>2. CASE SpendToken(r)
      <3>1. PICK q : /\ req' = [req EXCEPT ![r] = q]
                     /\ DOMAIN q = Fields /\ q.pc = "revoke" /\ q.user = req[r].user
                     /\ q.session = req[r].session /\ q.token = t /\ q.seen = req[r].seen
        BY <2>2, GotoFacts DEF SpendToken
      <3>2. req[r].seen \subseteq SessionsOf(req[r].user) \ {req[r].session}
        BY <2>2 DEF SpendToken, At, IInv, RequestsAreSound, Sound, SeenAreOwn
      <3>3. Sound(q)'
        BY <1>1, <1>2, <1>3, <3>1, <3>2
        DEF Sound, KnowsWhom, HasAccount, SeenAreOwn, SessionsOf, HoldsToken, people
      <3> QED BY <1>2, <1>3, <3>1, <3>3, OneRequest
    <2> QED BY <2>1, <2>2
  <1> QED BY <1>4, <1>5, <1>6, <1>7 DEF IInv

\* A token is made, or the unused ones of an account are deleted.
LEMMA TokenStepPreserves ==
  ASSUME IInv, NEW r \in Requests, RegisterToken(r) \/ InsertToken(r) \/ DeleteTokens(r)
  PROVE  IInv'
PROOF
  <1> DEFINE u == req[r].user
  <1>1. HasAccount(u)
    BY DEF RegisterToken, InsertToken, DeleteTokens, At, IInv, RequestsAreSound, Sound, KnowsWhom, Accountless
  <1>2. /\ SessionsOnlyEnd /\ AccountsStay /\ UNCHANGED <<people, sessions, issued, past>>
        /\ sessions' \in Seq(Session)
    BY Unchanged DEF RegisterToken, InsertToken, DeleteTokens, people, IInv, Typed
  <1>3. /\ tokens' \in Seq(Token) /\ TokensOnlyClose
        /\ \A t \in DOMAIN tokens' : t \in DOMAIN tokens \/ tokens'[t].user = u
    <2>1. CASE RegisterToken(r) \/ InsertToken(r)
      BY <2>1, <1>1, NewTokenFacts DEF RegisterToken, InsertToken, IInv, HasAccount
    <2>2. CASE DeleteTokens(r)
      <3> DEFINE Deleted(t) == tokens[t].user = u /\ tokens[t].type = "PASSWORD_RESET" /\ tokens[t].state # "used"
                 f == [t \in DOMAIN tokens |-> IF Deleted(t) THEN "gone" ELSE tokens[t].state]
      <3>1. \A t \in DOMAIN tokens : tokens[t] \in Token /\ [tokens[t] EXCEPT !.state = tokens[t].state] = tokens[t]
        BY Elements DEF IInv, Token
      <3>2. f \in [DOMAIN tokens -> {"unused", "used", "expired", "gone"}]
        BY <3>1 DEF Token
      <3>3. tokens' = [t \in DOMAIN tokens |-> IF Deleted(t) THEN [tokens[t] EXCEPT !.state = "gone"] ELSE tokens[t]]
        BY <2>2 DEF DeleteTokens
      <3>4. tokens' = [t \in DOMAIN tokens |-> [tokens[t] EXCEPT !.state = f[t]]]
        BY <3>1, <3>3
      <3> QED BY <3>2, <3>4, TokenStateFacts DEF IInv
    <2> QED BY <2>1, <2>2
  <1>4. Typed' /\ RowsHaveAccounts'
    BY <1>1, <1>2, <1>3 DEF IInv, Typed, RowsHaveAccounts, HasAccount, TokensOnlyClose, people
  <1>5. ended' \subseteq DOMAIN sessions' /\ PasswordChangeEndsSessions'
    BY <1>2 DEF IInv, PasswordChangeEndsSessions, past
  <1>6. spent' \subseteq DOMAIN tokens' /\ SpentIsClosed'
    BY <1>2, <1>3 DEF past, IInv, SpentIsClosed, Redeemable, TokensOnlyClose
  <1>7. RequestsAreSound'
    <2>1. CASE InsertToken(r)
      BY <2>1, <1>2, <1>3, DonePreserves DEF InsertToken
    <2>2. CASE RegisterToken(r) \/ DeleteTokens(r)
      <3>1. PICK pc, q :
                     /\ pc \in {"session", "mail"}
                     /\ req' = [req EXCEPT ![r] = q]
                     /\ DOMAIN q = Fields /\ q.pc = pc /\ q.user = u
        BY <2>2, GotoFacts DEF RegisterToken, DeleteTokens
      <3>2. Sound(q)'
        BY <1>1, <1>2, <3>1 DEF Sound, KnowsWhom, HasAccount, SeenAreOwn, HoldsToken, people
      <3> QED BY <1>2, <1>3, <3>1, <3>2, OneRequest
    <2> QED BY <2>1, <2>2
  <1> QED BY <1>4, <1>5, <1>6, <1>7 DEF IInv

-------------------------------------------------------------------------------
\* Steps that leave sessions and tokens alone.

\* Accounts, identities and codes, while sessions and tokens stay as they are.
LEMMA PeoplePreserves ==
  ASSUME IInv, AccountsStay, UNCHANGED <<sessions, tokens, past>>,
         account' \in [Users -> Account \cup {None}],
         owner' \in [Identities -> Users \cup {None}],
         \A i \in Identities : owner'[i] = owner[i] \/ HasAccount(owner[i])',
         \A c \in issued' : c \in issued \/ HasAccount(c[2])'
  PROVE  /\ Typed' /\ RowsHaveAccounts'
         /\ ended' \subseteq DOMAIN sessions' /\ PasswordChangeEndsSessions'
         /\ spent' \subseteq DOMAIN tokens' /\ SpentIsClosed'
         /\ SessionsOnlyEnd /\ TokensOnlyClose
PROOF
  <1>1. Typed'
    BY DEF IInv, Typed
  <1>2. RowsHaveAccounts'
    BY DEF IInv, RowsHaveAccounts, AccountsStay, HasAccount
  <1> QED BY <1>1, <1>2, Unchanged DEF IInv, PasswordChangeEndsSessions, SpentIsClosed, Redeemable, past

\* A new account.
LEMMA NewAccountFacts ==
  ASSUME IInv, NEW u \in Users, NEW pw \in Passwords \cup {Unusable}, NewAccount(u, pw)
  PROVE  /\ account' \in [Users -> Account \cup {None}] /\ AccountsStay /\ HasAccount(u)'
PROOF
  <1>1. [pw |-> pw, mfa |-> FALSE] \in Account
    BY DEF Account
  <1>2. \A a \in Account : a # None
    BY AccessAssumption DEF Account
  <1> QED BY <1>1, <1>2 DEF NewAccount, IInv, Typed, AccountsStay, HasAccount

\* A row of users that is updated stays a row.
LEMMA UpdateFacts ==
  ASSUME IInv, NEW u, HasAccount(u), NEW a \in Account, account' = [account EXCEPT ![u] = a]
  PROVE  account' \in [Users -> Account \cup {None}] /\ AccountsStay
PROOF
  <1>1. a # None
    BY AccessAssumption DEF Account
  <1> QED BY <1>1 DEF IInv, Typed, AccountsStay, HasAccount

LEMMA RegisterInsertPreserves ==
  ASSUME IInv, NEW r \in Requests, RegisterInsert(r)
  PROVE  IInv'
PROOF
  <1>0. PICK u : u = req[r].user
    OBVIOUS
  <1>1. u \in Users
    BY <1>0 DEF RegisterInsert, At, IInv, RequestsAreSound, Sound, KnowsWhom
  <1>2. UNCHANGED <<sessions, tokens, past, issued, owner>>
    BY DEF RegisterInsert
  <1>3. CASE account[u] = None
    <2>1. account' \in [Users -> Account \cup {None}] /\ AccountsStay /\ HasAccount(u)'
      BY <1>0, <1>1, <1>3, NewAccountFacts DEF RegisterInsert
    <2>2. PICK q : req' = [req EXCEPT ![r] = q] /\ DOMAIN q = Fields /\ q.pc = "confirm" /\ q.user = u
      BY <1>0, <1>3, GotoFacts DEF RegisterInsert
    <2>3. Sound(q)'
      BY <1>1, <2>1, <2>2 DEF Sound, KnowsWhom, HasAccount, SeenAreOwn, HoldsToken
    <2> QED BY <1>2, <2>1, <2>2, <2>3, PeoplePreserves, OneRequest DEF IInv, Typed
  <1>4. CASE account[u] # None
    <2>1. Done(r) /\ UNCHANGED account /\ AccountsStay
      BY <1>0, <1>4, Unchanged DEF RegisterInsert
    <2> QED BY <1>2, <2>1, PeoplePreserves, DonePreserves DEF IInv, Typed
  <1> QED BY <1>3, <1>4

LEMMA UpdatePasswordPreserves ==
  ASSUME IInv, NEW r \in Requests, UpdatePassword(r)
  PROVE  IInv'
PROOF
  <1>0. PICK u : u = req[r].user
    OBVIOUS
  <1>1. HasAccount(u) /\ Sound(req[r]) /\ req[r].pc = "update"
    BY <1>0 DEF UpdatePassword, At, IInv, RequestsAreSound, Sound, KnowsWhom, Accountless
  <1>2. PICK p \in Passwords : account' = [account EXCEPT ![u].pw = p]
    BY <1>0 DEF UpdatePassword
  <1>3. account[u] \in Account
    BY <1>1 DEF IInv, Typed, HasAccount
  <1>4. [account[u] EXCEPT !.pw = p] \in Account
    BY <1>3 DEF Account
  <1>5. account' \in [Users -> Account \cup {None}] /\ AccountsStay
    BY <1>1, <1>2, <1>4, UpdateFacts
  <1>6. UNCHANGED <<sessions, tokens, past, issued, owner>>
    BY DEF UpdatePassword
  <1>7. PICK pc, q : /\ pc = (IF req[r].token = 0 THEN "revoke" ELSE "spend")
                     /\ req' = [req EXCEPT ![r] = q]
                     /\ DOMAIN q = Fields /\ q.pc = pc /\ q.user = u
                     /\ q.session = req[r].session /\ q.token = req[r].token /\ q.seen = req[r].seen
    BY <1>0, GotoFacts DEF UpdatePassword
  <1>8. HasAccount(u)'
    BY <1>1, <1>5 DEF AccountsStay, HasAccount
  <1>9. Sound(q)'
    BY <1>0, <1>1, <1>6, <1>7, <1>8
    DEF Sound, KnowsWhom, Accountless, HasAccount, SeenAreOwn, SessionsOf, HoldsToken
  <1> QED BY <1>5, <1>6, <1>7, <1>9, PeoplePreserves, OneRequest DEF IInv, Typed

\* The second factor's flag, set and taken back.
LEMMA FlagPreserves ==
  ASSUME IInv, NEW r \in Requests, Activate(r) \/ Deactivate(r)
  PROVE  IInv'
PROOF
  <1>0. PICK u : u = req[r].user
    OBVIOUS
  <1>1. PICK on \in BOOLEAN : account' = [account EXCEPT ![u].mfa = on]
    <2>1. CASE Activate(r)
      BY <1>0, <2>1 DEF Activate, Flag
    <2>2. CASE Deactivate(r)
      BY <1>0, <2>2 DEF Deactivate, Flag
    <2> QED BY <2>1, <2>2
  <1>2. HasAccount(u)
    BY <1>0 DEF Activate, Deactivate, At, IInv, RequestsAreSound, Sound, KnowsWhom, Accountless
  <1>3. account[u] \in Account
    BY <1>2 DEF IInv, Typed, HasAccount
  <1>4. [account[u] EXCEPT !.mfa = on] \in Account
    BY <1>3 DEF Account
  <1>5. account' \in [Users -> Account \cup {None}] /\ AccountsStay
    BY <1>1, <1>2, <1>4, UpdateFacts
  <1>6. Done(r) /\ UNCHANGED <<sessions, tokens, past, issued, owner>>
    BY DEF Activate, Deactivate
  <1> QED BY <1>5, <1>6, PeoplePreserves, DonePreserves DEF IInv, Typed

\* Steps that write what no other part of the invariant speaks of.
LEMMA AsidePreserves ==
  ASSUME IInv, NEW r \in Requests,
         MarkVerified(r) \/ ClearPending(r) \/ InsertPending(r) \/ Abort(r)
  PROVE  IInv'
PROOF
  <1>1. UNCHANGED <<account, owner, sessions, tokens, issued, past>> /\ AccountsStay
    BY Unchanged DEF MarkVerified, ClearPending, InsertPending, Abort, people
  <1>2. CASE InsertPending(r) \/ Abort(r)
    BY <1>1, <1>2, PeoplePreserves, DonePreserves DEF InsertPending, Abort, IInv, Typed
  <1>3. CASE MarkVerified(r) \/ ClearPending(r)
    <2>1. PICK u : u = req[r].user
      OBVIOUS
    <2>2. /\ HasAccount(u) /\ Sound(req[r])
          /\ req[r].pc = (IF MarkVerified(r) THEN "verified" ELSE "clear")
      BY <1>3, <2>1 DEF MarkVerified, ClearPending, At, IInv, RequestsAreSound, Sound, KnowsWhom, Accountless
    <2>3. PICK q : /\ req' = [req EXCEPT ![r] = q]
                   /\ DOMAIN q = Fields /\ q.user = u /\ q.token = req[r].token
                   /\ q.pc = (IF MarkVerified(r) THEN "verifiedSpend" ELSE "enroll")
      BY <1>3, <2>1, GotoFacts DEF MarkVerified, ClearPending
    <2>4. Sound(q)
      BY <2>2, <2>3 DEF Sound, KnowsWhom, Accountless, HasAccount, SeenAreOwn, HoldsToken
    <2>5. Sound(q)'
      BY <1>1, <2>4, SoundStays, Unchanged DEF IInv
    <2> QED BY <1>1, <2>3, <2>5, PeoplePreserves, OneRequest DEF IInv, Typed
  <1> QED BY <1>2, <1>3

\* An identity that is upserted goes to the account, or stays where it is.
LEMMA UpsertFacts ==
  ASSUME IInv, NEW i \in Identities, NEW u \in Users, Upsert(i, u)
  PROVE  /\ owner' \in [Identities -> Users \cup {None}]
         /\ \A j \in Identities : owner'[j] = owner[j] \/ owner'[j] = u
         /\ \A j \in Identities : owner[j] # None => owner'[j] = owner[j]
PROOF
  BY DEF Upsert, IInv, Typed

LEMMA LinkPreserves ==
  ASSUME IInv, NEW r \in Requests, Link(r)
  PROVE  IInv'
PROOF
  <1>1. PICK u, i : u = req[r].user /\ i = req[r].identity
    OBVIOUS
  <1>2. HasAccount(u) /\ i \in Identities
    BY <1>1 DEF Link, At, IInv, RequestsAreSound, Sound, KnowsWhom, Accountless
  <1>3. UNCHANGED <<account, sessions, tokens, issued, past>> /\ AccountsStay /\ Upsert(i, u)
    BY <1>1, Unchanged DEF Link
  <1>4. PICK q : req' = [req EXCEPT ![r] = q] /\ DOMAIN q = Fields /\ q.user = u /\ q.pc = "profileLinked"
    BY <1>1, GotoFacts DEF Link
  <1>5. Sound(q)'
    BY <1>2, <1>3, <1>4 DEF Sound, KnowsWhom, HasAccount, SeenAreOwn, HoldsToken
  <1>6. /\ owner' \in [Identities -> Users \cup {None}]
        /\ \A j \in Identities : owner'[j] = owner[j] \/ HasAccount(owner[j])'
    BY <1>2, <1>3, UpsertFacts DEF HasAccount
  <1> QED BY <1>3, <1>4, <1>5, <1>6, PeoplePreserves, OneRequest DEF IInv, Typed

LEMMA FindByEmailPreserves ==
  ASSUME IInv, NEW r \in Requests, FindByEmail(r)
  PROVE  IInv'
PROOF
  <1>1. PICK p : p = req[r]
    OBVIOUS
  <1>2. DOMAIN p = Fields /\ p.user \in Users /\ p.identity \in Identities
    BY <1>1 DEF FindByEmail, At, IInv, RequestsAreSound, Sound, KnowsWhom
  <1>3. PICK found, w, q :
          /\ found = IF account[p.user] = None THEN "nothing" ELSE "email"
          /\ w = [p EXCEPT !.pc = "signIn"] /\ q = [w EXCEPT !.found = found]
    OBVIOUS
  <1>4. DOMAIN w = Fields /\ w.pc = "signIn" /\ w.user = p.user /\ w.identity = p.identity
    BY <1>2, <1>3 DEF Fields
  <1>5. DOMAIN q = Fields /\ q.pc = "signIn" /\ q.user = p.user /\ q.identity = p.identity /\ q.found = found
    BY <1>3, <1>4 DEF Fields
  <1>6. req' = [req EXCEPT ![r] = q]
    BY <1>1, <1>3 DEF FindByEmail, IInv, RequestsAreSound
  <1>7. UNCHANGED <<account, owner, sessions, tokens, issued, past>> /\ AccountsStay
    BY Unchanged DEF FindByEmail, people
  <1>8. Sound(q)
    BY <1>2, <1>3, <1>5 DEF Sound, KnowsWhom, Accountless, HasAccount, SeenAreOwn, HoldsToken
  <1>9. Sound(q)'
    BY <1>7, <1>8, SoundStays, Unchanged DEF IInv
  <1> QED BY <1>6, <1>7, <1>9, PeoplePreserves, OneRequest DEF IInv, Typed

LEMMA SignInPreserves ==
  ASSUME IInv, NEW r \in Requests, SignIn(r)
  PROVE  IInv'
PROOF
  <1>1. PICK u, i : u = req[r].user /\ i = req[r].identity
    OBVIOUS
  <1>2. u \in Users /\ i \in Identities /\ (req[r].found # "nothing" => HasAccount(u))
    BY <1>1 DEF SignIn, At, IInv, RequestsAreSound, Sound, KnowsWhom, Accountless
  <1>3. UNCHANGED <<sessions, tokens, issued, past>>
    BY DEF SignIn
  <1>4. CASE Done(r) /\ UNCHANGED <<account, owner>>
    BY <1>3, <1>4, Unchanged, PeoplePreserves, DonePreserves DEF IInv, Typed
  <1>5. CASE /\ Upsert(i, u) /\ Goto(r, "profile")
             /\ \/ account[u] = None /\ NewAccount(u, Unusable)
                \/ req[r].found # "nothing" /\ UNCHANGED account
    <2>1. account' \in [Users -> Account \cup {None}] /\ AccountsStay /\ HasAccount(u)'
      <3>1. CASE account[u] = None /\ NewAccount(u, Unusable)
        BY <1>2, <3>1, NewAccountFacts
      <3>2. CASE req[r].found # "nothing" /\ UNCHANGED account
        BY <1>2, <3>2, Unchanged DEF IInv, Typed, HasAccount
      <3> QED BY <1>5, <3>1, <3>2
    <2>2. PICK q : req' = [req EXCEPT ![r] = q] /\ DOMAIN q = Fields /\ q.user = u /\ q.pc = "profile"
      BY <1>1, <1>5, GotoFacts
    <2>3. Sound(q)'
      BY <1>2, <2>1, <2>2 DEF Sound, KnowsWhom, HasAccount, SeenAreOwn, HoldsToken
    <2>4. /\ owner' \in [Identities -> Users \cup {None}]
          /\ \A j \in Identities : owner'[j] = owner[j] \/ HasAccount(owner[j])'
      BY <1>2, <1>5, <2>1, UpsertFacts DEF HasAccount
    <2> QED BY <1>3, <2>1, <2>2, <2>3, <2>4, PeoplePreserves, OneRequest DEF IInv
  <1> QED BY <1>1, <1>4, <1>5 DEF SignIn

LEMMA ProfilePreserves ==
  ASSUME IInv, NEW r \in Requests, EnsureProfile(r)
  PROVE  IInv'
PROOF
  <1>1. PICK u : u = req[r].user
    OBVIOUS
  <1>2. HasAccount(u)
    BY <1>1 DEF EnsureProfile, At, IInv, RequestsAreSound, Sound, KnowsWhom, Accountless
  <1>3. /\ UNCHANGED <<account, owner, sessions, tokens, past>> /\ AccountsStay /\ Done(r)
        /\ issued' \subseteq issued \cup {<<"exchange", u>>}
    BY <1>1, Unchanged DEF EnsureProfile
  <1>4. \A c \in issued' : c \in issued \/ HasAccount(c[2])'
    BY <1>2, <1>3 DEF HasAccount
  <1> QED BY <1>3, <1>4, PeoplePreserves, DonePreserves DEF IInv, Typed

-------------------------------------------------------------------------------

LEMMA StepPreserves ==
  ASSUME IInv, [Next]_vars
  PROVE  IInv'
PROOF
  <1>1. ASSUME NEW r \in Requests, Proceed(r) PROVE IInv'
    BY <1>1, SessionStepPreserves, RevokePreserves, SpendPreserves, TokenStepPreserves,
       RegisterInsertPreserves, UpdatePasswordPreserves, FlagPreserves, AsidePreserves,
       LinkPreserves, FindByEmailPreserves, SignInPreserves, ProfilePreserves
    DEF Proceed
  <1>2. ASSUME NEW r \in Requests, Arrive(r) \/ Abort(r) PROVE IInv'
    BY <1>2, ArrivePreserves, AsidePreserves
  <1>3. CASE UNCHANGED vars
    BY <1>3 DEF vars, IInv, Typed, RowsHaveAccounts, HasAccount, RequestsAreSound, Sound, KnowsWhom,
            Accountless, SeenAreOwn, SessionsOf, HoldsToken, PasswordChangeEndsSessions,
            SpentIsClosed, Redeemable, people, past
  <1> QED BY <1>1, <1>2, <1>3, LogoutPreserves, ExpirePreserves DEF Next

\* The inductive invariant holds always, however requests overlap, stop and fail.
THEOREM Invariance == Spec => []IInv
PROOF
  <1>1. Init => IInv
    <2> SUFFICES ASSUME Init PROVE IInv
      OBVIOUS
    <2>1. \A r \in Requests : Sound(req[r])
      BY NoRequestFacts DEF Init, Sound, KnowsWhom, Accountless, SeenAreOwn, HoldsToken
    <2>2. <<>> \in Seq(Session) /\ <<>> \in Seq(Token) /\ DOMAIN <<>> = {}
      OBVIOUS
    <2> QED BY <2>1, <2>2 DEF Init, IInv, Typed, RowsHaveAccounts, RequestsAreSound,
                 PasswordChangeEndsSessions, SpentIsClosed
  <1> QED BY <1>1, StepPreserves, PTL DEF Spec

\* An answered password change or reset has ended the sessions it found, for good
\* (revokeAllSessions and its IS DISTINCT FROM).
THEOREM ChangedPasswordEnds == Spec => []PasswordChangeEndsSessions
PROOF
  <1>1. IInv => PasswordChangeEndsSessions
    BY DEF IInv
  <1> QED BY <1>1, Invariance, PTL

\* No request takes up a token whose use was answered, so that two uses of one token
\* always overlap (auth.ts:578-593).
THEOREM SpentForGood == Spec => UseSpendsToken
PROOF
  <1> DEFINE Fresh == \A r \in Requests :
               At(r, "idle") /\ ~At(r, "idle")' => req'[r].token \notin spent
  <1>1. ASSUME IInv, [Next]_vars PROVE [Fresh]_vars
    <2> SUFFICES ASSUME NEW r \in Requests, At(r, "idle"), ~At(r, "idle")'
                 PROVE  req'[r].token \notin spent
      OBVIOUS
    <2>0. DOMAIN req = Requests /\ 0 \notin spent
      BY <1>1, Elements DEF IInv, RequestsAreSound
    \* Only its own arrival wakes an idle request.
    <2>1. ASSUME NEW p \in Requests, Proceed(p) \/ Abort(p) PROVE req'[r] = req[r]
      <3>1. ~At(p, "idle") /\ \E q : req' = [req EXCEPT ![p] = q]
        <4>1. CASE Abort(p)
          BY <4>1 DEF Abort, At, Done
        <4>2. CASE \/ IssueSession(p) \/ RegisterInsert(p) \/ RegisterToken(p)
                   \/ UpdatePassword(p) \/ SpendToken(p) \/ RevokeAll(p)
          BY <4>2 DEF IssueSession, RegisterInsert, RegisterToken, UpdatePassword, SpendToken, RevokeAll, At, Goto, Done
        <4>3. CASE \/ DeleteTokens(p) \/ InsertToken(p) \/ MarkVerified(p) \/ SpendVerification(p)
                   \/ ClearPending(p) \/ InsertPending(p) \/ Activate(p) \/ Deactivate(p)
          BY <4>3 DEF DeleteTokens, InsertToken, MarkVerified, SpendVerification, ClearPending, InsertPending,
                      Activate, Deactivate, At, Goto, Done
        <4>4. CASE Link(p) \/ SignIn(p) \/ EnsureProfile(p)
          BY <4>4 DEF Link, SignIn, EnsureProfile, At, Goto, Done
        <4>5. CASE FindByEmail(p)
          BY <4>5 DEF FindByEmail, At
        <4> QED BY <2>1, <4>1, <4>2, <4>3, <4>4, <4>5 DEF Proceed
      <3>2. p # r
        BY <3>1
      <3> QED BY <2>0, <3>1, <3>2
    <2>2. (Expire \/ UNCHANGED vars \/ \E s \in DOMAIN sessions : Logout(s) \/ LinkUrl(s)) => req'[r] = req[r]
      BY DEF Expire, Logout, LinkUrl, vars
    <2>3. \A p \in Requests : \A q : Begin(p, q) => req'[r] = IF p = r THEN q ELSE req[r]
      BY <2>0 DEF Begin
    <2>4. req'[r] # req[r]
      BY DEF At
    <2>5. PICK p \in Requests : Arrive(p)
      BY <1>1, <2>1, <2>2, <2>4 DEF Next
    \* What it takes up is no token, or one that is open.
    <2>6. ASSUME NEW q, Begin(p, q), q.token = 0 \/ Redeemable(q.token)
          PROVE  req'[r].token \notin spent
      BY <1>1, <2>0, <2>3, <2>4, <2>6 DEF IInv, SpentIsClosed
    <2>7. ASSUME NEW u \in Users, Challenge(p, u) \/ Register(p, u) \/ ForgotPassword(p, u) \/ Exchange(p, u)
          PROVE  req'[r].token \notin spent
      BY <2>6, <2>7, ForFacts DEF Challenge, Register, ForgotPassword, Exchange
    <2>8. ASSUME NEW u \in Users, Login(p, u) PROVE req'[r].token \notin spent
      BY <2>4, <2>6, <2>8, ForFacts DEF Login
    <2>9. ASSUME NEW s \in DOMAIN sessions,
                 ChangePassword(p, s) \/ Enroll(p, s) \/ DisableMfa(p, s) \/ VerifyEnrollment(p, s)
          PROVE  req'[r].token \notin spent
      <3>1. PICK pc, a, q : /\ a = Authenticated(s, pc) /\ Begin(p, q)
                            /\ q = a \/ \E c : q = [a EXCEPT !.cred = c]
        BY <2>9 DEF ChangePassword, Enroll, DisableMfa, VerifyEnrollment
      <3>2. q.token = 0
        BY <3>1, AuthenticatedFacts DEF Fields
      <3> QED BY <2>6, <3>1, <3>2
    <2>10. ASSUME NEW t \in DOMAIN tokens, ResetPassword(p, t) \/ VerifyEmail(p, t)
           PROVE  req'[r].token \notin spent
      <3>1. PICK pc, a, w, q : /\ a = For(tokens[t].user, pc) /\ w = [a EXCEPT !.token = t]
                               /\ q = w \/ q = [w EXCEPT !.seen = SessionsOf(tokens[t].user)]
                               /\ Begin(p, q) /\ Redeemable(t)
        BY <2>10 DEF ResetPassword, VerifyEmail
      <3>2. DOMAIN w = Fields /\ w.token = t
        BY <3>1, ForFacts DEF Fields
      <3>3. q.token = t
        BY <3>1, <3>2 DEF Fields
      <3> QED BY <2>6, <3>1, <3>3
    <2>11. ASSUME NEW i \in Identities, NEW u, CallbackLogin(p, i) \/ CallbackLink(p, u, i)
           PROVE  req'[r].token \notin spent
      <3>1. PICK v, pc, a, w, q : /\ a = For(v, pc) /\ w = [a EXCEPT !.identity = i]
                                  /\ q = w \/ q = [w EXCEPT !.found = "identity"]
                                  /\ Begin(p, q)
        BY <2>11 DEF CallbackLogin, CallbackLink
      <3>2. DOMAIN w = Fields /\ w.token = 0
        BY <3>1, ForFacts DEF Fields
      <3>3. q.token = 0
        BY <3>1, <3>2 DEF Fields
      <3> QED BY <2>6, <3>1, <3>3
    <2> QED BY <2>5, <2>7, <2>8, <2>9, <2>10, <2>11 DEF Arrive
  <1> QED BY <1>1, Invariance, PTL DEF Spec, UseSpendsToken

\* A session, a token, an identity and a signed code each name an account that exists,
\* though the request that writes one looked for the account several steps before.
THEOREM NobodyIsNobody == Spec => []RowsHaveAccounts
PROOF
  <1>1. IInv => RowsHaveAccounts
    BY DEF IInv
  <1> QED BY <1>1, Invariance, PTL

\* Who owns a GitHub identity owns it for ever: the check made before the insert does
\* not matter, the insert keeps user_id.
THEOREM IdentitiesStay == Spec => IdentityNeverMoves
PROOF
  <1>1. ASSUME IInv, [Next]_vars
        PROVE  [\A i \in Identities : owner[i] # None => owner'[i] = owner[i]]_owner
    <2>1. ASSUME NEW r \in Requests, Link(r) \/ SignIn(r)
          PROVE  UNCHANGED owner \/ \A i \in Identities : owner[i] # None => owner'[i] = owner[i]
      <3>1. req[r].identity \in Identities /\ req[r].user \in Users
        BY <1>1, <2>1 DEF Link, SignIn, At, IInv, RequestsAreSound, Sound, KnowsWhom
      <3>2. UNCHANGED owner \/ Upsert(req[r].identity, req[r].user)
        BY <2>1 DEF Link, SignIn
      <3> QED BY <3>1, <3>2, <1>1, UpsertFacts
    <2>2. ASSUME NEW r \in Requests, Arrive(r)
          PROVE  UNCHANGED owner
      BY <2>2 DEF Arrive, Login, Challenge, Register, ForgotPassword, Exchange, ChangePassword, Enroll,
              VerifyEnrollment, DisableMfa, ResetPassword, VerifyEmail, CallbackLogin, CallbackLink, people
    <2>3. ASSUME NEW r \in Requests, Proceed(r), ~Link(r), ~SignIn(r)
          PROVE  UNCHANGED owner
      BY <2>3 DEF Proceed, IssueSession, RegisterInsert, RegisterToken, UpdatePassword, SpendToken,
              RevokeAll, DeleteTokens, InsertToken, MarkVerified, SpendVerification, ClearPending,
              InsertPending, Activate, Deactivate, FindByEmail, EnsureProfile, people
    <2>4. ASSUME \/ \E r \in Requests : Abort(r)
                 \/ \E s \in DOMAIN sessions : Logout(s) \/ LinkUrl(s)
                 \/ Expire \/ UNCHANGED vars
          PROVE  UNCHANGED owner
      BY <2>4 DEF Abort, Logout, LinkUrl, Expire, vars, people
    <2>5. CASE \E r \in Requests : Arrive(r) \/ Proceed(r) \/ Abort(r)
      <3>1. PICK r \in Requests : Arrive(r) \/ Proceed(r) \/ Abort(r)
        BY <2>5
      <3>2. CASE Link(r) \/ SignIn(r)
        BY <3>2, <2>1
      <3>3. CASE ~Link(r) /\ ~SignIn(r)
        BY <3>1, <3>3, <2>2, <2>3, <2>4
      <3> QED BY <3>2, <3>3
    <2> QED BY <1>1, <2>4, <2>5 DEF Next
  <1> QED BY <1>1, Invariance, PTL DEF Spec, IdentityNeverMoves

-------------------------------------------------------------------------------
\* The browser tab.

\* The token the calls carry is the one that is stored.  In the App a stored token is
\* being looked up with nobody signed in and nobody signing in, or its user is shown.
OneToken ==
  /\ authToken = storedToken
  /\ ~isLoading => asking = Nobody
  /\ page = "app" => IF isLoading THEN asking = authToken /\ user = Nobody /\ entering = {}
                                  ELSE user = authToken
  /\ \A e \in entering : DOMAIN e = {"who", "form", "here"} /\ (page = "app" => e.form # "exchange")

\* The badge, and what is fetched for it and not cancelled, is about the contract shown.
BadgeFollows ==
  /\ badge.of = contractData
  /\ \A r \in roots : DOMAIN r = {"of", "as", "here"} /\ (r.here => r.of = contractData)

BrowserInv == OneToken /\ BadgeFollows

\* What is no longer waited for keeps what it was about.
LEMMA GoneFacts ==
  ASSUME NEW flights, \A f \in flights : "here" \in DOMAIN f, NEW g \in Gone(flights)
  PROVE  \E f \in flights : /\ DOMAIN g = DOMAIN f /\ g.here = FALSE
                            /\ \A x \in DOMAIN f : x # "here" => g[x] = f[x]
BY DEF Gone

LEMMA GoneEntering ==
  ASSUME OneToken, NEW E \in SUBSET entering, NEW e \in Gone(E)
  PROVE  DOMAIN e = {"who", "form", "here"} /\ (page = "app" => e.form # "exchange")
PROOF
  <1>0. \A f \in E : "here" \in DOMAIN f
    BY DEF OneToken
  <1>1. PICK f \in E : /\ DOMAIN e = DOMAIN f
                       /\ \A x \in DOMAIN f : x # "here" => e[x] = f[x]
    BY <1>0, GoneFacts
  <1> QED BY <1>1 DEF OneToken

LEMMA FetchFollows ==
  ASSUME BadgeFollows, NEW d, NEW token, Fetch(d, token), contractData' = d
  PROVE  BadgeFollows'
PROOF
  <1>1. badge'.of = d
    BY DEF Fetch
  <1>2. ASSUME NEW r \in roots'
        PROVE  DOMAIN r = {"of", "as", "here"} /\ (r.here => r.of = d)
    <2>1. CASE r \in Gone(roots)
      <3>1. DOMAIN r = {"of", "as", "here"} /\ r.here = FALSE
        BY <2>1, GoneFacts DEF BadgeFollows
      <3> QED BY <3>1
    <2>2. CASE r \notin Gone(roots)
      <3>1. r = [of |-> d, as |-> token, here |-> TRUE]
        BY <1>2, <2>2 DEF Fetch
      <3> QED BY <3>1
    <2> QED BY <2>1, <2>2
  <1> QED BY <1>1, <1>2 DEF BadgeFollows

LEMMA RenderFollows ==
  ASSUME BadgeFollows, NEW d, NEW t, NEW deal, NEW tab, NEW token, Render(d, t, deal, tab, token)
  PROVE  BadgeFollows'
PROOF
  <1>1. CASE d = contractData
    BY <1>1 DEF Render, BadgeFollows
  <1>2. CASE d # contractData
    BY <1>2, FetchFollows DEF Render
  <1> QED BY <1>1, <1>2

\* A page that is loaded has the session that was stored, and asks for the root of the
\* contract that was.
LEMMA LoadPreserves ==
  ASSUME Load, entering' = {}, page' \in {"app", "leaving", "callback"}
  PROVE  BrowserInv'
PROOF
  <1>1. OneToken'
    BY DEF Load, OneToken, storage
  <1>2. BadgeFollows'
    <2>1. badge'.of = contractData'
      BY DEF Load
    <2>2. \A r \in roots' : r = [of |-> storedDeal, as |-> Nobody, here |-> TRUE]
      BY DEF Load
    <2> QED BY <2>1, <2>2 DEF BadgeFollows, Load
  <1> QED BY <1>1, <1>2 DEF BrowserInv

LEMMA ArrivalPreserves ==
  ASSUME BrowserInv, Reload \/ ArriveFromGithub \/ Replaced
  PROVE  BrowserInv'
PROOF
  <1>1. CASE Reload \/ Replaced
    BY <1>1, LoadPreserves DEF Reload, Replaced
  <1>2. CASE ArriveFromGithub
    <2>1. CASE entering' = {}
      BY <1>2, <2>1, LoadPreserves DEF ArriveFromGithub
    <2>2. CASE \E p \in Persons : entering' = {[who |-> p, form |-> "exchange", here |-> TRUE]}
      <3>1. OneToken'
        BY <1>2, <2>2 DEF ArriveFromGithub, Load, OneToken, storage
      <3>2. BadgeFollows'
        <4>1. badge'.of = contractData' /\ contractData' = storedDeal
          BY <1>2 DEF ArriveFromGithub, Load
        <4>2. \A r \in roots' : r = [of |-> storedDeal, as |-> Nobody, here |-> TRUE]
          BY <1>2 DEF ArriveFromGithub, Load
        <4> QED BY <4>1, <4>2 DEF BadgeFollows
      <3> QED BY <3>1, <3>2 DEF BrowserInv
    <2> QED BY <1>2, <2>1, <2>2 DEF ArriveFromGithub
  <1> QED BY <1>1, <1>2

\* The look-up of the stored token, answered or failed.
LEMMA MePreserves ==
  ASSUME BrowserInv, MeArrives
  PROVE  BrowserInv'
PROOF
  <1>1. CASE /\ UserBecomes(asking, storedDeal, storedTab, authToken)
             /\ entering' = IF user = asking THEN entering ELSE Gone(entering)
             /\ UNCHANGED <<authToken, storedToken>>
    <2>1. \A e \in entering' : DOMAIN e = {"who", "form", "here"} /\ (page = "app" => e.form # "exchange")
      BY <1>1, GoneEntering DEF BrowserInv, OneToken
    <2>2. OneToken'
      BY <1>1, <2>1 DEF MeArrives, UserBecomes, BrowserInv, OneToken
    <2>3. BadgeFollows'
      BY <1>1, RenderFollows DEF UserBecomes, BrowserInv
    <2> QED BY <2>2, <2>3 DEF BrowserInv
  <1>2. CASE /\ authToken' = Nobody /\ storedToken' = Nobody
             /\ UNCHANGED <<user, storedDeal, storedTab, workspace, mfaChallenge, posting, entering>>
    BY <1>2 DEF MeArrives, BrowserInv, OneToken, BadgeFollows, workspace
  <1> QED BY <1>1, <1>2 DEF MeArrives

\* The ways in and the way out.
LEMMA SignPreserves ==
  ASSUME BrowserInv,
         \/ \E p \in Persons, form \in {"login", "code", "register"} : Submit(p, form)
         \/ Back \/ SignOut \/ \E e \in entering : SignedIn(e) \/ NotSignedIn(e)
  PROVE  BrowserInv'
PROOF
  <1>1. ASSUME NEW p \in Persons, NEW form \in {"login", "code", "register"}, Submit(p, form)
        PROVE  BrowserInv'
    <2>1. OneToken'
      BY <1>1 DEF Submit, LoginShown, BrowserInv, OneToken, storage, session
    <2> QED BY <1>1, <2>1 DEF Submit, BrowserInv, BadgeFollows, workspace
  <1>2. CASE Back
    <2>1. \A e \in entering' : e \in entering
                               \/ e \in Gone({f \in entering : f.form = "register"})
      BY <1>2 DEF Back
    <2>2. {f \in entering : f.form = "register"} \in SUBSET entering
      OBVIOUS
    <2>3. \A e \in entering' : DOMAIN e = {"who", "form", "here"} /\ (page = "app" => e.form # "exchange")
      BY <2>1, <2>2, GoneEntering DEF BrowserInv, OneToken
    <2>4. OneToken'
      BY <1>2, <2>3 DEF Back, LoginShown, BrowserInv, OneToken, storage, session
    <2> QED BY <1>2, <2>4 DEF Back, BrowserInv, BadgeFollows, workspace
  <1>3. CASE SignOut
    <2>1. OneToken'
      BY <1>3 DEF SignOut, AppShown, UserBecomes, BrowserInv, OneToken
    <2> QED BY <1>3, <2>1, RenderFollows DEF SignOut, UserBecomes, BrowserInv
  <1>4. ASSUME NEW e \in entering, SignedIn(e)
        PROVE  BrowserInv'
    <2>1. entering \ {e} \in SUBSET entering
      OBVIOUS
    <2>2. \A f \in entering' : DOMAIN f = {"who", "form", "here"} /\ (page = "app" => f.form # "exchange")
      BY <1>4, <2>1, GoneEntering DEF SignedIn, BrowserInv, OneToken
    <2>3. OneToken'
      BY <1>4, <2>2 DEF SignedIn, UserBecomes, BrowserInv, OneToken
    <2> QED BY <1>4, <2>3, RenderFollows DEF SignedIn, UserBecomes, BrowserInv
  <1>5. ASSUME NEW e \in entering, NotSignedIn(e)
        PROVE  BrowserInv'
    <2>1. OneToken'
      BY <1>5 DEF NotSignedIn, BrowserInv, OneToken, storage, session
    <2> QED BY <1>5, <2>1 DEF NotSignedIn, BrowserInv, BadgeFollows, workspace
  <1> QED BY <1>1, <1>2, <1>3, <1>4, <1>5

\* Whatever happens in the App leaves the session alone.
LEMMA WorkPreserves ==
  ASSUME BrowserInv,
         \/ \E t \in Tabs : NavigateTo(t)
         \/ \E d \in Deals : SelectContract(d)
         \/ ResetContract \/ SubmitContract \/ Assign
         \/ \E w \in posts : PostAnswered(w) \/ PostFailed(w)
         \/ \E r \in roots : RootArrives(r)
  PROVE  BrowserInv'
PROOF
  <1>1. UNCHANGED <<storedToken, page, session, entering>>
    BY DEF NavigateTo, SelectContract, ResetContract, SubmitContract, Assign, PostAnswered,
           PostFailed, RootArrives, storage
  <1>2. OneToken'
    BY <1>1 DEF BrowserInv, OneToken, session
  <1>3. BadgeFollows'
    <2>1. CASE \/ \E t \in Tabs : NavigateTo(t)
               \/ \E d \in Deals : SelectContract(d)
      BY <2>1, RenderFollows DEF NavigateTo, SelectContract, Show, BrowserInv
    <2>2. CASE ResetContract
      BY <2>2, FetchFollows DEF ResetContract, BrowserInv
    <2>3. CASE SubmitContract \/ Assign \/ \E w \in posts : PostFailed(w)
      BY <2>3 DEF SubmitContract, Assign, PostFailed, workspace, BrowserInv, BadgeFollows
    <2>4. ASSUME NEW w \in posts, PostAnswered(w)
          PROVE  BadgeFollows'
      <3>1. UNCHANGED workspace \/ Show(w.deal, activeTab)
        BY <2>4 DEF PostAnswered
      <3>2. CASE UNCHANGED workspace
        BY <3>2 DEF workspace, BrowserInv, BadgeFollows
      <3> QED BY <3>1, <3>2, RenderFollows DEF Show, BrowserInv
    <2>5. ASSUME NEW r \in roots, RootArrives(r)
          PROVE  BadgeFollows'
      BY <2>5 DEF RootArrives, Told, BrowserInv, BadgeFollows
    <2> QED BY <2>1, <2>2, <2>3, <2>4, <2>5
  <1> QED BY <1>2, <1>3 DEF BrowserInv

LEMMA BrowserInvariance == BrowserSpec => []BrowserInv
PROOF
  <1>1. BrowserInit => BrowserInv
    BY DEF BrowserInit, BrowserInv, OneToken, BadgeFollows
  <1>2. BrowserInv /\ [BrowserNext]_browser => BrowserInv'
    <2> SUFFICES ASSUME BrowserInv, [BrowserNext]_browser PROVE BrowserInv'
      OBVIOUS
    <2>1. CASE UNCHANGED browser
      BY <2>1 DEF browser, storage, session, workspace, BrowserInv, OneToken, BadgeFollows
    <2> QED BY <2>1, ArrivalPreserves, MePreserves, SignPreserves, WorkPreserves DEF BrowserNext
  <1> QED BY <1>1, <1>2, PTL DEF BrowserSpec

\* Whoever the screen names is the one whose token the calls carry and a reload finds:
\* sign-ins, the look-up of the stored token and signing out may be answered in any
\* order, but no sign-in begins before the look-up of its page has ended.
THEOREM TabHasOneSession == BrowserSpec => []SessionIsWhole
PROOF
  <1>1. BrowserInv => SessionIsWhole
    BY DEF BrowserInv, OneToken, SessionIsWhole
  <1> QED BY <1>1, BrowserInvariance, PTL

\* A sealed root is told of the contract on the screen, however late the answer about
\* another one arrives.
THEOREM BadgeIsRight == BrowserSpec => []BadgeIsOfContract
PROOF
  <1>1. BrowserInv => BadgeIsOfContract
    BY DEF BrowserInv, BadgeFollows, BadgeIsOfContract
  <1> QED BY <1>1, BrowserInvariance, PTL
===============================================================================
