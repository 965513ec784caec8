------------------------------ MODULE Browser ------------------------------
(***************************************************************************)
(* One browser tab of the web application: AuthContext (the session), App  *)
(* (the workspace and its routing), LoginScreen, RegisterScreen and        *)
(* GithubCallback (the ways in), ContractInitialization (a posting, from   *)
(* the form to the lock) and useLedgerStatus (the badge of the footer).    *)
(*                                                                         *)
(* Every call is answered some time after it was sent, or fails, and may   *)
(* find its component unmounted, another person signed in, or the page     *)
(* being replaced.  React runs the effects of a render before the next     *)
(* answer is handled: they are part of the action that causes the render.  *)
(***************************************************************************)
EXTENDS FiniteSets, Naturals

CONSTANTS
  Persons, Clients,  \* who may sign in here, and who of them posts contracts
  Deals,             \* contracts
  MaxPosts,          \* bound: postings at work
  MaxActs,           \* bound: what the people do
  Nobody             \* null: no token, no user, no contract

ASSUME BrowserAssumption ==
  Clients \subseteq Persons /\ Nobody \notin Persons \cup Deals /\ MaxPosts \in Nat /\ MaxActs \in Nat

VARIABLES
  parties,         \* at the gateway, parties[d]: the client of a contract and its freelancer
  storedToken, storedDeal, storedTab,    \* localStorage
  page,            \* the App, the OAuth callback, or that page being replaced
  authToken,       \* utils/api.js: whose session the calls carry
  user, isLoading, asking,               \* AuthContext, and GET /auth/me of this page
  entering,        \* sign-ins in flight
  mfaChallenge,    \* LoginScreen: who has to enter a code
  contractData, activeTab,               \* App
  pendingContract, posts,                \* ContractInitialization: its state, its handlers at work
  badge, roots,    \* useLedgerStatus: its state, GET /root in flight
  acts

storage   == <<storedToken, storedDeal, storedTab>>
session   == <<authToken, user, isLoading, asking>>
workspace == <<contractData, activeTab, badge, roots>>
posting   == <<pendingContract, posts>>
browser   == <<parties, storage, page, session, entering, mfaChallenge, workspace, posting, acts>>

\* activeTab: "phases" stands for the verification, trust score and escrow tabs.
Tabs == {"contract", "contracts", "phases"}

\* Two identical calls whose component is gone are one.
Gone(flights) == {[f EXCEPT !.here = FALSE] : f \in flights}

BrowserInit ==
  /\ parties = [d \in Deals |-> {}]
  /\ storedToken = Nobody /\ storedDeal = Nobody /\ storedTab = "contract"
  /\ page = "app" /\ authToken = Nobody /\ user = Nobody /\ isLoading = FALSE /\ asking = Nobody
  /\ entering = {} /\ mfaChallenge = Nobody
  /\ contractData = Nobody /\ activeTab = "contract"
  /\ pendingContract = Nobody /\ posts = {}
  /\ badge = [kind |-> "no-contract", of |-> Nobody] /\ roots = {}
  /\ acts = 0

Act == acts < MaxActs /\ acts' = acts + 1

-------------------------------------------------------------------------------
\* Rendering.

\* The callback's path is looked at before the loading gate, and that before the user.
LoginShownAtOnce == page = "app" /\ user = Nobody  \* no loading gate
LoginShown == page = "app" /\ ~isLoading /\ user = Nobody
AppShown   == page = "app" /\ ~isLoading /\ user # Nobody
FormShown  == AppShown /\ activeTab = "contract" /\ user \in Clients

\* The effect of useLedgerStatus on another contract: the fetch under way is
\* cancelled and another is sent, with the token of the moment.
Fetch(d, token) ==
  /\ badge' = [kind |-> IF d = Nobody THEN "no-contract" ELSE "loading", of |-> d]
  /\ roots' = Gone(roots) \cup IF d = Nobody THEN {} ELSE {[of |-> d, as |-> token, here |-> TRUE]}

\* App renders contract d and tab t over a storage that holds deal and tab: its
\* effects write what changed.
Render(d, t, deal, tab, token) ==
  /\ contractData' = d /\ activeTab' = t
  /\ storedDeal' = IF d = contractData THEN deal ELSE d
  /\ storedTab'  = IF t = activeTab THEN tab ELSE t
  /\ IF d = contractData THEN UNCHANGED <<badge, roots>> ELSE Fetch(d, token)

Show(d, t) == Render(d, t, storedDeal, storedTab, authToken)

\* Another user: the workspace is reset if there was one before, the screens of the
\* user before, or LoginScreen, are unmounted.
UserBecomes(p, deal, tab, token) ==
  /\ user' = p
  /\ IF user \notin {Nobody, p} THEN Render(Nobody, "contract", deal, tab, token)
                                ELSE Render(contractData, activeTab, deal, tab, token)
  /\ IF user = p THEN UNCHANGED <<mfaChallenge, posting>>
     ELSE mfaChallenge' = Nobody /\ pendingContract' = Nobody /\ posts' = Gone(posts)

-------------------------------------------------------------------------------
\* AuthContext.

\* The page is loaded, by hand, from GitHub (whose code is good for p, or is an
\* error), or by window.location.replace.  The effects of App run before the one of
\* AuthProvider that restores the token: the badge is asked for without it.
Load ==
  /\ UNCHANGED <<parties, storage>>
  /\ authToken' = storedToken /\ asking' = storedToken /\ isLoading' = (storedToken # Nobody)
  /\ user' = Nobody /\ mfaChallenge' = Nobody
  /\ contractData' = storedDeal /\ activeTab' = storedTab
  /\ pendingContract' = Nobody /\ posts' = {}
  /\ badge' = [kind |-> IF storedDeal = Nobody THEN "no-contract" ELSE "loading", of |-> storedDeal]
  /\ roots' = IF storedDeal = Nobody THEN {} ELSE {[of |-> storedDeal, as |-> Nobody, here |-> TRUE]}

Reload == Act /\ page' = "app" /\ entering' = {} /\ Load

ArriveFromGithub ==
  /\ Act /\ page' = "callback"
  /\ \/ entering' = {}
     \/ \E p \in Persons : entering' = {[who |-> p, form |-> "exchange", here |-> TRUE]}
  /\ Load

Replaced == page = "leaving" /\ page' = "app" /\ entering' = {} /\ Load /\ UNCHANGED acts

\* GET /auth/me: the user of the token that was stored, or clearStoredToken, which
\* leaves the stored workspace where it is.
MeArrives ==
  /\ asking # Nobody
  /\ asking' = Nobody /\ isLoading' = FALSE
  /\ \/ /\ UserBecomes(asking, storedDeal, storedTab, authToken)
        /\ entering' = IF user = asking THEN entering ELSE Gone(entering)
        /\ UNCHANGED <<authToken, storedToken>>
     \/ /\ authToken' = Nobody /\ storedToken' = Nobody
        /\ UNCHANGED <<user, storedDeal, storedTab, workspace, mfaChallenge, posting, entering>>
  /\ UNCHANGED <<parties, page, acts>>

Submitting(forms) == \E e \in entering : e.here /\ e.form \in forms

\* LoginScreen, its code prompt, and RegisterScreen inside it.
Submit(p, form) ==
  /\ Act /\ LoginShown
  /\ CASE form = "login"    -> mfaChallenge = Nobody /\ ~Submitting({"login", "code"})
       [] form = "code"     -> mfaChallenge = p      /\ ~Submitting({"login", "code"})
       [] form = "register" -> ~Submitting({"register"})
  /\ entering' = entering \cup {[who |-> p, form |-> form, here |-> TRUE]}
  /\ UNCHANGED <<parties, storage, page, session, mfaChallenge, workspace, posting>>

\* handleBackToLogin; or RegisterScreen is left, whatever it has sent.
Back ==
  /\ Act /\ LoginShown
  /\ \/ mfaChallenge # Nobody /\ mfaChallenge' = Nobody /\ UNCHANGED entering
     \/ /\ Submitting({"register"})
        /\ entering' = {e \in entering : e.form # "register"}
                         \cup Gone({e \in entering : e.form = "register"})
        /\ UNCHANGED mfaChallenge
  /\ UNCHANGED <<parties, storage, page, session, workspace, posting>>

\* login, completeMfaChallenge, register and completeGithubLogin, answered.
SignedIn(e) ==
  /\ authToken' = e.who /\ storedToken' = e.who
  /\ UserBecomes(e.who, Nobody, "contract", e.who)
  /\ entering' = IF user = e.who THEN entering \ {e} ELSE Gone(entering \ {e})
  /\ page' = IF e.form = "exchange" THEN "leaving" ELSE page
  /\ UNCHANGED <<parties, isLoading, asking, acts>>

\* The login asks for a code, or the call fails.
NotSignedIn(e) ==
  /\ entering' = entering \ {e}
  /\ \/ e.form = "login" /\ mfaChallenge' = IF e.here THEN e.who ELSE mfaChallenge
     \/ UNCHANGED mfaChallenge
  /\ UNCHANGED <<parties, storage, page, session, workspace, posting, acts>>

SignOut ==
  /\ Act /\ AppShown
  /\ authToken' = Nobody /\ storedToken' = Nobody
  /\ UserBecomes(Nobody, Nobody, "contract", Nobody)
  /\ UNCHANGED <<parties, page, isLoading, asking, entering>>

-------------------------------------------------------------------------------
\* App.

\* ContractInitialization is unmounted with its tab, its handlers go on.
Unmounted == pendingContract' = Nobody /\ posts' = Gone(posts)

\* navItems: a disabled tab does not navigate.
NavigateTo(t) ==
  /\ Act /\ AppShown /\ t # activeTab
  /\ t = "contracts" => user \in Clients
  /\ t = "phases" => contractData # Nobody
  /\ Show(contractData, t) /\ Unmounted
  /\ UNCHANGED <<parties, storedToken, page, session, entering, mfaChallenge>>

\* handleAssignmentSelected: from FreelancerAssignments, or from ClientContracts.
SelectContract(d) ==
  /\ Act /\ AppShown
  /\ activeTab = IF user \in Clients THEN "contracts" ELSE "contract"
  /\ user \in parties[d]
  /\ Show(d, "phases") /\ Unmounted
  /\ UNCHANGED <<parties, storedToken, page, session, entering, mfaChallenge>>

\* handleResetContract, confirmed: the form stays if it is the one shown.
ResetContract ==
  /\ Act /\ AppShown /\ contractData # Nobody
  /\ contractData' = Nobody /\ activeTab' = "contract"
  /\ storedDeal' = Nobody /\ storedTab' = "contract"
  /\ Fetch(Nobody, authToken)
  /\ IF activeTab = "contract" THEN UNCHANGED posting ELSE Unmounted
  /\ UNCHANGED <<parties, storedToken, page, session, entering, mfaChallenge>>

-------------------------------------------------------------------------------
\* ContractInitialization.

Working == \E w \in posts : w.here

\* handleSubmit, from the form.
SubmitContract ==
  /\ Act /\ FormShown
  /\ contractData = Nobody /\ pendingContract = Nobody /\ ~Working
  /\ Cardinality(posts) < MaxPosts
  /\ posts' = posts \cup {[step |-> "initialize", deal |-> Nobody, as |-> authToken, here |-> TRUE]}
  /\ UNCHANGED <<parties, storage, page, session, entering, mfaChallenge, workspace, pendingContract>>

\* handleAssign, from the list of candidates.
Assign ==
  /\ Act /\ FormShown
  /\ contractData = Nobody /\ pendingContract # Nobody /\ ~Working
  /\ Cardinality(posts) < MaxPosts
  /\ posts' = posts \cup {[step |-> "assign", deal |-> pendingContract, as |-> authToken, here |-> TRUE]}
  /\ UNCHANGED <<parties, storage, page, session, entering, mfaChallenge, workspace, pendingContract>>

\* The next call carries the token of the moment it is sent.
Onward(w, step, d) ==
  posts' = (posts \ {w}) \cup {[step |-> step, deal |-> d, as |-> authToken, here |-> w.here]}

\* The gateway does what the client of the contract asks, once.
PostAnswered(w) ==
  /\ \/ /\ w.step = "initialize" /\ w.as \in Clients
        /\ \E d \in Deals : /\ parties[d] = {} /\ parties' = [parties EXCEPT ![d] = {w.as}]
                            /\ Onward(w, "match", d)
        /\ UNCHANGED <<storedDeal, storedTab, workspace, pendingContract>>
     \/ /\ w.step = "match" /\ w.as \in parties[w.deal]
        /\ posts' = posts \ {w}
        /\ pendingContract' = IF w.here THEN w.deal ELSE pendingContract
        /\ UNCHANGED <<parties, storedDeal, storedTab, workspace>>
     \/ /\ w.step = "assign" /\ parties[w.deal] = {w.as}
        /\ \E f \in Persons \ Clients : parties' = [parties EXCEPT ![w.deal] = @ \cup {f}]
        /\ Onward(w, "generate-tests", w.deal)
        /\ UNCHANGED <<storedDeal, storedTab, workspace, pendingContract>>
     \/ /\ w.step = "generate-tests" /\ w.as \in parties[w.deal] \cap Clients
        /\ Onward(w, "lock", w.deal)
        /\ UNCHANGED <<parties, storedDeal, storedTab, workspace, pendingContract>>
     \/ /\ w.step = "lock" /\ w.as \in parties[w.deal] \cap Clients
        /\ posts' = posts \ {w}
        /\ Show(w.deal, activeTab)
        /\ UNCHANGED <<parties, pendingContract>>
  /\ UNCHANGED <<storedToken, page, session, entering, mfaChallenge, acts>>

\* The call fails, and so does what was to follow it.
PostFailed(w) ==
  /\ posts' = posts \ {w}
  /\ UNCHANGED <<parties, storage, page, session, entering, mfaChallenge, workspace, pendingContract, acts>>

-------------------------------------------------------------------------------
\* useLedgerStatus: the root, signed or not, none yet, or no answer to go by.

ToldAnyway(r) == TRUE  \* `cancelled` not looked at
Told(r) == r.here

RootArrives(r) ==
  /\ roots' = roots \ {r}
  /\ \E kind \in {"unknown"} \cup IF r.as = Nobody THEN {} ELSE {"ok", "no-root", "no-contract"} :
       badge' = IF Told(r) THEN [kind |-> kind, of |-> r.of] ELSE badge
  /\ UNCHANGED <<parties, storage, page, session, entering, mfaChallenge, contractData, activeTab,
                 posting, acts>>

BrowserNext ==
  \/ Reload \/ ArriveFromGithub \/ Replaced \/ MeArrives
  \/ \E p \in Persons, form \in {"login", "code", "register"} : Submit(p, form)
  \/ Back \/ SignOut
  \/ \E e \in entering : SignedIn(e) \/ NotSignedIn(e)
  \/ \E t \in Tabs : NavigateTo(t)
  \/ \E d \in Deals : SelectContract(d)
  \/ ResetContract \/ SubmitContract \/ Assign
  \/ \E w \in posts : PostAnswered(w) \/ PostFailed(w)
  \/ \E r \in roots : RootArrives(r)

BrowserSpec == BrowserInit /\ [][BrowserNext]_browser

-------------------------------------------------------------------------------
\* Properties.

\* Outside the page that GitHub redirects to, whoever the screen names is the one
\* whose token the calls carry and whose token survives a reload, whatever answers
\* arrive late and in whatever order (AuthContext.jsx:33-58, App.jsx:208-225: no
\* sign-in can be submitted while the stored token is being looked up).
SessionIsWhole ==
  page = "app" /\ ~isLoading => user = authToken /\ authToken = storedToken

\* What the footer says of a sealed root, it says of the contract on the screen, even
\* when the answer about another one arrives last (useLedgerStatus.js:27-68).
BadgeIsOfContract ==
  badge.kind \in {"ok", "no-root"} => badge.of = contractData
=============================================================================
