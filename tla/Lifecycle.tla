------------------------------ MODULE Lifecycle ------------------------------
(***************************************************************************)
(* A contract from its creation to its being ACTIVE: the client's and the  *)
(* freelancers' requests to the gateway (routes/contracts-lifecycle.ts)    *)
(* and the provisioning of the contract's repository by the settlement     *)
(* worker (settlement-worker/src/worker.ts, github-provisioner-client.ts). *)
(*                                                                         *)
(* A request may stop at any await; it holds no lock. A runner is a task   *)
(* of a settlement worker: the handler of an ASSIGNMENT_* message or one   *)
(* row of a provisioning sweep; a sweep overlaps the handlers and the next *)
(* sweep, in one process and in two. Messages come at least once.          *)
(* All contracts have the same title, so that their repositories compete   *)
(* for the same numbered names.                                            *)
(***************************************************************************)
EXTENDS Integers, Sequences, FiniteSets

CONSTANTS
  Contracts, Freelancers,
  Unlinked,      \* freelancers with no GitHub login on file
  Fibers,        \* gateway requests served at the same time
  Runners,       \* tasks of settlement workers
  None,
  MaxAttempts,   \* PROVISIONING_MAX_ATTEMPTS
  NameTries,     \* REPO_NAME_MAX_ATTEMPTS
  MaxRequests,   \* bound: requests sent to the gateway
  MaxFaults      \* bound: requests cut short, runners that die, calls and statements that fail

ASSUME ConstantsAssumption ==
  /\ Unlinked \subseteq Freelancers /\ IsFiniteSet(Contracts)
  /\ None \notin Contracts \cup Freelancers
  /\ MaxAttempts \in Nat \ {0} /\ NameTries \in Nat \ {0}
  /\ MaxRequests \in Nat /\ MaxFaults \in Nat

VARIABLES
  contract,      \* contracts: status ("absent" before creation), freelancer_id, linked repository
  assignments,   \* contract_assignments in the order of assignment_id
  chain,         \* the ledger of a contract: <<action type, assignment_id or 0>>
  mail,          \* ASSIGNMENT_ACCEPTED and ASSIGNMENT_REJECTED messages not yet acknowledged
  notices,       \* notifications of the clients, by type and contract
  row,           \* repo_provisioning of a contract, None before it is inserted
  github,        \* repositories of the organisation, by name
  invalid,       \* freelancers with auth_providers.token_valid = FALSE
  enabled,       \* provisioningEnabled: GITHUB_ORG and GITHUB_TOKEN are set
  refused,       \* contracts that were refused a provisioning row: a line in the log
  req, run,      \* locals of the requests and of the runners
  left, faults

gateway  == <<contract, assignments, chain>>
external == <<github, invalid, enabled, refused>>
vars == <<gateway, mail, notices, row, external, req, run, left, faults>>

Names  == 1..(Cardinality(Contracts) + NameTries)
NoRepo == 0
Foreign == -1   \* a repository outside the organisation

\* The records of repo_provisioning and of the organisation's repositories.
Statuses == {"PENDING", "REPO_CREATED", "COLLABORATOR_ADDED", "COMPLETE", "FAILED"}
RowRecords ==
  [name : Nat, f : Freelancers, repo : Nat, collab : {"PENDING", "INVITED", "FAILED"},
   hook : {"PENDING", "ATTACHED"}, attempts : Nat, status : Statuses]
Repositories == [owner : Contracts, members : SUBSET Freelancers, hooked : BOOLEAN]
ASSUME NoneIsNoRecord == None \notin RowRecords \cup Repositories

Idle   == [pc |-> "idle", c |-> None, f |-> None, id |-> 0, anchor |-> <<>>]
Asleep == [pc |-> "idle", c |-> None, f |-> None, event |-> <<>>, snap |-> None,
           num |-> 0, tries |-> 1, terminal |-> FALSE]

InitWith(status, budget, on) ==
  /\ contract = [c \in Contracts |->
                   [status |-> status[c], freelancer |-> None, repo |-> NoRepo]]
  /\ assignments = <<>>
  /\ chain = [c \in Contracts |-> <<>>]
  /\ mail = {} /\ notices = {}
  /\ row = [c \in Contracts |-> None]
  /\ github = [n \in Names |-> None] /\ invalid = {}
  /\ enabled = on /\ refused = {}
  /\ req = [r \in Fibers |-> Idle]
  /\ run = [w \in Runners |-> Asleep]
  /\ left = budget /\ faults = 0

Init == \E on \in BOOLEAN : InitWith([c \in Contracts |-> "absent"], MaxRequests, on)

-------------------------------------------------------------------------------
\* What the gateway's queries find.

Ids(c)    == {i \in DOMAIN assignments : assignments[i].contract = c}
With(c, status) == {i \in Ids(c) : assignments[i].status = status}

\* SELECT ... FROM merkle_ledger ORDER BY ledger_id ASC LIMIT 1: H0, or nothing.
Genesis(c) == IF chain[c] = <<>> THEN <<>> ELSE Head(chain[c])

\* The newest of some decisions, 0 if there are none.
Latest(S) == IF S = {} THEN 0 ELSE CHOOSE i \in S : \A j \in S : j <= i

Append1(c, type, id) == chain' = [chain EXCEPT ![c] = Append(@, <<type, id>>)]

\* A request takes its next step, or ends.
Goto(r, pc) == req' = [req EXCEPT ![r].pc = pc]
Close(r)    == req' = [req EXCEPT ![r] = Idle]
At(r, pc)   == req[r].pc = pc

\* A request arrives, past the guard on its route.
Arrive == left > 0 /\ left' = left - 1
Open(r, pc, c, f) ==
  /\ At(r, "idle") /\ Arrive
  /\ req' = [req EXCEPT ![r] = [Idle EXCEPT !.pc = pc, !.c = c, !.f = f]]

worker == <<notices, row, external, run>>

-------------------------------------------------------------------------------
\* The client's short requests, each one statement or transaction of effect.

\* POST /api/contracts/initialize: a fresh id, inserted as a DRAFT.
Initialize(c) ==
  /\ Arrive
  /\ contract[c].status = "absent"
  /\ contract' = [contract EXCEPT ![c].status = "DRAFT"]
  /\ UNCHANGED <<assignments, chain, mail, req, faults, worker>>

\* POST /lock: the terms become an entry of the ledger; the row keeps its status.
Lock(c) ==
  /\ Arrive
  /\ contract[c].status # "absent"
  /\ Append1(c, "LOCKED", 0)
  /\ UNCHANGED <<contract, assignments, mail, req, faults, worker>>

\* POST /generate-tests: an unavailable service is answered with 503 or a stub
\* and leaves nothing behind.
GenerateTests(c) ==
  /\ Arrive
  /\ contract[c].status # "absent"
  /\ Append1(c, "TESTS", 0)
  /\ UNCHANGED <<contract, assignments, mail, req, faults, worker>>

\* PATCH /github-repo: another repository is linked; the entry may fail after it.
LinkRepo(c) ==
  /\ Arrive
  /\ contract[c].status # "absent"
  /\ contract' = [contract EXCEPT ![c].repo = Foreign]
  /\ \/ Append1(c, "LINKED", 0) /\ UNCHANGED faults
     \/ faults < MaxFaults /\ faults' = faults + 1 /\ UNCHANGED chain
  /\ UNCHANGED <<assignments, mail, req, worker>>

-------------------------------------------------------------------------------
\* POST /assign.

\* SELECT ... status = 'ACCEPTED': a contract with an accepted assignment is
\* refused with 409.
Assign(r, c, f) ==
  /\ contract[c].status # "absent"
  /\ IF With(c, "ACCEPTED") = {}
       THEN Open(r, "anchor", c, f)
       ELSE At(r, "idle") /\ Arrive /\ UNCHANGED req
  /\ UNCHANGED <<gateway, mail, faults, worker>>

ReadGenesis(r) ==
  /\ At(r, "anchor")
  /\ req' = [req EXCEPT ![r].pc = "overwrite", ![r].anchor = Genesis(req[r].c)]
  /\ UNCHANGED <<gateway, mail, left, faults, worker>>

Overwrite(r) ==
  /\ At(r, "overwrite")
  /\ contract' = [contract EXCEPT ![req[r].c].freelancer = req[r].f]
  /\ Goto(r, "insert")
  /\ UNCHANGED <<assignments, chain, mail, left, faults, worker>>

\* idx_contract_assignments_one_pending refuses a second open decision: 409, and
\* what Overwrite wrote stays.
Insert(r) ==
  /\ At(r, "insert")
  /\ IF With(req[r].c, "PENDING") = {}
       THEN /\ assignments' = Append(assignments,
                 [contract |-> req[r].c, freelancer |-> req[r].f,
                  status |-> "PENDING", anchor |-> req[r].anchor])
            /\ req' = [req EXCEPT ![r].pc = "assigned", ![r].id = Len(assignments) + 1]
       ELSE Close(r) /\ UNCHANGED assignments
  /\ UNCHANGED <<contract, chain, mail, left, faults, worker>>

\* ASSIGNMENT_PENDING goes to the outbox with the entry; nothing subscribes to it.
RecordAssigned(r) ==
  /\ At(r, "assigned")
  /\ Append1(req[r].c, "ASSIGNED", req[r].id)
  /\ Close(r)
  /\ UNCHANGED <<contract, assignments, mail, left, faults, worker>>

-------------------------------------------------------------------------------
\* POST /assignment/accept and /assignment/reject.

\* freelancerContractParty: contracts.freelancer_id is the caller.
Decide(r, c, f) ==
  /\ contract[c].freelancer = f
  /\ \E pc \in {"accept", "reject"} : Open(r, pc, c, f)
  /\ UNCHANGED <<gateway, mail, faults, worker>>

\* An UPDATE with the status left out of its WHERE clause.
UpdateAnyStatus(r, status, next) ==
  LET own == {i \in Ids(req[r].c) : assignments[i].freelancer = req[r].f}
  IN  IF own = {}
        THEN Close(r) /\ UNCHANGED assignments
        ELSE LET i == Latest(own)
             IN  /\ assignments' = [assignments EXCEPT ![i].status = status]
                 /\ req' = [req EXCEPT ![r].pc = next, ![r].id = i]

\* UPDATE ... WHERE freelancer_id = caller AND status = 'PENDING'; no row is a 409.
Update(r, status, next) ==
  LET open == {i \in With(req[r].c, "PENDING") : assignments[i].freelancer = req[r].f}
  IN  IF open = {}
        THEN Close(r) /\ UNCHANGED assignments
        ELSE LET i == CHOOSE i \in open : TRUE
             IN  /\ assignments' = [assignments EXCEPT ![i].status = status]
                 /\ req' = [req EXCEPT ![r].pc = next, ![r].id = i]

Accept(r) ==
  /\ At(r, "accept")
  /\ Update(r, "ACCEPTED", "backfill")
  /\ UNCHANGED <<contract, chain, mail, left, faults, worker>>

\* A missing anchor is looked up again, best effort.
Backfill(r) ==
  /\ At(r, "backfill")
  /\ assignments' = IF assignments[req[r].id].anchor = <<>>
                      THEN [assignments EXCEPT ![req[r].id].anchor = Genesis(req[r].c)]
                      ELSE assignments
  /\ Goto(r, "accepted")
  /\ UNCHANGED <<contract, chain, mail, left, faults, worker>>

Reject(r) ==
  /\ At(r, "reject")
  /\ Update(r, "REJECTED", "clear")
  /\ UNCHANGED <<contract, chain, mail, left, faults, worker>>

\* UPDATE contracts SET freelancer_id = NULL, whoever it names by now.
Clear(r) ==
  /\ At(r, "clear")
  /\ contract' = [contract EXCEPT ![req[r].c].freelancer = None]
  /\ Goto(r, "rejected")
  /\ UNCHANGED <<assignments, chain, mail, left, faults, worker>>

\* appendWithOutbox: the entry and the event of a decision in one transaction.
RecordDecision(r) ==
  /\ req[r].pc \in {"accepted", "rejected"}
  /\ LET type == IF At(r, "accepted") THEN "ACCEPTED" ELSE "REJECTED"
     IN  /\ Append1(req[r].c, type, req[r].id)
         /\ mail' = mail \cup {<<type, req[r].c, req[r].f, req[r].id>>}
  /\ Close(r)
  /\ UNCHANGED <<contract, assignments, left, faults, worker>>

\* A statement fails, or the gateway dies: the request ends with what it has done.
Abort(r) ==
  /\ ~At(r, "idle") /\ faults < MaxFaults
  /\ faults' = faults + 1
  /\ Close(r)
  /\ UNCHANGED <<gateway, mail, left, worker>>

-------------------------------------------------------------------------------
\* The runners of the settlement worker.

still == <<gateway, req, left>>

On(w, pc)     == run[w].pc = pc
Step(w, pc)   == run' = [run EXCEPT ![w].pc = pc]
RowOf(w)      == row[run[w].c]
Put(w, r)     == row' = [row EXCEPT ![run[w].c] = r]
Tell(type, c) == notices' = notices \cup {<<type, c>>}

\* The handler of a message ends and the message is acknowledged: what an attempt
\* throws is logged and swallowed.
Done(w) ==
  /\ run' = [run EXCEPT ![w] = Asleep]
  /\ mail' = mail \ {run[w].event}

\* subscribeAssignmentAccepted: the client is told whether or not provisioning is
\* enabled; a freelancer with no GitHub login gets a row that is FAILED at once.
TakeAccepted(w) ==
  /\ On(w, "idle")
  /\ \E e \in {m \in mail : m[1] = "ACCEPTED"} :
       /\ Tell("ACCEPTED", e[2])
       /\ IF enabled
            THEN /\ run' = [run EXCEPT ![w] =
                      [Asleep EXCEPT !.c = e[2], !.f = e[3], !.event = e,
                         !.terminal = e[3] \in Unlinked,
                         !.pc = IF e[3] \in Unlinked THEN "count" ELSE "select"]]
                 /\ UNCHANGED mail
            ELSE mail' = mail \ {e} /\ UNCHANGED run
  /\ UNCHANGED <<still, row, external, faults>>

TakeRejected(w) ==
  /\ On(w, "idle")
  /\ \E e \in {m \in mail : m[1] = "REJECTED"} :
       Tell("REJECTED", e[2]) /\ mail' = mail \ {e}
  /\ UNCHANGED <<still, row, external, run, faults>>

\* reconcileStuckProvisioning: its SELECT, for one of the rows it returns ...
\* (The first reading leaves out the rows a crash left at PROVISIONING or PARTIAL.)
UnfinishedPending(c) == row[c] # None /\ row[c].status = "PENDING"
Unfinished(c) == row[c] # None /\ row[c].status \notin {"COMPLETE", "FAILED"}
SweepSelect(w, c) ==
  /\ enabled /\ On(w, "idle") /\ Unfinished(c)
  /\ run' = [run EXCEPT ![w] = [Asleep EXCEPT !.pc = "judge", !.c = c,
                                  !.f = row[c].f, !.snap = row[c]]]
  /\ UNCHANGED <<still, mail, notices, row, external, faults>>

\* ... and what it does about that row when its turn comes: give up at the cap,
\* else try again.
Exhausted(n) == n >= MaxAttempts
Judge(w) ==
  /\ On(w, "judge")
  /\ IF Exhausted(run[w].snap.attempts)
       THEN Put(w, [RowOf(w) EXCEPT !.status = "FAILED"]) /\ Done(w)
       ELSE Step(w, "select") /\ UNCHANGED <<row, mail>>
  /\ UNCHANGED <<still, notices, external, faults>>

\* attemptProvisioning reads the row; with none yet it inserts one first.
Select(w) ==
  /\ On(w, "select")
  /\ Step(w, IF RowOf(w) = None THEN "count" ELSE "start")
  /\ UNCHANGED <<still, mail, notices, row, external, faults>>

\* insertProvisioningRow: the next number of the name, from a count of the rows ...
Number(n, tries) == n + tries
Count(w) ==
  /\ On(w, "count")
  /\ run' = [run EXCEPT ![w].pc = "insert",
               ![w].num = Number(Cardinality({c \in Contracts : row[c] # None}), run[w].tries)]
  /\ UNCHANGED <<still, mail, notices, row, external, faults>>

\* ... and the insert: a no-op for a contract that has a row, refused when the name
\* is taken (repo_provisioning_repo_name_key), which is tried again with a new count.
NewRow(w) ==
  [name |-> run[w].num, f |-> run[w].f, repo |-> NoRepo, collab |-> "PENDING",
   hook |-> "PENDING", attempts |-> 0,
   status |-> IF run[w].terminal THEN "FAILED" ELSE "PENDING"]
NeverTaken(n) == FALSE   \* were repo_name not unique
Taken(n) == \E c \in Contracts : row[c] # None /\ row[c].name = n
AfterInsert(w) ==
  IF run[w].terminal THEN Done(w) ELSE Step(w, "start") /\ UNCHANGED mail
InsertRow(w) ==
  /\ On(w, "insert")
  /\ IF RowOf(w) = None /\ ~Taken(run[w].num)
       THEN Put(w, NewRow(w)) /\ AfterInsert(w)
       ELSE /\ UNCHANGED row
            /\ IF RowOf(w) = None /\ run[w].tries < NameTries
                 THEN /\ run' = [run EXCEPT ![w].pc = "count", ![w].tries = @ + 1]
                      /\ UNCHANGED mail
                 ELSE AfterInsert(w)
  /\ refused' = IF RowOf(w) = None /\ Taken(run[w].num) /\ run[w].tries = NameTries
                 THEN refused \cup {run[w].c} ELSE refused
  /\ UNCHANGED <<still, notices, github, invalid, enabled, faults>>

\* The snapshot the attempt works from, and the attempt counted.
NextStep(snap) ==
  CASE snap.repo = NoRepo -> "create"
    [] snap.repo # NoRepo /\ snap.collab # "INVITED" -> "invite"
    [] snap.repo # NoRepo /\ snap.collab = "INVITED" /\ snap.hook # "ATTACHED" -> "hook"
    [] OTHER -> "end"
Start(w) ==
  /\ On(w, "start")
  /\ IF Unfinished(run[w].c)
       THEN /\ Put(w, [RowOf(w) EXCEPT !.attempts = @ + 1])
            /\ run' = [run EXCEPT ![w].snap = RowOf(w), ![w].pc = NextStep(RowOf(w))]
            /\ UNCHANGED mail
       ELSE Done(w) /\ UNCHANGED row
  /\ UNCHANGED <<still, notices, external, faults>>

\* The snapshot had every step done already.
Nothing(w) ==
  /\ On(w, "end")
  /\ Done(w)
  /\ UNCHANGED <<still, notices, row, external, faults>>

-------------------------------------------------------------------------------
\* The three calls to GitHub and the updates that follow them. Every call may fail,
\* before or after it has taken effect: the error is recorded and the attempt ends.

Fails(w) ==
  /\ faults < MaxFaults /\ faults' = faults + 1
  /\ Done(w)
  /\ UNCHANGED <<still, notices, row>>

\* So may every statement of a task: it is logged, and the message is acknowledged. A
\* contract that has no row by then is left without one, for no sweep selects it.
InStatement(w) ==
  \/ run[w].pc \in {"select", "count", "insert", "start", "saveRepo", "saveInvite",
                    "saveHook", "activate"}
  \/ On(w, "judge") /\ Exhausted(run[w].snap.attempts)
Stumble(w) ==
  /\ InStatement(w)
  /\ refused' = IF RowOf(w) = None THEN refused \cup {run[w].c} ELSE refused
  /\ Fails(w)
  /\ UNCHANGED <<github, invalid, enabled>>

\* createOrgRepo: a name that exists is taken for the work of an earlier attempt.
Created(w) == [github EXCEPT ![run[w].snap.name] =
                 IF @ = None THEN [owner |-> run[w].c, members |-> {}, hooked |-> FALSE] ELSE @]
Create(w) ==
  /\ On(w, "create")
  /\ \/ /\ github' = Created(w)
        /\ Step(w, "saveRepo")
        /\ UNCHANGED <<still, mail, notices, row, faults>>
     \/ github' \in {github, Created(w)} /\ Fails(w)
  /\ UNCHANGED <<invalid, enabled, refused>>

SaveRepo(w) ==
  /\ On(w, "saveRepo")
  /\ Put(w, [RowOf(w) EXCEPT !.repo = run[w].snap.name, !.status = "REPO_CREATED"])
  /\ Step(w, NextStep([run[w].snap EXCEPT !.repo = run[w].snap.name]))
  /\ UNCHANGED <<still, mail, notices, external, faults>>

\* addOutsideCollaborator: invited or a collaborator already; a login that no longer
\* resolves is recorded and the freelancer asked to reconnect.
Invited(w) == [github EXCEPT ![run[w].snap.name].members = @ \cup {run[w].f}]
Invite(w) ==
  /\ On(w, "invite")
  /\ \/ /\ github' = Invited(w)
        /\ Step(w, "saveInvite")
        /\ UNCHANGED <<still, mail, notices, row, invalid, faults>>
     \/ github' \in {github, Invited(w)} /\ Fails(w) /\ UNCHANGED invalid
     \/ /\ faults < MaxFaults /\ faults' = faults + 1
        /\ Put(w, [RowOf(w) EXCEPT !.collab = "FAILED"])
        /\ invalid' = invalid \cup {run[w].f}
        /\ Done(w)
        /\ UNCHANGED <<still, notices, github>>
  /\ UNCHANGED <<enabled, refused>>

SaveInvite(w) ==
  /\ On(w, "saveInvite")
  /\ Put(w, [RowOf(w) EXCEPT !.collab = "INVITED", !.status = "COLLABORATOR_ADDED"])
  /\ Step(w, IF run[w].snap.hook = "ATTACHED" THEN "end" ELSE "hook")
  /\ UNCHANGED <<still, mail, notices, external, faults>>

\* attachWebhook: a hook of ours that exists is reused.
Hooked(w) == [github EXCEPT ![run[w].snap.name].hooked = TRUE]
AttachForgiving(w) ==   \* a refused hook taken as no error
  /\ On(w, "hook")
  /\ \/ github' = Hooked(w) /\ UNCHANGED faults
     \/ faults < MaxFaults /\ faults' = faults + 1 /\ UNCHANGED github
  /\ Step(w, "saveHook")
  /\ UNCHANGED <<still, mail, notices, row, invalid, enabled, refused>>
Attach(w) ==
  /\ On(w, "hook")
  /\ \/ /\ github' = Hooked(w)
        /\ Step(w, "saveHook")
        /\ UNCHANGED <<still, mail, notices, row, faults>>
     \/ github' \in {github, Hooked(w)} /\ Fails(w)
  /\ UNCHANGED <<invalid, enabled, refused>>

SaveHook(w) ==
  /\ On(w, "saveHook")
  /\ Put(w, [RowOf(w) EXCEPT !.hook = "ATTACHED", !.status = "COMPLETE"])
  /\ Step(w, "activate")
  /\ UNCHANGED <<still, mail, notices, external, faults>>

Activate(w) ==
  /\ On(w, "activate")
  /\ contract' = [contract EXCEPT ![run[w].c].status = "ACTIVE",
                                  ![run[w].c].repo = run[w].snap.name]
  /\ Step(w, "report")
  /\ UNCHANGED <<assignments, chain, mail, notices, row, external, req, left, faults>>

\* The client is told; a failed REPOSITORY_PROVISIONED entry is only logged.
Report(w) ==
  /\ On(w, "report")
  /\ Tell("ACTIVE", run[w].c)
  /\ \/ Append1(run[w].c, "PROVISIONED", 0) /\ UNCHANGED faults
     \/ faults < MaxFaults /\ faults' = faults + 1 /\ UNCHANGED chain
  /\ Done(w)
  /\ UNCHANGED <<contract, assignments, row, external, req, left>>

\* A worker dies: its message is delivered again, a row is left as it is.
Crash(w) ==
  /\ ~On(w, "idle") /\ faults < MaxFaults
  /\ faults' = faults + 1
  /\ run' = [run EXCEPT ![w] = Asleep]
  /\ UNCHANGED <<still, mail, notices, row, external>>

-------------------------------------------------------------------------------
Request(r) ==
  \/ \E c \in Contracts, f \in Freelancers : Assign(r, c, f) \/ Decide(r, c, f)
  \/ Abort(r)

Serve(r) ==
  \/ ReadGenesis(r) \/ Overwrite(r) \/ Insert(r) \/ RecordAssigned(r)
  \/ Accept(r) \/ Backfill(r) \/ Reject(r) \/ Clear(r) \/ RecordDecision(r)

Client == \E c \in Contracts :
  Initialize(c) \/ Lock(c) \/ GenerateTests(c) \/ LinkRepo(c)

Work(w) ==
  \/ Judge(w) \/ Select(w) \/ Count(w) \/ InsertRow(w) \/ Start(w) \/ Nothing(w)
  \/ Create(w) \/ SaveRepo(w) \/ Invite(w) \/ SaveInvite(w) \/ Attach(w) \/ SaveHook(w)
  \/ Activate(w) \/ Report(w)
Take(w)  == TakeAccepted(w) \/ TakeRejected(w)
Sweep(c) == \E w \in Runners : SweepSelect(w, c)

Next ==
  \/ Client
  \/ \E r \in Fibers : Request(r) \/ Serve(r)
  \/ \E w \in Runners : Take(w) \/ Work(w) \/ Stumble(w) \/ Crash(w)
  \/ \E c \in Contracts : Sweep(c)

\* A runner goes on, pending messages are delivered and the sweep runs on its
\* interval for every row it selects; nobody need send a request.
Fairness ==
  /\ \A w \in Runners : WF_vars(Work(w))
  /\ \A w \in Runners : WF_vars(Take(w))
  /\ \A c \in Contracts : SF_vars(Sweep(c))
Spec == Init /\ [][Next]_vars /\ Fairness

-------------------------------------------------------------------------------
TypeOK ==
  /\ contract \in [Contracts -> [status : {"absent", "DRAFT", "ACTIVE"},
                                  freelancer : Freelancers \cup {None},
                                  repo : Names \cup {NoRepo, Foreign}]]
  /\ \A i \in DOMAIN assignments :
       /\ assignments[i].contract \in Contracts
       /\ assignments[i].freelancer \in Freelancers
       /\ assignments[i].status \in {"PENDING", "ACCEPTED", "REJECTED"}
  /\ \A c \in Contracts : row[c] # None =>
       row[c] \in RowRecords /\ row[c].name \in Names /\ row[c].repo \in {NoRepo, row[c].name}
  /\ \A n \in Names : github[n] # None => github[n] \in Repositories

\* A decision is in the ledger at most once, and the assignment has the status its
\* entry tells: accepts, rejects and retries of one assignment have one winner
\* (the guarded UPDATEs of /assignment/accept and /assignment/reject).
DecisionsAreFinal ==
  \A c \in Contracts : \A j, k \in DOMAIN chain[c] :
    chain[c][j][1] \in {"ACCEPTED", "REJECTED"} =>
      /\ assignments[chain[c][j][2]].status = chain[c][j][1]
      /\ chain[c][k][2] = chain[c][j][2] /\ chain[c][k][1] # "ASSIGNED" => k = j

\* A repository of the organisation is the repository of the one contract it was
\* created for, and its members are freelancers who accepted that contract, however
\* attempts and sweeps overlap, die and are repeated (insertProvisioningRow chooses
\* the name once; createOrgRepo adopts a name that exists).
RepositoriesAreOwn ==
  /\ \A c, d \in Contracts :
       row[c] # None /\ row[d] # None /\ row[c].name = row[d].name => c = d
  /\ \A n \in Names : github[n] # None =>
       /\ row[github[n].owner] # None /\ row[github[n].owner].name = n
       /\ \A f \in github[n].members :
            \E i \in With(github[n].owner, "ACCEPTED") : assignments[i].freelancer = f

\* An ACTIVE contract has what its parties are told it has: its repository exists,
\* someone who accepted it may push, and pushes are reported. The provisioning status
\* itself may have been set back by a slower attempt.
ActiveIsReady ==
  \A c \in Contracts :
    /\ contract[c].status = "ACTIVE" =>
         /\ row[c] # None /\ github[row[c].name] # None
         /\ github[row[c].name].hooked /\ github[row[c].name].members # {}
    /\ <<"ACTIVE", c>> \in notices => contract[c].status = "ACTIVE"
    /\ <<"ACCEPTED", c>> \in notices => With(c, "ACCEPTED") # {}

\* An acceptance in the ledger has its provisioning finished or given up for good,
\* whatever GitHub answers and though workers die (ASSIGNMENT_ACCEPTED is delivered
\* until acknowledged, reconcileStuckProvisioning counts to PROVISIONING_MAX_ATTEMPTS) -
\* unless the task was refused its row, by an error of the database or for want of a
\* free name: then it has none, and all there is of it is a line in the log.
AcceptedIn(c) == enabled /\ \E j \in DOMAIN chain[c] : chain[c][j][1] = "ACCEPTED"
Resolved(c)   == row[c] # None /\ row[c].status \in {"COMPLETE", "FAILED"}
Refused(c)    == row[c] = None /\ c \in refused
AcceptanceResolves == \A c \in Contracts : AcceptedIn(c) ~> []<>(Resolved(c) \/ Refused(c))
=============================================================================
