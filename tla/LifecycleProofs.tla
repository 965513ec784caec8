--------------------------- MODULE LifecycleProofs ---------------------------
(***************************************************************************)
(* Decisions, repositories and activations of Lifecycle, for any number of *)
(* contracts, freelancers, requests, runners, attempts and faults.         *)
(***************************************************************************)
EXTENDS Lifecycle, FiniteSetTheorems, SequenceTheorems, TLAPS

Decided == {"ACCEPTED", "REJECTED"}
Undated == {"LOCKED", "TESTS", "LINKED", "PROVISIONED"}
Entries == (Decided \cup Undated \cup {"ASSIGNED"}) \X Nat
Anchors == Entries \cup {<<>>}

Assignments == [contract : Contracts, freelancer : Freelancers,
                status : {"PENDING", "ACCEPTED", "REJECTED"}, anchor : Anchors]

-------------------------------------------------------------------------------
\* The gateway.

GatewayTyped ==
  /\ assignments \in Seq(Assignments)
  /\ DOMAIN chain = Contracts /\ \A c \in Contracts : chain[c] \in Seq(Entries)
  /\ DOMAIN req = Fibers

ReqFields == {"pc", "c", "f", "id", "anchor"}

Holds(q)     == q.pc \in {"backfill", "accepted", "clear", "rejected"}
DecidedBy(q) == IF q.pc \in {"backfill", "accepted"} THEN "ACCEPTED" ELSE "REJECTED"

Unrecorded(c, id) == \A k \in DOMAIN chain[c] : chain[c][k][1] \in Decided => chain[c][k][2] # id

\* A request that has decided an assignment and not yet recorded it.
HolderOk(q) ==
  Holds(q) => /\ q.id \in DOMAIN assignments /\ assignments[q.id].contract = q.c
              /\ assignments[q.id].freelancer = q.f /\ assignments[q.id].status = DecidedBy(q)
              /\ Unrecorded(q.c, q.id)

RequestOk(q) ==
  /\ DOMAIN q = ReqFields /\ q.id \in Nat /\ q.anchor \in Anchors
  /\ q.pc # "idle" => q.c \in Contracts /\ q.f \in Freelancers
  /\ HolderOk(q)

RequestsOk ==
  /\ \A r \in Fibers : RequestOk(req[r])
  /\ \A r, s \in Fibers : Holds(req[r]) /\ Holds(req[s]) /\ req[r].id = req[s].id => r = s

\* What the ledger says was decided was, and is said once.
LedgerTells ==
  \A c \in Contracts : \A j \in DOMAIN chain[c] :
    /\ chain[c][j][1] \in Undated => chain[c][j][2] = 0
    /\ chain[c][j][1] \in Decided =>
         /\ chain[c][j][2] \in DOMAIN assignments
         /\ assignments[chain[c][j][2]].status = chain[c][j][1]
         /\ \A k \in DOMAIN chain[c] :
              chain[c][k][1] \in Decided /\ chain[c][k][2] = chain[c][j][2] => k = j

GInv == GatewayTyped /\ RequestsOk /\ LedgerTells

-------------------------------------------------------------------------------
\* The runners.

Accepted(c, f) == \E i \in With(c, "ACCEPTED") : assignments[i].freelancer = f

\* What a row, or an earlier reading of it, says of GitHub.
TellsOfGitHub(s) ==
  /\ s.repo # NoRepo => github[s.name] # None
  /\ s.collab = "INVITED" => github[s.name] # None /\ github[s.name].members # {}

RowsOk ==
  /\ DOMAIN row = Contracts
  /\ \A c \in Contracts : row[c] # None =>
       /\ row[c] \in RowRecords /\ row[c].name \in Names /\ row[c].repo \in {NoRepo, row[c].name}
       /\ Accepted(c, row[c].f) /\ TellsOfGitHub(row[c])
  /\ \A c, d \in Contracts :
       row[c] # None /\ row[d] # None /\ row[c].name = row[d].name => c = d

GitHubOk ==
  /\ DOMAIN github = Names
  /\ \A n \in Names : github[n] # None =>
       /\ github[n] \in Repositories
       /\ row[github[n].owner] # None /\ row[github[n].owner].name = n
       /\ \A f \in github[n].members : Accepted(github[n].owner, f)

RunFields == {"pc", "c", "f", "event", "snap", "num", "tries", "terminal"}

WithRepo    == {"saveRepo", "invite", "saveInvite", "hook", "saveHook", "activate", "report"}
WithMembers == {"saveInvite", "hook", "saveHook", "activate"}
WithHook    == {"saveHook", "activate"}

\* A runner works for a freelancer who accepted; what it has seen and done is there.
RunnerOk(q) ==
  /\ DOMAIN q = RunFields
  /\ q.tries \in Nat /\ q.tries # 0 /\ q.tries <= NameTries
  /\ q.pc # "idle" => q.c \in Contracts /\ q.f \in Freelancers /\ Accepted(q.c, q.f)
  /\ q.pc = "insert" => q.num \in Names
  /\ q.pc = "judge" => row[q.c] # None
  /\ q.pc \in WithRepo \cup {"create", "end"} =>
       /\ row[q.c] # None /\ q.snap \in RowRecords
       /\ q.snap.name = row[q.c].name /\ TellsOfGitHub(q.snap)
  /\ q.pc \in WithRepo => github[q.snap.name] # None
  /\ q.pc \in WithMembers => github[q.snap.name].members # {}
  /\ q.pc \in WithHook => github[q.snap.name].hooked
  /\ q.pc = "report" => contract[q.c].status = "ACTIVE"

RunnersOk == DOMAIN run = Runners /\ \A w \in Runners : RunnerOk(run[w])

ContractsOk ==
  contract \in [Contracts -> [status : {"absent", "DRAFT", "ACTIVE"},
                              freelancer : Freelancers \cup {None},
                              repo : Names \cup {NoRepo, Foreign}]]

\* Messages tell of decisions, and the clients are told what is so.
ToldOk ==
  /\ \A e \in mail : e[1] = "ACCEPTED" =>
       e[2] \in Contracts /\ e[3] \in Freelancers /\ Accepted(e[2], e[3])
  /\ ActiveIsReady

WInv == RowsOk /\ GitHubOk /\ RunnersOk /\ ContractsOk /\ ToldOk

IInv == GInv /\ WInv

-------------------------------------------------------------------------------
\* The gateway's part.

\* A decision that was made stays what it was.
AssignmentsStay ==
  \A i \in DOMAIN assignments :
    /\ i \in DOMAIN assignments'
    /\ assignments'[i].contract = assignments[i].contract
    /\ assignments'[i].freelancer = assignments[i].freelancer
    /\ assignments[i].status # "PENDING" => assignments'[i].status = assignments[i].status

\* An entry that decides nothing is added to a ledger, or none.
NothingDecided ==
  \/ chain' = chain
  \/ \E c \in Contracts, type \in Undated : Append1(c, type, 0)
  \/ \E c \in Contracts, id \in Nat : Append1(c, "ASSIGNED", id)

RecordsStay == \A c \in Contracts, id \in Nat : Unrecorded(c, id) => Unrecorded(c, id)'

LEMMA Appended ==
  ASSUME NEW S, NEW s \in Seq(S), NEW e \in S
  PROVE  /\ Append(s, e) \in Seq(S)
         /\ DOMAIN Append(s, e) = DOMAIN s \cup {Len(s) + 1}
         /\ \A i \in DOMAIN s : Append(s, e)[i] = s[i]
         /\ Append(s, e)[Len(s) + 1] = e
         /\ Len(s) + 1 \notin DOMAIN s /\ Len(s) + 1 \in Nat
PROOF
  <1>1. Len(s) \in Nat /\ DOMAIN s = 1..Len(s)
    BY LenProperties
  <1>2. Append(s, e) \in Seq(S) /\ Len(Append(s, e)) = Len(s) + 1
    OBVIOUS
  <1>3. DOMAIN Append(s, e) = 1..(Len(s) + 1)
    BY <1>1, <1>2, LenProperties
  <1>4. \A i \in DOMAIN s : Append(s, e)[i] = s[i]
    BY <1>1
  <1>5. Append(s, e)[Len(s) + 1] = e
    BY <1>1
  <1> QED BY <1>1, <1>2, <1>3, <1>4, <1>5

LEMMA Replaced ==
  ASSUME NEW S, NEW s \in Seq(S), NEW i \in DOMAIN s, NEW e \in S
  PROVE  /\ [s EXCEPT ![i] = e] \in Seq(S) /\ DOMAIN [s EXCEPT ![i] = e] = DOMAIN s
         /\ \A j \in DOMAIN s : [s EXCEPT ![i] = e][j] = IF j = i THEN e ELSE s[j]
PROOF
  <1>1. Len(s) \in Nat /\ DOMAIN s = 1..Len(s) /\ \A j \in DOMAIN s : s[j] \in S
    BY LenProperties, ElementOfSeq
  <1>2. [s EXCEPT ![i] = e] \in [1..Len(s) -> S]
    BY <1>1
  <1> QED BY <1>1, <1>2, SeqDef

LEMMA Elements ==
  ASSUME GatewayTyped
  PROVE  /\ \A i \in DOMAIN assignments : assignments[i] \in Assignments /\ i \in Nat /\ i # 0
         /\ \A c \in Contracts : \A j \in DOMAIN chain[c] :
              chain[c][j] \in Entries /\ chain[c][j][2] \in Nat
PROOF
  <1>1. \A i \in DOMAIN assignments : assignments[i] \in Assignments /\ i \in Nat /\ i # 0
    BY ElementOfSeq, LenProperties DEF GatewayTyped
  <1>2. ASSUME NEW c \in Contracts, NEW j \in DOMAIN chain[c]
        PROVE  chain[c][j] \in Entries /\ chain[c][j][2] \in Nat
    <2>1. chain[c] \in Seq(Entries)
      BY DEF GatewayTyped
    <2>2. chain[c][j] \in Entries
      BY <2>1, ElementOfSeq, LenProperties
    <2> QED BY <2>2 DEF Entries
  <1> QED BY <1>1, <1>2

\* What an appended entry changes.
LEMMA AppendFacts ==
  ASSUME GatewayTyped, NEW c \in Contracts, NEW type \in Decided \cup Undated \cup {"ASSIGNED"},
         NEW id \in Nat, Append1(c, type, id)
  PROVE  /\ DOMAIN chain' = Contracts /\ \A d \in Contracts : chain'[d] \in Seq(Entries)
         /\ \A d \in Contracts : d # c => chain'[d] = chain[d]
         /\ DOMAIN chain'[c] = DOMAIN chain[c] \cup {Len(chain[c]) + 1}
         /\ \A j \in DOMAIN chain[c] : chain'[c][j] = chain[c][j]
         /\ chain'[c][Len(chain[c]) + 1][1] = type /\ chain'[c][Len(chain[c]) + 1][2] = id
         /\ Len(chain[c]) + 1 \notin DOMAIN chain[c]
PROOF
  <1>1. chain[c] \in Seq(Entries) /\ <<type, id>> \in Entries
    BY DEF GatewayTyped, Entries
  <1>2. chain'[c] = Append(chain[c], <<type, id>>) /\ DOMAIN chain' = Contracts
        /\ \A d \in Contracts : d # c => chain'[d] = chain[d]
    BY DEF Append1, GatewayTyped
  <1>3. /\ Append(chain[c], <<type, id>>) \in Seq(Entries)
        /\ DOMAIN Append(chain[c], <<type, id>>) = DOMAIN chain[c] \cup {Len(chain[c]) + 1}
        /\ \A i \in DOMAIN chain[c] : Append(chain[c], <<type, id>>)[i] = chain[c][i]
        /\ Append(chain[c], <<type, id>>)[Len(chain[c]) + 1] = <<type, id>>
        /\ Len(chain[c]) + 1 \notin DOMAIN chain[c]
    BY <1>1, Appended
  <1>4. \A d \in Contracts : chain'[d] \in Seq(Entries)
    BY <1>2, <1>3 DEF GatewayTyped
  <1> QED BY <1>2, <1>3, <1>4

\* An entry that decides nothing leaves the ledgers as sound as they were.
LEMMA ChainStays ==
  ASSUME GInv, AssignmentsStay, NothingDecided
  PROVE  /\ DOMAIN chain' = Contracts /\ \A c \in Contracts : chain'[c] \in Seq(Entries)
         /\ LedgerTells' /\ RecordsStay
PROOF
  <1>1. GatewayTyped /\ LedgerTells
    BY DEF GInv
  <1>2. \A c \in Contracts : \A j \in DOMAIN chain[c] : chain[c][j][1] \in Decided =>
          /\ chain[c][j][2] \in DOMAIN assignments'
          /\ assignments'[chain[c][j][2]].status = chain[c][j][1]
    BY <1>1 DEF LedgerTells, AssignmentsStay, Decided
  <1>3. CASE chain' = chain
    BY <1>1, <1>2, <1>3 DEF GatewayTyped, LedgerTells, RecordsStay, Unrecorded
  <1>4. ASSUME NEW c \in Contracts, NEW type \in Undated \cup {"ASSIGNED"}, NEW id \in Nat,
               type \in Undated => id = 0, Append1(c, type, id)
        PROVE  /\ DOMAIN chain' = Contracts /\ \A d \in Contracts : chain'[d] \in Seq(Entries)
               /\ LedgerTells' /\ RecordsStay
    <2>1. /\ DOMAIN chain' = Contracts /\ \A d \in Contracts : chain'[d] \in Seq(Entries)
          /\ \A d \in Contracts : d # c => chain'[d] = chain[d]
          /\ DOMAIN chain'[c] = DOMAIN chain[c] \cup {Len(chain[c]) + 1}
          /\ \A j \in DOMAIN chain[c] : chain'[c][j] = chain[c][j]
          /\ chain'[c][Len(chain[c]) + 1][1] = type /\ chain'[c][Len(chain[c]) + 1][2] = id
      BY <1>1, <1>4, AppendFacts
    <2>2. type \notin Decided
      BY DEF Decided, Undated
    <2>3. \A d \in Contracts : \A j \in DOMAIN chain'[d] : chain'[d][j][1] \in Decided =>
            j \in DOMAIN chain[d] /\ chain'[d][j] = chain[d][j]
      BY <2>1, <2>2
    <2>4. RecordsStay
      BY <2>3 DEF RecordsStay, Unrecorded
    <2>5. \A d \in Contracts : \A j \in DOMAIN chain'[d] :
            chain'[d][j][1] \in Undated => chain'[d][j][2] = 0
      BY <1>1, <1>4, <2>1 DEF LedgerTells
    <2>6. LedgerTells'
      BY <1>1, <1>2, <2>3, <2>5 DEF LedgerTells
    <2> QED BY <2>1, <2>4, <2>6
  <1>5. ASSUME NEW c \in Contracts, NEW type \in Undated, Append1(c, type, 0)
        PROVE  /\ DOMAIN chain' = Contracts /\ \A d \in Contracts : chain'[d] \in Seq(Entries)
               /\ LedgerTells' /\ RecordsStay
    BY <1>4, <1>5
  <1>6. ASSUME NEW c \in Contracts, NEW id \in Nat, Append1(c, "ASSIGNED", id)
        PROVE  /\ DOMAIN chain' = Contracts /\ \A d \in Contracts : chain'[d] \in Seq(Entries)
               /\ LedgerTells' /\ RecordsStay
    BY <1>4, <1>6 DEF Undated
  <1> QED BY <1>3, <1>5, <1>6 DEF NothingDecided

\* What a request knows stays true.
LEMMA HolderStays ==
  ASSUME GInv, AssignmentsStay, RecordsStay, NEW q, RequestOk(q)
  PROVE  RequestOk(q)'
PROOF
  <1>1. HolderOk(q)'
    <2> SUFFICES ASSUME Holds(q) PROVE HolderOk(q)'
      BY DEF HolderOk
    <2>1. /\ q.c \in Contracts /\ q.id \in Nat /\ q.id \in DOMAIN assignments
          /\ assignments[q.id].contract = q.c /\ assignments[q.id].freelancer = q.f
          /\ assignments[q.id].status = DecidedBy(q) /\ Unrecorded(q.c, q.id)
      BY DEF RequestOk, HolderOk, Holds
    <2>2. DecidedBy(q) # "PENDING"
      BY DEF DecidedBy
    <2> QED BY <2>1, <2>2 DEF HolderOk, AssignmentsStay, RecordsStay
  <1> QED BY <1>1 DEF RequestOk

\* One request takes a step, and its claim is its own.
LEMMA RequestStep ==
  ASSUME GInv, AssignmentsStay, RecordsStay, NEW r \in Fibers, NEW q,
         req' = [req EXCEPT ![r] = q], RequestOk(q)',
         Holds(q) => \A s \in Fibers : s # r /\ Holds(req[s]) => req[s].id # q.id
  PROVE  RequestsOk' /\ DOMAIN req' = Fibers
PROOF
  <1>1. /\ DOMAIN req' = Fibers /\ req'[r] = q /\ \A s \in Fibers : s # r => req'[s] = req[s]
    BY DEF GInv, GatewayTyped
  <1>2. \A s \in Fibers : RequestOk(req[s])'
    <2>1. ASSUME NEW s \in Fibers, s # r PROVE RequestOk(req[s])'
      <3>1. PICK p : p = req[s]
        OBVIOUS
      <3>2. RequestOk(p)
        BY <3>1 DEF GInv, RequestsOk
      <3>3. RequestOk(p)'
        BY <3>2, HolderStays
      <3> QED BY <1>1, <2>1, <3>1, <3>3 DEF RequestOk, HolderOk, Holds, DecidedBy, Unrecorded
    <2>2. RequestOk(req[r])'
      BY <1>1 DEF RequestOk, HolderOk, Holds, DecidedBy, Unrecorded
    <2> QED BY <2>1, <2>2
  <1>3. \A s, t \in Fibers : Holds(req'[s]) /\ Holds(req'[t]) /\ req'[s].id = req'[t].id => s = t
    <2> TAKE s, t \in Fibers
    <2> HAVE Holds(req'[s]) /\ Holds(req'[t]) /\ req'[s].id = req'[t].id
    <2>1. CASE s # r /\ t # r
      BY <1>1, <2>1 DEF GInv, RequestsOk, Holds
    <2>2. CASE s = r \/ t = r
      BY <1>1, <2>2 DEF Holds
    <2> QED BY <2>1, <2>2
  <1>4. RequestsOk'
    BY <1>2, <1>3 DEF RequestsOk, Holds
  <1> QED BY <1>1, <1>4

LEMMA NoRequestStep ==
  ASSUME GInv, AssignmentsStay, RecordsStay, req' = req
  PROVE  RequestsOk' /\ DOMAIN req' = Fibers
PROOF
  <1>1. ASSUME NEW s \in Fibers PROVE RequestOk(req[s])'
    <2>1. PICK p : p = req[s]
      OBVIOUS
    <2>2. RequestOk(p)'
      BY <2>1, HolderStays DEF GInv, RequestsOk
    <2> QED BY <2>1, <2>2 DEF RequestOk, HolderOk, Holds, DecidedBy, Unrecorded
  <1>2. \A s, t \in Fibers : Holds(req'[s]) /\ Holds(req'[t]) /\ req'[s].id = req'[t].id => s = t
    BY DEF GInv, RequestsOk, Holds
  <1> QED BY <1>1, <1>2 DEF GInv, GatewayTyped, RequestsOk, Holds

LEMMA QuietStep ==
  ASSUME GInv, NothingDecided, UNCHANGED <<assignments, req>>
  PROVE  GInv' /\ AssignmentsStay
PROOF
  <1>1. AssignmentsStay
    BY DEF AssignmentsStay
  <1>2. /\ DOMAIN chain' = Contracts /\ \A c \in Contracts : chain'[c] \in Seq(Entries)
        /\ LedgerTells' /\ RecordsStay
    BY <1>1, ChainStays
  <1>3. RequestsOk' /\ DOMAIN req' = Fibers
    BY <1>1, <1>2, NoRequestStep
  <1> QED BY <1>1, <1>2, <1>3 DEF GInv, GatewayTyped

\* A request goes on without having decided anything in this step.
LEMMA NextStepOfRequest ==
  ASSUME GInv, NothingDecided, AssignmentsStay, assignments' \in Seq(Assignments),
         NEW r \in Fibers, NEW q, req' = [req EXCEPT ![r] = q],
         DOMAIN q = ReqFields, q.id \in Nat, q.anchor \in Anchors,
         q.pc # "idle" => q.c \in Contracts /\ q.f \in Freelancers,
         Holds(q) => /\ Holds(req[r]) /\ q.id = req[r].id /\ q.c = req[r].c /\ q.f = req[r].f
                     /\ DecidedBy(q) = DecidedBy(req[r])
  PROVE  GInv' /\ AssignmentsStay
PROOF
  <1>1. /\ DOMAIN chain' = Contracts /\ \A c \in Contracts : chain'[c] \in Seq(Entries)
        /\ LedgerTells' /\ RecordsStay
    BY ChainStays
  <1>2. PICK p : p = req[r]
    OBVIOUS
  <1>3. RequestOk(p)'
    <2>1. RequestOk(p)
      BY <1>2 DEF GInv, RequestsOk
    <2> QED BY <1>1, <2>1, HolderStays
  <1>4. HolderOk(q)'
    <2> SUFFICES ASSUME Holds(q) PROVE HolderOk(q)'
      BY DEF HolderOk
    <2>1. Holds(p) /\ q.id = p.id /\ q.c = p.c /\ q.f = p.f /\ DecidedBy(q) = DecidedBy(p)
      BY <1>2
    <2>2. HolderOk(p)'
      BY <1>3 DEF RequestOk
    <2> QED BY <2>1, <2>2 DEF HolderOk
  <1>5. RequestOk(q)'
    BY <1>4 DEF RequestOk
  <1>6. Holds(q) => \A s \in Fibers : s # r /\ Holds(req[s]) => req[s].id # q.id
    BY DEF GInv, RequestsOk
  <1>7. RequestsOk' /\ DOMAIN req' = Fibers
    BY <1>1, <1>5, <1>6, RequestStep
  <1> QED BY <1>1, <1>7 DEF GInv, GatewayTyped

LEMMA IdleFacts ==
  /\ DOMAIN Idle = ReqFields /\ Idle.id \in Nat /\ Idle.anchor \in Anchors
  /\ Idle.pc = "idle" /\ ~Holds(Idle)
PROOF
  BY DEF Idle, ReqFields, Anchors, Holds

\* A request that ends.
LEMMA CloseStep ==
  ASSUME GInv, NothingDecided, UNCHANGED assignments, NEW r \in Fibers, Close(r)
  PROVE  GInv' /\ AssignmentsStay
PROOF
  <1>1. AssignmentsStay /\ assignments' \in Seq(Assignments)
    BY DEF AssignmentsStay, GInv, GatewayTyped
  <1>2. PICK q : q = Idle
    OBVIOUS
  <1> QED BY <1>1, <1>2, IdleFacts, NextStepOfRequest DEF Close

\* A request that is opened.
LEMMA OpenStep ==
  ASSUME GInv, UNCHANGED <<assignments, chain>>, NEW r \in Fibers,
         NEW pc \in {"anchor", "accept", "reject"}, NEW c \in Contracts, NEW f \in Freelancers,
         Open(r, pc, c, f)
  PROVE  GInv' /\ AssignmentsStay
PROOF
  <1>1. AssignmentsStay /\ NothingDecided /\ assignments' \in Seq(Assignments)
    BY DEF AssignmentsStay, NothingDecided, GInv, GatewayTyped
  <1>2. PICK q : q = [Idle EXCEPT !.pc = pc, !.c = c, !.f = f]
    OBVIOUS
  <1>3. /\ DOMAIN q = ReqFields /\ q.id = 0 /\ q.anchor = <<>> /\ q.pc = pc /\ q.c = c /\ q.f = f
    BY <1>2 DEF Idle, ReqFields
  <1>4. ~Holds(q) /\ q.anchor \in Anchors /\ q.id \in Nat
    BY <1>3 DEF Holds, Anchors
  <1> QED BY <1>1, <1>2, <1>3, <1>4, NextStepOfRequest DEF Open

LEMMA ReadGenesisStep ==
  ASSUME GInv, NEW r \in Fibers, ReadGenesis(r)
  PROVE  GInv' /\ AssignmentsStay
PROOF
  <1>1. AssignmentsStay /\ NothingDecided /\ assignments' \in Seq(Assignments)
    BY DEF ReadGenesis, gateway, AssignmentsStay, NothingDecided, GInv, GatewayTyped
  <1>2. PICK p : p = req[r] /\ RequestOk(p) /\ p.pc = "anchor"
    BY DEF ReadGenesis, At, GInv, RequestsOk
  <1>3. Genesis(p.c) \in Anchors
    <2>1. chain[p.c] \in Seq(Entries)
      BY <1>2 DEF RequestOk, GInv, GatewayTyped
    <2>2. chain[p.c] # <<>> => Head(chain[p.c]) \in Entries
      BY <2>1
    <2> QED BY <2>2 DEF Genesis, Anchors
  <1>4. PICK q : q = [p EXCEPT !.pc = "overwrite", !.anchor = Genesis(p.c)]
    OBVIOUS
  <1>5. req' = [req EXCEPT ![r] = q]
    BY <1>2, <1>4 DEF ReadGenesis, GInv, GatewayTyped
  <1>6. /\ DOMAIN q = ReqFields /\ q.id = p.id /\ q.anchor = Genesis(p.c) /\ q.pc = "overwrite"
        /\ q.c = p.c /\ q.f = p.f
    BY <1>2, <1>4 DEF RequestOk, ReqFields
  <1>7. ~Holds(q) /\ q.id \in Nat /\ q.c \in Contracts /\ q.f \in Freelancers
    BY <1>2, <1>6 DEF Holds, RequestOk
  <1> QED BY <1>1, <1>3, <1>5, <1>6, <1>7, NextStepOfRequest

\* A request that goes on.
LEMMA GotoStep ==
  ASSUME GInv, NothingDecided, AssignmentsStay, assignments' \in Seq(Assignments), NEW r \in Fibers,
         req[r].pc # "idle", NEW pc, Goto(r, pc),
         \/ pc = "insert"
         \/ pc = "accepted" /\ req[r].pc = "backfill"
         \/ pc = "rejected" /\ req[r].pc = "clear"
  PROVE  GInv' /\ AssignmentsStay
PROOF
  <1>1. PICK p : p = req[r] /\ RequestOk(p)
    BY DEF GInv, RequestsOk
  <1>2. PICK q : q = [p EXCEPT !.pc = pc]
    OBVIOUS
  <1>3. req' = [req EXCEPT ![r] = q]
    BY <1>1, <1>2 DEF Goto, GInv, GatewayTyped
  <1>4. /\ DOMAIN q = ReqFields /\ q.id = p.id /\ q.anchor = p.anchor /\ q.pc = pc
        /\ q.c = p.c /\ q.f = p.f
    BY <1>1, <1>2 DEF RequestOk, ReqFields
  <1>5. q.id \in Nat /\ q.anchor \in Anchors /\ q.c \in Contracts /\ q.f \in Freelancers
    BY <1>1, <1>4 DEF RequestOk
  <1>6. Holds(q) => Holds(p) /\ DecidedBy(q) = DecidedBy(p)
    BY <1>1, <1>4 DEF Holds, DecidedBy
  <1> QED BY <1>1, <1>3, <1>4, <1>5, <1>6, NextStepOfRequest

LEMMA OverwriteOrClear ==
  ASSUME GInv, NEW r \in Fibers, Overwrite(r) \/ Clear(r)
  PROVE  GInv' /\ AssignmentsStay
PROOF
  <1>1. AssignmentsStay /\ NothingDecided /\ assignments' \in Seq(Assignments)
    BY DEF Overwrite, Clear, AssignmentsStay, NothingDecided, GInv, GatewayTyped
  <1>2. CASE Overwrite(r)
    BY <1>1, <1>2, GotoStep DEF Overwrite, At
  <1>3. CASE Clear(r)
    BY <1>1, <1>3, GotoStep DEF Clear, At
  <1> QED BY <1>2, <1>3

LEMMA InsertStep ==
  ASSUME GInv, NEW r \in Fibers, Insert(r)
  PROVE  GInv' /\ AssignmentsStay
PROOF
  <1>1. NothingDecided
    BY DEF Insert, NothingDecided
  <1>2. PICK p : p = req[r] /\ RequestOk(p) /\ p.pc = "insert"
    BY DEF Insert, At, GInv, RequestsOk
  <1>3. CASE Close(r) /\ UNCHANGED assignments
    BY <1>1, <1>3, CloseStep
  <1>4. CASE /\ assignments' = Append(assignments,
                  [contract |-> p.c, freelancer |-> p.f, status |-> "PENDING", anchor |-> p.anchor])
             /\ req' = [req EXCEPT ![r].pc = "assigned", ![r].id = Len(assignments) + 1]
    <2>1. PICK e : e = [contract |-> p.c, freelancer |-> p.f, status |-> "PENDING", anchor |-> p.anchor]
      OBVIOUS
    <2>2. e \in Assignments /\ assignments \in Seq(Assignments)
      BY <1>2, <2>1 DEF RequestOk, Assignments, GInv, GatewayTyped
    <2>3. /\ assignments' \in Seq(Assignments) /\ Len(assignments) + 1 \in Nat
          /\ \A i \in DOMAIN assignments : i \in DOMAIN assignments' /\ assignments'[i] = assignments[i]
      BY <1>4, <2>1, <2>2, Appended
    <2>4. AssignmentsStay
      BY <2>3 DEF AssignmentsStay
    <2>5. PICK q : q = [p EXCEPT !.pc = "assigned", !.id = Len(assignments) + 1]
      OBVIOUS
    <2>6. req' = [req EXCEPT ![r] = q]
      BY <1>2, <1>4, <2>5 DEF GInv, GatewayTyped
    <2>7. /\ DOMAIN q = ReqFields /\ q.id = Len(assignments) + 1 /\ q.anchor = p.anchor
          /\ q.pc = "assigned" /\ q.c = p.c /\ q.f = p.f
      BY <1>2, <2>5 DEF RequestOk, ReqFields
    <2>8. ~Holds(q) /\ q.id \in Nat /\ q.anchor \in Anchors /\ q.c \in Contracts /\ q.f \in Freelancers
      BY <1>2, <2>3, <2>7 DEF Holds, RequestOk
    <2> QED BY <1>1, <2>3, <2>4, <2>6, <2>7, <2>8, NextStepOfRequest
  <1> QED BY <1>2, <1>3, <1>4 DEF Insert

\* The guarded UPDATE: one request decides an assignment that nobody has decided.
LEMMA UpdateStep ==
  ASSUME GInv, UNCHANGED chain, NEW r \in Fibers, req[r].pc # "idle",
         NEW status \in Decided, NEW next,
         (status = "ACCEPTED" /\ next = "backfill") \/ (status = "REJECTED" /\ next = "clear"),
         Update(r, status, next)
  PROVE  GInv' /\ AssignmentsStay
PROOF
  <1>1. NothingDecided
    BY DEF NothingDecided
  <1>2. PICK p : p = req[r] /\ RequestOk(p) /\ p.pc # "idle"
    BY DEF GInv, RequestsOk
  <1>3. CASE Close(r) /\ UNCHANGED assignments
    BY <1>1, <1>3, CloseStep
  <1>4. ASSUME NEW i \in DOMAIN assignments, assignments[i].contract = p.c,
               assignments[i].status = "PENDING", assignments[i].freelancer = p.f,
               assignments' = [assignments EXCEPT ![i].status = status],
               req' = [req EXCEPT ![r].pc = next, ![r].id = i]
        PROVE  GInv' /\ AssignmentsStay
    <2>1. PICK a : a = assignments[i] /\ a \in Assignments
      BY Elements DEF GInv
    <2>2. PICK b : b = [a EXCEPT !.status = status]
      OBVIOUS
    <2>3. /\ b \in Assignments /\ b.contract = p.c /\ b.freelancer = p.f /\ b.status = status
      BY <1>4, <2>1, <2>2 DEF Assignments, Decided
    <2>4. assignments' = [assignments EXCEPT ![i] = b]
      BY <1>4, <2>1, <2>2
    <2>5. /\ assignments' \in Seq(Assignments) /\ DOMAIN assignments' = DOMAIN assignments
          /\ \A j \in DOMAIN assignments : assignments'[j] = IF j = i THEN b ELSE assignments[j]
      BY <2>3, <2>4, Replaced DEF GInv, GatewayTyped
    <2>6. AssignmentsStay
      BY <1>4, <2>3, <2>5 DEF AssignmentsStay
    <2>7. /\ DOMAIN chain' = Contracts /\ \A c \in Contracts : chain'[c] \in Seq(Entries)
          /\ LedgerTells' /\ RecordsStay
      BY <1>1, <2>6, ChainStays
    <2>8. PICK q : q = [p EXCEPT !.pc = next, !.id = i]
      OBVIOUS
    <2>9. req' = [req EXCEPT ![r] = q]
      BY <1>2, <1>4, <2>8 DEF GInv, GatewayTyped
    <2>10. /\ DOMAIN q = ReqFields /\ q.id = i /\ q.anchor = p.anchor /\ q.pc = next
           /\ q.c = p.c /\ q.f = p.f
      BY <1>2, <2>8 DEF RequestOk, ReqFields
    <2>11. q.id \in Nat /\ q.anchor \in Anchors /\ q.c \in Contracts /\ q.f \in Freelancers
      BY <1>2, <2>10, Elements DEF RequestOk, GInv
    <2>12. DecidedBy(q) = status
      BY <2>10 DEF DecidedBy
    <2>13. Unrecorded(q.c, q.id)
      <3> SUFFICES ASSUME NEW k \in DOMAIN chain[q.c], chain[q.c][k][1] \in Decided,
                          chain[q.c][k][2] = i
                   PROVE  FALSE
        BY <2>10 DEF Unrecorded
      <3>1. assignments[i].status = chain[q.c][k][1]
        BY <2>11 DEF GInv, LedgerTells
      <3> QED BY <1>4, <3>1 DEF Decided
    <2>14. RequestOk(q)'
      BY <2>3, <2>5, <2>7, <2>10, <2>11, <2>12, <2>13
      DEF RequestOk, HolderOk, Unrecorded
    <2>15. \A s \in Fibers : s # r /\ Holds(req[s]) => req[s].id # q.id
      <3> SUFFICES ASSUME NEW s \in Fibers, Holds(req[s]), req[s].id = i PROVE FALSE
        BY <2>10
      <3>1. assignments[i].status = DecidedBy(req[s])
        BY DEF GInv, RequestsOk, RequestOk, HolderOk
      <3> QED BY <1>4, <3>1 DEF DecidedBy
    <2>16. RequestsOk' /\ DOMAIN req' = Fibers
      BY <2>6, <2>7, <2>9, <2>14, <2>15, RequestStep
    <2> QED BY <2>5, <2>6, <2>7, <2>16 DEF GInv, GatewayTyped
  <1>5. ASSUME {i \in With(p.c, "PENDING") : assignments[i].freelancer = p.f} # {}
        PROVE  \E i \in DOMAIN assignments :
                 /\ assignments[i].contract = p.c
                 /\ assignments[i].status = "PENDING" /\ assignments[i].freelancer = p.f
                 /\ assignments' = [assignments EXCEPT ![i].status = status]
                 /\ req' = [req EXCEPT ![r].pc = next, ![r].id = i]
    <2>1. PICK open : open = {i \in With(p.c, "PENDING") : assignments[i].freelancer = p.f}
      OBVIOUS
    <2>2. PICK i : i = CHOOSE j \in open : TRUE
      OBVIOUS
    <2>3. i \in open
      BY <1>5, <2>1, <2>2
    <2>4. /\ i \in DOMAIN assignments /\ assignments[i].contract = p.c
          /\ assignments[i].status = "PENDING" /\ assignments[i].freelancer = p.f
      BY <2>1, <2>3 DEF With, Ids
    <2>5. /\ assignments' = [assignments EXCEPT ![i].status = status]
          /\ req' = [req EXCEPT ![r].pc = next, ![r].id = i]
      BY <1>2, <1>5, <2>1, <2>2 DEF Update
    <2> QED BY <2>4, <2>5
  <1>6. CASE {i \in With(p.c, "PENDING") : assignments[i].freelancer = p.f} = {}
    BY <1>2, <1>3, <1>6 DEF Update
  <1> QED BY <1>4, <1>5, <1>6

LEMMA BackfillStep ==
  ASSUME GInv, NEW r \in Fibers, Backfill(r)
  PROVE  GInv' /\ AssignmentsStay
PROOF
  <1>1. NothingDecided /\ Goto(r, "accepted") /\ req[r].pc = "backfill"
    BY DEF Backfill, At, NothingDecided
  <1>2. PICK p : p = req[r] /\ RequestOk(p) /\ p.pc = "backfill"
    BY <1>1 DEF GInv, RequestsOk
  <1>3. p.c \in Contracts /\ p.id \in DOMAIN assignments
    BY <1>2 DEF RequestOk, HolderOk, Holds
  <1>4. assignments' \in Seq(Assignments) /\ AssignmentsStay
    <2>1. CASE assignments' = assignments
      BY <2>1 DEF GInv, GatewayTyped, AssignmentsStay
    <2>2. CASE assignments' = [assignments EXCEPT ![p.id].anchor = Genesis(p.c)]
      <3>1. Genesis(p.c) \in Anchors
        <4>1. chain[p.c] \in Seq(Entries)
          BY <1>3 DEF GInv, GatewayTyped
        <4>2. chain[p.c] # <<>> => Head(chain[p.c]) \in Entries
          BY <4>1
        <4> QED BY <4>2 DEF Genesis, Anchors
      <3>2. PICK a : a = assignments[p.id] /\ a \in Assignments
        BY <1>3, Elements DEF GInv
      <3>3. PICK g : g = Genesis(p.c)
        OBVIOUS
      <3>4. PICK b : b = [a EXCEPT !.anchor = g]
        OBVIOUS
      <3>5. /\ b \in Assignments /\ b.contract = a.contract /\ b.freelancer = a.freelancer
            /\ b.status = a.status
        BY <3>1, <3>2, <3>3, <3>4 DEF Assignments
      <3>6. assignments' = [assignments EXCEPT ![p.id] = b]
        BY <2>2, <3>2, <3>3, <3>4
      <3>7. /\ assignments' \in Seq(Assignments) /\ DOMAIN assignments' = DOMAIN assignments
            /\ \A j \in DOMAIN assignments : assignments'[j] = IF j = p.id THEN b ELSE assignments[j]
        BY <1>3, <3>5, <3>6, Replaced DEF GInv, GatewayTyped
      <3> QED BY <3>2, <3>5, <3>7 DEF AssignmentsStay
    <2> QED BY <1>2, <2>1, <2>2 DEF Backfill
  <1> QED BY <1>1, <1>4, GotoStep

\* The transaction that records a decision: only its holder's, and only once.
LEMMA RecordDecisionStep ==
  ASSUME GInv, NEW r \in Fibers, RecordDecision(r)
  PROVE  GInv' /\ AssignmentsStay
PROOF
  <1>1. PICK p : p = req[r] /\ RequestOk(p) /\ p.pc \in {"accepted", "rejected"}
    BY DEF RecordDecision, GInv, RequestsOk
  <1>2. PICK type : type = DecidedBy(p)
    OBVIOUS
  <1>3. /\ p.c \in Contracts /\ p.id \in Nat /\ type \in Decided /\ Holds(p)
        /\ p.id \in DOMAIN assignments /\ assignments[p.id].status = type /\ Unrecorded(p.c, p.id)
    BY <1>1, <1>2 DEF RequestOk, HolderOk, Holds, DecidedBy, Decided
  <1>4. Append1(p.c, type, p.id) /\ Close(r) /\ UNCHANGED assignments
    BY <1>1, <1>2 DEF RecordDecision, At, DecidedBy
  <1>5. GatewayTyped /\ LedgerTells /\ RequestsOk
    BY DEF GInv
  <1>6. PICK n : n = Len(chain[p.c]) + 1
    OBVIOUS
  <1>7. /\ DOMAIN chain' = Contracts /\ \A d \in Contracts : chain'[d] \in Seq(Entries)
        /\ \A d \in Contracts : d # p.c => chain'[d] = chain[d]
        /\ DOMAIN chain'[p.c] = DOMAIN chain[p.c] \cup {n}
        /\ \A j \in DOMAIN chain[p.c] : chain'[p.c][j] = chain[p.c][j]
        /\ chain'[p.c][n][1] = type /\ chain'[p.c][n][2] = p.id
        /\ n \notin DOMAIN chain[p.c]
    BY <1>3, <1>4, <1>5, <1>6, AppendFacts
  <1>8. AssignmentsStay
    BY <1>4 DEF AssignmentsStay
  <1>9. LedgerTells'
    <2> SUFFICES ASSUME NEW c \in Contracts, NEW j \in DOMAIN chain'[c]
                 PROVE  /\ chain'[c][j][1] \in Undated => chain'[c][j][2] = 0
                        /\ chain'[c][j][1] \in Decided =>
                             /\ chain'[c][j][2] \in DOMAIN assignments'
                             /\ assignments'[chain'[c][j][2]].status = chain'[c][j][1]
                             /\ \A k \in DOMAIN chain'[c] :
                                  chain'[c][k][1] \in Decided /\ chain'[c][k][2] = chain'[c][j][2] => k = j
      BY DEF LedgerTells
    <2>1. CASE c # p.c
      BY <1>4, <1>5, <1>7, <2>1 DEF LedgerTells
    <2>2. CASE c = p.c /\ j # n
      <3>1. j \in DOMAIN chain[c] /\ chain'[c][j] = chain[c][j]
        BY <1>7, <2>2
      <3>2. chain[c][j][1] \in Decided => chain[c][j][2] # p.id
        BY <1>3, <2>2, <3>1 DEF Unrecorded
      <3> QED BY <1>4, <1>5, <1>7, <2>2, <3>1, <3>2, SMTT(30) DEF LedgerTells
    <2>3. CASE c = p.c /\ j = n
      <3>1. \A k \in DOMAIN chain'[c] : chain'[c][k][1] \in Decided /\ chain'[c][k][2] = p.id => k = n
        BY <1>3, <1>7, <2>3 DEF Unrecorded
      <3>2. type \notin Undated
        BY <1>3 DEF Decided, Undated
      <3> QED BY <1>3, <1>4, <1>7, <2>3, <3>1, <3>2
    <2> QED BY <2>1, <2>2, <2>3
  <1>10. /\ DOMAIN req' = Fibers /\ req'[r] = Idle
         /\ \A s \in Fibers : s # r => req'[s] = req[s]
    BY <1>4, <1>5 DEF Close, GatewayTyped
  <1>11. ASSUME NEW s \in Fibers PROVE RequestOk(req[s])'
    <2>1. CASE s = r
      BY <1>10, <2>1, IdleFacts DEF RequestOk, HolderOk, Holds
    <2>2. CASE s # r
      <3>1. PICK q : q = req[s] /\ RequestOk(q)
        BY <1>5 DEF RequestsOk
      <3>2. Holds(q) => q.id # p.id
        BY <1>1, <1>3, <1>5, <2>2, <3>1 DEF RequestsOk
      <3>3. Holds(q) => Unrecorded(q.c, q.id)'
        <4> SUFFICES ASSUME Holds(q) PROVE Unrecorded(q.c, q.id)'
          OBVIOUS
        <4>1. q.c \in Contracts /\ Unrecorded(q.c, q.id)
          BY <3>1 DEF RequestOk, HolderOk, Holds
        <4>2. CASE q.c = p.c
          BY <1>7, <3>2, <4>1, <4>2 DEF Unrecorded
        <4>3. CASE q.c # p.c
          BY <1>7, <4>1, <4>3 DEF Unrecorded
        <4> QED BY <4>2, <4>3
      <3>4. RequestOk(q)'
        BY <1>4, <3>1, <3>3 DEF RequestOk, HolderOk
      <3> QED BY <1>10, <2>2, <3>1, <3>4 DEF RequestOk, HolderOk, Holds, DecidedBy, Unrecorded
    <2> QED BY <2>1, <2>2
  <1>12. \A s, t \in Fibers : Holds(req'[s]) /\ Holds(req'[t]) /\ req'[s].id = req'[t].id => s = t
    <2>1. \A s \in Fibers : Holds(req'[s]) => s # r /\ req'[s] = req[s]
      BY <1>10, IdleFacts
    <2> QED BY <1>5, <2>1 DEF RequestsOk
  <1>13. RequestsOk'
    BY <1>11, <1>12 DEF RequestsOk, Holds
  <1>14. GatewayTyped'
    BY <1>4, <1>5, <1>7, <1>10 DEF GatewayTyped
  <1> QED BY <1>8, <1>9, <1>13, <1>14 DEF GInv

LEMMA RecordAssignedStep ==
  ASSUME GInv, NEW r \in Fibers, RecordAssigned(r)
  PROVE  GInv' /\ AssignmentsStay
PROOF
  <1>1. PICK p : p = req[r] /\ RequestOk(p) /\ p.pc = "assigned"
    BY DEF RecordAssigned, At, GInv, RequestsOk
  <1>2. p.c \in Contracts /\ p.id \in Nat
    BY <1>1 DEF RequestOk
  <1>3. NothingDecided /\ Close(r) /\ UNCHANGED assignments
    BY <1>1, <1>2 DEF RecordAssigned, NothingDecided
  <1> QED BY <1>3, CloseStep

\* What any step is to the gateway.
LEMMA GatewayKeeps ==
  ASSUME IInv, [Next]_vars
  PROVE  GInv' /\ AssignmentsStay
PROOF
  <1> USE DEF IInv
  <1>1. ASSUME NEW r \in Fibers, Request(r) PROVE GInv' /\ AssignmentsStay
    <2>1. ASSUME NEW c \in Contracts, NEW f \in Freelancers, Assign(r, c, f)
          PROVE  GInv' /\ AssignmentsStay
      <3>1. CASE Open(r, "anchor", c, f)
        BY <2>1, <3>1, OpenStep DEF Assign, gateway
      <3>2. CASE UNCHANGED req
        <4>1. NothingDecided
          BY <2>1 DEF Assign, gateway, NothingDecided
        <4> QED BY <2>1, <3>2, <4>1, QuietStep DEF Assign, gateway
      <3> QED BY <2>1, <3>1, <3>2 DEF Assign
    <2>2. ASSUME NEW c \in Contracts, NEW f \in Freelancers, Decide(r, c, f)
          PROVE  GInv' /\ AssignmentsStay
      <3>1. CASE Open(r, "accept", c, f)
        BY <2>2, <3>1, OpenStep DEF Decide, gateway
      <3>2. CASE Open(r, "reject", c, f)
        BY <2>2, <3>2, OpenStep DEF Decide, gateway
      <3> QED BY <2>2, <3>1, <3>2 DEF Decide
    <2>3. CASE Abort(r)
      <3>1. NothingDecided /\ UNCHANGED assignments /\ Close(r)
        BY <2>3 DEF Abort, gateway, NothingDecided
      <3> QED BY <3>1, CloseStep
    <2> QED BY <1>1, <2>1, <2>2, <2>3 DEF Request
  <1>2. ASSUME NEW r \in Fibers, Serve(r) PROVE GInv' /\ AssignmentsStay
    <2>1. CASE Accept(r)
      <3>1. req[r].pc # "idle" /\ Update(r, "ACCEPTED", "backfill") /\ UNCHANGED chain
        BY <2>1 DEF Accept, At
      <3> QED BY <3>1, UpdateStep DEF Decided
    <2>2. CASE Reject(r)
      <3>1. req[r].pc # "idle" /\ Update(r, "REJECTED", "clear") /\ UNCHANGED chain
        BY <2>2 DEF Reject, At
      <3> QED BY <3>1, UpdateStep DEF Decided
    <2> QED BY <1>2, <2>1, <2>2, ReadGenesisStep, OverwriteOrClear, InsertStep, RecordAssignedStep,
               BackfillStep, RecordDecisionStep DEF Serve
  <1>3. CASE Client
    <2>1. NothingDecided /\ UNCHANGED <<assignments, req>>
      BY <1>3 DEF Client, Initialize, Lock, GenerateTests, LinkRepo, NothingDecided, Undated
    <2> QED BY <2>1, QuietStep
  <1>4. ASSUME NEW w \in Runners, Take(w) \/ Work(w) \/ Stumble(w) \/ Crash(w) PROVE GInv' /\ AssignmentsStay
    <2>1. NothingDecided /\ UNCHANGED <<assignments, req>>
      <3>1. CASE Report(w)
        <4>1. run[w].c \in Contracts
          BY <3>1 DEF Report, On, WInv, RunnersOk, RunnerOk
        <4> QED BY <3>1, <4>1 DEF Report, NothingDecided, Undated
      <3>2. CASE ~Report(w)
        BY <1>4, <3>2 DEF Take, TakeAccepted, TakeRejected, Work, Judge, Select, Count, InsertRow, Start,
           Nothing, Create, SaveRepo, Invite, SaveInvite, Attach, SaveHook, Activate, Stumble, Crash, Fails,
           still, gateway, NothingDecided
      <3> QED BY <3>1, <3>2
    <2> QED BY <2>1, QuietStep
  <1>5. ASSUME NEW c \in Contracts, Sweep(c) PROVE GInv' /\ AssignmentsStay
    <2>1. NothingDecided /\ UNCHANGED <<assignments, req>>
      BY <1>5 DEF Sweep, SweepSelect, still, gateway, NothingDecided
    <2> QED BY <2>1, QuietStep
  <1>6. CASE UNCHANGED vars
    <2>1. NothingDecided /\ UNCHANGED <<assignments, req>>
      BY <1>6 DEF vars, gateway, NothingDecided
    <2> QED BY <2>1, QuietStep
  <1> QED BY <1>1, <1>2, <1>3, <1>4, <1>5, <1>6 DEF Next

-------------------------------------------------------------------------------
\* The runners' part.

\* What the runners rely on is not taken back.
WorldGrows ==
  /\ \A c \in Contracts, f \in Freelancers : Accepted(c, f) => Accepted(c, f)'
  /\ \A c \in Contracts : With(c, "ACCEPTED") # {} => With(c, "ACCEPTED")' # {}
  /\ \A c \in Contracts : row[c] # None => row'[c] # None /\ row'[c].name = row[c].name
  /\ \A n \in Names : github[n] # None =>
       /\ github'[n] # None /\ github[n].members \subseteq github'[n].members
       /\ github[n].hooked => github'[n].hooked
  /\ \A c \in Contracts : contract[c].status = "ACTIVE" => contract'[c].status = "ACTIVE"

LEMMA AcceptedStays ==
  ASSUME AssignmentsStay, NEW c
  PROVE  /\ \A f \in Freelancers : Accepted(c, f) => Accepted(c, f)'
         /\ With(c, "ACCEPTED") # {} => With(c, "ACCEPTED")' # {}
PROOF
  BY DEF Accepted, With, Ids, AssignmentsStay

LEMMA AcceptedSame ==
  ASSUME UNCHANGED assignments, NEW c, NEW f
  PROVE  Accepted(c, f)' <=> Accepted(c, f)
PROOF
  BY DEF Accepted, With, Ids

LEMMA RunnerStays ==
  ASSUME WInv, WorldGrows, NEW q, RunnerOk(q)
  PROVE  RunnerOk(q)'
PROOF
  <1>1. CASE q.pc = "idle"
    BY <1>1 DEF RunnerOk, WithRepo, WithMembers, WithHook
  <1>2. CASE q.pc # "idle"
    <2>1. q.c \in Contracts /\ q.f \in Freelancers /\ Accepted(q.c, q.f)'
      BY <1>2 DEF RunnerOk, WorldGrows
    <2>2. q.pc \in WithRepo \cup {"create", "end"} =>
            /\ row[q.c] # None /\ q.snap \in RowRecords
            /\ q.snap.name \in Names /\ q.snap.name = row[q.c].name /\ TellsOfGitHub(q.snap)
      BY <2>1 DEF RunnerOk, WInv, RowsOk
    <2>3. q.pc \in WithRepo \cup {"create", "end"} => TellsOfGitHub(q.snap)'
      BY <2>2 DEF TellsOfGitHub, WorldGrows
    <2>4. WithMembers \subseteq WithRepo /\ WithHook \subseteq WithRepo
      BY DEF WithMembers, WithHook, WithRepo
    <2> QED BY <2>1, <2>2, <2>3, <2>4 DEF RunnerOk, WorldGrows
  <1> QED BY <1>1, <1>2

LEMMA RunnerStep ==
  ASSUME WInv, WorldGrows, NEW w \in Runners, NEW q, run' = [run EXCEPT ![w] = q], RunnerOk(q)'
  PROVE  RunnersOk'
PROOF
  <1>1. /\ DOMAIN run' = Runners /\ run'[w] = q /\ \A v \in Runners : v # w => run'[v] = run[v]
    BY DEF WInv, RunnersOk
  <1>2. ASSUME NEW v \in Runners PROVE RunnerOk(run[v])'
    <2>1. CASE v = w
      BY <1>1, <2>1 DEF RunnerOk, Accepted, With, Ids, TellsOfGitHub
    <2>2. CASE v # w
      <3>1. PICK p : p = run[v] /\ RunnerOk(p)
        BY DEF WInv, RunnersOk
      <3>2. RunnerOk(p)' /\ run'[v] = p
        BY <1>1, <2>2, <3>1, RunnerStays
      <3> QED BY <3>2 DEF RunnerOk, Accepted, With, Ids, TellsOfGitHub
    <2> QED BY <2>1, <2>2
  <1> QED BY <1>1, <1>2 DEF RunnersOk

LEMMA NoRunnerStep ==
  ASSUME WInv, WorldGrows, UNCHANGED run
  PROVE  RunnersOk'
PROOF
  <1>1. ASSUME NEW v \in Runners PROVE RunnerOk(run[v])'
    <2>1. PICK p : p = run[v] /\ RunnerOk(p)
      BY DEF WInv, RunnersOk
    <2>2. RunnerOk(p)' /\ run'[v] = p
      BY <2>1, RunnerStays
    <2> QED BY <2>2 DEF RunnerOk, Accepted, With, Ids, TellsOfGitHub
  <1> QED BY <1>1 DEF WInv, RunnersOk

\* Who becomes ACTIVE is ready, and who is told so is.
LEMMA ToldStays ==
  ASSUME WInv, WorldGrows, mail' \subseteq mail,
         \A c \in Contracts :
           /\ contract'[c].status = "ACTIVE" =>
                \/ contract[c].status = "ACTIVE"
                \/ /\ row'[c] # None /\ github'[row'[c].name] # None
                   /\ github'[row'[c].name].hooked /\ github'[row'[c].name].members # {}
           /\ <<"ACTIVE", c>> \in notices' =>
                <<"ACTIVE", c>> \in notices \/ contract'[c].status = "ACTIVE"
           /\ <<"ACCEPTED", c>> \in notices' =>
                <<"ACCEPTED", c>> \in notices \/ With(c, "ACCEPTED")' # {}
  PROVE  ToldOk'
PROOF
  <1>1. \A e \in mail' : e[1] = "ACCEPTED" =>
          e[2] \in Contracts /\ e[3] \in Freelancers /\ Accepted(e[2], e[3])'
    <2> SUFFICES ASSUME NEW e \in mail', e[1] = "ACCEPTED"
                 PROVE  e[2] \in Contracts /\ e[3] \in Freelancers /\ Accepted(e[2], e[3])'
      OBVIOUS
    <2>1. e[2] \in Contracts /\ e[3] \in Freelancers /\ Accepted(e[2], e[3])
      BY DEF WInv, ToldOk
    <2> QED BY <2>1 DEF WorldGrows
  <1>2. ActiveIsReady'
    <2> SUFFICES ASSUME NEW c \in Contracts
                 PROVE  /\ contract'[c].status = "ACTIVE" =>
                             /\ row'[c] # None /\ github'[row'[c].name] # None
                             /\ github'[row'[c].name].hooked /\ github'[row'[c].name].members # {}
                        /\ <<"ACTIVE", c>> \in notices' => contract'[c].status = "ACTIVE"
                        /\ <<"ACCEPTED", c>> \in notices' => With(c, "ACCEPTED")' # {}
      BY DEF ActiveIsReady
    <2>1. /\ contract[c].status = "ACTIVE" =>
               /\ row[c] # None /\ github[row[c].name] # None
               /\ github[row[c].name].hooked /\ github[row[c].name].members # {}
          /\ <<"ACTIVE", c>> \in notices => contract[c].status = "ACTIVE"
          /\ <<"ACCEPTED", c>> \in notices => With(c, "ACCEPTED") # {}
      BY DEF WInv, ToldOk, ActiveIsReady
    <2>2. row[c] # None => row[c].name \in Names
      BY DEF WInv, RowsOk
    <2> QED BY <2>1, <2>2 DEF WorldGrows
  <1> QED BY <1>1, <1>2 DEF ToldOk

\* The names, and the number a row gets.
LEMMA NameFacts ==
  /\ Cardinality(Contracts) \in Nat /\ Names \subseteq Nat /\ NoRepo \notin Names
  /\ \A T \in SUBSET Contracts : Cardinality(T) \in Nat /\ Cardinality(T) <= Cardinality(Contracts)
  /\ \A n, t \in Nat : n <= Cardinality(Contracts) /\ t # 0 /\ t <= NameTries => Number(n, t) \in Names
PROOF
  <1>1. Cardinality(Contracts) \in Nat /\ NameTries \in Nat
    BY ConstantsAssumption, FS_CardinalityType
  <1>2. \A T \in SUBSET Contracts : Cardinality(T) \in Nat /\ Cardinality(T) <= Cardinality(Contracts)
    BY ConstantsAssumption, FS_Subset, FS_CardinalityType
  <1>3. Names = 1..(Cardinality(Contracts) + NameTries)
    BY DEF Names
  <1> QED BY <1>1, <1>2, <1>3 DEF NoRepo, Number

LEMMA AsleepFacts == RunnerOk(Asleep)'
PROOF
  BY ConstantsAssumption DEF Asleep, RunnerOk, RunFields, WithRepo, WithMembers, WithHook

\* A record is changed and keeps its name and its freelancer.
LEMMA RowChanges ==
  ASSUME WInv, UNCHANGED <<assignments, github>>, NEW c \in Contracts, row[c] # None,
         NEW x \in RowRecords, row' = [row EXCEPT ![c] = x],
         x.name = row[c].name, x.f = row[c].f, x.repo \in {NoRepo, x.name}, TellsOfGitHub(x)
  PROVE  /\ RowsOk' /\ GitHubOk'
         /\ \A d \in Contracts : row[d] # None => row'[d] # None /\ row'[d].name = row[d].name
PROOF
  <1>1. /\ DOMAIN row' = Contracts /\ row'[c] = x /\ \A d \in Contracts : d # c => row'[d] = row[d]
        /\ x # None
    BY NoneIsNoRecord DEF WInv, RowsOk
  <1>2. \A d \in Contracts : row'[d] # None <=> row[d] # None
    BY <1>1
  <1>3. \A d \in Contracts : row[d] # None => row'[d].name = row[d].name /\ row'[d].f = row[d].f
    BY <1>1
  <1>4. \A d \in Contracts : row'[d] # None =>
          /\ row'[d] \in RowRecords /\ row'[d].name \in Names /\ row'[d].repo \in {NoRepo, row'[d].name}
          /\ Accepted(d, row'[d].f) /\ TellsOfGitHub(row'[d])
    BY <1>1, <1>2, <1>3 DEF WInv, RowsOk
  <1>5. RowsOk'
    <2>1. \A d \in Contracts : row'[d] # None => TellsOfGitHub(row[d])' /\ Accepted(d, row[d].f)'
      BY <1>4 DEF TellsOfGitHub, Accepted, With, Ids
    <2>2. \A d, e \in Contracts :
            row'[d] # None /\ row'[e] # None /\ row'[d].name = row'[e].name => d = e
      BY <1>2, <1>3 DEF WInv, RowsOk
    <2> QED BY <1>1, <1>4, <2>1, <2>2 DEF RowsOk
  <1>6. GitHubOk'
    <2>1. ASSUME NEW n \in Names, github[n] # None
          PROVE  /\ github[n] \in Repositories
                 /\ row'[github[n].owner] # None /\ row'[github[n].owner].name = n
                 /\ \A f \in github[n].members : Accepted(github[n].owner, f)'
      <3>1. /\ github[n] \in Repositories /\ row[github[n].owner] # None /\ row[github[n].owner].name = n
            /\ \A f \in github[n].members : Accepted(github[n].owner, f)
        BY <2>1 DEF WInv, GitHubOk
      <3>2. github[n].owner \in Contracts
        BY <3>1 DEF Repositories
      <3> QED BY <1>1, <1>3, <3>1, <3>2 DEF Accepted, With, Ids
    <2> QED BY <2>1 DEF GitHubOk, WInv, Accepted, With, Ids
  <1> QED BY <1>2, <1>3, <1>5, <1>6

\* A record is inserted under a name nobody has.
LEMMA RowIsNew ==
  ASSUME WInv, UNCHANGED <<assignments, github>>, NEW c \in Contracts, row[c] = None,
         NEW x \in RowRecords, row' = [row EXCEPT ![c] = x],
         x.name \in Names, ~Taken(x.name), Accepted(c, x.f), x.repo = NoRepo, x.collab = "PENDING"
  PROVE  /\ RowsOk' /\ GitHubOk'
         /\ \A d \in Contracts : row[d] # None => row'[d] # None /\ row'[d].name = row[d].name
PROOF
  <1>1. /\ DOMAIN row' = Contracts /\ row'[c] = x /\ \A d \in Contracts : d # c => row'[d] = row[d]
        /\ x # None
    BY NoneIsNoRecord DEF WInv, RowsOk
  <1>2. TellsOfGitHub(x) /\ \A d \in Contracts : row[d] # None => row[d].name # x.name
    BY DEF TellsOfGitHub, Taken
  <1>3. \A d \in Contracts : row'[d] # None =>
          /\ row'[d] \in RowRecords /\ row'[d].name \in Names /\ row'[d].repo \in {NoRepo, row'[d].name}
          /\ Accepted(d, row'[d].f) /\ TellsOfGitHub(row'[d])
    BY <1>1, <1>2 DEF WInv, RowsOk
  <1>4. RowsOk'
    <2>1. \A d \in Contracts : row'[d] # None => TellsOfGitHub(row[d])' /\ Accepted(d, row[d].f)'
      BY <1>3 DEF TellsOfGitHub, Accepted, With, Ids
    <2>2. \A d, e \in Contracts :
            row'[d] # None /\ row'[e] # None /\ row'[d].name = row'[e].name => d = e
      BY <1>1, <1>2 DEF WInv, RowsOk
    <2> QED BY <1>1, <1>3, <2>1, <2>2 DEF RowsOk
  <1>5. GitHubOk'
    <2>1. ASSUME NEW n \in Names, github[n] # None
          PROVE  /\ github[n] \in Repositories
                 /\ row'[github[n].owner] # None /\ row'[github[n].owner].name = n
                 /\ \A f \in github[n].members : Accepted(github[n].owner, f)'
      <3>1. /\ github[n] \in Repositories /\ row[github[n].owner] # None /\ row[github[n].owner].name = n
            /\ \A f \in github[n].members : Accepted(github[n].owner, f)
        BY <2>1 DEF WInv, GitHubOk
      <3>2. github[n].owner \in Contracts /\ github[n].owner # c
        BY <3>1 DEF Repositories
      <3> QED BY <1>1, <3>1, <3>2 DEF Accepted, With, Ids
    <2> QED BY <2>1 DEF GitHubOk, WInv, Accepted, With, Ids
  <1> QED BY <1>1, <1>4, <1>5

\* The repository of a contract is created, or gains a member or a hook.
LEMMA RepositoryGrows ==
  ASSUME WInv, UNCHANGED <<assignments, row>>, NEW c \in Contracts, row[c] # None,
         NEW g \in Repositories, github' = [github EXCEPT ![row[c].name] = g],
         g.owner = c, \A f \in g.members : Accepted(c, f),
         github[row[c].name] # None => /\ github[row[c].name].members \subseteq g.members
                                       /\ github[row[c].name].hooked => g.hooked
  PROVE  /\ RowsOk' /\ GitHubOk' /\ github'[row[c].name] = g /\ g # None
         /\ \A n \in Names : github[n] # None =>
              /\ github'[n] # None /\ github[n].members \subseteq github'[n].members
              /\ github[n].hooked => github'[n].hooked
PROOF
  <1>1. PICK m : m = row[c].name /\ m \in Names
    BY DEF WInv, RowsOk
  <1>2. /\ DOMAIN github' = Names /\ github'[m] = g /\ \A n \in Names : n # m => github'[n] = github[n]
        /\ g # None
    BY <1>1, NoneIsNoRecord DEF WInv, GitHubOk
  <1>3. \A n \in Names : github[n] # None =>
          /\ github'[n] # None /\ github[n].members \subseteq github'[n].members
          /\ github[n].hooked => github'[n].hooked
    BY <1>1, <1>2
  <1>4. RowsOk'
    <2>1. ASSUME NEW d \in Contracts, row[d] # None
          PROVE  /\ row[d] \in RowRecords /\ row[d].name \in Names /\ row[d].repo \in {NoRepo, row[d].name}
                 /\ Accepted(d, row[d].f)' /\ TellsOfGitHub(row[d])'
      <3>1. /\ row[d] \in RowRecords /\ row[d].name \in Names /\ row[d].repo \in {NoRepo, row[d].name}
            /\ Accepted(d, row[d].f) /\ TellsOfGitHub(row[d])
        BY <2>1 DEF WInv, RowsOk
      <3>2. TellsOfGitHub(row[d])'
        BY <1>3, <3>1 DEF TellsOfGitHub
      <3> QED BY <3>1, <3>2 DEF Accepted, With, Ids
    <2> QED BY <2>1 DEF WInv, RowsOk, Accepted, With, Ids, TellsOfGitHub
  <1>5. GitHubOk'
    <2>1. ASSUME NEW n \in Names, github'[n] # None
          PROVE  /\ github'[n] \in Repositories
                 /\ row[github'[n].owner] # None /\ row[github'[n].owner].name = n
                 /\ \A f \in github'[n].members : Accepted(github'[n].owner, f)
      BY <1>1, <1>2, <2>1 DEF WInv, GitHubOk
    <2> QED BY <1>2, <2>1 DEF GitHubOk, Accepted, With, Ids
  <1> QED BY <1>1, <1>2, <1>3, <1>4, <1>5

LEMMA SameWorld ==
  ASSUME WInv, UNCHANGED <<assignments, row, github>>
  PROVE  /\ RowsOk' /\ GitHubOk'
         /\ \A d \in Contracts : row[d] # None => row'[d] # None /\ row'[d].name = row[d].name
         /\ \A n \in Names : github[n] # None =>
              /\ github'[n] # None /\ github[n].members \subseteq github'[n].members
              /\ github[n].hooked => github'[n].hooked
PROOF
  BY DEF WInv, RowsOk, GitHubOk, TellsOfGitHub, Accepted, With, Ids

\* A step of a runner that leaves the contracts as they are and tells nobody.
LEMMA PlainStep ==
  ASSUME WInv, UNCHANGED <<assignments, contract, notices>>, mail' \subseteq mail,
         \A d \in Contracts : row[d] # None => row'[d] # None /\ row'[d].name = row[d].name,
         \A n \in Names : github[n] # None =>
              /\ github'[n] # None /\ github[n].members \subseteq github'[n].members
              /\ github[n].hooked => github'[n].hooked
  PROVE  WorldGrows /\ ToldOk' /\ ContractsOk'
PROOF
  <1>1. WorldGrows
    BY DEF WorldGrows, Accepted, With, Ids
  <1>2. ToldOk'
    BY <1>1, ToldStays
  <1>3. ContractsOk'
    BY DEF WInv, ContractsOk
  <1> QED BY <1>1, <1>2, <1>3

\* A runner that ends.
LEMMA Ends ==
  ASSUME WInv, WorldGrows, RowsOk', GitHubOk', ContractsOk', ToldOk', NEW w \in Runners,
         run' = [run EXCEPT ![w] = Asleep]
  PROVE  WInv'
PROOF
  <1>1. PICK q : q = Asleep
    OBVIOUS
  <1>2. RunnerOk(q)'
    BY <1>1, AsleepFacts DEF RunnerOk, WithRepo, WithMembers, WithHook
  <1>3. RunnersOk'
    BY <1>1, <1>2, RunnerStep
  <1> QED BY <1>3 DEF WInv

\* A runner that goes on has what its next step relies on.
LEMMA GoesOn ==
  ASSUME WInv, WorldGrows, RowsOk', GitHubOk', ContractsOk', ToldOk',
         NEW w \in Runners, NEW pc, pc \notin {"idle", "insert", "judge"}, Step(w, pc), run[w].pc # "idle",
         pc \in WithRepo \cup {"create", "end"} => run[w].pc \in WithRepo \cup {"create", "end"},
         pc \in WithRepo => github'[run[w].snap.name] # None,
         pc \in WithMembers => github'[run[w].snap.name].members # {},
         pc \in WithHook => github'[run[w].snap.name].hooked,
         pc = "report" => contract'[run[w].c].status = "ACTIVE"
  PROVE  WInv'
PROOF
  <1>1. PICK p : p = run[w] /\ RunnerOk(p)
    BY DEF WInv, RunnersOk
  <1>2. RunnerOk(p)'
    BY <1>1, RunnerStays
  <1>3. PICK q : q = [p EXCEPT !.pc = pc]
    OBVIOUS
  <1>4. run' = [run EXCEPT ![w] = q]
    BY <1>1, <1>3 DEF Step, WInv, RunnersOk
  <1>5. /\ DOMAIN q = RunFields /\ q.pc = pc /\ q.c = p.c /\ q.f = p.f /\ q.snap = p.snap
        /\ q.tries = p.tries
    BY <1>1, <1>3 DEF RunnerOk, RunFields
  <1>6. /\ q.tries \in Nat /\ q.tries # 0 /\ q.tries <= NameTries
        /\ q.c \in Contracts /\ q.f \in Freelancers /\ Accepted(q.c, q.f)'
    BY <1>1, <1>2, <1>5 DEF RunnerOk
  <1>7. q.pc \in WithRepo \cup {"create", "end"} =>
          /\ row'[q.c] # None /\ q.snap \in RowRecords
          /\ q.snap.name = row'[q.c].name /\ TellsOfGitHub(q.snap)'
    BY <1>1, <1>2, <1>5 DEF RunnerOk
  <1>8. RunnerOk(q)'
    BY <1>1, <1>5, <1>6, <1>7 DEF RunnerOk
  <1>9. RunnersOk'
    BY <1>4, <1>8, RunnerStep
  <1> QED BY <1>9 DEF WInv

\* The runner at work: its contract, and the record and the repository it may rely on.
LEMMA AtWork ==
  ASSUME WInv, NEW w \in Runners, run[w].pc # "idle"
  PROVE  /\ run[w].c \in Contracts /\ run[w].f \in Freelancers /\ Accepted(run[w].c, run[w].f)
         /\ run[w].tries \in Nat /\ run[w].tries # 0 /\ run[w].tries <= NameTries
         /\ run[w].pc = "insert" => run[w].num \in Names
         /\ run[w].pc = "judge" => row[run[w].c] # None
         /\ run[w].pc \in WithRepo \cup {"create", "end"} =>
              /\ row[run[w].c] # None /\ run[w].snap \in RowRecords /\ run[w].snap.name \in Names
              /\ run[w].snap.name = row[run[w].c].name /\ TellsOfGitHub(run[w].snap)
         /\ run[w].pc \in WithRepo => github[run[w].snap.name] # None
         /\ run[w].pc \in WithMembers => github[run[w].snap.name].members # {}
         /\ run[w].pc \in WithHook => github[run[w].snap.name].hooked
         /\ run[w].pc = "report" => contract[run[w].c].status = "ACTIVE"
         /\ row[run[w].c] # None => row[run[w].c] \in RowRecords /\ TellsOfGitHub(row[run[w].c])
                                    /\ row[run[w].c].repo \in {NoRepo, row[run[w].c].name}
PROOF
  <1>1. RunnerOk(run[w]) /\ RowsOk
    BY DEF WInv, RunnersOk
  <1> QED BY <1>1 DEF RunnerOk, RowsOk

-------------------------------------------------------------------------------
\* The steps of a runner.

LEMMA TakeKeeps ==
  ASSUME WInv, NEW w \in Runners, Take(w)
  PROVE  WInv'
PROOF
  <1>1. run[w].pc = "idle" /\ UNCHANGED <<assignments, contract, row, github>>
    BY DEF Take, TakeAccepted, TakeRejected, On, still, gateway, external
  <1>2. /\ RowsOk' /\ GitHubOk' /\ ContractsOk' /\ WorldGrows
    <2>1. WorldGrows
      BY <1>1 DEF WorldGrows, Accepted, With, Ids
    <2> QED BY <1>1, <2>1, SameWorld DEF WInv, ContractsOk
  <1>3. CASE TakeAccepted(w)
    <2>1. PICK e \in mail : /\ e[1] = "ACCEPTED" /\ Tell("ACCEPTED", e[2])
                            /\ \/ /\ run' = [run EXCEPT ![w] =
                                       [Asleep EXCEPT !.c = e[2], !.f = e[3], !.event = e,
                                          !.terminal = e[3] \in Unlinked,
                                          !.pc = IF e[3] \in Unlinked THEN "count" ELSE "select"]]
                                  /\ UNCHANGED mail
                               \/ mail' = mail \ {e} /\ UNCHANGED run
      BY <1>3 DEF TakeAccepted
    <2>2. e[2] \in Contracts /\ e[3] \in Freelancers /\ Accepted(e[2], e[3])
      BY <2>1 DEF WInv, ToldOk
    <2>3. With(e[2], "ACCEPTED")' # {}
      BY <1>1, <2>2 DEF Accepted, With, Ids
    <2>4. \A c \in Contracts : /\ <<"ACTIVE", c>> \in notices' => <<"ACTIVE", c>> \in notices
                               /\ <<"ACCEPTED", c>> \in notices' => <<"ACCEPTED", c>> \in notices \/ c = e[2]
      BY <2>1 DEF Tell
    <2>5. ToldOk'
      BY <1>1, <1>2, <2>1, <2>3, <2>4, ToldStays
    <2>6. CASE UNCHANGED run
      BY <1>2, <2>5, <2>6, NoRunnerStep DEF WInv
    <2>7. ASSUME NEW pc \in {"count", "select"}, NEW terminal,
                 run' = [run EXCEPT ![w] = [Asleep EXCEPT !.c = e[2], !.f = e[3], !.event = e,
                                              !.terminal = terminal, !.pc = pc]]
          PROVE  WInv'
      <3>1. PICK q : q = [Asleep EXCEPT !.c = e[2], !.f = e[3], !.event = e, !.terminal = terminal, !.pc = pc]
        OBVIOUS
      <3>2. DOMAIN q = RunFields /\ q.c = e[2] /\ q.f = e[3] /\ q.pc = pc /\ q.tries = 1
        BY <3>1 DEF Asleep, RunFields
      <3>3. Accepted(q.c, q.f)'
        BY <1>1, <2>2, <3>2 DEF Accepted, With, Ids
      <3>4. RunnerOk(q)'
        BY <2>2, <2>7, <3>2, <3>3, ConstantsAssumption DEF RunnerOk, WithRepo, WithMembers, WithHook
      <3>5. RunnersOk'
        BY <1>2, <2>7, <3>1, <3>4, RunnerStep
      <3> QED BY <1>2, <2>5, <3>5 DEF WInv
    <2>8. CASE e[3] \in Unlinked
      BY <2>1, <2>6, <2>7, <2>8
    <2>9. CASE e[3] \notin Unlinked
      BY <2>1, <2>6, <2>7, <2>9
    <2> QED BY <2>8, <2>9
  <1>4. CASE TakeRejected(w)
    <2>1. /\ mail' \subseteq mail /\ UNCHANGED run
          /\ \A c \in Contracts :
               /\ <<"ACTIVE", c>> \in notices' => <<"ACTIVE", c>> \in notices
               /\ <<"ACCEPTED", c>> \in notices' => <<"ACCEPTED", c>> \in notices
      BY <1>4 DEF TakeRejected, Tell
    <2>2. RunnersOk'
      BY <1>2, <2>1, NoRunnerStep
    <2>3. \A c \in Contracts :
            /\ contract'[c].status = "ACTIVE" =>
                 \/ contract[c].status = "ACTIVE"
                 \/ /\ row'[c] # None /\ github'[row'[c].name] # None
                    /\ github'[row'[c].name].hooked /\ github'[row'[c].name].members # {}
            /\ <<"ACTIVE", c>> \in notices' =>
                 <<"ACTIVE", c>> \in notices \/ contract'[c].status = "ACTIVE"
            /\ <<"ACCEPTED", c>> \in notices' =>
                 <<"ACCEPTED", c>> \in notices \/ With(c, "ACCEPTED")' # {}
      <3> TAKE c \in Contracts
      <3>1. contract' = contract
        BY <1>1
      <3>2. contract'[c].status = "ACTIVE" => contract[c].status = "ACTIVE"
        BY <3>1
      <3>3. /\ <<"ACTIVE", c>> \in notices' => <<"ACTIVE", c>> \in notices
            /\ <<"ACCEPTED", c>> \in notices' => <<"ACCEPTED", c>> \in notices
        BY <2>1
      <3> QED BY <3>2, <3>3
    <2>4. ToldOk'
      BY <1>2, <2>1, <2>3, ToldStays
    <2> QED BY <1>2, <2>2, <2>4 DEF WInv
  <1> QED BY <1>3, <1>4 DEF Take

LEMMA SweepKeeps ==
  ASSUME WInv, NEW w \in Runners, NEW c \in Contracts, SweepSelect(w, c)
  PROVE  WInv'
PROOF
  <1>1. /\ UNCHANGED <<assignments, contract, row, github, notices, mail>> /\ row[c] # None
    BY DEF SweepSelect, still, gateway, external, Unfinished
  <1>2. /\ RowsOk' /\ GitHubOk' /\ WorldGrows /\ ToldOk' /\ ContractsOk'
    BY <1>1, SameWorld, PlainStep
  <1>3. row[c] \in RowRecords /\ Accepted(c, row[c].f)
    BY <1>1 DEF WInv, RowsOk
  <1>4. PICK q : q = [Asleep EXCEPT !.pc = "judge", !.c = c, !.f = row[c].f, !.snap = row[c]]
    OBVIOUS
  <1>5. DOMAIN q = RunFields /\ q.pc = "judge" /\ q.c = c /\ q.f = row[c].f /\ q.tries = 1
    BY <1>4 DEF Asleep, RunFields
  <1>6. q.f \in Freelancers /\ Accepted(q.c, q.f)'
    BY <1>1, <1>3, <1>5 DEF RowRecords, Accepted, With, Ids
  <1>7. RunnerOk(q)'
    BY <1>1, <1>5, <1>6, ConstantsAssumption DEF RunnerOk, WithRepo, WithMembers, WithHook
  <1>8. RunnersOk'
    BY <1>2, <1>4, <1>7, RunnerStep DEF SweepSelect
  <1> QED BY <1>2, <1>8 DEF WInv

\* A record whose status, attempts or progress change.
LEMMA RowUpdate ==
  ASSUME WInv, NEW c \in Contracts, row[c] # None, NEW x,
         x \in RowRecords, x.name = row[c].name, x.f = row[c].f, x.repo \in {NoRepo, x.name},
         TellsOfGitHub(x), row' = [row EXCEPT ![c] = x],
         UNCHANGED <<assignments, contract, notices, github>>, mail' \subseteq mail
  PROVE  RowsOk' /\ GitHubOk' /\ WorldGrows /\ ToldOk' /\ ContractsOk'
PROOF
  <1>1. /\ RowsOk' /\ GitHubOk'
        /\ \A d \in Contracts : row[d] # None => row'[d] # None /\ row'[d].name = row[d].name
    BY RowChanges
  <1>2. \A n \in Names : github[n] # None =>
          /\ github'[n] # None /\ github[n].members \subseteq github'[n].members
          /\ github[n].hooked => github'[n].hooked
    OBVIOUS
  <1> QED BY <1>1, <1>2, PlainStep

LEMMA JudgeKeeps ==
  ASSUME WInv, NEW w \in Runners, Judge(w)
  PROVE  WInv'
PROOF
  <1>1. /\ run[w].pc = "judge" /\ UNCHANGED <<assignments, contract, notices, github>>
    BY DEF Judge, On, still, gateway, external
  <1>2. PICK c \in Contracts : c = run[w].c /\ row[c] # None
    BY <1>1, AtWork
  <1>3. CASE Put(w, [RowOf(w) EXCEPT !.status = "FAILED"]) /\ Done(w)
    <2>1. PICK p : p = row[c] /\ p \in RowRecords /\ TellsOfGitHub(p) /\ p.repo \in {NoRepo, p.name}
      BY <1>1, <1>2, AtWork
    <2>2. PICK x : x = [p EXCEPT !.status = "FAILED"]
      OBVIOUS
    <2>3. /\ x \in RowRecords /\ x.name = p.name /\ x.f = p.f /\ x.repo = p.repo /\ x.collab = p.collab
      BY <2>1, <2>2 DEF RowRecords, Statuses
    <2>4. TellsOfGitHub(x)
      BY <2>1, <2>3 DEF TellsOfGitHub
    <2>5. row' = [row EXCEPT ![c] = x] /\ mail' \subseteq mail
      BY <1>2, <1>3, <2>1, <2>2 DEF Put, RowOf, Done
    <2>6. RowsOk' /\ GitHubOk' /\ WorldGrows /\ ToldOk' /\ ContractsOk'
      BY <1>1, <1>2, <2>1, <2>3, <2>4, <2>5, RowUpdate
    <2> QED BY <1>3, <2>6, Ends DEF Done
  <1>4. CASE Step(w, "select") /\ UNCHANGED <<row, mail>>
    <2>1. RowsOk' /\ GitHubOk' /\ WorldGrows /\ ToldOk' /\ ContractsOk'
      BY <1>1, <1>4, SameWorld, PlainStep
    <2> QED BY <1>1, <1>4, <2>1, GoesOn DEF WithRepo, WithMembers, WithHook
  <1> QED BY <1>3, <1>4 DEF Judge

LEMMA SelectKeeps ==
  ASSUME WInv, NEW w \in Runners, Select(w)
  PROVE  WInv'
PROOF
  <1>1. /\ run[w].pc = "select" /\ UNCHANGED <<assignments, contract, notices, github, row, mail>>
        /\ Step(w, "count") \/ Step(w, "start")
    BY DEF Select, On, still, gateway, external
  <1>2. RowsOk' /\ GitHubOk' /\ WorldGrows /\ ToldOk' /\ ContractsOk'
    BY <1>1, SameWorld, PlainStep
  <1> QED BY <1>1, <1>2, GoesOn DEF WithRepo, WithMembers, WithHook

LEMMA CountKeeps ==
  ASSUME WInv, NEW w \in Runners, Count(w)
  PROVE  WInv'
PROOF
  <1>1. /\ run[w].pc = "count" /\ UNCHANGED <<assignments, contract, notices, github, row, mail>>
    BY DEF Count, On, still, gateway, external
  <1>2. RowsOk' /\ GitHubOk' /\ WorldGrows /\ ToldOk' /\ ContractsOk'
    BY <1>1, SameWorld, PlainStep
  <1>3. PICK p : p = run[w] /\ RunnerOk(p) /\ p.pc = "count"
    BY <1>1 DEF WInv, RunnersOk
  <1>4. PICK n : n = Number(Cardinality({c \in Contracts : row[c] # None}), p.tries)
    OBVIOUS
  <1>5. n \in Names
    BY <1>3, <1>4, NameFacts DEF RunnerOk
  <1>6. PICK q : q = [p EXCEPT !.pc = "insert", !.num = n]
    OBVIOUS
  <1>7. run' = [run EXCEPT ![w] = q]
    BY <1>3, <1>4, <1>6 DEF Count, WInv, RunnersOk
  <1>8. /\ DOMAIN q = RunFields /\ q.pc = "insert" /\ q.num = n /\ q.c = p.c /\ q.f = p.f
        /\ q.tries = p.tries
    BY <1>3, <1>6 DEF RunnerOk, RunFields
  <1>9. q.c \in Contracts /\ q.f \in Freelancers /\ Accepted(q.c, q.f)'
    BY <1>1, <1>3, <1>8 DEF RunnerOk, Accepted, With, Ids
  <1>10. RunnerOk(q)'
    BY <1>3, <1>5, <1>8, <1>9 DEF RunnerOk, WithRepo, WithMembers, WithHook
  <1>11. RunnersOk'
    BY <1>2, <1>7, <1>10, RunnerStep
  <1> QED BY <1>2, <1>11 DEF WInv

LEMMA InsertRowKeeps ==
  ASSUME WInv, NEW w \in Runners, InsertRow(w)
  PROVE  WInv'
PROOF
  <1>1. /\ run[w].pc = "insert" /\ UNCHANGED <<assignments, contract, notices, github>>
    BY DEF InsertRow, On, still, gateway, external
  <1>2. PICK p : p = run[w] /\ RunnerOk(p) /\ p.pc = "insert"
    BY <1>1 DEF WInv, RunnersOk
  <1>3. /\ p.c \in Contracts /\ p.f \in Freelancers /\ Accepted(p.c, p.f) /\ p.num \in Names
    BY <1>2 DEF RunnerOk
  <1>4. AfterInsert(w) => \/ Done(w)
                          \/ Step(w, "start") /\ UNCHANGED mail
    BY DEF AfterInsert
  <1>5. AfterInsert(w) => mail' \subseteq mail
    BY <1>4 DEF Done
  <1>6. ASSUME RowsOk', GitHubOk', WorldGrows, ToldOk', ContractsOk', AfterInsert(w) PROVE WInv'
    BY <1>1, <1>4, <1>6, Ends, GoesOn DEF Done, WithRepo, WithMembers, WithHook
  <1>7. CASE row[p.c] = None /\ ~Taken(p.num) /\ Put(w, NewRow(w)) /\ AfterInsert(w)
    <2>1. PICK s : s = IF p.terminal THEN "FAILED" ELSE "PENDING"
      OBVIOUS
    <2>2. PICK x : x = [name |-> p.num, f |-> p.f, repo |-> NoRepo, collab |-> "PENDING",
                        hook |-> "PENDING", attempts |-> 0, status |-> s]
      OBVIOUS
    <2>3. s \in Statuses
      BY <2>1 DEF Statuses
    <2>4. x \in RowRecords /\ x.name = p.num /\ x.f = p.f /\ x.repo = NoRepo /\ x.collab = "PENDING"
      <3>1. p.num \in Nat /\ 0 \in Nat /\ NoRepo \in Nat
        BY <1>3, NameFacts DEF NoRepo
      <3> QED BY <1>3, <2>2, <2>3, <3>1 DEF RowRecords
    <2>5. row' = [row EXCEPT ![p.c] = x]
      BY <1>2, <1>7, <2>1, <2>2 DEF Put, NewRow
    <2>6. /\ RowsOk' /\ GitHubOk'
          /\ \A d \in Contracts : row[d] # None => row'[d] # None /\ row'[d].name = row[d].name
      BY <1>1, <1>3, <1>7, <2>4, <2>5, RowIsNew
    <2>7. WorldGrows /\ ToldOk' /\ ContractsOk'
      <3>1. \A n \in Names : github[n] # None =>
              /\ github'[n] # None /\ github[n].members \subseteq github'[n].members
              /\ github[n].hooked => github'[n].hooked
        BY <1>1
      <3> QED BY <1>1, <1>5, <1>7, <2>6, <3>1, PlainStep
    <2> QED BY <1>6, <1>7, <2>6, <2>7
  <1>8. CASE UNCHANGED row /\ AfterInsert(w)
    <2>1. RowsOk' /\ GitHubOk' /\ WorldGrows /\ ToldOk' /\ ContractsOk'
      BY <1>1, <1>5, <1>8, SameWorld, PlainStep
    <2> QED BY <1>6, <1>8, <2>1
  <1>9. CASE /\ UNCHANGED <<row, mail>> /\ p.tries < NameTries
             /\ run' = [run EXCEPT ![w].pc = "count", ![w].tries = @ + 1]
    <2>1. RowsOk' /\ GitHubOk' /\ WorldGrows /\ ToldOk' /\ ContractsOk'
      BY <1>1, <1>9, SameWorld, PlainStep
    <2>2. PICK q : q = [p EXCEPT !.pc = "count", !.tries = p.tries + 1]
      OBVIOUS
    <2>3. run' = [run EXCEPT ![w] = q]
      BY <1>2, <1>9, <2>2 DEF WInv, RunnersOk
    <2>4. DOMAIN q = RunFields /\ q.pc = "count" /\ q.c = p.c /\ q.f = p.f /\ q.tries = p.tries + 1
      BY <1>2, <2>2 DEF RunnerOk, RunFields
    <2>5. q.tries \in Nat /\ q.tries # 0 /\ q.tries <= NameTries
      BY <1>2, <1>9, <2>4, ConstantsAssumption DEF RunnerOk
    <2>6. Accepted(q.c, q.f)'
      BY <1>1, <1>3, <2>4 DEF Accepted, With, Ids
    <2>7. RunnerOk(q)'
      BY <1>3, <2>4, <2>5, <2>6 DEF RunnerOk, WithRepo, WithMembers, WithHook
    <2>8. RunnersOk'
      BY <2>1, <2>3, <2>7, RunnerStep
    <2> QED BY <2>1, <2>8 DEF WInv
  <1> QED BY <1>2, <1>7, <1>8, <1>9 DEF InsertRow, RowOf

\* The step a snapshot calls for has what it relies on.
LEMMA NextStepFacts ==
  ASSUME NEW s, TellsOfGitHub(s)
  PROVE  /\ NextStep(s) \in {"create", "invite", "hook", "end"}
         /\ NextStep(s) = "create" => s.repo = NoRepo
         /\ NextStep(s) \in {"invite", "hook"} => github[s.name] # None
         /\ NextStep(s) = "hook" => github[s.name].members # {}
PROOF
  <1>1. CASE s.repo = NoRepo
    BY <1>1 DEF NextStep
  <1>2. CASE s.repo # NoRepo /\ s.collab # "INVITED"
    BY <1>2 DEF NextStep, TellsOfGitHub
  <1>3. CASE s.repo # NoRepo /\ s.collab = "INVITED" /\ s.hook # "ATTACHED"
    BY <1>3 DEF NextStep, TellsOfGitHub
  <1>4. CASE s.repo # NoRepo /\ s.collab = "INVITED" /\ s.hook = "ATTACHED"
    BY <1>4 DEF NextStep, TellsOfGitHub
  <1> QED BY <1>1, <1>2, <1>3, <1>4

LEMMA StartKeeps ==
  ASSUME WInv, NEW w \in Runners, Start(w)
  PROVE  WInv'
PROOF
  <1>1. /\ run[w].pc = "start" /\ UNCHANGED <<assignments, contract, notices, github>>
    BY DEF Start, On, still, gateway, external
  <1>2. PICK p : p = run[w] /\ RunnerOk(p) /\ p.pc = "start"
    BY <1>1 DEF WInv, RunnersOk
  <1>3. p.c \in Contracts /\ p.f \in Freelancers /\ Accepted(p.c, p.f)
    BY <1>2 DEF RunnerOk
  <1>4. CASE Done(w) /\ UNCHANGED row
    <2>1. mail' \subseteq mail /\ run' = [run EXCEPT ![w] = Asleep]
      BY <1>4 DEF Done
    <2>2. RowsOk' /\ GitHubOk' /\ WorldGrows /\ ToldOk' /\ ContractsOk'
      BY <1>1, <1>4, <2>1, SameWorld, PlainStep
    <2> QED BY <2>1, <2>2, Ends
  <1>5. ASSUME NEW x, x = row[p.c], x # None,
               Put(w, [RowOf(w) EXCEPT !.attempts = @ + 1]), UNCHANGED mail,
               run' = [run EXCEPT ![w].snap = RowOf(w), ![w].pc = NextStep(RowOf(w))]
        PROVE  WInv'
    <2>1. x \in RowRecords /\ TellsOfGitHub(x) /\ x.repo \in {NoRepo, x.name} /\ x.name \in Names
      BY <1>3, <1>5 DEF WInv, RowsOk
    <2>2. PICK y : y = [x EXCEPT !.attempts = x.attempts + 1]
      OBVIOUS
    <2>3. /\ y \in RowRecords /\ y.name = x.name /\ y.f = x.f /\ y.repo = x.repo /\ y.collab = x.collab
      BY <2>1, <2>2 DEF RowRecords
    <2>4. TellsOfGitHub(y)
      BY <2>1, <2>3 DEF TellsOfGitHub
    <2>5. row' = [row EXCEPT ![p.c] = y] /\ mail' \subseteq mail
      BY <1>2, <1>5, <2>2 DEF Put, RowOf
    <2>6. RowsOk' /\ GitHubOk' /\ WorldGrows /\ ToldOk' /\ ContractsOk'
      BY <1>1, <1>3, <1>5, <2>1, <2>3, <2>4, <2>5, RowUpdate
    <2>7. PICK pc : pc = NextStep(x)
      OBVIOUS
    <2>8. /\ pc \in {"create", "invite", "hook", "end"}
          /\ pc \in {"invite", "hook"} => github[x.name] # None
          /\ pc = "hook" => github[x.name].members # {}
      BY <2>1, <2>7, NextStepFacts
    <2>9. PICK q : q = [p EXCEPT !.snap = x, !.pc = pc]
      OBVIOUS
    <2>10. run' = [run EXCEPT ![w] = q]
      BY <1>2, <1>5, <2>7, <2>9 DEF RowOf, WInv, RunnersOk
    <2>11. DOMAIN q = RunFields /\ q.snap = x /\ q.pc = pc /\ q.c = p.c /\ q.f = p.f /\ q.tries = p.tries
      BY <1>2, <2>9 DEF RunnerOk, RunFields
    <2>12. row'[q.c] # None /\ row'[q.c].name = x.name
      BY <1>3, <1>5, <2>6, <2>11 DEF WorldGrows
    <2>13. Accepted(q.c, q.f)' /\ TellsOfGitHub(q.snap)'
      BY <1>1, <1>3, <2>1, <2>11 DEF Accepted, With, Ids, TellsOfGitHub
    <2>14. RunnerOk(q)'
      BY <1>1, <1>2, <1>3, <2>1, <2>8, <2>11, <2>12, <2>13 DEF RunnerOk, WithRepo, WithMembers, WithHook
    <2>15. RunnersOk'
      BY <2>6, <2>10, <2>14, RunnerStep
    <2> QED BY <2>6, <2>15 DEF WInv
  <1>6. CASE Unfinished(p.c)
    BY <1>2, <1>5, <1>6 DEF Start, RowOf, Unfinished
  <1>7. CASE ~Unfinished(p.c)
    BY <1>2, <1>4, <1>7 DEF Start
  <1> QED BY <1>6, <1>7

LEMMA NothingKeeps ==
  ASSUME WInv, NEW w \in Runners, Nothing(w)
  PROVE  WInv'
PROOF
  <1>1. /\ UNCHANGED <<assignments, contract, notices, github, row>> /\ mail' \subseteq mail
        /\ run' = [run EXCEPT ![w] = Asleep]
    BY DEF Nothing, Done, still, gateway, external
  <1>2. RowsOk' /\ GitHubOk' /\ WorldGrows /\ ToldOk' /\ ContractsOk'
    BY <1>1, SameWorld, PlainStep
  <1> QED BY <1>1, <1>2, Ends

\* A call to GitHub that takes effect on the contract's repository, whether its
\* answer comes or not.
LEMMA CallTakesEffect ==
  ASSUME WInv, UNCHANGED <<assignments, contract, notices, row>>, mail' \subseteq mail,
         NEW c \in Contracts, row[c] # None, NEW m, m = row[c].name,
         NEW g \in Repositories, github' = [github EXCEPT ![m] = g],
         g.owner = c, \A f \in g.members : Accepted(c, f),
         github[m] # None => github[m].members \subseteq g.members /\ (github[m].hooked => g.hooked)
  PROVE  RowsOk' /\ GitHubOk' /\ WorldGrows /\ ToldOk' /\ ContractsOk'
PROOF
  <1>1. /\ RowsOk' /\ GitHubOk' /\ github'[m] = g /\ g # None
        /\ \A n \in Names : github[n] # None =>
             /\ github'[n] # None /\ github[n].members \subseteq github'[n].members
             /\ github[n].hooked => github'[n].hooked
    BY RepositoryGrows
  <1>2. \A d \in Contracts : row[d] # None => row'[d] # None /\ row'[d].name = row[d].name
    OBVIOUS
  <1>3. WorldGrows /\ ToldOk' /\ ContractsOk'
    BY <1>1, <1>2, PlainStep
  <1> QED BY <1>1, <1>3

\* A call that has none, or whose effect is lost on nobody: the attempt ends.
LEMMA CallFails ==
  ASSUME WInv, NEW w \in Runners, Fails(w), UNCHANGED github
  PROVE  WInv'
PROOF
  <1>1. /\ UNCHANGED <<assignments, contract, notices, row, github>> /\ mail' \subseteq mail
        /\ run' = [run EXCEPT ![w] = Asleep]
    BY DEF Fails, Done, still, gateway
  <1>2. RowsOk' /\ GitHubOk' /\ WorldGrows /\ ToldOk' /\ ContractsOk'
    BY <1>1, SameWorld, PlainStep
  <1> QED BY <1>1, <1>2, Ends

LEMMA CreateKeeps ==
  ASSUME WInv, NEW w \in Runners, Create(w)
  PROVE  WInv'
PROOF
  <1>1. run[w].pc = "create" /\ \/ /\ github' = Created(w) /\ Step(w, "saveRepo")
                                   /\ UNCHANGED <<still, mail, notices, row>>
                                \/ github' = Created(w) /\ Fails(w)
                                \/ UNCHANGED github /\ Fails(w)
    BY DEF Create, On
  <1>2. PICK c \in Contracts : c = run[w].c
    BY <1>1, AtWork
  <1>3. PICK m \in Names : m = run[w].snap.name /\ row[c] # None /\ row[c].name = m
    BY <1>1, <1>2, AtWork
  <1>4. CASE github' = Created(w) /\ UNCHANGED <<assignments, contract, notices, row>> /\ mail' \subseteq mail
             /\ (Step(w, "saveRepo") \/ Done(w))
    <2>1. PICK old : old = github[m]
      OBVIOUS
    <2>2. old # None => /\ old \in Repositories /\ old.owner = c /\ \A f \in old.members : Accepted(c, f)
      BY <1>3, <2>1 DEF WInv, GitHubOk, RowsOk, Repositories
    <2>3. PICK g : g = IF old = None THEN [owner |-> c, members |-> {}, hooked |-> FALSE] ELSE old
      OBVIOUS
    <2>4. g \in Repositories /\ g.owner = c /\ \A f \in g.members : Accepted(c, f)
      BY <2>2, <2>3 DEF Repositories
    <2>5. old # None => old.members \subseteq g.members /\ (old.hooked => g.hooked)
      BY <2>3
    <2>6. github' = [github EXCEPT ![m] = g]
      BY <1>2, <1>3, <1>4, <2>1, <2>3 DEF Created
    <2>7. RowsOk' /\ GitHubOk' /\ WorldGrows /\ ToldOk' /\ ContractsOk'
      <3>1. github[m] # None => github[m].members \subseteq g.members /\ (github[m].hooked => g.hooked)
        BY <2>1, <2>5
      <3>2. UNCHANGED <<assignments, contract, notices, row>> /\ mail' \subseteq mail
        BY <1>4
      <3>3. row[c] # None /\ m = row[c].name
        BY <1>3
      <3> QED BY <2>4, <2>6, <3>1, <3>2, <3>3, CallTakesEffect
    <2>8. CASE Step(w, "saveRepo")
      <3>1. github'[m] # None
        BY <2>4, <2>6, NoneIsNoRecord DEF WInv, GitHubOk
      <3> QED BY <1>1, <1>3, <2>7, <2>8, <3>1, GoesOn DEF WithRepo, WithMembers, WithHook
    <2>9. CASE Done(w)
      BY <2>7, <2>9, Ends DEF Done
    <2> QED BY <1>4, <2>8, <2>9
  <1>5. CASE /\ github' = Created(w) /\ Step(w, "saveRepo")
             /\ UNCHANGED <<still, mail, notices, row>>
    BY <1>4, <1>5 DEF still, gateway
  <1>6. CASE github' = Created(w) /\ Fails(w)
    BY <1>4, <1>6 DEF Fails, Done, still, gateway
  <1>7. CASE UNCHANGED github /\ Fails(w)
    BY <1>7, CallFails
  <1> QED BY <1>1, <1>5, <1>6, <1>7

LEMMA SaveRepoKeeps ==
  ASSUME WInv, NEW w \in Runners, SaveRepo(w)
  PROVE  WInv'
PROOF
  <1>1. /\ run[w].pc = "saveRepo" /\ UNCHANGED <<assignments, contract, notices, mail, github>>
    BY DEF SaveRepo, On, still, gateway, external
  <1>2. PICK c \in Contracts : c = run[w].c
    BY <1>1, AtWork
  <1>3. PICK s \in RowRecords : /\ s = run[w].snap /\ s.name \in Names /\ row[c] # None
                                /\ row[c].name = s.name /\ TellsOfGitHub(s) /\ github[s.name] # None
    BY <1>1, <1>2, AtWork DEF WithRepo
  <1>4. PICK p : p = row[c] /\ p \in RowRecords /\ TellsOfGitHub(p)
    BY <1>1, <1>2, <1>3, AtWork
  <1>5. PICK x : x = [p EXCEPT !.repo = s.name, !.status = "REPO_CREATED"]
    OBVIOUS
  <1>6. x \in RowRecords /\ x.name = p.name /\ x.f = p.f /\ x.repo = s.name /\ x.collab = p.collab
    BY <1>3, <1>4, <1>5 DEF RowRecords, Statuses
  <1>7. TellsOfGitHub(x)
    BY <1>3, <1>4, <1>6 DEF TellsOfGitHub
  <1>8. row' = [row EXCEPT ![c] = x]
    BY <1>2, <1>3, <1>4, <1>5 DEF SaveRepo, Put, RowOf
  <1>9. RowsOk' /\ GitHubOk' /\ WorldGrows /\ ToldOk' /\ ContractsOk'
    BY <1>1, <1>3, <1>4, <1>6, <1>7, <1>8, RowUpdate
  <1>10. PICK t : t = [s EXCEPT !.repo = s.name]
    OBVIOUS
  <1>11. t.repo = s.name /\ t.name = s.name /\ t.collab = s.collab /\ s.name # NoRepo
    BY <1>3, <1>10, NameFacts DEF RowRecords
  <1>12. TellsOfGitHub(t)
    BY <1>3, <1>11 DEF TellsOfGitHub
  <1>13. PICK pc : pc = NextStep(t)
    OBVIOUS
  <1>14. pc \in {"invite", "hook", "end"} /\ (pc = "hook" => github[s.name].members # {})
    BY <1>11, <1>12, <1>13, NextStepFacts
  <1>15. Step(w, pc)
    BY <1>3, <1>10, <1>13 DEF SaveRepo
  <1> QED BY <1>1, <1>3, <1>9, <1>14, <1>15, GoesOn DEF WithRepo, WithMembers, WithHook

LEMMA InviteKeeps ==
  ASSUME WInv, NEW w \in Runners, Invite(w)
  PROVE  WInv'
PROOF
  <1>1. run[w].pc = "invite"
    BY DEF Invite, On
  <1>2. PICK c \in Contracts : c = run[w].c /\ run[w].f \in Freelancers /\ Accepted(c, run[w].f)
    BY <1>1, AtWork
  <1>3. PICK m \in Names : /\ m = run[w].snap.name /\ row[c] # None /\ row[c].name = m
                           /\ github[m] # None
    BY <1>1, <1>2, AtWork DEF WithRepo
  <1>4. CASE github' = Invited(w) /\ UNCHANGED <<assignments, contract, notices, row>> /\ mail' \subseteq mail
             /\ (Step(w, "saveInvite") \/ Done(w))
    <2>1. PICK old : old = github[m]
      OBVIOUS
    <2>2. old \in Repositories /\ old.owner = c /\ \A f \in old.members : Accepted(c, f)
      BY <1>3, <2>1 DEF WInv, GitHubOk, RowsOk, Repositories
    <2>3. PICK g : g = [old EXCEPT !.members = old.members \cup {run[w].f}]
      OBVIOUS
    <2>4. /\ g \in Repositories /\ g.owner = c /\ g.members = old.members \cup {run[w].f}
          /\ g.hooked = old.hooked
      BY <1>2, <2>2, <2>3 DEF Repositories
    <2>5. github' = [github EXCEPT ![m] = g]
      BY <1>3, <1>4, <2>1, <2>3 DEF Invited, WInv, GitHubOk
    <2>6. RowsOk' /\ GitHubOk' /\ WorldGrows /\ ToldOk' /\ ContractsOk'
      <3>1. github[m] # None => github[m].members \subseteq g.members /\ (github[m].hooked => g.hooked)
        BY <2>1, <2>4
      <3>2. UNCHANGED <<assignments, contract, notices, row>> /\ mail' \subseteq mail
        BY <1>4
      <3>3. \A f \in g.members : Accepted(c, f)
        BY <1>2, <2>2, <2>4
      <3>4. row[c] # None /\ m = row[c].name
        BY <1>3
      <3> QED BY <2>4, <2>5, <3>1, <3>2, <3>3, <3>4, CallTakesEffect
    <2>7. CASE Step(w, "saveInvite")
      <3>1. github'[m] # None /\ github'[m].members # {}
        BY <2>4, <2>5, NoneIsNoRecord DEF WInv, GitHubOk
      <3> QED BY <1>1, <1>3, <2>6, <2>7, <3>1, GoesOn DEF WithRepo, WithMembers, WithHook
    <2>8. CASE Done(w)
      BY <2>6, <2>8, Ends DEF Done
    <2> QED BY <1>4, <2>7, <2>8
  <1>5. CASE /\ github' = Invited(w) /\ Step(w, "saveInvite")
             /\ UNCHANGED <<still, mail, notices, row>>
    BY <1>4, <1>5 DEF still, gateway
  <1>6. CASE github' = Invited(w) /\ Fails(w)
    BY <1>4, <1>6 DEF Fails, Done, still, gateway
  <1>7. CASE UNCHANGED github /\ Fails(w)
    BY <1>7, CallFails
  <1>8. CASE /\ Put(w, [RowOf(w) EXCEPT !.collab = "FAILED"]) /\ Done(w)
             /\ UNCHANGED <<still, notices, github>>
    <2>1. PICK p : p = row[c] /\ p \in RowRecords /\ TellsOfGitHub(p) /\ p.repo \in {NoRepo, p.name}
      BY <1>1, <1>2, <1>3, AtWork
    <2>2. PICK x : x = [p EXCEPT !.collab = "FAILED"]
      OBVIOUS
    <2>3. x \in RowRecords /\ x.name = p.name /\ x.f = p.f /\ x.repo = p.repo /\ x.collab = "FAILED"
      BY <2>1, <2>2 DEF RowRecords
    <2>4. TellsOfGitHub(x)
      BY <2>1, <2>3 DEF TellsOfGitHub
    <2>5. row' = [row EXCEPT ![c] = x] /\ mail' \subseteq mail /\ run' = [run EXCEPT ![w] = Asleep]
      BY <1>2, <1>8, <2>1, <2>2 DEF Put, RowOf, Done
    <2>6. UNCHANGED <<assignments, contract, notices, github>>
      BY <1>8 DEF still, gateway
    <2>7. RowsOk' /\ GitHubOk' /\ WorldGrows /\ ToldOk' /\ ContractsOk'
      BY <1>3, <2>1, <2>3, <2>4, <2>5, <2>6, RowUpdate
    <2> QED BY <2>5, <2>7, Ends
  <1> QED BY <1>5, <1>6, <1>7, <1>8 DEF Invite

LEMMA SaveInviteKeeps ==
  ASSUME WInv, NEW w \in Runners, SaveInvite(w)
  PROVE  WInv'
PROOF
  <1>1. /\ run[w].pc = "saveInvite" /\ UNCHANGED <<assignments, contract, notices, mail, github>>
        /\ Step(w, "end") \/ Step(w, "hook")
    BY DEF SaveInvite, On, still, gateway, external
  <1>2. PICK c \in Contracts : c = run[w].c
    BY <1>1, AtWork
  <1>3. PICK m \in Names : /\ m = run[w].snap.name /\ row[c] # None /\ row[c].name = m
                           /\ github[m] # None /\ github[m].members # {}
    BY <1>1, <1>2, AtWork DEF WithRepo, WithMembers
  <1>4. PICK p : p = row[c] /\ p \in RowRecords /\ TellsOfGitHub(p) /\ p.repo \in {NoRepo, p.name}
    BY <1>1, <1>2, <1>3, AtWork
  <1>5. PICK x : x = [p EXCEPT !.collab = "INVITED", !.status = "COLLABORATOR_ADDED"]
    OBVIOUS
  <1>6. x \in RowRecords /\ x.name = p.name /\ x.f = p.f /\ x.repo = p.repo
    BY <1>4, <1>5 DEF RowRecords, Statuses
  <1>7. TellsOfGitHub(x)
    BY <1>3, <1>4, <1>6 DEF TellsOfGitHub
  <1>8. row' = [row EXCEPT ![c] = x]
    BY <1>2, <1>3, <1>4, <1>5 DEF SaveInvite, Put, RowOf
  <1>9. RowsOk' /\ GitHubOk' /\ WorldGrows /\ ToldOk' /\ ContractsOk'
    BY <1>1, <1>3, <1>4, <1>6, <1>7, <1>8, RowUpdate
  <1> QED BY <1>1, <1>3, <1>9, GoesOn DEF WithRepo, WithMembers, WithHook

LEMMA AttachKeeps ==
  ASSUME WInv, NEW w \in Runners, Attach(w)
  PROVE  WInv'
PROOF
  <1>1. run[w].pc = "hook"
    BY DEF Attach, On
  <1>2. PICK c \in Contracts : c = run[w].c
    BY <1>1, AtWork
  <1>3. PICK m \in Names : /\ m = run[w].snap.name /\ row[c] # None /\ row[c].name = m
                           /\ github[m] # None /\ github[m].members # {}
    BY <1>1, <1>2, AtWork DEF WithRepo, WithMembers
  <1>4. CASE github' = Hooked(w) /\ UNCHANGED <<assignments, contract, notices, row>> /\ mail' \subseteq mail
             /\ (Step(w, "saveHook") \/ Done(w))
    <2>1. PICK old : old = github[m]
      OBVIOUS
    <2>2. old \in Repositories /\ old.owner = c /\ \A f \in old.members : Accepted(c, f)
      BY <1>3, <2>1 DEF WInv, GitHubOk, RowsOk, Repositories
    <2>3. PICK g : g = [old EXCEPT !.hooked = TRUE]
      OBVIOUS
    <2>4. /\ g \in Repositories /\ g.owner = c /\ g.members = old.members /\ g.hooked
      BY <2>2, <2>3 DEF Repositories
    <2>5. github' = [github EXCEPT ![m] = g]
      BY <1>3, <1>4, <2>1, <2>3 DEF Hooked, WInv, GitHubOk
    <2>6. RowsOk' /\ GitHubOk' /\ WorldGrows /\ ToldOk' /\ ContractsOk'
      <3>1. github[m] # None => github[m].members \subseteq g.members /\ (github[m].hooked => g.hooked)
        BY <2>1, <2>4
      <3>2. UNCHANGED <<assignments, contract, notices, row>> /\ mail' \subseteq mail
        BY <1>4
      <3>3. \A f \in g.members : Accepted(c, f)
        BY <2>2, <2>4
      <3>4. row[c] # None /\ m = row[c].name
        BY <1>3
      <3> QED BY <2>4, <2>5, <3>1, <3>2, <3>3, <3>4, CallTakesEffect
    <2>7. CASE Step(w, "saveHook")
      <3>1. github'[m] # None /\ github'[m].members # {} /\ github'[m].hooked
        BY <1>3, <2>1, <2>4, <2>5, NoneIsNoRecord DEF WInv, GitHubOk
      <3> QED BY <1>1, <1>3, <2>6, <2>7, <3>1, GoesOn DEF WithRepo, WithMembers, WithHook
    <2>8. CASE Done(w)
      BY <2>6, <2>8, Ends DEF Done
    <2> QED BY <1>4, <2>7, <2>8
  <1>5. CASE /\ github' = Hooked(w) /\ Step(w, "saveHook")
             /\ UNCHANGED <<still, mail, notices, row>>
    BY <1>4, <1>5 DEF still, gateway
  <1>6. CASE github' = Hooked(w) /\ Fails(w)
    BY <1>4, <1>6 DEF Fails, Done, still, gateway
  <1>7. CASE UNCHANGED github /\ Fails(w)
    BY <1>7, CallFails
  <1> QED BY <1>5, <1>6, <1>7 DEF Attach

LEMMA SaveHookKeeps ==
  ASSUME WInv, NEW w \in Runners, SaveHook(w)
  PROVE  WInv'
PROOF
  <1>1. /\ run[w].pc = "saveHook" /\ UNCHANGED <<assignments, contract, notices, mail, github>>
        /\ Step(w, "activate")
    BY DEF SaveHook, On, still, gateway, external
  <1>2. PICK c \in Contracts : c = run[w].c
    BY <1>1, AtWork
  <1>3. PICK m \in Names : /\ m = run[w].snap.name /\ row[c] # None /\ row[c].name = m
                           /\ github[m] # None /\ github[m].members # {} /\ github[m].hooked
    BY <1>1, <1>2, AtWork DEF WithRepo, WithMembers, WithHook
  <1>4. PICK p : p = row[c] /\ p \in RowRecords /\ TellsOfGitHub(p) /\ p.repo \in {NoRepo, p.name}
    BY <1>1, <1>2, <1>3, AtWork
  <1>5. PICK x : x = [p EXCEPT !.hook = "ATTACHED", !.status = "COMPLETE"]
    OBVIOUS
  <1>6. x \in RowRecords /\ x.name = p.name /\ x.f = p.f /\ x.repo = p.repo /\ x.collab = p.collab
    BY <1>4, <1>5 DEF RowRecords, Statuses
  <1>7. TellsOfGitHub(x)
    BY <1>4, <1>6 DEF TellsOfGitHub
  <1>8. row' = [row EXCEPT ![c] = x]
    BY <1>2, <1>3, <1>4, <1>5 DEF SaveHook, Put, RowOf
  <1>9. RowsOk' /\ GitHubOk' /\ WorldGrows /\ ToldOk' /\ ContractsOk'
    BY <1>1, <1>3, <1>4, <1>6, <1>7, <1>8, RowUpdate
  <1> QED BY <1>1, <1>3, <1>9, GoesOn DEF WithRepo, WithMembers, WithHook

LEMMA ActivateKeeps ==
  ASSUME WInv, NEW w \in Runners, Activate(w)
  PROVE  WInv'
PROOF
  <1>1. /\ run[w].pc = "activate" /\ UNCHANGED <<assignments, row, github, notices, mail>>
        /\ Step(w, "report")
    BY DEF Activate, On, external
  <1>2. PICK c \in Contracts : c = run[w].c
    BY <1>1, AtWork
  <1>3. PICK m \in Names : /\ m = run[w].snap.name /\ row[c] # None /\ row[c].name = m
                           /\ github[m] # None /\ github[m].members # {} /\ github[m].hooked
    BY <1>1, <1>2, AtWork DEF WithRepo, WithMembers, WithHook
  <1>4. PICK k : k = contract[c]
    OBVIOUS
  <1>5. PICK x : x = [k EXCEPT !.status = "ACTIVE", !.repo = m]
    OBVIOUS
  <1>6. contract' = [contract EXCEPT ![c] = x]
    BY <1>2, <1>3, <1>4, <1>5 DEF Activate, WInv, ContractsOk
  <1>7. /\ x \in [status : {"absent", "DRAFT", "ACTIVE"}, freelancer : Freelancers \cup {None},
                  repo : Names \cup {NoRepo, Foreign}]
        /\ x.status = "ACTIVE"
    BY <1>3, <1>4, <1>5 DEF WInv, ContractsOk
  <1>8. ContractsOk' /\ contract'[c].status = "ACTIVE" /\ \A d \in Contracts : d # c => contract'[d] = contract[d]
    BY <1>6, <1>7 DEF WInv, ContractsOk
  <1>9. RowsOk' /\ GitHubOk'
    BY <1>1, SameWorld
  <1>10. WorldGrows
    BY <1>1, <1>8 DEF WorldGrows, Accepted, With, Ids
  <1>11. ToldOk'
    <2>1. \A d \in Contracts :
            /\ contract'[d].status = "ACTIVE" =>
                 \/ contract[d].status = "ACTIVE"
                 \/ /\ row'[d] # None /\ github'[row'[d].name] # None
                    /\ github'[row'[d].name].hooked /\ github'[row'[d].name].members # {}
            /\ <<"ACTIVE", d>> \in notices' =>
                 <<"ACTIVE", d>> \in notices \/ contract'[d].status = "ACTIVE"
            /\ <<"ACCEPTED", d>> \in notices' =>
                 <<"ACCEPTED", d>> \in notices \/ With(d, "ACCEPTED")' # {}
      BY <1>1, <1>3, <1>8
    <2> QED BY <1>1, <1>10, <2>1, ToldStays
  <1> QED BY <1>1, <1>2, <1>3, <1>8, <1>9, <1>10, <1>11, GoesOn DEF WithRepo, WithMembers, WithHook

LEMMA ReportKeeps ==
  ASSUME WInv, NEW w \in Runners, Report(w)
  PROVE  WInv'
PROOF
  <1>1. /\ run[w].pc = "report" /\ UNCHANGED <<assignments, contract, row, github>>
        /\ run' = [run EXCEPT ![w] = Asleep] /\ mail' \subseteq mail
        /\ notices' = notices \cup {<<"ACTIVE", run[w].c>>}
    BY DEF Report, On, external, Done, Tell
  <1>2. PICK c \in Contracts : c = run[w].c /\ contract[c].status = "ACTIVE"
    BY <1>1, AtWork
  <1>3. RowsOk' /\ GitHubOk'
    BY <1>1, SameWorld
  <1>4. ContractsOk'
    BY <1>1 DEF WInv, ContractsOk
  <1>5. WorldGrows
    BY <1>1 DEF WorldGrows, Accepted, With, Ids
  <1>6. ToldOk'
    <2>1. \A d \in Contracts :
            /\ contract'[d].status = "ACTIVE" =>
                 \/ contract[d].status = "ACTIVE"
                 \/ /\ row'[d] # None /\ github'[row'[d].name] # None
                    /\ github'[row'[d].name].hooked /\ github'[row'[d].name].members # {}
            /\ <<"ACTIVE", d>> \in notices' =>
                 <<"ACTIVE", d>> \in notices \/ contract'[d].status = "ACTIVE"
            /\ <<"ACCEPTED", d>> \in notices' =>
                 <<"ACCEPTED", d>> \in notices \/ With(d, "ACCEPTED")' # {}
      <3> TAKE d \in Contracts
      <3>1. contract'[d].status = contract[d].status
        BY <1>1
      <3>2. <<"ACTIVE", d>> \in notices' => <<"ACTIVE", d>> \in notices \/ d = c
        BY <1>1, <1>2
      <3>3. <<"ACCEPTED", d>> \in notices' => <<"ACCEPTED", d>> \in notices
        BY <1>1
      <3> QED BY <1>2, <3>1, <3>2, <3>3
    <2> QED BY <1>1, <1>5, <2>1, ToldStays
  <1> QED BY <1>1, <1>3, <1>4, <1>5, <1>6, Ends

LEMMA CrashKeeps ==
  ASSUME WInv, NEW w \in Runners, Stumble(w) \/ Crash(w)
  PROVE  WInv'
PROOF
  <1>1. /\ UNCHANGED <<assignments, contract, notices, github, row>> /\ mail' \subseteq mail
        /\ run' = [run EXCEPT ![w] = Asleep]
    BY DEF Stumble, Fails, Done, Crash, still, gateway, external
  <1>2. RowsOk' /\ GitHubOk' /\ WorldGrows /\ ToldOk' /\ ContractsOk'
    BY <1>1, SameWorld, PlainStep
  <1> QED BY <1>1, <1>2, Ends

-------------------------------------------------------------------------------
\* The gateway's steps leave the runners what they rely on.

ContractRecord == [status : {"absent", "DRAFT", "ACTIVE"}, freelancer : Freelancers \cup {None},
                   repo : Names \cup {NoRepo, Foreign}]

\* The gateway makes no contract ACTIVE.
NobodyActivated ==
  \A c \in Contracts : contract'[c].status = "ACTIVE" <=> contract[c].status = "ACTIVE"

\* A message it sends of an acceptance tells what is so.
MailTells ==
  \A e \in mail' : e \notin mail /\ e[1] = "ACCEPTED" =>
    e[2] \in Contracts /\ e[3] \in Freelancers /\ Accepted(e[2], e[3])

LEMMA ContractChange ==
  ASSUME ContractsOk, NEW c \in Contracts, NEW x \in ContractRecord,
         contract' = [contract EXCEPT ![c] = x],
         x.status = "ACTIVE" <=> contract[c].status = "ACTIVE"
  PROVE  ContractsOk' /\ NobodyActivated
PROOF
  <1>1. /\ contract'[c] = x
        /\ \A d \in Contracts : d # c => contract'[d] = contract[d]
    BY DEF ContractsOk
  <1>2. contract' \in [Contracts -> ContractRecord]
    BY DEF ContractsOk, ContractRecord
  <1>3. ContractsOk'
    BY <1>2 DEF ContractsOk, ContractRecord
  <1>4. NobodyActivated
    BY <1>1 DEF NobodyActivated
  <1> QED BY <1>3, <1>4

LEMMA ContractSame ==
  ASSUME ContractsOk, UNCHANGED contract
  PROVE  ContractsOk' /\ NobodyActivated
PROOF
  BY DEF ContractsOk, NobodyActivated

LEMMA ClientStep ==
  ASSUME ContractsOk, Client
  PROVE  UNCHANGED <<notices, row, github, run, mail>> /\ ContractsOk' /\ NobodyActivated
PROOF
  <1>1. UNCHANGED <<notices, row, github, run, mail>>
    BY DEF Client, Initialize, Lock, GenerateTests, LinkRepo, worker, external
  <1>2. ASSUME NEW c \in Contracts, Initialize(c) PROVE ContractsOk' /\ NobodyActivated
    <2>1. PICK k \in ContractRecord : k = contract[c]
      BY DEF ContractsOk, ContractRecord
    <2>2. PICK x : x = [k EXCEPT !.status = "DRAFT"]
      OBVIOUS
    <2>3. contract' = [contract EXCEPT ![c] = x] /\ contract[c].status = "absent"
      BY <1>2, <2>1, <2>2 DEF Initialize, ContractsOk
    <2>4. x \in ContractRecord /\ x.status = "DRAFT"
      BY <2>1, <2>2 DEF ContractRecord
    <2> QED BY <2>3, <2>4, ContractChange
  <1>3. ASSUME NEW c \in Contracts, LinkRepo(c) PROVE ContractsOk' /\ NobodyActivated
    <2>1. PICK k \in ContractRecord : k = contract[c]
      BY DEF ContractsOk, ContractRecord
    <2>2. PICK x : x = [k EXCEPT !.repo = Foreign]
      OBVIOUS
    <2>3. contract' = [contract EXCEPT ![c] = x]
      BY <1>3, <2>1, <2>2 DEF LinkRepo, ContractsOk
    <2>4. x \in ContractRecord /\ x.status = k.status
      BY <2>1, <2>2 DEF ContractRecord
    <2> QED BY <2>1, <2>3, <2>4, ContractChange
  <1>4. ASSUME NEW c \in Contracts, Lock(c) \/ GenerateTests(c) PROVE ContractsOk' /\ NobodyActivated
    BY <1>4, ContractSame DEF Lock, GenerateTests
  <1> QED BY <1>1, <1>2, <1>3, <1>4 DEF Client

LEMMA ServeStep ==
  ASSUME IInv, NEW r \in Fibers, Serve(r)
  PROVE  UNCHANGED <<notices, row, github, run>> /\ ContractsOk' /\ NobodyActivated /\ MailTells
PROOF
  <1>1. UNCHANGED <<notices, row, github, run>>
    BY DEF Serve, ReadGenesis, Overwrite, Insert, RecordAssigned, Accept, Backfill, Reject, Clear,
       RecordDecision, worker, external
  <1>2. PICK p : p = req[r] /\ RequestOk(p)
    BY DEF IInv, GInv, RequestsOk
  <1>3. ContractsOk
    BY DEF IInv, WInv
  <1>4. ASSUME NEW f \in Freelancers \cup {None}, p.c \in Contracts,
               contract' = [contract EXCEPT ![p.c].freelancer = f]
        PROVE  ContractsOk' /\ NobodyActivated
    <2>1. PICK k \in ContractRecord : k = contract[p.c]
      BY <1>3, <1>4 DEF ContractsOk, ContractRecord
    <2>2. PICK x : x = [k EXCEPT !.freelancer = f]
      OBVIOUS
    <2>3. contract' = [contract EXCEPT ![p.c] = x]
      BY <1>3, <1>4, <2>1, <2>2 DEF ContractsOk
    <2>4. x \in ContractRecord /\ x.status = k.status
      BY <2>1, <2>2 DEF ContractRecord
    <2> QED BY <1>3, <1>4, <2>1, <2>3, <2>4, ContractChange
  <1>5. ContractsOk' /\ NobodyActivated
    <2>1. CASE Overwrite(r)
      <3>1. p.c \in Contracts /\ p.f \in Freelancers
        BY <1>2, <2>1 DEF Overwrite, At, RequestOk
      <3>2. contract' = [contract EXCEPT ![p.c].freelancer = p.f]
        BY <1>2, <2>1 DEF Overwrite
      <3> QED BY <1>4, <3>1, <3>2
    <2>2. CASE Clear(r)
      <3>1. p.c \in Contracts
        BY <1>2, <2>2 DEF Clear, At, RequestOk
      <3>2. contract' = [contract EXCEPT ![p.c].freelancer = None]
        BY <1>2, <2>2 DEF Clear
      <3> QED BY <1>4, <3>1, <3>2
    <2>3. CASE ~Overwrite(r) /\ ~Clear(r)
      <3>1. UNCHANGED contract
        BY <2>3 DEF Serve, ReadGenesis, Insert, RecordAssigned, Accept, Backfill, Reject, RecordDecision,
           gateway
      <3> QED BY <1>3, <3>1, ContractSame
    <2> QED BY <2>1, <2>2, <2>3
  <1>6. MailTells
    <2>1. CASE RecordDecision(r)
      <3>1. p.pc \in {"accepted", "rejected"} /\ mail' = mail \cup {<<DecidedBy(p), p.c, p.f, p.id>>}
        BY <1>2, <2>1 DEF RecordDecision, At, DecidedBy
      <3>2. /\ p.c \in Contracts /\ p.f \in Freelancers /\ p.id \in DOMAIN assignments
            /\ assignments[p.id].contract = p.c /\ assignments[p.id].freelancer = p.f
            /\ assignments[p.id].status = DecidedBy(p)
        BY <1>2, <3>1 DEF RequestOk, HolderOk, Holds
      <3>3. DecidedBy(p) = "ACCEPTED" => Accepted(p.c, p.f)
        BY <3>2 DEF Accepted, With, Ids
      <3>4. PICK e : e = <<DecidedBy(p), p.c, p.f, p.id>>
        OBVIOUS
      <3>5. e[1] = DecidedBy(p) /\ e[2] = p.c /\ e[3] = p.f
        BY <3>4
      <3>6. e[1] = "ACCEPTED" => e[2] \in Contracts /\ e[3] \in Freelancers /\ Accepted(e[2], e[3])
        BY <3>2, <3>3, <3>5
      <3>7. mail' = mail \cup {e}
        BY <3>1, <3>4
      <3> QED BY <3>6, <3>7 DEF MailTells
    <2>2. CASE ~RecordDecision(r)
      <3>1. mail' = mail
        BY <2>2 DEF Serve, ReadGenesis, Overwrite, Insert, RecordAssigned, Accept, Backfill, Reject, Clear
      <3> QED BY <3>1 DEF MailTells
    <2> QED BY <2>1, <2>2
  <1> QED BY <1>1, <1>5, <1>6

LEMMA GatewayStep ==
  ASSUME IInv, Client \/ \E r \in Fibers : Request(r) \/ Serve(r)
  PROVE  UNCHANGED <<notices, row, github, run>> /\ ContractsOk' /\ NobodyActivated /\ MailTells
PROOF
  <1>1. ContractsOk
    BY DEF IInv, WInv
  <1>2. CASE Client
    BY <1>1, <1>2, ClientStep DEF MailTells
  <1>3. ASSUME NEW r \in Fibers, Request(r)
        PROVE  UNCHANGED <<notices, row, github, run>> /\ ContractsOk' /\ NobodyActivated /\ MailTells
    <2>1. UNCHANGED <<notices, row, github, run, mail, contract>>
      BY <1>3 DEF Request, Assign, Decide, Abort, worker, external, gateway
    <2>2. MailTells
      BY <2>1 DEF MailTells
    <2> QED BY <1>1, <2>1, <2>2, ContractSame
  <1>4. ASSUME NEW r \in Fibers, Serve(r)
        PROVE  UNCHANGED <<notices, row, github, run>> /\ ContractsOk' /\ NobodyActivated /\ MailTells
    BY <1>4, ServeStep
  <1> QED BY <1>2, <1>3, <1>4

LEMMA GatewayLeaves ==
  ASSUME IInv, AssignmentsStay, Client \/ \E r \in Fibers : Request(r) \/ Serve(r)
  PROVE  WInv'
PROOF
  <1>1. UNCHANGED <<notices, row, github, run>> /\ ContractsOk' /\ NobodyActivated /\ MailTells
    BY GatewayStep
  <1>2. WorldGrows
    <2>1. \A c \in Contracts, f \in Freelancers : Accepted(c, f) => Accepted(c, f)'
      BY AcceptedStays
    <2>2. \A c \in Contracts : With(c, "ACCEPTED") # {} => With(c, "ACCEPTED")' # {}
      BY AcceptedStays
    <2> QED BY <1>1, <2>1, <2>2 DEF WorldGrows, NobodyActivated
  <1>3. RowsOk' /\ GitHubOk'
    <2>1. ASSUME NEW c \in Contracts, row[c] # None PROVE Accepted(c, row[c].f)'
      <3>1. row[c] \in RowRecords /\ Accepted(c, row[c].f)
        BY <2>1 DEF IInv, WInv, RowsOk
      <3>2. PICK f \in Freelancers : f = row[c].f
        BY <3>1 DEF RowRecords
      <3>3. Accepted(c, f)'
        BY <1>2, <3>1, <3>2 DEF WorldGrows
      <3>4. row[c]' = row[c]
        BY <1>1
      <3> QED BY <3>2, <3>3, <3>4 DEF Accepted, With, Ids
    <2>2. RowsOk'
      BY <1>1, <2>1 DEF IInv, WInv, RowsOk, TellsOfGitHub, Accepted, With, Ids
    <2>3. ASSUME NEW n \in Names, github[n] # None, NEW f \in github[n].members
          PROVE  Accepted(github[n].owner, f)'
      <3>1. github[n] \in Repositories /\ Accepted(github[n].owner, f)
        BY <2>3 DEF IInv, WInv, GitHubOk
      <3>2. f \in Freelancers /\ github[n].owner \in Contracts
        BY <3>1 DEF Repositories
      <3>3. PICK c \in Contracts : c = github[n].owner
        BY <3>2
      <3>4. Accepted(c, f)'
        BY <1>2, <3>1, <3>2, <3>3 DEF WorldGrows
      <3>5. github[n]' = github[n]
        BY <1>1
      <3> QED BY <3>3, <3>4, <3>5 DEF Accepted, With, Ids
    <2>4. GitHubOk'
      BY <1>1, <2>3 DEF IInv, WInv, GitHubOk, Accepted, With, Ids
    <2> QED BY <2>2, <2>4
  <1>4. RunnersOk'
    BY <1>1, <1>2, NoRunnerStep DEF IInv
  <1>5. ToldOk'
    <2>1. \A e \in mail' : e[1] = "ACCEPTED" =>
            e[2] \in Contracts /\ e[3] \in Freelancers /\ Accepted(e[2], e[3])
      BY <1>1 DEF IInv, WInv, ToldOk, MailTells
    <2>2. \A e \in mail' : e[1] = "ACCEPTED" =>
            e[2] \in Contracts /\ e[3] \in Freelancers /\ Accepted(e[2], e[3])'
      BY <1>2, <2>1 DEF WorldGrows
    <2>3. ActiveIsReady'
      BY <1>1, <1>2 DEF IInv, WInv, ToldOk, ActiveIsReady, WorldGrows, NobodyActivated
    <2> QED BY <2>2, <2>3 DEF ToldOk
  <1> QED BY <1>1, <1>3, <1>4, <1>5 DEF WInv

-------------------------------------------------------------------------------
LEMMA InitOk == Init => IInv
PROOF
  <1> SUFFICES ASSUME NEW on \in BOOLEAN, InitWith([c \in Contracts |-> "absent"], MaxRequests, on)
               PROVE  IInv
    BY DEF Init
  <1> USE DEF InitWith
  <1>1. <<>> \in Seq(Assignments) /\ <<>> \in Seq(Entries) /\ DOMAIN <<>> = {}
    OBVIOUS
  <1>2. GatewayTyped /\ LedgerTells
    BY <1>1 DEF GatewayTyped, LedgerTells
  <1>3. RequestsOk
    BY IdleFacts DEF RequestsOk, RequestOk, HolderOk, Holds
  <1>4. RowsOk /\ GitHubOk
    BY DEF RowsOk, GitHubOk
  <1>5. RunnersOk
    <2>1. RunnerOk(Asleep)
      BY ConstantsAssumption DEF Asleep, RunnerOk, RunFields, WithRepo, WithMembers, WithHook
    <2> QED BY <2>1 DEF RunnersOk
  <1>6. ContractsOk
    BY DEF ContractsOk
  <1>7. ToldOk
    BY DEF ToldOk, ActiveIsReady
  <1> QED BY <1>2, <1>3, <1>4, <1>5, <1>6, <1>7 DEF IInv, GInv, WInv

\* Everything below rests on it: what the ledgers, the rows and GitHub tell of each
\* other, and what the requests and the runners rely on between two steps.
THEOREM Invariance == Spec => []IInv
PROOF
  <1>1. IInv /\ [Next]_vars => IInv'
    <2> SUFFICES ASSUME IInv, [Next]_vars PROVE IInv'
      OBVIOUS
    <2>1. GInv' /\ AssignmentsStay
      BY GatewayKeeps
    <2>2. CASE Client \/ \E r \in Fibers : Request(r) \/ Serve(r)
      BY <2>1, <2>2, GatewayLeaves DEF IInv
    <2>3. ASSUME NEW w \in Runners, Take(w) \/ Work(w) \/ Stumble(w) \/ Crash(w) PROVE WInv'
      BY <2>3, TakeKeeps, JudgeKeeps, SelectKeeps, CountKeeps, InsertRowKeeps, StartKeeps, NothingKeeps,
         CreateKeeps, SaveRepoKeeps, InviteKeeps, SaveInviteKeeps, AttachKeeps, SaveHookKeeps,
         ActivateKeeps, ReportKeeps, CrashKeeps DEF Work, IInv
    <2>4. ASSUME NEW c \in Contracts, Sweep(c) PROVE WInv'
      BY <2>4, SweepKeeps DEF Sweep, IInv
    <2>5. CASE UNCHANGED vars
      <3>1. UNCHANGED <<assignments, contract, notices, github, row, run, mail>>
        BY <2>5 DEF vars, gateway, worker, external
      <3>2. WInv /\ mail' \subseteq mail
        BY <3>1 DEF IInv
      <3>3. /\ RowsOk' /\ GitHubOk'
            /\ \A d \in Contracts : row[d] # None => row'[d] # None /\ row'[d].name = row[d].name
            /\ \A n \in Names : github[n] # None =>
                 /\ github'[n] # None /\ github[n].members \subseteq github'[n].members
                 /\ github[n].hooked => github'[n].hooked
        BY <3>1, <3>2, SameWorld
      <3>4. WorldGrows /\ ToldOk' /\ ContractsOk'
        BY <3>1, <3>2, <3>3, PlainStep
      <3>5. RunnersOk'
        BY <3>1, <3>2, <3>4, NoRunnerStep
      <3> QED BY <2>1, <3>3, <3>4, <3>5 DEF WInv, IInv
    <2> QED BY <2>1, <2>2, <2>3, <2>4, <2>5 DEF Next, IInv
  <1> QED BY <1>1, InitOk, PTL DEF Spec

\* A decision is in the ledger once and is what its assignment says, however accepts,
\* rejects and their retries overlap (contracts-lifecycle.ts:508-694).
THEOREM OneWinner == Spec => []DecisionsAreFinal
PROOF
  <1>1. IInv => DecisionsAreFinal
    <2> SUFFICES ASSUME IInv, NEW c \in Contracts, NEW j \in DOMAIN chain[c], NEW k \in DOMAIN chain[c],
                        chain[c][j][1] \in {"ACCEPTED", "REJECTED"}
                 PROVE  /\ assignments[chain[c][j][2]].status = chain[c][j][1]
                        /\ chain[c][k][2] = chain[c][j][2] /\ chain[c][k][1] # "ASSIGNED" => k = j
      BY DEF DecisionsAreFinal
    <2>1. /\ chain[c][j][2] \in DOMAIN assignments
          /\ assignments[chain[c][j][2]].status = chain[c][j][1]
          /\ chain[c][k][1] \in Decided /\ chain[c][k][2] = chain[c][j][2] => k = j
          /\ chain[c][k][1] \in Undated => chain[c][k][2] = 0
      BY DEF IInv, GInv, LedgerTells, Decided
    <2>2. chain[c][j][2] # 0 /\ chain[c][k] \in Entries
      BY <2>1, Elements DEF IInv, GInv
    <2>3. chain[c][k][1] \in Decided \cup Undated \cup {"ASSIGNED"}
      BY <2>2 DEF Entries
    <2> QED BY <2>1, <2>2, <2>3
  <1> QED BY <1>1, Invariance, PTL

\* A repository belongs to one contract and its members accepted that contract, however
\* many workers provision it and die (github-provisioner-client.ts).
THEOREM NobodyElsesRepository == Spec => []RepositoriesAreOwn
PROOF
  <1>1. IInv => RepositoriesAreOwn
    BY DEF IInv, WInv, RowsOk, GitHubOk, RepositoriesAreOwn, Accepted
  <1> QED BY <1>1, Invariance, PTL

\* A contract that is ACTIVE, or of which the parties are told so, has its repository,
\* a member and its webhook (worker.ts, attemptProvisioning).
THEOREM ReadyWhenActive == Spec => []ActiveIsReady
PROOF
  <1>1. IInv => ActiveIsReady
    BY DEF IInv, WInv, ToldOk
  <1> QED BY <1>1, Invariance, PTL

\* Types.
THEOREM TypeCorrect == Spec => []TypeOK
PROOF
  <1>1. IInv => TypeOK
    BY Elements DEF IInv, GInv, WInv, ContractsOk, RowsOk, GitHubOk, TypeOK, Assignments
  <1> QED BY <1>1, Invariance, PTL

\* No step takes a decision back.
THEOREM DecisionsStay == Spec => [][AssignmentsStay]_vars
PROOF
  <1>1. IInv /\ [Next]_vars => [AssignmentsStay]_vars
    BY GatewayKeeps
  <1> QED BY <1>1, Invariance, PTL DEF Spec
===============================================================================
