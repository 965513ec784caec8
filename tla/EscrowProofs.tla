------------------------------ MODULE EscrowProofs ------------------------------
(***************************************************************************)
(* Proofs about module EscrowFunding, for any orders, payments and         *)
(* requests and any number of failures; and, at the end, about module      *)
(* EscrowScreens, for any number of contracts, calls and intervals.        *)
(***************************************************************************)
EXTENDS EscrowFunding, EscrowScreens, SequenceTheorems, TLAPS

\* The steps at which a request is about a payment, those that come after it has
\* seen the row of its order, and those a payment of one outcome only gets to.
AboutPayment  == {"fetch", "record", "authorize", "fail", "append", "publish", "answer"}
RowSeen       == (AboutPayment \ {"record"}) \cup {"offer"}
Authorising   == {"authorize", "append"}

\* What a request knows of its order and of its payment.
LocalsAreTrue ==
  \A f \in Fibers :
    /\ pc[f] = "idle" => order[f] = None /\ payment[f] = None
    /\ pc[f] \in {"insert", "offer"} => order[f] \in Orders
    /\ pc[f] \in AboutPayment =>
         /\ payment[f] \in Payments /\ attempt[payment[f]] # "none"
         /\ order[f] \in Orders /\ order[f] = orderOf[payment[f]]
    /\ pc[f] \in RowSeen => escrow[order[f]] # "absent"
    /\ pc[f] \in Authorising => attempt[payment[f]] = "authorized"
    /\ pc[f] = "fail" => attempt[payment[f]] = "failed"

\* What the customer was offered is an order, and has a row.
OffersHaveRows == \A o \in offered : o \in Orders /\ escrow[o] # "absent"

\* A payment that was tried was tried for an order on offer, and its webhooks and
\* messages say what became of it.
MessagesAreTrue ==
  /\ \A p \in Payments : attempt[p] # "none" => orderOf[p] \in offered
  /\ \A e \in hooks : attempt[e[2]] = e[1]
  /\ \A m \in bus : attempt[m[3]] = m[1] /\ orderOf[m[3]] = m[2]

\* payment_id names an authorised payment of the order from the row's leaving
\* PENDING towards the money being held, for good.
PaidByIsReal ==
  \A o \in Orders :
    /\ paidBy[o] # None => attempt[paidBy[o]] = "authorized" /\ orderOf[paidBy[o]] = o
    /\ escrow[o] \in {"AUTHORIZED", "RELEASED"} \/ o \in chosen => paidBy[o] # None

\* The chain's entry for an order is written by the one request that moved its row.
OneWinner ==
  /\ \A o \in Orders : escrow[o] \in {"absent", "PENDING"} => chain[o] = 0
  /\ \A f \in Fibers : pc[f] = "append" => /\ chain[order[f]] = 0
                                           /\ escrow[order[f]] # "PENDING"
  /\ \A f, g \in Fibers : pc[f] = "append" /\ pc[g] = "append" /\ order[f] = order[g] => f = g
  /\ \A f \in Fibers : pc[f] = "publish" /\ attempt[payment[f]] = "authorized" => chain[order[f]] = 1

IInv ==
  /\ TypeOK
  /\ LocalsAreTrue
  /\ OffersHaveRows
  /\ MessagesAreTrue
  /\ PaidByIsReal
  /\ OneWinner
  /\ AuthorizedOnce
  /\ AnnouncedIsChained

\* POST /escrow.
LEMMA FundPreserves ==
  ASSUME IInv, NEW f \in Fibers, Fund(f) \/ Issue(f) \/ Insert(f) \/ Offer(f)
  PROVE  IInv'
PROOF
  <1> USE ConstantsAssumption
      DEF IInv, TypeOK, LocalsAreTrue, OffersHaveRows, MessagesAreTrue, PaidByIsReal,
          OneWinner, AuthorizedOnce, AnnouncedIsChained, AboutPayment, RowSeen,
          Authorising, Steps, row, provider, locals
  <1>1. CASE Fund(f)
    BY <1>1, SMTT(30) DEF Fund, Goto
  <1>2. CASE Issue(f)
    BY <1>2, SMTT(30) DEF Issue, End, Goto
  <1>3. CASE Insert(f)
    BY <1>3, SMTT(30) DEF Insert, Goto
  <1>4. CASE Offer(f)
    BY <1>4, SMTT(30) DEF Offer, End, Goto
  <1> QED BY <1>1, <1>2, <1>3, <1>4

\* A callback or a webhook arrives, and asks or records.
LEMMA EnterPreserves ==
  ASSUME IInv, NEW f \in Fibers,
         (\E p \in Payments : Verify(f, p)) \/ Fetch(f) \/ HookStep(f) \/ Record(f)
  PROVE  IInv'
PROOF
  <1> USE ConstantsAssumption
      DEF IInv, TypeOK, LocalsAreTrue, OffersHaveRows, MessagesAreTrue, PaidByIsReal,
          OneWinner, AuthorizedOnce, AnnouncedIsChained, AboutPayment, RowSeen,
          Authorising, Steps, row, provider, locals
  <1>1. CASE \E p \in Payments : Verify(f, p)
    BY <1>1, SMTT(30) DEF Verify, Goto
  <1>2. CASE Fetch(f)
    BY <1>2, SMTT(30) DEF Fetch, End, Goto
  <1>3. CASE HookStep(f)
    BY <1>3, SMTT(30) DEF HookStep, Hook, Goto
  <1>4. CASE Record(f)
    <2>1. CASE End(f) /\ hooks' = hooks \ {Event(f)} /\ aborts' \in 0..MaxAborts /\ UNCHANGED seen
      BY <1>4, <2>1, SMTT(30) DEF Record, Event, End, Goto
    <2>2. CASE /\ escrow[order[f]] # "absent" /\ seen' = seen \cup {Event(f)}
               /\ Goto(f, IF attempt[payment[f]] = "authorized" THEN "authorize" ELSE "fail")
               /\ UNCHANGED <<hooks, locals, aborts>>
      BY <1>4, <2>2, SMTT(30) DEF Record, Event, Goto
    <2>3. aborts < MaxAborts /\ aborts' = aborts + 1 => aborts' \in 0..MaxAborts
      OBVIOUS
    <2>4. UNCHANGED aborts => aborts' \in 0..MaxAborts
      OBVIOUS
    <2> QED BY <1>4, <2>1, <2>2, <2>3, <2>4 DEF Record
  <1> QED BY <1>1, <1>2, <1>3, <1>4

\* The row is moved, who moved it tells the chain and the bus, and the request ends.
LEMMA MovePreserves ==
  ASSUME IInv, NEW f \in Fibers,
         Authorize(f) \/ FailByHook(f) \/ AppendEntry(f) \/ Publish(f)
         \/ Answer(f) \/ Abort(f)
  PROVE  IInv'
PROOF
  <1> USE ConstantsAssumption
      DEF IInv, TypeOK, LocalsAreTrue, OffersHaveRows, MessagesAreTrue, PaidByIsReal,
          OneWinner, AuthorizedOnce, AnnouncedIsChained, AboutPayment, RowSeen,
          Authorising, Steps, row, provider, locals
  <1>1. CASE Authorize(f)
    BY <1>1, SMTT(30) DEF Authorize, Goto
  <1>2. CASE FailByHook(f)
    BY <1>2, SMTT(30) DEF FailByHook, Goto
  <1>3. CASE AppendEntry(f)
    BY <1>3, SMTT(30) DEF AppendEntry, Goto
  <1>4. CASE Publish(f)
    BY <1>4 DEF Publish, Goto
  <1>5. CASE Answer(f)
    BY <1>5, SMTT(30) DEF Answer, Event, End, Goto
  <1>6. CASE Abort(f)
    BY <1>6 DEF Abort, End, Goto
  <1> QED BY <1>1, <1>2, <1>3, <1>4, <1>5, <1>6

\* The customer tries to pay; the settlement worker hears of an order, captures it and
\* releases it.
LEMMA OthersPreserve ==
  ASSUME IInv, (\E p \in Payments : Pay(p)) \/ SubscriberStep \/ \E o \in Orders : Choose(o) \/ Release(o)
  PROVE  IInv'
PROOF
  <1> USE ConstantsAssumption
      DEF IInv, TypeOK, LocalsAreTrue, OffersHaveRows, MessagesAreTrue, PaidByIsReal,
          OneWinner, AuthorizedOnce, AnnouncedIsChained, AboutPayment, RowSeen,
          Authorising, Steps, row, provider, locals
  <1>1. CASE \E p \in Payments : Pay(p)
    BY <1>1, SMTT(30) DEF Pay
  <1>2. CASE SubscriberStep
    BY <1>2, SMTT(30) DEF SubscriberStep, Consume
  <1>3. CASE \E o \in Orders : Choose(o)
    BY <1>3, SMTT(30) DEF Choose
  <1>4. CASE \E o \in Orders : Release(o)
    BY <1>4, SMTT(30) DEF Release
  <1> QED BY <1>1, <1>2, <1>3, <1>4

\* The rows, the chain, the bus and the requests agree in every reachable state.
THEOREM Invariance == Spec => []IInv
PROOF
  <1>1. Init => IInv
    BY ConstantsAssumption
    DEF Init, IInv, TypeOK, LocalsAreTrue, OffersHaveRows, MessagesAreTrue, PaidByIsReal,
        OneWinner, AuthorizedOnce, AnnouncedIsChained, AboutPayment, RowSeen, Authorising, Steps
  <1>2. IInv /\ [Next]_vars => IInv'
    <2> SUFFICES ASSUME IInv, [Next]_vars PROVE IInv'
      OBVIOUS
    <2>1. ASSUME NEW f \in Fibers, RequestStep(f) PROVE IInv'
      BY <2>1, FundPreserves, EnterPreserves, MovePreserves DEF RequestStep
    <2>2. ASSUME NEW f \in Fibers, Fund(f) \/ Abort(f) \/ HookStep(f) \/ \E p \in Payments : Verify(f, p)
          PROVE  IInv'
      BY <2>2, FundPreserves, EnterPreserves, MovePreserves
    <2>3. CASE UNCHANGED vars
      BY <2>3
      DEF IInv, TypeOK, LocalsAreTrue, OffersHaveRows, MessagesAreTrue, PaidByIsReal,
          OneWinner, AuthorizedOnce, AnnouncedIsChained, vars, row, provider, locals
    <2> QED BY <2>1, <2>2, <2>3, OthersPreserve DEF Next
  <1> QED BY <1>1, <1>2, PTL DEF Spec

\* Whichever of the callback, the webhook and the subscriber moved a row to
\* AUTHORIZED or the settlement to RELEASED, its payment_id names a payment that the
\* provider authorised for this order.
THEOREM MoneyIsHeld == Spec => []HeldIsReal
PROOF
  <1>1. IInv => HeldIsReal
    BY DEF IInv, TypeOK, PaidByIsReal, HeldIsReal
  <1> QED BY <1>1, Invariance, PTL

\* The guarded UPDATE gives an order one ESCROW_AUTHORIZED entry, and what the bus
\* announces is in the chain (the winner appends before it publishes).
THEOREM ChainedOnce == Spec => [](AuthorizedOnce /\ AnnouncedIsChained)
PROOF
  <1>1. IInv => AuthorizedOnce /\ AnnouncedIsChained
    BY DEF IInv
  <1> QED BY <1>1, Invariance, PTL

\* No order can be paid before its row is inserted, so that its webhook finds it.
THEOREM PayableHasRow == Spec => []PayableIsKnown
PROOF
  <1>1. IInv => PayableIsKnown
    BY DEF IInv, TypeOK, OffersHaveRows, MessagesAreTrue, PayableIsKnown
  <1> QED BY <1>1, Invariance, PTL

\* No late or repeated callback, webhook or message takes a row back.
THEOREM RowsNeverBack == Spec => NeverBackwards
PROOF
  <1> DEFINE Forward ==
        \A o \in Orders :
          /\ escrow[o] \in {"RELEASED", "FAILED"} => escrow'[o] \in {escrow[o], "RELEASED"}
          /\ escrow[o] = "AUTHORIZED" => escrow'[o] # "PENDING"
  <1>1. IInv /\ [Next]_vars => Forward
    <2> SUFFICES ASSUME IInv, [Next]_vars PROVE Forward
      OBVIOUS
    <2>1. ASSUME NEW f \in Fibers, Insert(f) \/ Authorize(f) \/ FailByHook(f) PROVE Forward
      BY <2>1 DEF IInv, TypeOK, Insert, Authorize, FailByHook, row
    <2>2. ASSUME NEW f \in Fibers, RequestStep(f), escrow' # escrow
          PROVE  Insert(f) \/ Authorize(f) \/ FailByHook(f)
      BY <2>2 DEF RequestStep, Issue, Offer, Fetch, Record, AppendEntry, Publish, Answer, row
    <2>3. CASE SubscriberStep \/ \E o \in Orders : Choose(o) \/ Release(o)
      BY <2>3 DEF IInv, TypeOK, SubscriberStep, Consume, Choose, Release, row
    <2>4. ASSUME NEW f \in Fibers, Fund(f) \/ Abort(f) \/ HookStep(f) \/ \E p \in Payments : Verify(f, p)
          PROVE  Forward
      BY <2>4 DEF Fund, Abort, HookStep, Hook, Verify, row
    <2>5. ASSUME NEW p \in Payments, Pay(p) PROVE Forward
      BY <2>5 DEF Pay, row
    <2>6. CASE UNCHANGED vars
      BY <2>6 DEF vars, row
    <2>7. ASSUME NEW f \in Fibers, RequestStep(f) PROVE Forward
      BY <2>1, <2>2, <2>7
    <2> QED BY <2>3, <2>4, <2>5, <2>6, <2>7 DEF Next
  <1> QED BY <1>1, Invariance, PTL DEF Spec, NeverBackwards

-------------------------------------------------------------------------------
\* The screens.

RowStatus == {"PENDING", "AUTHORIZED", "FAILED", "RELEASED"}

Released(c) == \E n \in DOMAIN rows[c] : rows[c][n] = "RELEASED"
Funded(c)   == \E n \in DOMAIN rows[c] : <<c, n>> \in charged /\ rows[c][n] # "PENDING"

\* A call is about a contract, whatever is shown when it is answered; a reading that
\* ends an interval as released was true when it was taken; without a view nobody waits.
CallFits(q) ==
  \/ q = NoCall
  \/ /\ DOMAIN q = {"kind", "c", "poll", "answer", "here"}
     /\ q.kind \in {"load", "tick", "settle"} /\ q.c \in Contracts
     /\ q.kind = "tick" /\ q.answer # Nothing /\ Done(q.answer) => Released(q.c)
     /\ shown = Nothing => q.kind = "settle" /\ ~q.here

PollFits(q) ==
  /\ "on" \in DOMAIN q
  /\ q.on => DOMAIN q = {"on", "c", "attempts"} /\ q.c \in Contracts /\ shown # Nothing

\* A funding is for an order of its contract from its answer on, and verified when the
\* gateway has taken a payment of that order over.
HasOrder(q) ==
  \/ q.step = "create" /\ q.answer \notin {Nothing, "error"}
  \/ q.step \in {"script", "hung", "open", "declined", "verify"}

FundFits(q) ==
  \/ DOMAIN q = {"step", "panel"} /\ q.step = "none"
  \/ /\ DOMAIN q = {"step", "c", "order", "resumed", "answer", "panel", "here"}
     /\ q.c \in Contracts
     /\ HasOrder(q) => q.order \in DOMAIN rows[q.c]
     /\ q.step = "verify" /\ q.answer = "ok" => Funded(q.c)
     /\ shown = Nothing => ~q.here

ToldFits ==
  /\ toast[1] = "released" => toast[2] \in Contracts /\ Released(toast[2])
  /\ toast[1] = "funded" => toast[2] \in Contracts /\ Funded(toast[2])

ViewFits ==
  /\ shown \in Contracts \cup {Nothing}
  /\ view.status = "ready" => shown # Nothing

CallsFit    == DOMAIN calls = CallSlots /\ \A i \in CallSlots : CallFits(calls[i])
PollsFit    == DOMAIN polls = Polls /\ \A p \in Polls : PollFits(polls[p])
FundingsFit == DOMAIN checkout = Checkouts /\ \A k \in Checkouts : FundFits(checkout[k])

RowsTyped == rows \in [Contracts -> Seq(RowStatus)]

ScreenInv == RowsTyped /\ ViewFits /\ ToldFits /\ CallsFit /\ PollsFit /\ FundingsFit

\* What the gateway and the worker never take back.
RowsOnlyMove ==
  /\ charged \subseteq charged'
  /\ \A c \in Contracts : \A n \in DOMAIN rows[c] :
       /\ n \in DOMAIN rows'[c]
       /\ rows[c][n] # "PENDING" => rows'[c][n] # "PENDING"
       /\ rows[c][n] = "RELEASED" => rows'[c][n] = "RELEASED"
ViewStays == UNCHANGED shown \/ shown' # Nothing

LEMMA TruthsStay ==
  ASSUME RowsOnlyMove
  PROVE  /\ \A c \in Contracts : Released(c) => Released(c)'
         /\ \A c \in Contracts : Funded(c) => Funded(c)'
PROOF BY DEF RowsOnlyMove, Released, Funded

LEMMA FitsStay ==
  ASSUME RowsOnlyMove, ViewStays
  PROVE  /\ \A q : CallFits(q) => CallFits(q)'
         /\ \A q : PollFits(q) => PollFits(q)'
         /\ \A q : FundFits(q) => FundFits(q)'
PROOF
  <1>1. ASSUME NEW q, CallFits(q)
        PROVE  CallFits(q)'
    BY <1>1, TruthsStay DEF CallFits, ViewStays
  <1>2. ASSUME NEW q, PollFits(q)
        PROVE  PollFits(q)'
    BY <1>2 DEF PollFits, ViewStays
  <1>3. ASSUME NEW q, FundFits(q)
        PROVE  FundFits(q)'
    <2>1. q.c \in Contracts /\ HasOrder(q) /\ q.order \in DOMAIN rows[q.c] => q.order \in DOMAIN rows'[q.c]
      BY DEF RowsOnlyMove
    <2> QED BY <1>3, <2>1, TruthsStay DEF FundFits, ViewStays, HasOrder
  <1> QED BY <1>1, <1>2, <1>3

LEMMA ToldStays ==
  ASSUME RowsOnlyMove, ToldFits, UNCHANGED toast
  PROVE  ToldFits'
PROOF BY TruthsStay DEF ToldFits

LEMMA NothingMoves ==
  ASSUME UNCHANGED <<rows, charged>>
  PROVE  RowsOnlyMove
PROOF BY DEF RowsOnlyMove

\* Calls, intervals and fundings that an action leaves as they are.
LEMMA RestFits ==
  ASSUME ScreenInv, RowsOnlyMove, ViewStays
  PROVE  /\ UNCHANGED calls => CallsFit'
         /\ UNCHANGED polls => PollsFit'
         /\ UNCHANGED checkout => FundingsFit'
PROOF
  <1>1. ASSUME UNCHANGED calls PROVE CallsFit'
    <2>1. \A i \in CallSlots : \E q : q = calls[i] /\ q = calls'[i] /\ CallFits(q)
      BY <1>1 DEF ScreenInv, CallsFit
    <2>2. \A i \in CallSlots : CallFits(calls[i])'
      BY <2>1, FitsStay
    <2> QED BY <1>1, <2>2 DEF ScreenInv, CallsFit
  <1>2. ASSUME UNCHANGED polls PROVE PollsFit'
    <2>1. \A p \in Polls : \E q : q = polls[p] /\ q = polls'[p] /\ PollFits(q)
      BY <1>2 DEF ScreenInv, PollsFit
    <2>2. \A p \in Polls : PollFits(polls[p])'
      BY <2>1, FitsStay
    <2> QED BY <1>2, <2>2 DEF ScreenInv, PollsFit
  <1>3. ASSUME UNCHANGED checkout PROVE FundingsFit'
    <2>1. \A k \in Checkouts : \E q : q = checkout[k] /\ q = checkout'[k] /\ FundFits(q)
      BY <1>3 DEF ScreenInv, FundingsFit
    <2>2. \A k \in Checkouts : FundFits(checkout[k])'
      BY <2>1, FitsStay
    <2> QED BY <1>3, <2>2 DEF ScreenInv, FundingsFit
  <1> QED BY <1>1, <1>2, <1>3

\* One call, or one funding, becomes another that fits.
LEMMA OneCall ==
  ASSUME ScreenInv, RowsOnlyMove, ViewStays, NEW i \in CallSlots, NEW q,
         calls' = [calls EXCEPT ![i] = q], CallFits(q)'
  PROVE  CallsFit'
PROOF
  <1>1. ASSUME NEW j \in CallSlots, j # i PROVE CallFits(calls[j])'
    <2>1. \E y : y = calls[j] /\ y = calls'[j] /\ CallFits(y)
      BY <1>1 DEF ScreenInv, CallsFit
    <2> QED BY <2>1, FitsStay
  <1>2. calls'[i] = q /\ DOMAIN calls' = CallSlots
    BY DEF ScreenInv, CallsFit
  <1>3. CallFits(calls[i])'
    BY <1>2 DEF CallFits
  <1> QED BY <1>1, <1>2, <1>3 DEF CallsFit

LEMMA OneFunding ==
  ASSUME ScreenInv, RowsOnlyMove, ViewStays, NEW k \in Checkouts, NEW q,
         checkout' = [checkout EXCEPT ![k] = q], FundFits(q)'
  PROVE  FundingsFit'
PROOF
  <1>1. ASSUME NEW j \in Checkouts, j # k PROVE FundFits(checkout[j])'
    <2>1. \E y : y = checkout[j] /\ y = checkout'[j] /\ FundFits(y)
      BY <1>1 DEF ScreenInv, FundingsFit
    <2> QED BY <2>1, FitsStay
  <1>2. checkout'[k] = q /\ DOMAIN checkout' = Checkouts
    BY DEF ScreenInv, FundingsFit
  <1>3. FundFits(checkout[k])'
    BY <1>2 DEF FundFits, HasOrder
  <1> QED BY <1>1, <1>2, <1>3 DEF FundingsFit

\* A call that is sent, or is over.
LEMMA SentFits ==
  ASSUME ScreenInv, RowsOnlyMove, ViewStays, NEW c \in Contracts, NEW p,
         NEW kind \in {"load", "tick", "settle"}, shown' # Nothing,
         calls' \in Sent(calls, kind, c, p)
  PROVE  CallsFit'
PROOF
  <1> DEFINE q == [kind |-> kind, c |-> c, poll |-> p, answer |-> Nothing, here |-> TRUE]
  <1>1. PICK i \in CallSlots : calls' = [calls EXCEPT ![i] = q]
    BY DEF Sent
  <1>2. CallFits(q)'
    BY DEF CallFits
  <1> QED BY <1>1, <1>2, OneCall

LEMMA OverFits ==
  ASSUME ScreenInv, RowsOnlyMove, ViewStays, NEW i \in CallSlots, calls' = Over(i)
  PROVE  CallsFit'
PROOF
  <1>1. CallFits(NoCall)'
    BY DEF CallFits
  <1> QED BY <1>1, OneCall DEF Over

\* The interval that is stopped, or none.
LEMMA StoppedFits ==
  ASSUME ScreenInv, RowsOnlyMove, ViewStays, polls' = Stopped
  PROVE  PollsFit'
PROOF
  <1>1. CASE pollRef = Nothing
    BY <1>1, RestFits DEF Stopped
  <1>2. CASE pollRef # Nothing
    <2>1. DOMAIN polls' = Polls
      BY <1>2 DEF Stopped, ScreenInv, PollsFit
    <2>2. ASSUME NEW p \in Polls PROVE PollFits(polls[p])'
      <3>1. CASE p = pollRef
        <4>1. "on" \in DOMAIN polls'[p] /\ ~polls'[p].on
          BY <1>2, <3>1 DEF Stopped, ScreenInv, PollsFit, PollFits
        <4> QED BY <4>1 DEF PollFits
      <3>2. CASE p # pollRef
        <4>1. \E q : q = polls[p] /\ q = polls'[p] /\ PollFits(q)
          BY <1>2, <3>2 DEF Stopped, ScreenInv, PollsFit
        <4> QED BY <4>1, FitsStay
      <3> QED BY <3>1, <3>2
    <2> QED BY <2>1, <2>2 DEF PollsFit
  <1> QED BY <1>1, <1>2

\* Fundings of which only the panels are lost.
LEMMA KeptFits ==
  ASSUME ScreenInv, RowsOnlyMove, ViewStays, NEW v, checkout' = Kept(v)
  PROVE  FundingsFit'
PROOF
  <1>1. DOMAIN checkout' = Checkouts
    BY DEF Kept
  <1>2. ASSUME NEW k \in Checkouts PROVE FundFits(checkout[k])'
    <2>1. PICK y : y = checkout[k] /\ FundFits(y)
      BY DEF ScreenInv, FundingsFit
    <2>2. PICK q, b : q = [y EXCEPT !.panel = b] /\ q = checkout'[k]
      BY <2>1 DEF Kept
    <2>3. DOMAIN q = DOMAIN y /\ \A x \in DOMAIN y : x # "panel" => q[x] = y[x]
      BY <2>2
    <2>4. FundFits(q)
      BY <2>1, <2>3 DEF FundFits, HasOrder
    <2> QED BY <2>2, <2>4, FitsStay
  <1> QED BY <1>1, <1>2 DEF FundingsFit

-------------------------------------------------------------------------------
\* The user and the view.

LEMMA UserPreserves ==
  ASSUME ScreenInv, (\E c \in Contracts : Open(c)) \/ Refresh \/ ReleaseFunds
  PROVE  ScreenInv'
PROOF
  <1>1. UNCHANGED <<rows, charged, toast>> /\ RowsOnlyMove
    BY NothingMoves DEF Open, Refresh, ReleaseFunds, server, request
  <1>2. RowsTyped' /\ ToldFits'
    BY <1>1, ToldStays DEF ScreenInv, RowsTyped
  <1>3. ASSUME NEW c \in Contracts, Open(c)
        PROVE  ViewFits' /\ CallsFit' /\ PollsFit' /\ FundingsFit'
    <2>1. shown' = c /\ c # Nothing /\ ViewStays
      BY <1>3, ScreenAssumption DEF Open, ViewStays
    <2>2. ViewFits'
      BY <1>3, <2>1 DEF Open, SetView, ViewFits
    <2>3. CallsFit'
      BY <1>3, <2>1, <1>1, SentFits DEF Open
    <2>4. PollsFit' /\ FundingsFit'
      BY <1>3, <2>1, <1>1, StoppedFits, KeptFits DEF Open, SetView
    <2> QED BY <2>2, <2>3, <2>4
  <1>4. CASE Refresh \/ ReleaseFunds
    <2>1. /\ UNCHANGED <<shown, view, polls, checkout>> /\ ViewStays
          /\ shown \in Contracts /\ shown # Nothing
      BY <1>4, ScreenAssumption DEF Refresh, ReleaseFunds, ViewStays, ScreenInv, ViewFits, request
    <2>2. \E kind \in {"load", "settle"} : calls' \in Sent(calls, kind, shown, Nothing)
      BY <1>4 DEF Refresh, ReleaseFunds
    <2>3. CallsFit'
      BY <2>1, <2>2, <1>1, SentFits
    <2>4. PollsFit' /\ FundingsFit'
      BY <2>1, <1>1, RestFits
    <2> QED BY <1>2, <2>1, <2>3, <2>4 DEF ScreenInv, ViewFits
  <1> QED BY <1>2, <1>3, <1>4 DEF ScreenInv

LEMMA LeavePreserves ==
  ASSUME ScreenInv, Leave
  PROVE  ScreenInv'
PROOF
  <1>1. UNCHANGED <<rows, charged>>
    BY DEF Leave, server
  <1>2. shown' = Nothing /\ view' = Loading /\ toast' = <<Nothing, Nothing>>
    BY DEF Leave
  <1>3. RowsTyped' /\ ViewFits' /\ ToldFits'
    BY <1>1, <1>2, ScreenAssumption DEF ScreenInv, RowsTyped, ViewFits, Loading, ToldFits
  <1>4. CallsFit'
    <2>1. DOMAIN calls' = CallSlots
      BY DEF Leave
    <2>2. ASSUME NEW i \in CallSlots PROVE CallFits(calls[i])'
      <3>1. PICK y : y = calls[i] /\ CallFits(y)
        BY DEF ScreenInv, CallsFit
      <3>2. CASE y.kind = "settle"
        <4>1. PICK q : q = [y EXCEPT !.here = FALSE] /\ q = calls'[i]
          BY <3>1, <3>2 DEF Leave
        <4>2. y # NoCall
          BY <3>2 DEF NoCall
        <4>3. DOMAIN q = DOMAIN y /\ q.kind = "settle" /\ q.c = y.c /\ ~q.here
          BY <3>1, <3>2, <4>1, <4>2 DEF CallFits
        <4> QED BY <3>1, <4>1, <4>2, <4>3 DEF CallFits
      <3>3. CASE y.kind # "settle"
        <4>1. calls'[i] = NoCall
          BY <3>1, <3>3 DEF Leave
        <4> QED BY <4>1 DEF CallFits
      <3> QED BY <3>2, <3>3
    <2> QED BY <2>1, <2>2 DEF CallsFit
  <1>5. PollsFit'
    <2>1. polls' = [p \in Polls |-> NoPoll]
      BY DEF Leave
    <2> QED BY <2>1 DEF PollsFit, PollFits, NoPoll
  <1>6. FundingsFit'
    <2>1. DOMAIN checkout' = Checkouts
      BY DEF Leave
    <2>2. ASSUME NEW k \in Checkouts PROVE FundFits(checkout[k])'
      <3>1. PICK y : y = checkout[k] /\ FundFits(y)
        BY DEF ScreenInv, FundingsFit
      <3>2. CASE y.step = "none"
        <4>1. checkout'[k] = NoFund
          BY <3>1, <3>2 DEF Leave
        <4> QED BY <4>1 DEF FundFits, NoFund
      <3>3. CASE y.step # "none"
        <4>1. PICK q : q = [y EXCEPT !.panel = FALSE, !.here = FALSE] /\ q = checkout'[k]
          BY <3>1, <3>3 DEF Leave
        <4>2. /\ DOMAIN q = DOMAIN y /\ q.step = y.step /\ q.c = y.c /\ q.order = y.order
              /\ q.answer = y.answer /\ ~q.here
          BY <3>1, <3>3, <4>1 DEF FundFits
        <4>3. FundFits(q)'
          BY <1>1, <3>1, <3>3, <4>2 DEF FundFits, HasOrder, Funded
        <4> QED BY <4>1, <4>3 DEF FundFits, HasOrder, Funded
      <3> QED BY <3>2, <3>3
    <2> QED BY <2>1, <2>2 DEF FundingsFit
  <1> QED BY <1>3, <1>4, <1>5, <1>6 DEF ScreenInv

\* A reading is of the rows of the moment.
LEMMA ReadsAreTrue ==
  ASSUME RowsTyped, NEW c \in Contracts, NEW a, Done(Reads(c, a))
  PROVE  Released(c)
PROOF
  <1>1. Newest(c) = "RELEASED"
    BY DEF Done, Reads
  <1>2. rows[c] # <<>> /\ rows[c][Len(rows[c])] = "RELEASED"
    BY <1>1, ScreenAssumption DEF Newest
  <1>3. rows[c] \in Seq(RowStatus)
    BY DEF RowsTyped
  <1>4. Len(rows[c]) \in DOMAIN rows[c]
    BY <1>2, <1>3, EmptySeq, LenProperties
  <1> QED BY <1>2, <1>4 DEF Released

LEMMA ServeCallPreserves ==
  ASSUME ScreenInv, NEW i \in CallSlots, ServeCall(i)
  PROVE  ScreenInv'
PROOF
  <1>1. UNCHANGED <<rows, charged, toast, shown, view, polls, checkout>> /\ RowsOnlyMove /\ ViewStays
    BY NothingMoves DEF ServeCall, ViewStays, request
  <1>2. RowsTyped' /\ ToldFits' /\ ViewFits' /\ PollsFit' /\ FundingsFit'
    BY <1>1, ToldStays, RestFits DEF ScreenInv, RowsTyped, ViewFits
  <1>3. PICK y : y = calls[i] /\ CallFits(y) /\ y # NoCall
    BY DEF ServeCall, ScreenInv, CallsFit
  <1>4. PICK a, q : /\ q = [y EXCEPT !.answer = a] /\ calls' = [calls EXCEPT ![i] = q]
                    /\ y.kind # "settle" => a = Broken \/ \E b : a = Reads(y.c, b)
    BY <1>3 DEF ServeCall, Answered
  <1>5. DOMAIN q = DOMAIN y /\ q.answer = a /\ q.kind = y.kind /\ q.c = y.c /\ q.here = y.here
    BY <1>3, <1>4 DEF CallFits
  <1>6. q.kind = "tick" /\ Done(q.answer) => Released(q.c)
    <2>1. ~Done(Broken)
      BY DEF Done, Broken
    <2> QED BY <1>3, <1>4, <1>5, <2>1, ReadsAreTrue DEF CallFits, ScreenInv
  <1>7. CallFits(q)
    BY <1>3, <1>5, <1>6 DEF CallFits
  <1> QED BY <1>1, <1>2, <1>4, <1>7, FitsStay, OneCall DEF ScreenInv

LEMMA LoadArrivesPreserves ==
  ASSUME ScreenInv, NEW i \in CallSlots, LoadArrives(i)
  PROVE  ScreenInv'
PROOF
  <1>1. UNCHANGED <<rows, charged, toast, shown, polls>> /\ RowsOnlyMove /\ ViewStays
    BY NothingMoves DEF LoadArrives, server, request, ViewStays
  <1>2. shown # Nothing
    <2>1. PICK y : y = calls[i] /\ CallFits(y) /\ y.kind = "load"
      BY DEF LoadArrives, ScreenInv, CallsFit
    <2> QED BY <2>1 DEF CallFits, NoCall
  <1>3. RowsTyped' /\ ToldFits' /\ ViewFits' /\ PollsFit'
    BY <1>1, <1>2, ToldStays, RestFits DEF ScreenInv, RowsTyped, ViewFits
  <1>4. CallsFit' /\ FundingsFit'
    BY <1>1, OverFits, KeptFits DEF LoadArrives, SetView
  <1> QED BY <1>3, <1>4 DEF ScreenInv

LEMMA SettleArrivesPreserves ==
  ASSUME ScreenInv, NEW i \in CallSlots, SettleArrives(i)
  PROVE  ScreenInv'
PROOF
  <1>1. UNCHANGED <<rows, charged, shown, view, checkout>> /\ RowsOnlyMove /\ ViewStays
    BY NothingMoves DEF SettleArrives, server, ViewStays
  <1>2. PICK y : y = calls[i] /\ CallFits(y) /\ y.kind = "settle" /\ y.c \in Contracts
    BY DEF SettleArrives, ScreenInv, CallsFit, CallFits, NoCall
  <1>3. RowsTyped' /\ ViewFits' /\ FundingsFit' /\ CallsFit'
    BY <1>1, RestFits, OverFits DEF SettleArrives, ScreenInv, RowsTyped, ViewFits
  <1>4. ToldFits'
    <2>1. UNCHANGED toast \/ toast'[1] \in {"requested", "failed"}
      BY DEF SettleArrives, request
    <2> QED BY <1>1, <2>1, ToldStays DEF ToldFits, ScreenInv
  <1>5. PollsFit'
    <2>1. CASE UNCHANGED polls
      BY <1>1, <2>1, RestFits
    <2>2. CASE /\ y.here
               /\ \E p \in Polls : polls' = [polls EXCEPT ![p] = [on |-> TRUE, c |-> y.c, attempts |-> 0]]
      <3>1. PICK p \in Polls : polls' = [polls EXCEPT ![p] = [on |-> TRUE, c |-> y.c, attempts |-> 0]]
        BY <2>2
      <3>2. shown # Nothing
        BY <1>2, <2>2 DEF CallFits, NoCall
      <3>3. DOMAIN polls' = Polls
        BY <3>1 DEF ScreenInv, PollsFit
      <3>4. ASSUME NEW r \in Polls PROVE PollFits(polls[r])'
        <4>1. CASE r = p
          <5>1. polls'[r] = [on |-> TRUE, c |-> y.c, attempts |-> 0]
            BY <3>1, <4>1 DEF ScreenInv, PollsFit
          <5> QED BY <5>1, <3>2, <1>1, <1>2 DEF PollFits
        <4>2. CASE r # p
          <5>1. \E q : q = polls[r] /\ q = polls'[r] /\ PollFits(q)
            BY <3>1, <4>2 DEF ScreenInv, PollsFit
          <5> QED BY <5>1, <1>1, FitsStay
        <4> QED BY <4>1, <4>2
      <3> QED BY <3>3, <3>4 DEF PollsFit
    <2> QED BY <2>1, <2>2, <1>2 DEF SettleArrives, request
  <1> QED BY <1>3, <1>4, <1>5 DEF ScreenInv

LEMMA TickPreserves ==
  ASSUME ScreenInv, NEW p \in Polls, Tick(p)
  PROVE  ScreenInv'
PROOF
  <1>1. UNCHANGED <<rows, charged, toast, shown, view, checkout>> /\ RowsOnlyMove /\ ViewStays
    BY NothingMoves DEF Tick, server, ViewStays
  <1>2. PICK y : y = polls[p] /\ PollFits(y) /\ y.on
    BY DEF Tick, ScreenInv, PollsFit
  <1>3. RowsTyped' /\ ToldFits' /\ ViewFits' /\ FundingsFit'
    BY <1>1, ToldStays, RestFits DEF ScreenInv, RowsTyped, ViewFits
  <1>4. CallsFit'
    BY <1>1, <1>2, SentFits DEF Tick, PollFits
  <1>5. PollsFit'
    <2>1. PICK q : q = [y EXCEPT !.attempts = @ + 1] /\ polls' = [polls EXCEPT ![p] = q]
      BY <1>2 DEF Tick
    <2>2. DOMAIN q = DOMAIN y /\ q.on = y.on /\ q.c = y.c
      BY <1>2, <2>1 DEF PollFits
    <2>3. PollFits(q)
      BY <1>2, <2>2 DEF PollFits
    <2>4. ASSUME NEW r \in Polls PROVE \E x : x = polls'[r] /\ PollFits(x)
      BY <2>1, <2>3 DEF ScreenInv, PollsFit
    <2>5. DOMAIN polls' = Polls
      BY <2>1 DEF ScreenInv, PollsFit
    <2> QED BY <1>1, <2>4, <2>5, FitsStay DEF PollsFit
  <1> QED BY <1>3, <1>4, <1>5 DEF ScreenInv

\* The word of a release comes with a reading that shows it, of the contract it names.
LEMMA TickArrivesPreserves ==
  ASSUME ScreenInv, NEW i \in CallSlots, TickArrives(i)
  PROVE  ScreenInv'
PROOF
  <1>1. UNCHANGED <<rows, charged, shown>> /\ RowsOnlyMove /\ ViewStays
    BY NothingMoves DEF TickArrives, server, ViewStays
  <1>2. PICK y : y = calls[i] /\ CallFits(y) /\ y # NoCall /\ y.kind = "tick" /\ y.answer # Nothing
    BY DEF TickArrives, ScreenInv, CallsFit, NoCall
  <1>3. y.c \in Contracts /\ shown # Nothing /\ (Done(y.answer) => Released(y.c))
    BY <1>2 DEF CallFits
  <1>4. RowsTyped' /\ ViewFits' /\ CallsFit' /\ FundingsFit'
    BY <1>1, <1>3, OverFits, KeptFits DEF TickArrives, SetView, ScreenInv, RowsTyped, ViewFits
  <1>5. PollsFit'
    BY <1>1, RestFits, StoppedFits DEF TickArrives, request
  <1>6. ToldFits'
    <2>1. \/ UNCHANGED toast
          \/ toast' = <<IF Done(y.answer) THEN "released" ELSE "failed", y.c>>
      BY <1>2 DEF TickArrives, request
    <2>2. ASSUME toast' = <<IF Done(y.answer) THEN "released" ELSE "failed", y.c>>
          PROVE  ToldFits'
      <3>1. Done(y.answer) => Released(y.c)'
        BY <1>1, <1>3, TruthsStay
      <3>2. CASE Done(y.answer)
        <4>1. toast'[1] = "released" /\ toast'[2] = y.c
          BY <2>2, <3>2
        <4> QED BY <4>1, <3>1, <3>2, <1>3 DEF ToldFits, Released
      <3>3. CASE ~Done(y.answer)
        BY <2>2, <3>3 DEF ToldFits
      <3> QED BY <3>2, <3>3
    <2> QED BY <1>1, <2>1, <2>2, ToldStays DEF ScreenInv
  <1> QED BY <1>4, <1>5, <1>6 DEF ScreenInv

-------------------------------------------------------------------------------
\* Funding.

\* A funding moves on: what it is about stays.
LEMMA FundingMoves ==
  ASSUME ScreenInv, RowsOnlyMove, RowsTyped', NEW k \in Checkouts, NEW q,
         checkout' = [checkout EXCEPT ![k] = q], FundFits(q)',
         UNCHANGED <<toast, shown, view, polls, calls>>
  PROVE  ScreenInv'
PROOF
  <1>1. ViewStays
    BY DEF ViewStays
  <1>2. FundingsFit'
    BY <1>1, OneFunding
  <1>3. ToldFits' /\ CallsFit' /\ PollsFit' /\ ViewFits'
    BY <1>1, ToldStays, RestFits DEF ScreenInv, ViewFits
  <1> QED BY <1>2, <1>3 DEF ScreenInv

LEMMA FundEscrowPreserves ==
  ASSUME ScreenInv, NEW k \in Checkouts, FundEscrow(k)
  PROVE  ScreenInv'
PROOF
  <1>1. shown \in Contracts /\ shown # Nothing
    BY ScreenAssumption DEF FundEscrow, NeedsFunding, ScreenInv, ViewFits
  <1>2. PICK q : /\ checkout' = [checkout EXCEPT ![k] = q]
                 /\ q = [step |-> "create", c |-> shown, order |-> Nothing,
                         resumed |-> view.escrow = "PENDING", answer |-> Nothing,
                         panel |-> TRUE, here |-> TRUE]
    BY DEF FundEscrow
  <1>3. Nothing # "ok"
    BY ScreenAssumption
  <1>4. FundFits(q)
    BY <1>1, <1>2, <1>3 DEF FundFits, HasOrder
  <1>5. UNCHANGED <<rows, charged, toast, shown, view, polls, calls>>
    BY DEF FundEscrow, server, request
  <1>6. RowsOnlyMove /\ ViewStays /\ RowsTyped'
    BY <1>5, NothingMoves DEF ViewStays, ScreenInv, RowsTyped
  <1> QED BY <1>2, <1>4, <1>5, <1>6, FitsStay, FundingMoves

\* A new order is a new row.
LEMMA NewRow ==
  ASSUME RowsTyped, NEW c \in Contracts, rows' = [rows EXCEPT ![c] = Append(@, "PENDING")],
         UNCHANGED charged
  PROVE  RowsOnlyMove /\ RowsTyped' /\ Len(rows[c]) + 1 \in DOMAIN rows'[c]
PROOF
  <1>1. rows[c] \in Seq(RowStatus) /\ "PENDING" \in RowStatus /\ Len(rows[c]) \in Nat
    BY LenProperties DEF RowsTyped, RowStatus
  <1>2. rows'[c] = Append(rows[c], "PENDING") /\ rows'[c] \in Seq(RowStatus)
        /\ \A d \in Contracts \ {c} : rows'[d] = rows[d]
    BY <1>1 DEF RowsTyped
  <1>3. /\ DOMAIN rows[c] = 1..Len(rows[c])
        /\ DOMAIN rows'[c] = 1..(Len(rows[c]) + 1)
        /\ \A n \in 1..Len(rows[c]) : rows'[c][n] = rows[c][n]
    BY <1>1, <1>2, LenProperties, AppendProperties
  <1>4. RowsTyped'
    BY <1>2 DEF RowsTyped
  <1> QED BY <1>1, <1>2, <1>3, <1>4 DEF RowsOnlyMove

LEMMA CreateOrderPreserves ==
  ASSUME ScreenInv, NEW k \in Checkouts, CreateOrder(k)
  PROVE  ScreenInv'
PROOF
  <1>1. PICK y : y = checkout[k] /\ FundFits(y) /\ y.step = "create" /\ y.answer = Nothing
    BY DEF CreateOrder, ScreenInv, FundingsFit
  <1>2. DOMAIN y = {"step", "c", "order", "resumed", "answer", "panel", "here"} /\ y.c \in Contracts
        /\ (shown = Nothing => ~y.here)
    BY <1>1 DEF FundFits
  <1>3. UNCHANGED <<charged, toast, shown, view, polls, calls>> /\ ViewStays
    BY DEF CreateOrder, request, ViewStays
  <1>4. ASSUME NEW q, checkout' = [checkout EXCEPT ![k] = q], RowsOnlyMove, RowsTyped',
               \/ q = [y EXCEPT !.answer = "error"]
               \/ \E n \in DOMAIN rows'[y.c] : \E z : /\ z = [y EXCEPT !.answer = "ok"]
                                                     /\ q = [z EXCEPT !.order = n]
        PROVE  ScreenInv'
    <2>1. /\ DOMAIN q = DOMAIN y /\ q.c = y.c /\ q.step = "create" /\ q.here = y.here
          /\ q.answer # "error" => q.order \in DOMAIN rows'[y.c]
      BY <1>1, <1>2, <1>4
    <2>2. FundFits(q)'
      BY <1>2, <1>3, <2>1 DEF FundFits, HasOrder
    <2> QED BY <1>3, <1>4, <2>2, FundingMoves
  <1>5. ASSUME NEW n \in DOMAIN rows'[y.c], RowsOnlyMove, RowsTyped',
               checkout' \in {[checkout EXCEPT ![k].answer = "ok", ![k].order = n],
                              [checkout EXCEPT ![k].answer = "error"]}
        PROVE  ScreenInv'
    <2>1. CASE checkout' = [checkout EXCEPT ![k].answer = "error"]
      <3>1. checkout' = [checkout EXCEPT ![k] = [y EXCEPT !.answer = "error"]]
        BY <2>1, <1>1 DEF ScreenInv, FundingsFit
      <3> QED BY <3>1, <1>4, <1>5
    <2>2. CASE checkout' = [checkout EXCEPT ![k].answer = "ok", ![k].order = n]
      <3>1. PICK z : z = [y EXCEPT !.answer = "ok"]
        OBVIOUS
      <3>2. checkout' = [checkout EXCEPT ![k] = [z EXCEPT !.order = n]]
        BY <2>2, <3>1, <1>1 DEF ScreenInv, FundingsFit
      <3> QED BY <3>1, <3>2, <1>4, <1>5
    <2> QED BY <1>5, <2>1, <2>2
  <1>6. ASSUME UNCHANGED rows, checkout' = [checkout EXCEPT ![k].answer = "error"]
        PROVE  ScreenInv'
    <2>1. checkout' = [checkout EXCEPT ![k] = [y EXCEPT !.answer = "error"]]
      BY <1>6, <1>1 DEF ScreenInv, FundingsFit
    <2> QED BY <2>1, <1>3, <1>4, <1>6, NothingMoves DEF ScreenInv, RowsTyped
  <1>7. ASSUME Newest(y.c) = "PENDING", UNCHANGED rows,
               checkout' \in {[checkout EXCEPT ![k].answer = "ok", ![k].order = Len(rows[y.c])],
                              [checkout EXCEPT ![k].answer = "error"]}
        PROVE  ScreenInv'
    <2>1. rows[y.c] # <<>> /\ rows[y.c] \in Seq(RowStatus)
      BY <1>2, <1>7, ScreenAssumption DEF Newest, ScreenInv, RowsTyped
    <2>2. Len(rows[y.c]) \in DOMAIN rows'[y.c]
      BY <1>7, <2>1, EmptySeq, LenProperties
    <2> QED BY <1>3, <1>5, <1>7, <2>2, NothingMoves DEF ScreenInv, RowsTyped
  <1>8. ASSUME rows' = [rows EXCEPT ![y.c] = Append(@, "PENDING")],
               checkout' \in {[checkout EXCEPT ![k].answer = "ok", ![k].order = Len(rows[y.c]) + 1],
                              [checkout EXCEPT ![k].answer = "error"]}
        PROVE  ScreenInv'
    <2>1. RowsOnlyMove /\ RowsTyped' /\ Len(rows[y.c]) + 1 \in DOMAIN rows'[y.c]
      BY <1>2, <1>3, <1>8, NewRow DEF ScreenInv
    <2> QED BY <1>5, <1>8, <2>1
  <1> QED BY <1>1, <1>6, <1>7, <1>8 DEF CreateOrder

\* What ends or moves a funding without a row or a payment.
LEMMA StepPreserves ==
  ASSUME ScreenInv, NEW k \in Checkouts, OrderArrives(k) \/ Declined(k) \/ Dismissed(k) \/ Paid(k)
  PROVE  ScreenInv'
PROOF
  <1>1. /\ UNCHANGED <<rows, toast, shown, view, polls, calls>>
        /\ charged \subseteq charged' /\ ViewStays
    BY DEF OrderArrives, Declined, Dismissed, Paid, server, request, ViewStays
  <1>2. RowsOnlyMove /\ RowsTyped'
    BY <1>1 DEF RowsOnlyMove, ScreenInv, RowsTyped
  <1>3. CASE Ends(k)
    <2>1. FundFits(NoFund)'
      BY DEF FundFits, NoFund
    <2> QED BY <1>1, <1>2, <1>3, <2>1, FundingMoves DEF Ends
  <1>4. ASSUME NEW step \in {"script", "hung", "open", "verify"}, Goes(k, step), HasOrder(checkout[k])
        PROVE  ScreenInv'
    <2>1. PICK z : z = checkout[k] /\ FundFits(z) /\ HasOrder(z)
      BY <1>4 DEF ScreenInv, FundingsFit
    <2>2. PICK x, q : /\ x = [z EXCEPT !.step = step] /\ q = [x EXCEPT !.answer = Nothing]
                      /\ checkout' = [checkout EXCEPT ![k] = q]
      BY <2>1, <1>4 DEF Goes, ScreenInv, FundingsFit
    <2>3. z.step # "none"
      BY <2>1 DEF HasOrder
    <2>4. /\ DOMAIN q = DOMAIN z /\ q.c = z.c /\ q.order = z.order /\ q.here = z.here
          /\ q.answer = Nothing
      BY <2>1, <2>2, <2>3 DEF FundFits
    <2>5. Nothing # "ok"
      BY ScreenAssumption
    <2>6. FundFits(q)
      BY <2>1, <2>3, <2>4, <2>5 DEF FundFits
    <2> QED BY <1>1, <1>2, <2>2, <2>6, FitsStay, FundingMoves
  <1>5. ASSUME Declined(k)
        PROVE  ScreenInv'
    <2>1. PICK z : z = checkout[k] /\ FundFits(z) /\ z.step = "open"
      BY <1>5 DEF Declined, ScreenInv, FundingsFit
    <2>2. PICK x, q : /\ x = [z EXCEPT !.step = "declined"] /\ q = [x EXCEPT !.panel = FALSE]
                      /\ checkout' = [checkout EXCEPT ![k] = q]
      BY <2>1, <1>5 DEF Declined, ScreenInv, FundingsFit
    <2>3. /\ DOMAIN q = DOMAIN z /\ q.c = z.c /\ q.order = z.order /\ q.here = z.here
          /\ q.step = "declined"
      BY <2>1, <2>2 DEF FundFits
    <2>4. FundFits(q)
      BY <2>1, <2>3 DEF FundFits, HasOrder
    <2> QED BY <1>1, <1>2, <2>2, <2>4, FitsStay, FundingMoves
  <1> QED BY <1>3, <1>4, <1>5, ScreenAssumption DEF OrderArrives, Dismissed, Paid, HasOrder

LEMMA ScriptPreserves ==
  ASSUME ScreenInv, ScriptSettles
  PROVE  ScreenInv'
PROOF
  <1>1. UNCHANGED <<rows, charged, toast, shown, view, polls, calls>> /\ RowsOnlyMove /\ ViewStays
    BY NothingMoves DEF ScriptSettles, server, request, ViewStays
  <1>2. RowsTyped' /\ ToldFits' /\ ViewFits' /\ PollsFit' /\ CallsFit'
    BY <1>1, ToldStays, RestFits DEF ScreenInv, RowsTyped, ViewFits
  <1>3. DOMAIN checkout' = Checkouts
    BY DEF ScriptSettles
  <1>4. ASSUME NEW k \in Checkouts PROVE FundFits(checkout[k])'
    <2>1. PICK z : z = checkout[k] /\ FundFits(z)
      BY DEF ScreenInv, FundingsFit
    <2>2. PICK q : /\ q = checkout'[k]
                   /\ q \in {z, NoFund} \/ (z.step = "script" /\ q = [z EXCEPT !.step = "open"])
      BY <2>1 DEF ScriptSettles
    <2>3. FundFits(q)
      <3>1. CASE q \in {z, NoFund}
        BY <2>1, <3>1 DEF FundFits, NoFund
      <3>2. CASE z.step = "script" /\ q = [z EXCEPT !.step = "open"]
        <4>1. /\ DOMAIN q = DOMAIN z /\ q.c = z.c /\ q.order = z.order /\ q.here = z.here
              /\ q.step = "open"
          BY <2>1, <3>2 DEF FundFits
        <4> QED BY <2>1, <3>2, <4>1 DEF FundFits, HasOrder
      <3> QED BY <2>2, <3>1, <3>2
    <2> QED BY <1>1, <2>2, <2>3, FitsStay
  <1> QED BY <1>2, <1>3, <1>4 DEF ScreenInv, FundingsFit

\* A row that moves on.
LEMMA RowMoves ==
  ASSUME RowsTyped, NEW c \in Contracts, NEW n \in DOMAIN rows[c], NEW status \in RowStatus,
         status # "PENDING" \/ rows[c][n] = "PENDING",
         rows[c][n] = "RELEASED" => status = "RELEASED",
         rows' = [rows EXCEPT ![c][n] = status], UNCHANGED charged
  PROVE  RowsOnlyMove /\ RowsTyped' /\ rows'[c][n] = status
PROOF
  <1>1. PICK s : s = rows[c] /\ s \in Seq(RowStatus)
    BY DEF RowsTyped
  <1>2. PICK t : t = [s EXCEPT ![n] = status] /\ rows' = [rows EXCEPT ![c] = t]
    BY <1>1 DEF RowsTyped
  <1>3. t \in Seq(RowStatus) /\ DOMAIN t = DOMAIN s /\ t[n] = status
        /\ \A x \in DOMAIN s \ {n} : t[x] = s[x]
    BY <1>1, <1>2, ExceptSeq, LenProperties
  <1>4. rows'[c] = t /\ \A d \in Contracts \ {c} : rows'[d] = rows[d]
    BY <1>2 DEF RowsTyped
  <1>5. RowsTyped'
    BY <1>2, <1>3, <1>4 DEF RowsTyped
  <1> QED BY <1>1, <1>3, <1>4, <1>5 DEF RowsOnlyMove

\* The gateway says that a payment is taken over when it is.
LEMMA VerifyPreserves ==
  ASSUME ScreenInv, NEW k \in Checkouts, VerifyPayment(k)
  PROVE  ScreenInv'
PROOF
  <1>1. PICK y : y = checkout[k] /\ FundFits(y) /\ y.step = "verify"
    BY DEF VerifyPayment, ScreenInv, FundingsFit
  <1>2. y.c \in Contracts /\ y.order \in DOMAIN rows[y.c]
        /\ DOMAIN y = {"step", "c", "order", "resumed", "answer", "panel", "here"}
        /\ (shown = Nothing => ~y.here)
    BY <1>1 DEF FundFits, HasOrder
  <1>3. UNCHANGED <<charged, toast, shown, view, polls, calls>> /\ ViewStays
    BY DEF VerifyPayment, request, ViewStays
  <1>4. PICK a, q :
          /\ a \in {"ok", "error"}
          /\ q = [y EXCEPT !.answer = a]
          /\ checkout' = [checkout EXCEPT ![k] = q]
    BY <1>1 DEF VerifyPayment, ScreenInv, FundingsFit
  <1>5. /\ DOMAIN q = DOMAIN y /\ q.c = y.c /\ q.order = y.order /\ q.here = y.here
        /\ q.step = "verify" /\ q.answer = a
    BY <1>1, <1>2, <1>4
  <1>6. Order(k) = <<y.c, y.order>> /\ Order(k)[1] = y.c /\ Order(k)[2] = y.order
    BY <1>1 DEF Order
  <1>7. \/ /\ <<y.c, y.order>> \in charged
           /\ rows' = [rows EXCEPT ![y.c][y.order] = IF @ = "PENDING" THEN "AUTHORIZED" ELSE @]
        \/ UNCHANGED rows /\ checkout'[k].answer = "error"
    BY <1>6, <1>1, <1>2 DEF VerifyPayment, ScreenInv, FundingsFit
  <1>8. CASE UNCHANGED rows /\ checkout'[k].answer = "error"
    <2>1. checkout'[k] = q
      BY <1>4 DEF ScreenInv, FundingsFit
    <2>2. q.answer = "error"
      BY <1>8, <2>1
    <2>3. FundFits(q)'
      BY <1>1, <1>2, <1>3, <1>5, <1>8, <2>2 DEF FundFits
    <2> QED BY <1>3, <1>4, <1>8, <2>3, NothingMoves, FundingMoves DEF ScreenInv, RowsTyped
  <1>9. CASE /\ <<y.c, y.order>> \in charged
             /\ rows' = [rows EXCEPT ![y.c][y.order] = IF @ = "PENDING" THEN "AUTHORIZED" ELSE @]
    <2>1. PICK status : /\ status = IF rows[y.c][y.order] = "PENDING" THEN "AUTHORIZED"
                                    ELSE rows[y.c][y.order]
                        /\ rows' = [rows EXCEPT ![y.c][y.order] = status]
      BY <1>9
    <2>2. rows[y.c] \in Seq(RowStatus) /\ rows[y.c][y.order] \in RowStatus
      BY <1>2, ElementOfSeq, LenProperties DEF ScreenInv, RowsTyped
    <2>3. status \in RowStatus /\ status # "PENDING"
          /\ (rows[y.c][y.order] = "RELEASED" => status = "RELEASED")
      BY <2>1, <2>2 DEF RowStatus
    <2>4. RowsOnlyMove /\ RowsTyped' /\ rows'[y.c][y.order] = status
      <3>1. PICK c, n : c = y.c /\ n = y.order
        OBVIOUS
      <3>2. rows' = [rows EXCEPT ![c][n] = status] /\ UNCHANGED charged
        BY <1>3, <2>1, <3>1
      <3>3. RowsTyped /\ c \in Contracts /\ n \in DOMAIN rows[c]
        BY <1>2, <3>1 DEF ScreenInv
      <3>4. RowsOnlyMove /\ RowsTyped' /\ rows'[c][n] = status
        <4>1. status \in RowStatus /\ status # "PENDING"
              /\ (rows[c][n] = "RELEASED" => status = "RELEASED")
          BY <2>3, <3>1
        <4> QED BY <3>2, <3>3, <4>1, RowMoves
      <3> QED BY <3>1, <3>4
    <2>5. y.order \in DOMAIN rows'[y.c] /\ <<y.c, y.order>> \in charged'
      BY <1>2, <1>3, <1>9, <2>4 DEF RowsOnlyMove
    <2>6. Funded(y.c)'
      <3>1. PICK c, n : c = y.c /\ n = y.order
        OBVIOUS
      <3>2. Funded(c)'
        BY <2>3, <2>4, <2>5, <3>1 DEF Funded
      <3> QED BY <3>1, <3>2
    <2>7. FundFits(q)'
      BY <1>2, <1>3, <1>5, <2>5, <2>6 DEF FundFits
    <2> QED BY <1>3, <1>4, <2>4, <2>7, FundingMoves
  <1> QED BY <1>7, <1>8, <1>9

LEMMA VerifyArrivesPreserves ==
  ASSUME ScreenInv, NEW k \in Checkouts, VerifyArrives(k)
  PROVE  ScreenInv'
PROOF
  <1>1. UNCHANGED <<rows, charged, shown, view, polls>> /\ RowsOnlyMove /\ ViewStays
    BY NothingMoves DEF VerifyArrives, server, ViewStays
  <1>2. RowsTyped' /\ ViewFits' /\ PollsFit'
    BY <1>1, RestFits DEF ScreenInv, RowsTyped, ViewFits
  <1>3. FundingsFit'
    <2>1. FundFits(NoFund)'
      BY DEF FundFits, NoFund
    <2> QED BY <1>1, <2>1, OneFunding DEF VerifyArrives, Ends
  <1>4. PICK y : y = checkout[k] /\ FundFits(y) /\ y.step = "verify"
    BY DEF VerifyArrives, Verified, ScreenInv, FundingsFit
  <1>5. CASE y.answer = "ok" /\ y.here
    <2>1. y.c \in Contracts /\ Funded(y.c) /\ shown # Nothing
      BY <1>4, <1>5 DEF FundFits
    <2>2. toast' = <<"funded", y.c>> /\ calls' \in Sent(calls, "load", y.c, Nothing)
      BY <1>4, <1>5 DEF VerifyArrives
    <2>3. CallsFit'
      BY <1>1, <2>1, <2>2, SentFits
    <2>4. Funded(y.c)'
      BY <1>1, <2>1, TruthsStay
    <2>5. ToldFits'
      BY <2>1, <2>2, <2>4 DEF ToldFits, Funded
    <2> QED BY <1>2, <1>3, <2>3, <2>5 DEF ScreenInv
  <1>6. CASE ~(y.answer = "ok" /\ y.here)
    <2>1. UNCHANGED <<toast, calls>>
      BY <1>4, <1>6 DEF VerifyArrives
    <2> QED BY <1>1, <1>2, <1>3, <2>1, ToldStays, RestFits DEF ScreenInv
  <1> QED BY <1>5, <1>6

LEMMA ElsewherePreserves ==
  ASSUME ScreenInv, Elsewhere
  PROVE  ScreenInv'
PROOF
  <1>1. UNCHANGED <<charged, toast, shown, view, polls, calls, checkout>> /\ ViewStays
    BY DEF Elsewhere, request, ViewStays
  <1>2. RowsOnlyMove /\ RowsTyped'
    <2>1. PICK c \in Contracts : \E n \in DOMAIN rows[c] :
            \/ UNCHANGED rows
            \/ /\ rows[c][n] # "RELEASED"
               /\ \E status \in RowStatus \ {"PENDING"} : rows' = [rows EXCEPT ![c][n] = status]
      <3>1. \A status \in {"AUTHORIZED", "FAILED", "RELEASED"} : status \in RowStatus \ {"PENDING"}
        BY DEF RowStatus
      <3> QED BY <3>1 DEF Elsewhere, Moves
    <2>2. CASE UNCHANGED rows
      BY <1>1, <2>2, NothingMoves DEF ScreenInv, RowsTyped
    <2>3. CASE ~UNCHANGED rows
      <3>1. PICK n \in DOMAIN rows[c] :
              /\ rows[c][n] # "RELEASED"
              /\ \E status \in RowStatus \ {"PENDING"} : rows' = [rows EXCEPT ![c][n] = status]
        BY <2>1, <2>3
      <3>2. PICK status \in RowStatus \ {"PENDING"} : rows' = [rows EXCEPT ![c][n] = status]
        BY <3>1
      <3> QED BY <1>1, <3>1, <3>2, RowMoves DEF ScreenInv
    <2> QED BY <2>2, <2>3
  <1> QED BY <1>1, <1>2, ToldStays, RestFits DEF ScreenInv, ViewFits

LEMMA ScreenInvariance == ScreenSpec => []ScreenInv
PROOF
  <1>1. ScreenInit => ScreenInv
    <2> SUFFICES ASSUME ScreenInit PROVE ScreenInv
      OBVIOUS
    <2>1. <<>> \in Seq(RowStatus) /\ <<"AUTHORIZED">> \in Seq(RowStatus)
      BY DEF RowStatus
    <2>2. RowsTyped
      BY <2>1 DEF ScreenInit, RowsTyped
    <2>3. ViewFits /\ ToldFits
      BY ScreenAssumption DEF ScreenInit, ViewFits, ToldFits, Loading
    <2>4. CallsFit /\ PollsFit /\ FundingsFit
      BY DEF ScreenInit, CallsFit, CallFits, PollsFit, PollFits, NoPoll, FundingsFit, FundFits, NoFund
    <2> QED BY <2>2, <2>3, <2>4 DEF ScreenInv
  <1>2. ScreenInv /\ [ScreenNext]_screens => ScreenInv'
    <2> SUFFICES ASSUME ScreenInv, [ScreenNext]_screens PROVE ScreenInv'
      OBVIOUS
    <2>1. CASE UNCHANGED screens
      <3>1. UNCHANGED <<rows, charged, toast, shown, view, polls, calls, checkout>>
        BY <2>1 DEF screens, server, request
      <3> QED BY <3>1, NothingMoves, ToldStays, RestFits DEF ScreenInv, ViewStays, RowsTyped, ViewFits
    <2>2. CASE \E i \in CallSlots : CallStep(i)
      BY <2>2, ServeCallPreserves, LoadArrivesPreserves, SettleArrivesPreserves, TickArrivesPreserves
         DEF CallStep
    <2>3. CASE \E k \in Checkouts : FundStep(k)
      BY <2>3, FundEscrowPreserves, CreateOrderPreserves, StepPreserves, VerifyPreserves,
         VerifyArrivesPreserves DEF FundStep
    <2> QED BY <2>1, <2>2, <2>3, UserPreserves, LeavePreserves, TickPreserves, ScriptPreserves,
            ElsewherePreserves DEF ScreenNext
  <1> QED BY <1>1, <1>2, PTL DEF ScreenSpec

\* A row is FAILED only if an attempt to pay it was declined.
FailedWasDeclined ==
  \A c \in Contracts : \A n \in DOMAIN rows[c] : rows[c][n] = "FAILED" => <<c, n>> \in declined

\* One row changes, and to FAILED only after a declined attempt.
LEMMA OneRowFails ==
  ASSUME RowsTyped, FailedWasDeclined, NEW c \in Contracts, NEW n \in DOMAIN rows[c], NEW status,
         rows' = [rows EXCEPT ![c][n] = status], declined \subseteq declined',
         status = "FAILED" => rows[c][n] = "FAILED" \/ <<c, n>> \in declined
  PROVE  FailedWasDeclined'
PROOF
  <1>1. SUFFICES ASSUME NEW d \in Contracts, NEW m \in DOMAIN rows'[d], rows'[d][m] = "FAILED"
                 PROVE  <<d, m>> \in declined
    BY DEF FailedWasDeclined
  <1>2. PICK s : s = rows[c] /\ s \in Seq(RowStatus)
    BY DEF RowsTyped
  <1>3. PICK t : t = [s EXCEPT ![n] = status] /\ rows' = [rows EXCEPT ![c] = t]
    BY <1>2 DEF RowsTyped
  <1>4. rows'[c] = t /\ \A x \in Contracts \ {c} : rows'[x] = rows[x]
    BY <1>3 DEF RowsTyped
  <1>5. DOMAIN t = DOMAIN s /\ t[n] = status /\ \A x \in DOMAIN s \ {n} : t[x] = s[x]
    BY <1>2, <1>3
  <1>6. CASE d = c /\ m = n
    BY <1>1, <1>2, <1>4, <1>5, <1>6 DEF FailedWasDeclined
  <1>7. CASE d = c /\ m # n
    BY <1>1, <1>2, <1>4, <1>5, <1>7 DEF FailedWasDeclined
  <1>8. CASE d # c
    BY <1>1, <1>4, <1>8 DEF FailedWasDeclined
  <1> QED BY <1>6, <1>7, <1>8

LEMMA FailuresInvariance == ScreenSpec => []FailedWasDeclined
PROOF
  <1>1. ScreenInit => FailedWasDeclined
    <2> SUFFICES ASSUME ScreenInit, NEW c \in Contracts, NEW n \in DOMAIN rows[c]
                 PROVE  rows[c][n] # "FAILED"
      BY DEF FailedWasDeclined
    <2>1. rows[c] = <<>> \/ rows[c] = <<"AUTHORIZED">>
      BY DEF ScreenInit
    <2> QED BY <2>1
  <1>2. FailedWasDeclined /\ ScreenInv /\ [ScreenNext]_screens => FailedWasDeclined'
    <2> SUFFICES ASSUME FailedWasDeclined, ScreenInv, [ScreenNext]_screens
                 PROVE  FailedWasDeclined'
      OBVIOUS
    <2>1. RowsTyped
      BY DEF ScreenInv
    <2>2. ASSUME UNCHANGED rows, declined \subseteq declined' PROVE FailedWasDeclined'
      BY <2>2 DEF FailedWasDeclined
    <2>3. ASSUME NEW k \in Checkouts, CreateOrder(k) PROVE FailedWasDeclined'
      <3>1. PICK c : c = checkout[k].c /\ c \in Contracts
        BY <2>3 DEF CreateOrder, ScreenInv, FundingsFit, FundFits
      <3>2. UNCHANGED declined
        BY <2>3 DEF CreateOrder
      <3>3. CASE UNCHANGED rows
        BY <2>2, <3>2, <3>3
      <3>4. CASE rows' = [rows EXCEPT ![c] = Append(@, "PENDING")]
        <4>1. rows[c] \in Seq(RowStatus) /\ "PENDING" \in RowStatus /\ Len(rows[c]) \in Nat
          BY <2>1, <3>1, LenProperties DEF RowsTyped, RowStatus
        <4>2. rows'[c] = Append(rows[c], "PENDING") /\ \A d \in Contracts \ {c} : rows'[d] = rows[d]
          BY <2>1, <3>1, <3>4 DEF RowsTyped
        <4>3. /\ DOMAIN rows[c] = 1..Len(rows[c]) /\ DOMAIN rows'[c] = 1..(Len(rows[c]) + 1)
              /\ \A n \in 1..Len(rows[c]) : rows'[c][n] = rows[c][n]
              /\ rows'[c][Len(rows[c]) + 1] = "PENDING"
          BY <4>1, <4>2, LenProperties, AppendProperties
        <4>4. ASSUME NEW d \in Contracts, NEW n \in DOMAIN rows'[d], rows'[d][n] = "FAILED"
              PROVE  <<d, n>> \in declined
          <5>1. n \in DOMAIN rows[d] /\ rows[d][n] = "FAILED"
            <6>1. CASE d = c
              <7>1. n # Len(rows[c]) + 1
                BY <4>3, <4>4, <6>1
              <7>2. n \in 1..Len(rows[c])
                BY <4>1, <4>3, <4>4, <6>1, <7>1
              <7> QED BY <4>3, <4>4, <6>1, <7>2
            <6>2. CASE d # c
              BY <4>2, <4>4, <6>2
            <6> QED BY <6>1, <6>2
          <5> QED BY <5>1 DEF FailedWasDeclined
        <4> QED BY <3>2, <4>4 DEF FailedWasDeclined
      <3> QED BY <2>3, <3>1, <3>3, <3>4 DEF CreateOrder
    <2>4. ASSUME NEW k \in Checkouts, VerifyPayment(k) PROVE FailedWasDeclined'
      <3>1. PICK c, n : /\ c = checkout[k].c /\ n = checkout[k].order
                        /\ c \in Contracts /\ n \in DOMAIN rows[c]
        <4>1. PICK y : y = checkout[k] /\ FundFits(y) /\ y.step = "verify"
          BY <2>4 DEF VerifyPayment, ScreenInv, FundingsFit
        <4>2. y.c \in Contracts /\ y.order \in DOMAIN rows[y.c]
          BY <4>1 DEF FundFits, HasOrder
        <4> QED BY <4>1, <4>2
      <3>2. UNCHANGED declined /\ Order(k)[1] = c /\ Order(k)[2] = n
        BY <2>4, <3>1 DEF VerifyPayment, Order
      <3>3. CASE UNCHANGED rows
        BY <2>2, <3>2, <3>3
      <3>4. CASE rows' = [rows EXCEPT ![c][n] = IF @ = "PENDING" THEN "AUTHORIZED" ELSE @]
        <4>1. PICK status : /\ status = IF rows[c][n] = "PENDING" THEN "AUTHORIZED" ELSE rows[c][n]
                            /\ rows' = [rows EXCEPT ![c][n] = status]
          BY <3>4
        <4> QED BY <2>1, <3>1, <3>2, <4>1, OneRowFails
      <3> QED BY <2>4, <3>2, <3>3, <3>4 DEF VerifyPayment
    <2>5. ASSUME Elsewhere PROVE FailedWasDeclined'
      <3>1. UNCHANGED declined
        BY <2>5 DEF Elsewhere
      <3>2. CASE UNCHANGED rows
        BY <2>2, <3>1, <3>2
      <3>3. CASE ~UNCHANGED rows
        <4>1. PICK c \in Contracts : \E n \in DOMAIN rows[c] : \E status \in RowStatus :
                /\ rows' = [rows EXCEPT ![c][n] = status]
                /\ status = "FAILED" => <<c, n>> \in declined
          BY <2>5, <3>3 DEF Elsewhere, Moves, RowStatus
        <4> QED BY <2>1, <3>1, <4>1, OneRowFails
      <3> QED BY <3>2, <3>3
    <2>6. ASSUME NEW k \in Checkouts,
                 \/ FundEscrow(k) \/ OrderArrives(k) \/ Paid(k) \/ Declined(k)
                 \/ Dismissed(k) \/ VerifyArrives(k)
          PROVE  FailedWasDeclined'
      <3>1. UNCHANGED rows /\ declined \subseteq declined'
        BY <2>6 DEF FundEscrow, OrderArrives, Paid, Declined, Dismissed, VerifyArrives, server
      <3> QED BY <2>2, <3>1
    <2>7. ASSUME NEW i \in CallSlots, CallStep(i) PROVE FailedWasDeclined'
      <3>1. UNCHANGED <<rows, declined>>
        BY <2>7 DEF CallStep, ServeCall, LoadArrives, SettleArrives, TickArrives, server
      <3> QED BY <2>2, <3>1
    <2>8. CASE \/ \E c \in Contracts : Open(c)
               \/ Leave \/ Refresh \/ ReleaseFunds \/ ScriptSettles
               \/ \E p \in Polls : Tick(p)
      <3>1. UNCHANGED <<rows, declined>>
        BY <2>8 DEF Open, Leave, Refresh, ReleaseFunds, ScriptSettles, Tick, server
      <3> QED BY <2>2, <3>1
    <2>9. CASE UNCHANGED screens
      <3>1. UNCHANGED <<rows, declined>>
        BY <2>9 DEF screens, server
      <3> QED BY <2>2, <3>1
    <2> QED BY <2>3, <2>4, <2>5, <2>6, <2>7, <2>8, <2>9 DEF ScreenNext, FundStep
  <1> QED BY <1>1, <1>2, ScreenInvariance, PTL DEF ScreenSpec

\* The screen says that money was released, or is held, only of a contract of which that
\* is so -- but for an order with a declined attempt, whose row may have been failed
\* before --, although its readings overlap, contracts change under it, and what it says
\* may come from a callback of another render.
THEOREM WhatIsToldIsSo == ScreenSpec => []ToldIsSo
PROOF
  <1>1. ScreenInv /\ FailedWasDeclined => ToldIsSo
    <2> SUFFICES ASSUME ScreenInv, FailedWasDeclined PROVE ToldIsSo
      OBVIOUS
    <2>1. ASSUME NEW c \in Contracts, NEW n \in DOMAIN rows[c] PROVE rows[c][n] \in RowStatus
      BY <2>1, ElementOfSeq, LenProperties DEF ScreenInv, RowsTyped
    <2>2. ASSUME NEW c \in Contracts, Funded(c)
          PROVE  \E n \in DOMAIN rows[c] :
                   /\ <<c, n>> \in charged
                   /\ \/ rows[c][n] \in {"AUTHORIZED", "RELEASED"}
                      \/ rows[c][n] = "FAILED" /\ <<c, n>> \in declined
      BY <2>1, <2>2 DEF Funded, FailedWasDeclined, RowStatus
    <2> QED BY <2>2 DEF ScreenInv, ToldFits, Released, ToldIsSo
  <1> QED BY <1>1, ScreenInvariance, FailuresInvariance, PTL
===============================================================================
