---------------------------- MODULE EscrowScreens ----------------------------
(***************************************************************************)
(* The escrow screens of the web application: EscrowSettlementView, which  *)
(* shows what the oracle says of a contract, requests its settlement and   *)
(* polls for the outcome; EscrowFundingPanel inside it, which creates an   *)
(* order, opens Razorpay Checkout and has the payment verified; and the    *)
(* loader of the Checkout script (utils/razorpay.js).                      *)
(*                                                                         *)
(* A call is served some time after it was sent and its answer arrives     *)
(* some time later; calls overtake each other.  A callback closes over the *)
(* contract of the render that made it, whichever contract is shown when   *)
(* it runs.  The gateway, the provider and the worker do to the rows what  *)
(* EscrowFunding and Settlement say they may.                              *)
(***************************************************************************)
EXTENDS Naturals, Sequences

CONSTANTS
  Contracts,
  CallSlots,     \* bound: reads and requests in flight
  Polls,         \* bound: intervals
  Checkouts,     \* bound: fundings under way
  PollAttempts,  \* 10 in the code
  MaxOrders,     \* bound: orders of a contract
  MaxClicks,     \* bound: what the user does
  Nothing

ASSUME ScreenAssumption ==
  /\ PollAttempts \in Nat \ {0} /\ MaxOrders \in Nat /\ MaxClicks \in Nat
  /\ Nothing \notin Contracts \cup {"PENDING", "RELEASED", "ok", "accepted", "released", "funded"}

VARIABLES
  rows,          \* rows[c]: escrow.status of the orders of c, the newest last
  outcome,       \* outcome[c]: settlements.status
  requested,     \* contracts with a settlement request on the bus
  charged,       \* orders a payment of which the provider has authorised
  declined,      \* orders of which an attempt to pay has failed at the provider
  script,        \* the Checkout <script>: absent, loading, ready, or loaded in vain
  shown,         \* contractData.contractId of the mounted view, Nothing without one
  view,          \* its `state`
  isReleasing, toast, pollRef,
  polls,         \* polls[p]: an interval and what it closes over
  calls,         \* calls[i]: a call of the view
  checkout,      \* checkout[k]: handleFund or handleResume, from its click to its end
  clicks

server  == <<rows, outcome, requested, charged, declined>>
request == <<isReleasing, toast, pollRef, polls>>
screens == <<server, script, shown, view, request, calls, checkout, clicks>>

NoCall  == [kind |-> "none"]
NoPoll  == [on |-> FALSE]
NoFund  == [step |-> "none", panel |-> FALSE]
Loading == [status |-> "loading"]
Broken  == [status |-> "error"]

Newest(c)   == IF rows[c] = <<>> THEN Nothing ELSE rows[c][Len(rows[c])]
Reads(c, a) == [status |-> "ready", of |-> c, escrow |-> Newest(c),
                settlement |-> outcome[c], approved |-> a]

\* needsFunding: nothing is held yet, and the panel is there.
NeedsFunding(v) == v.status = "ready" /\ v.escrow \in {Nothing, "PENDING"}

\* A panel that goes away keeps its callbacks running, with nowhere to show.
Kept(v)    == [k \in Checkouts |-> [checkout[k] EXCEPT !.panel = @ /\ NeedsFunding(v)]]
SetView(v) == view' = v /\ checkout' = Kept(v)

Sent(cs, kind, c, p) ==
  {[cs EXCEPT ![i] = [kind |-> kind, c |-> c, poll |-> p, answer |-> Nothing, here |-> TRUE]] :
     i \in {j \in CallSlots : cs[j] = NoCall}}
Stopped == IF pollRef = Nothing THEN polls ELSE [polls EXCEPT ![pollRef].on = FALSE]

ScreenInit ==
  /\ rows \in [Contracts -> {<<>>, <<"AUTHORIZED">>}]
  /\ outcome = [c \in Contracts |-> Nothing] /\ requested = {} /\ charged = {}
  /\ declined \in SUBSET {<<c, 1>> : c \in {d \in Contracts : rows[d] # <<>>}}
  /\ script = "absent" /\ shown = Nothing /\ view = Loading
  /\ isReleasing = FALSE /\ toast = <<Nothing, Nothing>> /\ pollRef = Nothing
  /\ polls = [p \in Polls |-> NoPoll] /\ calls = [i \in CallSlots |-> NoCall]
  /\ checkout = [k \in Checkouts |-> NoFund] /\ clicks = 0

-------------------------------------------------------------------------------
\* The user.

Click == clicks < MaxClicks /\ clicks' = clicks + 1

\* The view is mounted, or another contract is selected under it: the effect of
\* `load` clears the interval, forgets neither it nor isReleasing, and reads.
Open(c) ==
  /\ Click /\ shown # c
  /\ shown' = c /\ SetView(Loading)
  /\ polls' = Stopped
  /\ calls' \in Sent(calls, "load", c, Nothing)
  /\ UNCHANGED <<server, script, isReleasing, toast, pollRef>>

\* The view is unmounted: what it still reads is for nobody.
Leave ==
  /\ Click /\ shown # Nothing
  /\ shown' = Nothing /\ view' = Loading
  /\ isReleasing' = FALSE /\ toast' = <<Nothing, Nothing>> /\ pollRef' = Nothing
  /\ polls' = [p \in Polls |-> NoPoll]
  /\ calls' = [i \in CallSlots |-> IF calls[i].kind = "settle" THEN [calls[i] EXCEPT !.here = FALSE]
                                                               ELSE NoCall]
  /\ checkout' = [k \in Checkouts |-> IF checkout[k].step = "none" THEN NoFund
                                      ELSE [checkout[k] EXCEPT !.panel = FALSE, !.here = FALSE]]
  /\ UNCHANGED <<server, script>>

Refresh ==
  /\ Click /\ shown # Nothing
  /\ calls' \in Sent(calls, "load", shown, Nothing)
  /\ UNCHANGED <<server, script, shown, view, request, checkout>>

\* handleReleaseFunds, by a button that is disabled unless the escrow is funded, not
\* released, and approved.
ReleaseFunds ==
  /\ Click
  /\ view.status = "ready" /\ view.escrow = "AUTHORIZED" /\ view.approved
  /\ ~isReleasing /\ isReleasing' = TRUE
  /\ calls' \in Sent(calls, "settle", shown, Nothing)
  /\ UNCHANGED <<server, script, shown, view, toast, pollRef, polls, checkout>>

\* handleFund and handleResume: one at a time in a panel, but that handleResume is not
\* busy before its order has come.
FundEscrow(k) ==
  /\ Click
  /\ NeedsFunding(view)
  /\ \A j \in Checkouts : checkout[j].panel => checkout[j].step = "create" /\ checkout[j].resumed
  /\ checkout[k].step = "none"
  /\ checkout' = [checkout EXCEPT ![k] =
       [step |-> "create", c |-> shown, order |-> Nothing, resumed |-> view.escrow = "PENDING",
        answer |-> Nothing, panel |-> TRUE, here |-> TRUE]]
  /\ UNCHANGED <<server, script, shown, view, request, calls>>

-------------------------------------------------------------------------------
\* The view's calls.

Answered(i, a) == calls' = [calls EXCEPT ![i].answer = a]
Over(i)        == [calls EXCEPT ![i] = NoCall]

\* GET /oracle, or a gateway that does not answer; POST /settle, whose answer may be
\* lost after its effect.
ServeCall(i) ==
  /\ calls[i] # NoCall /\ calls[i].answer = Nothing
  /\ \/ /\ calls[i].kind # "settle"
        /\ \/ \E a \in BOOLEAN : /\ a => Newest(calls[i].c) = "AUTHORIZED"
                                 /\ Answered(i, Reads(calls[i].c, a))
           \/ Answered(i, Broken)
        /\ UNCHANGED requested
     \/ /\ calls[i].kind = "settle"
        /\ \/ requested' = requested \cup {calls[i].c} /\ \E a \in {"accepted", "error"} : Answered(i, a)
           \/ UNCHANGED requested /\ Answered(i, "error")
  /\ UNCHANGED <<rows, outcome, charged, declined, script, shown, view, request, checkout, clicks>>

\* `load` sets the state, whether or not its contract is still the one shown.
LoadArrives(i) ==
  /\ calls[i].kind = "load" /\ calls[i].answer # Nothing
  /\ SetView(calls[i].answer)
  /\ calls' = Over(i)
  /\ UNCHANGED <<server, script, shown, request, clicks>>

\* The 202 starts the interval; it means that the oracle was asked.
SettleArrives(i) ==
  /\ calls[i].kind = "settle" /\ calls[i].answer # Nothing
  /\ calls' = Over(i)
  /\ \/ ~calls[i].here /\ UNCHANGED request
     \/ /\ calls[i].here /\ calls[i].answer = "accepted"
        /\ \E p \in Polls :
             /\ ~polls[p].on /\ \A j \in CallSlots : calls[j] # NoCall => calls[j].poll # p
             /\ polls' = [polls EXCEPT ![p] = [on |-> TRUE, c |-> calls[i].c, attempts |-> 0]]
             /\ pollRef' = p
        /\ toast' = <<"requested", calls[i].c>> /\ UNCHANGED isReleasing
     \/ /\ calls[i].here /\ calls[i].answer = "error"
        /\ isReleasing' = FALSE /\ toast' = <<"failed", calls[i].c>>
        /\ UNCHANGED <<pollRef, polls>>
  /\ UNCHANGED <<server, script, shown, view, checkout, clicks>>

\* The interval fires, whether or not its last reading has come back.
Tick(p) ==
  /\ polls[p].on /\ polls[p].attempts <= PollAttempts   \* bound: one beyond the last
  /\ polls' = [polls EXCEPT ![p].attempts = @ + 1]
  /\ calls' \in Sent(calls, "tick", polls[p].c, p)
  /\ UNCHANGED <<server, script, shown, view, isReleasing, toast, pollRef, checkout, clicks>>

\* How long a poll goes on, and how long it would without the cap.
ExhaustedNever(p) == FALSE
Exhausted(p)      == polls[p].attempts >= PollAttempts

\* What the view takes for a release: the row, not the settlement's record.
DoneByRecord(a) == a.status = "ready" /\ a.settlement # Nothing
Done(a)         == a.status = "ready" /\ a.escrow = "RELEASED"
CaptureFailed(a) == a.status = "ready" /\ a.settlement = "FAILED"

\* A reading of the interval: it ends what pollRef holds by now, with a word on what
\* became of the request.
TickArrives(i) ==
  LET a == calls[i].answer  p == calls[i].poll
  IN  /\ calls[i].kind = "tick" /\ a # Nothing
      /\ SetView(a)
      /\ calls' = Over(i)
      /\ IF Done(a) \/ CaptureFailed(a) \/ Exhausted(p)
           THEN /\ polls' = Stopped /\ pollRef' = Nothing /\ isReleasing' = FALSE
                /\ toast' = <<IF Done(a) THEN "released" ELSE "failed", calls[i].c>>
           ELSE UNCHANGED request
      /\ UNCHANGED <<server, script, shown, clicks>>

-------------------------------------------------------------------------------
\* Funding.

Goes(k, step) == checkout' = [checkout EXCEPT ![k].step = step, ![k].answer = Nothing]
Ends(k)       == checkout' = [checkout EXCEPT ![k] = NoFund]

\* POST /escrow: the newest unpaid order of the contract, or a new one.  A refusal
\* (KYC) and a failure are alike here; the answer may be lost.
CreateOrder(k) ==
  LET c == checkout[k].c
      answers(n) == {[checkout EXCEPT ![k].answer = "ok", ![k].order = n],
                     [checkout EXCEPT ![k].answer = "error"]}
  IN  /\ checkout[k].step = "create" /\ checkout[k].answer = Nothing
      /\ \/ Newest(c) = "PENDING" /\ UNCHANGED rows /\ checkout' \in answers(Len(rows[c]))
         \/ /\ Newest(c) # "PENDING" /\ Len(rows[c]) < MaxOrders
            /\ rows' = [rows EXCEPT ![c] = Append(@, "PENDING")]
            /\ checkout' \in answers(Len(rows[c]) + 1)
         \/ UNCHANGED rows /\ checkout' = [checkout EXCEPT ![k].answer = "error"]
      /\ UNCHANGED <<outcome, requested, charged, declined, script, shown, view, request, calls,
                     clicks>>

\* openRazorpayCheckout: the script is there, is loading, is inserted now -- or was
\* loaded in vain, and its events will not come again.
OrderArrives(k) ==
  /\ checkout[k].step = "create" /\ checkout[k].answer # Nothing
  /\ IF checkout[k].answer = "error"
       THEN Ends(k) /\ UNCHANGED script
       ELSE /\ Goes(k, CASE script = "ready"  -> "open"
                         [] script = "inVain" -> "hung"
                         [] OTHER             -> "script")
            /\ script' = IF script = "absent" THEN "loading" ELSE script
  /\ UNCHANGED <<server, shown, view, request, calls, clicks>>

\* onLoad and onError, for all that wait for the one promise.
ScriptSettles ==
  /\ script = "loading"
  /\ \E s \in {"ready", "inVain", "absent"} :
       /\ script' = s
       /\ checkout' = [k \in Checkouts |->
            IF checkout[k].step # "script" THEN checkout[k]
            ELSE IF s = "ready" THEN [checkout[k] EXCEPT !.step = "open"] ELSE NoFund]
  /\ UNCHANGED <<server, shown, view, request, calls, clicks>>

Order(k) == <<checkout[k].c, checkout[k].order>>

\* The customer pays: handler.  After payment.failed the promise is settled, and a
\* payment made in the modal that is still open tells nobody.
Paid(k) ==
  /\ checkout[k].step \in {"open", "declined"}
  /\ Order(k) \notin charged
  /\ charged' = charged \cup {Order(k)}
  /\ IF checkout[k].step = "open" THEN Goes(k, "verify") ELSE Ends(k)
  /\ UNCHANGED <<rows, outcome, requested, declined, script, shown, view, request, calls, clicks>>

Declined(k) ==
  /\ checkout[k].step = "open"
  /\ checkout' = [checkout EXCEPT ![k].step = "declined", ![k].panel = FALSE]
  /\ declined' = declined \cup {Order(k)}
  /\ UNCHANGED <<rows, outcome, requested, charged, script, shown, view, request, calls, clicks>>

Dismissed(k) ==
  /\ checkout[k].step \in {"open", "declined"} /\ Ends(k)
  /\ UNCHANGED <<server, script, shown, view, request, calls, clicks>>

\* POST /escrow/verify: it answers "AUTHORIZED" whether or not its UPDATE, of a PENDING
\* row, has found one.
VerifyPayment(k) ==
  LET c == Order(k)[1]  n == Order(k)[2]
  IN  /\ checkout[k].step = "verify" /\ checkout[k].answer = Nothing
      /\ \/ /\ Order(k) \in charged
            /\ rows' = [rows EXCEPT ![c][n] = IF @ = "PENDING" THEN "AUTHORIZED" ELSE @]
            /\ \E a \in {"ok", "error"} : checkout' = [checkout EXCEPT ![k].answer = a]
         \/ UNCHANGED rows /\ checkout' = [checkout EXCEPT ![k].answer = "error"]
      /\ UNCHANGED <<outcome, requested, charged, declined, script, shown, view, request, calls,
                     clicks>>

Verified(k) == checkout[k].step = "verify" /\ checkout[k].answer # Nothing

\* onFunded, of the view as it was when the panel was rendered: it says so and reads.
VerifyArrives(k) ==
  /\ Verified(k)
  /\ Ends(k)
  /\ IF checkout[k].answer = "ok" /\ checkout[k].here
       THEN /\ toast' = <<"funded", checkout[k].c>>
            /\ calls' \in Sent(calls, "load", checkout[k].c, Nothing)
       ELSE UNCHANGED <<toast, calls>>
  /\ UNCHANGED <<server, script, shown, view, isReleasing, pollRef, polls, clicks>>

-------------------------------------------------------------------------------
\* What happens behind the gateway meanwhile.

Moves(c, n, status) == rows' = [rows EXCEPT ![c][n] = status]

Elsewhere ==
  /\ \E c \in Contracts : \E n \in DOMAIN rows[c] :
       \* the webhook of a payment, or of one that failed
       \/ /\ <<c, n>> \in charged /\ rows[c][n] = "PENDING"
          /\ Moves(c, n, "AUTHORIZED") /\ UNCHANGED outcome
       \/ /\ <<c, n>> \in declined /\ rows[c][n] \in {"PENDING", "AUTHORIZED"}
          /\ Moves(c, n, "FAILED") /\ UNCHANGED outcome
       \* the settlement worker
       \/ /\ c \in requested /\ rows[c][n] = "AUTHORIZED"
          /\ \/ Moves(c, n, "RELEASED") /\ outcome' = [outcome EXCEPT ![c] = "COMPLETED"]
             \/ UNCHANGED rows /\ outcome' = [outcome EXCEPT ![c] = "FAILED"]
  /\ UNCHANGED <<requested, charged, declined, script, shown, view, request, calls, checkout,
                 clicks>>

CallStep(i) == ServeCall(i) \/ LoadArrives(i) \/ SettleArrives(i) \/ TickArrives(i)

FundStep(k) ==
  \/ FundEscrow(k) \/ CreateOrder(k) \/ OrderArrives(k) \/ Paid(k) \/ Declined(k)
  \/ Dismissed(k) \/ VerifyPayment(k) \/ VerifyArrives(k)

ScreenNext ==
  \/ \E c \in Contracts : Open(c)
  \/ Leave \/ Refresh \/ ReleaseFunds \/ ScriptSettles \/ Elsewhere
  \/ \E i \in CallSlots : CallStep(i)
  \/ \E p \in Polls : Tick(p)
  \/ \E k \in Checkouts : FundStep(k)

ScreenSpec == ScreenInit /\ [][ScreenNext]_screens

-------------------------------------------------------------------------------
\* "Money is reported as moved only once the escrow row actually reads RELEASED"
\* (EscrowSettlementView.jsx:24-25), and as held only of an order that the provider has
\* authorised a payment of and the gateway holds or has released
\* (EscrowFundingPanel.jsx:19-23): whatever screen, reading or attempt the message comes
\* from.  The one exception is the code's own: of an order with a declined attempt the
\* payment.failed may have come first, or comes yet (webhooks.ts:213), and /escrow/verify
\* answers "AUTHORIZED" of the row that is, or will be, FAILED.
ToldIsSo ==
  /\ toast[1] = "released" =>
       \E n \in DOMAIN rows[toast[2]] : rows[toast[2]][n] = "RELEASED"
  /\ toast[1] = "funded" => \E n \in DOMAIN rows[toast[2]] :
       /\ <<toast[2], n>> \in charged
       /\ \/ rows[toast[2]][n] \in {"AUTHORIZED", "RELEASED"}
          \/ rows[toast[2]][n] = "FAILED" /\ <<toast[2], n>> \in declined

\* A request for release that is being waited for on the contract it is for.
Waiting(c) ==
  /\ isReleasing /\ shown = c
  /\ \/ \E i \in CallSlots : calls[i].kind = "settle" /\ calls[i].here /\ calls[i].c = c
     \/ pollRef # Nothing /\ polls[pollRef].on /\ polls[pollRef].c = c

\* No indefinite spinner (EscrowSettlementView.jsx:178-180): it ends, although the
\* worker may have gone away and readings fail or overlap.
ReleaseIsAnswered == \A c \in Contracts : Waiting(c) ~> (~isReleasing \/ shown # c)
===============================================================================
