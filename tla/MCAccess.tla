------------------------------ MODULE MCAccess ------------------------------
(***************************************************************************)
(* Two scenes that share no state: the gateway's handlers and tables, and  *)
(* one browser tab with the people who sign in there.                      *)
(*                                                                         *)
(* Starting points of the gateway: an account with two sessions and a      *)
(* reset token, an account enrolling a second factor, and an empty table   *)
(* of users.                                                               *)
(***************************************************************************)
EXTENDS Access, Browser, TLC

CONSTANTS u1, u2, i1, i2

MCEmailOf == (i1 :> u1) @@ (i2 :> u2)

Live(u) == [user |-> u, live |-> TRUE]
Somebody == [pw |-> CHOOSE p \in Passwords : TRUE, mfa |-> FALSE]

Started ==
  /\ account = [u \in Users |-> IF u = u1 THEN Somebody ELSE None]
  /\ verified = {} /\ profiles = {} /\ issued = {}
  /\ owner = [i \in Identities |-> None]
  /\ req = [r \in Requests |-> NoRequest]
  /\ ended = {} /\ spent = {}
  /\ used = [requests |-> 0, faults |-> 0]

WithTokens ==
  /\ Started
  /\ sessions = <<Live(u1), Live(u1)>> /\ creds = <<>>
  /\ tokens = <<[user |-> u1, type |-> "PASSWORD_RESET", state |-> "unused"]>>

Enrolling ==
  /\ Started
  /\ sessions = <<Live(u1)>> /\ tokens = <<>>
  /\ creds = <<[user |-> u1, state |-> "pending"]>>

VARIABLE scene
all == <<vars, browser, scene>>

Gateway(A) == scene = "gateway" /\ A /\ UNCHANGED <<browser, scene>>
InBrowser(A) == scene = "browser" /\ A /\ UNCHANGED <<vars, scene>>

MCInit ==
  /\ BrowserInit
  /\ \/ scene = "gateway" /\ (Init \/ WithTokens \/ Enrolling)
     \/ scene = "browser" /\ WithTokens
MCSpec == MCInit /\ [][Gateway(Next) \/ InBrowser(BrowserNext)]_all
=============================================================================
