---------------------------- MODULE FencingLease ----------------------------
(***************************************************************************)
(* What the single-run lease promises its callers, with no clock, no run   *)
(* status and no operation names: a sequence of grants, each under a       *)
(* larger fencing token than the one before, of which only the newest can  *)
(* ever be written under.  A grant may stop being usable and its own       *)
(* holder may make it usable again, but once a newer token is issued the   *)
(* older one is dead.  RunControl is shown to implement this module, and   *)
(* so are the claims of each work packet of ExternalAgent.                 *)
(***************************************************************************)
EXTENDS Naturals

CONSTANTS Holders, NoHolder

VARIABLES
    token,      \* the newest fencing token, 0 before the first grant
    holder,     \* who it was issued to
    usable,     \* a write presenting the newest token would be accepted
    stamp       \* the token the latest accepted write presented

leaseVars == <<token, holder, usable, stamp>>

Init ==
    /\ token = 0
    /\ holder = NoHolder
    /\ usable = FALSE
    /\ stamp = 0

\* A grant: always a token nobody has seen, usable or already lapsed.
Issue ==
    /\ token' \in Nat
    /\ token' > token
    /\ holder' \in Holders
    /\ usable' \in BOOLEAN
    /\ UNCHANGED stamp

\* The grant runs out, or is given back.
Lapse ==
    /\ usable
    /\ usable' = FALSE
    /\ UNCHANGED <<token, holder, stamp>>

\* A lapsed grant comes back, under its own token and for its own holder.
Revive ==
    /\ ~usable
    /\ holder # NoHolder
    /\ usable' = TRUE
    /\ UNCHANGED <<token, holder, stamp>>

\* An accepted write.  It may give the grant back in the same step.
Write ==
    /\ usable
    /\ stamp' = token
    /\ usable' \in BOOLEAN
    /\ UNCHANGED <<token, holder>>

\* The holder of a usable grant writes and passes the grant on in one step.
WriteAndIssue ==
    /\ usable
    /\ stamp' = token
    /\ token' \in Nat
    /\ token' > token
    /\ holder' \in Holders
    /\ usable' \in BOOLEAN

Next == Issue \/ Lapse \/ Revive \/ Write \/ WriteAndIssue

Spec == Init /\ [][Next]_leaseVars

=============================================================================
