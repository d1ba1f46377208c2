---------------------------- MODULE MCWsClient ----------------------------
(***************************************************************************)
(* Instances of WsClient: in each world the environment can do a few things.  *)
(***************************************************************************)
EXTENDS WsClient, TLC

CONSTANTS alice, carol, dave, org1, org2, wallet1

MCMemberOf == org1 :> {alice, dave} @@ org2 :> {carol}
MCOrgOf == wallet1 :> org1
MCOwnerOf == wallet1 :> dave

World(f) == [b \in Bounded |-> IF b \in DOMAIN f THEN f[b] ELSE 0]

MCBudgets == {
    \* edits, and requests sent again
    World([sessions |-> 1, pushes |-> 1, edits |-> 2, sweeps |-> 1]),
    \* a request sent again until it is given up
    World([sessions |-> 1, pushes |-> 1, edits |-> 1, sweeps |-> 2]),
    \* others edit, and the server refuses
    World([sessions |-> 1, pushes |-> 1, foreign |-> 1, odd |-> 1]),
    \* the connection is lost
    World([sessions |-> 1, pings |-> 2, odd |-> 1, closes |-> 1]),
    World([sessions |-> 2, pings |-> 1, closes |-> 1, logouts |-> 1]),
    \* logouts and logins
    World([sessions |-> 2, pushes |-> 1, closes |-> 1, logouts |-> 1]),
    World([codes |-> 1, pushes |-> 1, closes |-> 1]),
    World([sessions |-> 1, codes |-> 1, closes |-> 1])}

\* A request that is sent again and again.
RetryBudgets == {World([sessions |-> 1, pushes |-> 1, edits |-> 1, sweeps |-> 4])}

MCFairSpec == WsSpec /\ WsFairness(1 .. 2)
=============================================================================
