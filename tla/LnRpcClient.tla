---------------------------- MODULE LnRpcClient ----------------------------
(***************************************************************************)
(* TonicClnGrpcClient and TonicLndGrpcClient (components/src/pool/cln and  *)
(* lnd, grpc/client.rs): one client per Lightning node, shared by every    *)
(* invoice request and health check.  The gRPC connection is opened by the *)
(* first call that finds none, under an async mutex held while it dials,   *)
(* and thrown away by every call that fails.                               *)
(*                                                                         *)
(* The node goes down and comes back.  A connection made before that may   *)
(* work again or fail for ever (how tonic's channel reconnects is not this *)
(* code's business); one made since works.  A call may also fail on a good *)
(* connection: refused by the node, or timed out.                          *)
(***************************************************************************)
EXTENDS Naturals

CONSTANTS
    Callers,    \* tasks that call get_invoice or get_metrics
    None,
    MaxDowns,   \* bound: how often the node goes down
    MaxRefusals \* bound: calls that fail on a good connection

ASSUME NoneAssumption == None \notin Callers /\ None \notin Nat
ASSUME BoundsAssumption == MaxDowns \in Nat /\ MaxRefusals \in Nat

VARIABLES
    up, downs,  \* the node, and how often it went down
    refusals,
    made,       \* connections made so far; the last one is number made
    born,       \* born[i]: value of downs when connection i was made
    lock,       \* holder of the mutex around inner, or None
    inner,      \* the shared connection, or None
    conn,       \* conn[c]: the connection caller c works on, or None
    pc,
    retired     \* connections on which a call has failed and returned

vars == <<up, downs, refusals, made, born, lock, inner, conn, pc, retired>>

Connections == 1 .. made

PC == {"idle", "connect", "dial", "rpc", "disconnect"}

TypeOK ==
    /\ up \in BOOLEAN
    /\ downs \in 0 .. MaxDowns
    /\ refusals \in 0 .. MaxRefusals
    /\ made \in Nat
    /\ born \in [Connections -> 0 .. MaxDowns]
    /\ lock \in Callers \cup {None}
    /\ inner \in Connections \cup {None}
    /\ conn \in [Callers -> Connections \cup {None}]
    /\ pc \in [Callers -> PC]
    /\ retired \subseteq Connections

Init ==
    /\ up \in BOOLEAN
    /\ downs = 0
    /\ refusals = 0
    /\ made = 0
    /\ born = [i \in 1 .. 0 |-> 0]
    /\ lock = None
    /\ inner = None
    /\ conn = [c \in Callers |-> None]
    /\ pc = [c \in Callers |-> "idle"]
    /\ retired = {}

-----------------------------------------------------------------------------
NodeChange ==
    /\ up => downs < MaxDowns
    /\ up' = ~up
    /\ downs' = IF up THEN downs + 1 ELSE downs
    /\ UNCHANGED <<refusals, made, born, lock, inner, conn, pc, retired>>

Goto(c, from, to) == pc[c] = from /\ pc' = [pc EXCEPT ![c] = to]

\* get_invoice or get_metrics is called.
Begin(c) ==
    /\ Goto(c, "idle", "connect")
    /\ UNCHANGED <<up, downs, refusals, made, born, lock, inner, conn, retired>>

\* inner_connect: there is a connection, the caller shares it.
Share(c) ==
    /\ Goto(c, "connect", "rpc")
    /\ lock = None
    /\ inner # None
    /\ conn' = [conn EXCEPT ![c] = inner]
    /\ UNCHANGED <<up, downs, refusals, made, born, lock, inner, retired>>

\* Mutant: the guard is dropped before the connection is made.
StartDial_unlocked(c) ==
    /\ Goto(c, "connect", "dial")
    /\ lock = None
    /\ inner = None
    /\ UNCHANGED <<up, downs, refusals, made, born, lock, inner, conn, retired>>

\* inner_connect: there is none, the caller dials and keeps the mutex.
StartDial(c) ==
    /\ Goto(c, "connect", "dial")
    /\ lock = None
    /\ inner = None
    /\ lock' = c
    /\ UNCHANGED <<up, downs, refusals, made, born, inner, conn, retired>>

Unlocked(c) == IF lock = c THEN None ELSE lock

DialOk(c) ==
    /\ Goto(c, "dial", "rpc")
    /\ up
    /\ made' = made + 1
    /\ born' = [i \in 1 .. made + 1 |-> IF i = made + 1 THEN downs ELSE born[i]]
    /\ inner' = made + 1
    /\ conn' = [conn EXCEPT ![c] = made + 1]
    /\ lock' = Unlocked(c)
    /\ UNCHANGED <<up, downs, refusals, retired>>

\* Mutant: the attempt is kept as the shared connection although it failed.
DialFails_kept(c) ==
    /\ Goto(c, "dial", "idle")
    /\ ~up
    /\ lock' = Unlocked(c)
    /\ inner' = made + 1
    /\ UNCHANGED <<up, downs, refusals, made, born, conn, retired>>

\* An error of connect is returned at once: there is nothing to throw away.
DialFails(c) ==
    /\ Goto(c, "dial", "idle")
    /\ ~up
    /\ lock' = Unlocked(c)
    /\ UNCHANGED <<up, downs, refusals, made, born, inner, conn, retired>>

RpcOk(c) ==
    /\ Goto(c, "rpc", "idle")
    /\ up
    /\ conn' = [conn EXCEPT ![c] = None]
    /\ UNCHANGED <<up, downs, refusals, made, born, lock, inner, retired>>

\* The connection is one the node cannot be reached through any more.
Stale(i) == ~up \/ born[i] # downs

RpcFails(c) ==
    /\ Goto(c, "rpc", "disconnect")
    /\ \/ Stale(conn[c]) /\ UNCHANGED refusals
       \/ /\ ~Stale(conn[c])
          /\ refusals < MaxRefusals
          /\ refusals' = refusals + 1
    /\ UNCHANGED <<up, downs, made, born, lock, inner, conn, retired>>

\* Mutant: a failed call returns without throwing the connection away.
Disconnect_missing(c) ==
    /\ Goto(c, "disconnect", "idle")
    /\ conn' = [conn EXCEPT ![c] = None]
    /\ retired' = retired \cup {conn[c]}
    /\ UNCHANGED <<up, downs, refusals, made, born, lock, inner>>

\* inner_disconnect, whatever connection is there by now.
Disconnect(c) ==
    /\ Goto(c, "disconnect", "idle")
    /\ lock = None
    /\ inner' = None
    /\ conn' = [conn EXCEPT ![c] = None]
    /\ retired' = retired \cup {conn[c]}
    /\ UNCHANGED <<up, downs, refusals, made, born, lock>>

\* Mutant: a caller that hangs up while it dials leaves the mutex locked.
HangUp_keeps_lock(c) ==
    /\ pc[c] # "idle"
    /\ pc' = [pc EXCEPT ![c] = "idle"]
    /\ conn' = [conn EXCEPT ![c] = None]
    /\ UNCHANGED <<up, downs, refusals, made, born, lock, inner, retired>>

\* The caller's future is dropped at an await; its mutex guard goes with it.
HangUp(c) ==
    /\ pc[c] # "idle"
    /\ pc' = [pc EXCEPT ![c] = "idle"]
    /\ lock' = Unlocked(c)
    /\ conn' = [conn EXCEPT ![c] = None]
    /\ UNCHANGED <<up, downs, refusals, made, born, inner, retired>>

Step(c) ==
    \/ Share(c) \/ StartDial(c) \/ DialOk(c) \/ DialFails(c)
    \/ RpcOk(c) \/ RpcFails(c) \/ Disconnect(c)

Next == NodeChange \/ \E c \in Callers : Begin(c) \/ Step(c) \/ HangUp(c)

Spec == Init /\ [][Next]_vars

\* Dialing and calls time out, so a call that has begun goes on; tokio's mutex
\* serves its waiters in turn.
Fairness ==
    \A c \in Callers :
        /\ WF_vars(Step(c))
        /\ SF_vars(Share(c) \/ StartDial(c))
        /\ SF_vars(Disconnect(c))

FairSpec == Spec /\ Fairness

-----------------------------------------------------------------------------
\* A connection on which a call has failed and returned is never handed to
\* another call (inner_disconnect before the error is returned, although
\* several calls share, fail and replace connections at once).
FailedNotShared == inner \notin retired

\* Calls that find no connection do not dial side by side: one dials, the
\* others wait for its connection (the mutex is held across connect().await).
OneDial ==
    \A c, d \in Callers : pc[c] = "dial" /\ pc[d] = "dial" => c = d

\* Once the node is up for good, calls stop failing: a connection from before
\* an outage is thrown away by the first call it fails and the next is good.
Recovers ==
    <>[]up => <>[][\A c \in Callers : ~RpcFails(c) /\ ~DialFails(c)]_vars

\* A call always ends: nobody keeps the mutex, and nobody waits for it for
\* ever, whoever hangs up while dialing.
CallsEnd == \A c \in Callers : pc[c] = "connect" ~> pc[c] = "idle"

=============================================================================
