------------------------ MODULE LnRpcClient_proofs ------------------------
(* The connection handling of the gRPC clients, for any number of callers. *)
EXTENDS LnRpcClient, TLAPS

\* Who dials holds the mutex, and who uses a connection or is about to throw
\* one away has one.
DialerHoldsLock == \A c \in Callers : pc[c] = "dial" => lock = c

CallHasConnection ==
  \A c \in Callers : pc[c] \in {"rpc", "disconnect"} => conn[c] # None

IInv == TypeOK /\ DialerHoldsLock /\ CallHasConnection /\ FailedNotShared

LEMMA InitIInv == Init => IInv
  BY BoundsAssumption
     DEF Init, IInv, TypeOK, DialerHoldsLock, CallHasConnection, FailedNotShared, Connections, PC

LEMMA NextIInv ==
  ASSUME IInv, [Next]_vars
  PROVE  IInv'
  <1> USE NoneAssumption, BoundsAssumption
      DEF IInv, TypeOK, DialerHoldsLock, CallHasConnection, FailedNotShared, Connections, PC,
          Goto, Unlocked
  <1>1. CASE NodeChange
    BY <1>1 DEF NodeChange
  <1>2. ASSUME NEW c \in Callers, Begin(c) PROVE IInv'
    BY <1>2 DEF Begin
  <1>3. ASSUME NEW c \in Callers, Share(c) PROVE IInv'
    BY <1>3 DEF Share
  <1>4. ASSUME NEW c \in Callers, StartDial(c) PROVE IInv'
    BY <1>4 DEF StartDial
  <1>5. ASSUME NEW c \in Callers, DialOk(c) PROVE IInv'
    <2>1. /\ made' \in Nat /\ made' = made + 1
          /\ born' \in [1 .. made' -> 0 .. MaxDowns]
      BY <1>5 DEF DialOk
    <2>2. made + 1 \notin retired /\ retired' \subseteq 1 .. made'
      BY <1>5, <2>1 DEF DialOk
    <2>3. conn' \in [Callers -> (1 .. made') \cup {None}]
      BY <1>5, <2>1 DEF DialOk
    <2>4. TypeOK'
      BY <1>5, <2>1, <2>2, <2>3 DEF DialOk
    <2>5. DialerHoldsLock' /\ CallHasConnection' /\ FailedNotShared'
      BY <1>5, <2>1, <2>2 DEF DialOk
    <2>6. QED
      BY <2>4, <2>5
  <1>6. ASSUME NEW c \in Callers, DialFails(c) PROVE IInv'
    BY <1>6 DEF DialFails
  <1>7. ASSUME NEW c \in Callers, RpcOk(c) PROVE IInv'
    BY <1>7 DEF RpcOk
  <1>8. ASSUME NEW c \in Callers, RpcFails(c) PROVE IInv'
    BY <1>8 DEF RpcFails
  <1>9. ASSUME NEW c \in Callers, Disconnect(c) PROVE IInv'
    <2>1. conn[c] \in 1 .. made
      BY <1>9 DEF Disconnect
    <2>2. None \notin 1 .. made
      BY NoneAssumption
    <2>3. retired' \subseteq 1 .. made
      BY <1>9, <2>1 DEF Disconnect
    <2>4. None \notin retired'
      BY <2>2, <2>3
    <2>5. QED
      BY <1>9, <2>3, <2>4 DEF Disconnect
  <1>10. ASSUME NEW c \in Callers, HangUp(c) PROVE IInv'
    BY <1>10 DEF HangUp
  <1>11. CASE UNCHANGED vars
    BY <1>11 DEF vars
  <1>12. QED
    BY <1>1, <1>2, <1>3, <1>4, <1>5, <1>6, <1>7, <1>8, <1>9, <1>10, <1>11 DEF Next, Step

\* The connections and their ages, the mutex and every call keep their types,
\* for any number of callers and of nodes going down (client.rs, connect).
THEOREM ClientTypes == Spec => []TypeOK
  <1>1. IInv /\ [Next]_vars => IInv'
    BY NextIInv
  <1>2. IInv => TypeOK
    BY DEF IInv
  <1>3. QED
    BY <1>1, <1>2, InitIInv, PTL DEF Spec

\* However many calls share, fail and replace connections at once, the shared
\* connection is never one on which a call has failed and returned.
THEOREM FailedNeverShared == Spec => [](TypeOK /\ FailedNotShared)
  <1>1. IInv /\ [Next]_vars => IInv'
    BY NextIInv
  <1>2. IInv => TypeOK /\ FailedNotShared
    BY DEF IInv
  <1>3. QED
    BY <1>1, <1>2, InitIInv, PTL DEF Spec

\* At most one call dials, since who dials holds the mutex.
THEOREM AlwaysOneDial == Spec => []OneDial
  <1>1. IInv /\ [Next]_vars => IInv'
    BY NextIInv
  <1>2. IInv => OneDial
    BY DEF IInv, DialerHoldsLock, OneDial
  <1>3. QED
    BY <1>1, <1>2, InitIInv, PTL DEF Spec

=============================================================================
