----------------------- MODULE ServerLifecycle_proofs -----------------------
(* The server from start to exit, for any number of requests and restarts, *)
(* whatever is enabled and configured: all services share the injectors'   *)
(* instances, a record acknowledged stays visible, and exit code 0 means   *)
(* a clean run.                                                            *)
EXTENDS ServerLifecycle, TLAPS

-----------------------------------------------------------------------------
(* The inductive invariant.                                                *)

\* Every instance an injector made is in its cell.
CellsFilled == \A p \in Parts : made[p] = singleton[p]

\* Whoever holds an instance of a part holds the one in the cell.
Shared == \A u \in Users, p \in Parts : uses[u, p] # 0 => uses[u, p] = singleton[p]

\* User u has everything it takes.
Holds(u) == \A p \in PartsOf[u] : uses[u, p] # 0

\* The service has been connected in this boot.
IsConnected(s) == s \in config.enabled /\ \E i \in 1 .. step : Order[i] = s

ConnectedHold ==
  /\ \A s \in Services : IsConnected(s) => Holds(s)
  /\ singleton["balancer"] # 0 => Holds("balancer")
  /\ phase \in {"serving", "stopping"} /\ "lnurl" \in config.enabled => Holds("background")

\* Where the parts of the life cycle are in each phase.
Stages ==
  /\ phase \in {"serving", "stopping"} => step = Len(Order)
  /\ phase # "down" => exit = "none"
  /\ phase = "stopping" /\ broken = {} => signalled
  /\ CleanExit

\* A request under way belongs to this process and to a service it connected;
\* it is accepted only when all of them are.
RequestsBelong ==
  \A r \in Requests :
      /\ request[r].boot <= boot
      /\ request[r].state \in Unanswered =>
             /\ phase # "down" /\ request[r].boot = boot
             /\ IsConnected(request[r].service)
      /\ request[r].boot = boot /\ request[r].state \in {"accepted", "handled", "answered"} =>
             step = Len(Order)

\* A record whose posting was handled is kept: in memory as long as the process
\* runs, in the instance that is in the cell; elsewhere for good.
RecordsKept ==
  \A r \in Requests :
      request[r].state \in {"handled", "answered"} /\ request[r].service \in DOMAIN StoreOf =>
          LET st == StoreOf[request[r].service]
          IN  IF config.kind[st] = "memory"
              THEN phase # "down" /\ request[r].boot = boot =>
                       singleton[st] # 0 /\ <<st, singleton[st], r>> \in contents
              ELSE <<st, 0, r>> \in contents

IInv ==
  /\ TypeOK /\ CellsFilled /\ Shared /\ ConnectedHold /\ Stages
  /\ RequestsBelong /\ RecordsKept

-----------------------------------------------------------------------------
(* The injectors.                                                          *)

LEMMA OrderFacts ==
  /\ Len(Order) = 3
  /\ Order[1] = "discovery" /\ Order[2] = "offer" /\ Order[3] = "lnurl"
  BY DEF Order

LEMMA PartsFacts ==
  /\ \A u \in Users : PartsOf[u] \subseteq Parts
  /\ Services \subseteq Users /\ {"balancer", "background"} \subseteq Users
  /\ PartsOf["lnurl"] = {"balancer", "offer_store"}
  /\ PartsOf["discovery"] = {"discover_store"}
  /\ PartsOf["offer"] = {"offer_store"}
  /\ PartsOf["balancer"] = {"discover_store"}
  /\ PartsOf["background"] = {"balancer"}
  BY DEF PartsOf, Parts, Stores, Users, Services

LEMMA StoreFacts ==
  \A s \in DOMAIN StoreOf :
      /\ s \in Users
      /\ StoreOf[s] \in Stores /\ StoreOf[s] \in Parts /\ StoreOf[s] \in PartsOf[s]
  BY DEF StoreOf, Stores, Parts, PartsOf, Users, Services

\* The injectors' part of the invariant.
Injected ==
  /\ singleton \in [Parts -> Nat] /\ made \in [Parts -> Nat]
  /\ uses \in [Users \X Parts -> Nat]
  /\ CellsFilled /\ Shared
  /\ singleton["balancer"] # 0 => Holds("balancer")

LEMMA NothingHeld ==
  /\ NoParts \in [Parts -> Nat] /\ NoUses \in [Users \X Parts -> Nat]
  /\ \A u \in Users, p \in Parts : NoUses[u, p] = 0
  /\ \A p \in Parts : NoParts[p] = 0
  /\ NoParts["balancer"] = 0
  /\ 1 .. 0 = {}
  <1>1. \A p \in Parts : NoParts[p] = 0
    BY DEF NoParts
  <1>2. "balancer" \in Parts
    BY DEF Parts
  <1>3. NoParts \in [Parts -> Nat] /\ NoUses \in [Users \X Parts -> Nat]
    BY DEF NoParts, NoUses
  <1>4. \A u \in Users, p \in Parts : NoUses[u, p] = 0
    BY DEF NoUses
  <1>5. 1 .. 0 = {}
    OBVIOUS
  <1>6. QED BY <1>1, <1>2, <1>3, <1>4, <1>5

\* What an injector hands out is an instance, and the one in the cell if there
\* is one.
LEMMA HeldFacts ==
  ASSUME Injected, NEW p \in Parts
  PROVE  /\ Held(p) \in Nat \ {0}
         /\ singleton[p] # 0 => Held(p) = singleton[p]
         /\ singleton[p] = 0 => Held(p) = made[p] + 1
  BY DEF Injected, Held

\* A user that takes its parts has them, they are the cells' instances, and
\* everybody else keeps what it has.
LEMMA TakeStep ==
  ASSUME Injected, NEW u \in Users, Take(u)
  PROVE  /\ Injected'
         /\ Holds(u)'
         /\ \A v \in Users : Holds(v) => Holds(v)'
         /\ \A p \in Parts : singleton[p] # 0 => singleton'[p] = singleton[p]
  <1> DEFINE fetched == Fetched(u)
             new == {p \in fetched : singleton[p] = 0}
             holders == IF "balancer" \in new THEN {u, "balancer"} ELSE {u}
  <1>1. /\ made' = [p \in Parts |-> IF p \in new THEN made[p] + 1 ELSE made[p]]
        /\ singleton' = [p \in Parts |-> IF p \in fetched THEN Held(p) ELSE singleton[p]]
        /\ uses' = [k \in Users \X Parts |->
                       IF k[1] \in holders /\ k[2] \in PartsOf[k[1]] THEN Held(k[2]) ELSE uses[k]]
    BY DEF Take, Remember
  <1>2. fetched \subseteq Parts /\ PartsOf[u] \subseteq fetched
    BY PartsFacts DEF Fetched
  <1>3. holders \subseteq Users /\ \A v \in holders : PartsOf[v] \subseteq fetched
    BY <1>2, PartsFacts DEF Fetched
  <1> HIDE DEF fetched, holders
  <1>4. \A p \in Parts : singleton[p] # 0 => singleton'[p] = singleton[p]
    BY <1>1, HeldFacts
  <1>5. ASSUME NEW v \in Users, NEW p \in Parts
        PROVE  uses'[v, p] = IF v \in holders /\ p \in PartsOf[v] THEN Held(p) ELSE uses[v, p]
    BY <1>1, <1>5
  <1>6. singleton' \in [Parts -> Nat] /\ made' \in [Parts -> Nat]
    BY <1>1, HeldFacts DEF Injected
  <1>7. uses' \in [Users \X Parts -> Nat]
    BY <1>1, HeldFacts, PartsFacts DEF Injected
  <1>8. CellsFilled'
    BY <1>1, <1>2, HeldFacts DEF Injected, CellsFilled
  <1>9. Shared'
    <2> SUFFICES ASSUME NEW v \in Users, NEW p \in Parts, uses'[v, p] # 0
                 PROVE  uses'[v, p] = singleton'[p]
      BY DEF Shared
    <2>1. CASE v \in holders /\ p \in PartsOf[v]
      BY <1>1, <1>3, <1>5, <2>1
    <2>2. CASE ~(v \in holders /\ p \in PartsOf[v])
      <3>1. uses[v, p] # 0 /\ uses'[v, p] = uses[v, p]
        BY <1>5, <2>2
      <3>2. singleton[p] # 0 /\ uses[v, p] = singleton[p]
        BY <3>1 DEF Injected, Shared
      <3>3. QED BY <1>4, <3>1, <3>2
    <2>3. QED BY <2>1, <2>2
  <1>10. ASSUME NEW v \in Users, Holds(v) \/ v \in holders
         PROVE  Holds(v)'
    <2> SUFFICES ASSUME NEW p \in PartsOf[v] PROVE uses'[v, p] # 0
      BY DEF Holds
    <2>1. p \in Parts
      BY PartsFacts
    <2>2. Held(p) # 0
      BY <2>1, HeldFacts
    <2>3. QED BY <1>5, <1>10, <2>1, <2>2 DEF Holds
  <1>11. Holds(u)'
    BY <1>10 DEF holders
  <1>12. singleton'["balancer"] # 0 => Holds("balancer")'
    <2>1. CASE singleton["balancer"] # 0
      BY <1>10, <2>1, PartsFacts DEF Injected
    <2>2. CASE singleton["balancer"] = 0 /\ "balancer" \in fetched
      BY <1>10, <2>2, PartsFacts DEF holders
    <2>3. CASE "balancer" \notin fetched
      <3>1. singleton'["balancer"] = singleton["balancer"]
        BY <1>1, <2>3 DEF Parts
      <3>2. QED BY <1>10, <3>1, PartsFacts DEF Injected
    <2>4. QED BY <2>1, <2>2, <2>3
  <1>13. QED
    BY <1>4, <1>6, <1>7, <1>8, <1>9, <1>10, <1>11, <1>12 DEF Injected

-----------------------------------------------------------------------------
(* What a step that leaves some of the state alone keeps.                  *)

\* Nobody takes a part and no service is connected.
LEMMA SameHolders ==
  ASSUME IInv, UNCHANGED <<config, step, procVars>>,
         phase' \in {"serving", "stopping"} => phase \in {"serving", "stopping"}
  PROVE  CellsFilled' /\ Shared' /\ ConnectedHold'
  BY DEF IInv, CellsFilled, Shared, ConnectedHold, Holds, IsConnected, procVars

\* Requests stay where they are or are lost, those under way if the process ends.
LEMMA SameRequests ==
  ASSUME IInv, UNCHANGED <<config, step, boot>>,
         \A r \in Requests :
             /\ request'[r].boot = request[r].boot /\ request'[r].service = request[r].service
             /\ \/ request'[r].state = request[r].state
                \/ request'[r].state = "lost"
             /\ request'[r].state \in Unanswered => phase' # "down"
  PROVE  RequestsBelong'
  <1> SUFFICES ASSUME NEW r \in Requests
               PROVE  /\ request'[r].boot <= boot
                      /\ request'[r].state \in Unanswered =>
                             /\ phase' # "down" /\ request'[r].boot = boot
                             /\ IsConnected(request'[r].service)
                      /\ /\ request'[r].boot = boot
                         /\ request'[r].state \in {"accepted", "handled", "answered"}
                         => step = Len(Order)
    BY DEF RequestsBelong, IsConnected
  <1>1. request'[r].state \in Unanswered \cup {"answered"} => request'[r].state = request[r].state
    BY DEF Unanswered
  <1>2. QED
    BY <1>1 DEF IInv, RequestsBelong, Unanswered

\* The cells of the stores are not emptied and no record is lost, unless the
\* process ends and with it what its memory held.
LEMMA SameRecords ==
  ASSUME IInv, UNCHANGED <<config, boot>>,
         \A r \in Requests :
             /\ request'[r].boot = request[r].boot /\ request'[r].service = request[r].service
             /\ request'[r].state \in {"handled", "answered"} =>
                    request[r].state \in {"handled", "answered"},
         \A st \in Stores : singleton[st] # 0 => singleton'[st] = singleton[st],
         phase' # "down" => phase # "down",
         \A w \in contents : w \in contents' \/ (w[2] # 0 /\ phase' = "down")
  PROVE  RecordsKept'
  <1> SUFFICES ASSUME NEW r \in Requests, request'[r].state \in {"handled", "answered"},
                      request'[r].service \in DOMAIN StoreOf
               PROVE  LET st == StoreOf[request'[r].service]
                      IN  IF config.kind[st] = "memory"
                          THEN phase' # "down" /\ request'[r].boot = boot =>
                                   singleton'[st] # 0 /\ <<st, singleton'[st], r>> \in contents'
                          ELSE <<st, 0, r>> \in contents'
    BY DEF RecordsKept
  <1> DEFINE st == StoreOf[request[r].service]
  <1>1. /\ request[r].state \in {"handled", "answered"}
        /\ request[r].service \in DOMAIN StoreOf /\ st \in Stores
    BY DEF StoreOf, Stores
  <1>2. CASE config.kind[st] = "memory"
    BY <1>1, <1>2 DEF IInv, RecordsKept
  <1>3. CASE config.kind[st] # "memory"
    <2>1. <<st, 0, r>> \in contents
      BY <1>1, <1>3 DEF IInv, RecordsKept
    <2>2. <<st, 0, r>> \in contents'
      BY <2>1
    <2>3. QED BY <1>3, <2>2
  <1>4. QED BY <1>2, <1>3

\* The life cycle moves while requests, records and parts stay.
LEMMA LifecycleStep ==
  ASSUME IInv, TypeOK', Stages', UNCHANGED <<config, step, procVars, boot, dataVars>>,
         phase # "down", phase' # "down",
         phase' \in {"serving", "stopping"} => phase \in {"serving", "stopping"}
  PROVE  IInv'
  <1>1. RequestsBelong'
    BY SameRequests DEF IInv, RequestsBelong, dataVars
  <1>2. RecordsKept'
    BY SameRecords DEF dataVars, procVars
  <1>3. QED BY <1>1, <1>2, SameHolders DEF IInv

-----------------------------------------------------------------------------
(* One lemma per kind of step.                                             *)

LEMMA InitIInv == Init => IInv
  <1> SUFFICES ASSUME Init PROVE IInv
    OBVIOUS
  <1> USE DEF Init
  <1>1. TypeOK
    <2>1. step \in 0 .. Len(Order) /\ boot \in 0 .. MaxBoots
      BY OrderFacts, BootsAssumption
    <2>2. request \in [Requests -> Request]
      BY DEF Request, Services
    <2>3. QED BY <2>1, <2>2, NothingHeld DEF TypeOK, Phase
  <1>2. CellsFilled /\ Shared
    BY NothingHeld DEF CellsFilled, Shared
  <1>3. ConnectedHold
    BY NothingHeld DEF ConnectedHold, IsConnected
  <1>4. Stages /\ RequestsBelong /\ RecordsKept
    BY DEF Stages, CleanExit, RequestsBelong, RecordsKept, Unanswered
  <1>5. QED BY <1>1, <1>2, <1>3, <1>4 DEF IInv

LEMMA StartStep ==
  ASSUME IInv, Start
  PROVE  IInv'
  <1> USE DEF Start, dataVars
  <1>1. TypeOK'
    <2>1. step' \in 0 .. Len(Order)
      BY OrderFacts
    <2>2. boot' \in 0 .. MaxBoots
      BY BootsAssumption DEF IInv, TypeOK
    <2>3. QED BY <2>1, <2>2, NothingHeld DEF IInv, TypeOK, Phase
  <1>2. CellsFilled' /\ Shared'
    BY NothingHeld DEF CellsFilled, Shared
  <1>3. ConnectedHold'
    BY NothingHeld DEF ConnectedHold, IsConnected
  <1>4. Stages'
    BY DEF Stages, CleanExit
  <1>5. \A r \in Requests : request[r].boot \in Nat /\ request[r].boot <= boot /\ boot \in Nat
    BY BootsAssumption DEF IInv, TypeOK, Request, RequestsBelong
  <1>6. RequestsBelong'
    BY <1>5 DEF IInv, RequestsBelong
  <1>7. RecordsKept'
    BY <1>5 DEF IInv, RecordsKept, StoreOf
  <1>8. QED BY <1>1, <1>2, <1>3, <1>4, <1>6, <1>7 DEF IInv

\* The next service is connected or passed over: it holds its parts if enabled.
LEMMA NextService ==
  ASSUME IInv, phase = "starting", step < Len(Order), step' = step + 1,
         NEW next, next = Order[step + 1],
         UNCHANGED <<config, phase, stopVars, boot, dataVars>>, Injected',
         \A v \in Users : Holds(v) => Holds(v)',
         \A p \in Parts : singleton[p] # 0 => singleton'[p] = singleton[p],
         next \in config.enabled => Holds(next)'
  PROVE  IInv'
  <1>1. step \in 0 .. 2 /\ step' \in 0 .. 3
    BY OrderFacts DEF IInv, TypeOK
  <1>2. TypeOK'
    BY <1>1, OrderFacts DEF IInv, TypeOK, Injected, stopVars, dataVars
  <1>3. \A s \in Services : IsConnected(s)' => IsConnected(s) \/ s = next
    BY <1>1 DEF IsConnected
  <1>4. ConnectedHold'
    <2>1. ASSUME NEW s \in Services, IsConnected(s)' PROVE Holds(s)'
      BY <1>3, <2>1, PartsFacts DEF IInv, ConnectedHold, IsConnected
    <2>2. QED BY <2>1 DEF ConnectedHold, Injected
  <1>5. Stages'
    BY DEF IInv, Stages, CleanExit, stopVars
  <1>6. RequestsBelong'
    <2>1. ASSUME NEW s PROVE IsConnected(s) => IsConnected(s)'
      BY <1>1 DEF IsConnected
    <2>2. QED BY <2>1 DEF IInv, RequestsBelong, dataVars
  <1>7. RecordsKept'
    BY SameRecords DEF dataVars, Parts
  <1>8. QED BY <1>2, <1>4, <1>5, <1>6, <1>7 DEF IInv, Injected

\* No request is newer than the process.
LEMMA BootFacts ==
  ASSUME IInv, NEW r \in Requests
  PROVE  /\ request[r].boot \in Nat /\ boot \in Nat
         /\ request[r].boot < boot \/ request[r].boot = boot
  BY BootsAssumption DEF IInv, RequestsBelong, TypeOK, Request

LEMMA IInvInjected == IInv => Injected
  BY DEF IInv, TypeOK, ConnectedHold, Injected

LEMMA PassOverStep ==
  ASSUME IInv, PassOver
  PROVE  IInv'
  <1>1. Injected' /\ (\A v \in Users : Holds(v) => Holds(v)')
    BY IInvInjected DEF PassOver, procVars, Injected, CellsFilled, Shared, Holds
  <1>2. UNCHANGED singleton
    BY DEF PassOver, procVars
  <1>3. PICK next : next = Order[step + 1]
    OBVIOUS
  <1>4. QED BY <1>1, <1>2, <1>3, NextService DEF PassOver

LEMMA ConnectStep ==
  ASSUME IInv, Connect
  PROVE  IInv'
  <1>1. PICK next : next = Order[step + 1]
    OBVIOUS
  <1>2. next \in Users /\ Take(next)
    BY <1>1, PartsFacts DEF IInv, TypeOK, Connect, Config, ServiceEnablement
  <1>3. Injected' /\ Holds(next)' /\ (\A v \in Users : Holds(v) => Holds(v)')
    BY <1>2, TakeStep, IInvInjected
  <1>4. \A p \in Parts : singleton[p] # 0 => singleton'[p] = singleton[p]
    BY <1>2, TakeStep, IInvInjected
  <1>5. QED BY <1>1, <1>3, <1>4, NextService DEF Connect

LEMMA ServeStep ==
  ASSUME IInv, Serve
  PROVE  IInv'
  <1>1. /\ Injected'
        /\ \A v \in Users : Holds(v) => Holds(v)'
        /\ \A p \in Parts : singleton[p] # 0 => singleton'[p] = singleton[p]
        /\ "lnurl" \in config.enabled => Holds("background")'
    <2>1. CASE "lnurl" \in config.enabled
      BY <2>1, TakeStep, IInvInjected, PartsFacts DEF Serve, StartBackground
    <2>2. CASE "lnurl" \notin config.enabled
      BY <2>2, IInvInjected
         DEF Serve, StartBackground, procVars, Injected, CellsFilled, Shared, Holds
    <2>3. QED BY <2>1, <2>2
  <1>2. TypeOK'
    BY <1>1 DEF IInv, TypeOK, Injected, Serve, StartBackground, dataVars, Phase
  <1>3. ConnectedHold'
    BY <1>1, PartsFacts DEF IInv, ConnectedHold, IsConnected, Injected, Serve
  <1>4. Stages'
    BY DEF IInv, Stages, CleanExit, Serve
  <1>5. RequestsBelong'
    BY DEF IInv, RequestsBelong, IsConnected, Serve, dataVars
  <1>6. RecordsKept'
    BY <1>1, SameRecords DEF Serve, dataVars, Parts
  <1>7. QED BY <1>1, <1>2, <1>3, <1>4, <1>5, <1>6 DEF IInv, Injected

LEMMA EndProcessStep ==
  ASSUME IInv, NEW how \in {"success", "failure", "killed"}, phase # "down", EndProcess(how),
         how = "success" => signalled /\ broken = {} /\ background = "done"
  PROVE  IInv'
  <1> USE DEF EndProcess
  <1>1. /\ request' \in [Requests -> Request]
        /\ \A r \in Requests :
               /\ request'[r].boot = request[r].boot /\ request'[r].service = request[r].service
               /\ request'[r].state \notin Unanswered
               /\ \/ request'[r].state = request[r].state
                  \/ request'[r].state = "lost"
    BY DEF Lose, Unanswered, IInv, TypeOK, Request
  <1>2. TypeOK'
    BY <1>1 DEF IInv, TypeOK, procVars, Phase
  <1>3. CellsFilled' /\ Shared' /\ ConnectedHold'
    BY SameHolders
  <1>4. Stages'
    BY DEF IInv, Stages, CleanExit
  <1>5. RequestsBelong'
    BY <1>1, SameRequests
  <1>6. \A w \in contents : w \in contents' \/ w[2] # 0
    OBVIOUS
  <1>7. \A r \in Requests : request'[r].state \in {"handled", "answered"} =>
                              request[r].state \in {"handled", "answered"}
    BY <1>1
  <1>8. RecordsKept'
    BY <1>1, <1>6, <1>7, SameRecords DEF procVars
  <1>9. QED BY <1>2, <1>3, <1>4, <1>5, <1>8 DEF IInv

LEMMA EndSelectStep ==
  ASSUME IInv, NEW failed \in SUBSET Services, EndSelect(failed), signalled \/ failed # {}
  PROVE  IInv'
  <1> USE DEF EndSelect
  <1>1. /\ request' \in [Requests -> Request]
        /\ \A r \in Requests :
               /\ request'[r].boot = request[r].boot /\ request'[r].service = request[r].service
               /\ \/ request'[r].state = request[r].state
                  \/ request'[r].state = "lost"
    BY DEF Lose, IInv, TypeOK, Request
  <1>2. TypeOK'
    BY <1>1 DEF IInv, TypeOK, procVars, Phase
  <1>3. CellsFilled' /\ Shared' /\ ConnectedHold'
    BY SameHolders
  <1>4. Stages'
    BY DEF IInv, Stages, CleanExit
  <1>5. RequestsBelong'
    BY <1>1, SameRequests
  <1>6. \A r \in Requests : request'[r].state \in {"handled", "answered"} =>
                              request[r].state \in {"handled", "answered"}
    BY <1>1
  <1>7. RecordsKept'
    BY <1>1, <1>6, SameRecords DEF procVars
  <1>8. QED BY <1>2, <1>3, <1>4, <1>5, <1>7 DEF IInv

LEMMA LoopStep ==
  ASSUME IInv, NEW from, NEW to \in {"check", "work", "done", "panicked"}, Loops(from, to)
  PROVE  IInv'
  <1> USE DEF Loops
  <1>1. TypeOK' /\ Stages'
    BY DEF IInv, TypeOK, Stages, CleanExit, procVars, dataVars
  <1>2. QED BY <1>1, LifecycleStep

LEMMA SignalStep ==
  ASSUME IInv, SendSignal
  PROVE  IInv'
  <1> USE DEF SendSignal
  <1>1. TypeOK' /\ Stages'
    BY DEF IInv, TypeOK, Stages, CleanExit, procVars, dataVars
  <1>2. QED BY <1>1, LifecycleStep

-----------------------------------------------------------------------------
(* Requests.                                                               *)

\* A request moves on and nothing else but the records changes.
LEMMA RequestStep ==
  ASSUME IInv, NEW r \in Requests, NEW new \in Request,
         request' = [request EXCEPT ![r] = new],
         UNCHANGED <<config, phase, step, procVars, stopVars, boot>>,
         contents \subseteq contents', contents' \subseteq Stores \X Nat \X Requests,
         new.boot = boot, phase # "down", IsConnected(new.service),
         new.state \in {"accepted", "handled", "answered"} => step = Len(Order),
         \/ new.state \notin {"handled", "answered"}
         \/ /\ request[r].state \in {"handled", "answered"}
            /\ new.service = request[r].service /\ new.boot = request[r].boot
         \/ new.service \in DOMAIN StoreOf =>
               LET st == StoreOf[new.service]
               IN  /\ singleton[st] # 0
                   /\ <<st, Place(st, singleton[st]), r>> \in contents'
  PROVE  IInv'
  <1>1. \A q \in Requests : request'[q] = IF q = r THEN new ELSE request[q]
    BY DEF IInv, TypeOK
  <1>2. TypeOK'
    BY DEF IInv, TypeOK, procVars, stopVars
  <1>3. CellsFilled' /\ Shared' /\ ConnectedHold'
    BY SameHolders
  <1>4. Stages'
    BY DEF IInv, Stages, CleanExit, stopVars
  <1>5. RequestsBelong'
    <2>1. new.boot <= boot
      BY DEF IInv, TypeOK
    <2>2. QED BY <1>1, <2>1 DEF IInv, RequestsBelong, IsConnected
  <1>6. RecordsKept'
    BY <1>1 DEF IInv, RecordsKept, Place, StoreOf, procVars
  <1>7. QED BY <1>2, <1>3, <1>4, <1>5, <1>6 DEF IInv

LEMMA SendStep ==
  ASSUME IInv, NEW r \in Requests, Send(r)
  PROVE  IInv'
  <1>1. PICK s \in Services :
            /\ Listening(s)
            /\ request' = [request EXCEPT ![r] =
                              [state |-> "queued", service |-> s, boot |-> boot]]
    BY DEF Send
  <1> DEFINE new == [state |-> "queued", service |-> s, boot |-> boot]
  <1>2. new \in Request
    BY BootsAssumption DEF Request, IInv, TypeOK
  <1>3. IsConnected(s) /\ phase # "down"
    <2>1. CASE phase = "starting"
      BY <1>1, <2>1 DEF Listening, IsConnected
    <2>2. CASE phase = "serving"
      BY <1>1, <2>2, OrderFacts DEF Listening, IsConnected, Services, IInv, Stages
    <2>3. QED BY <1>1, <2>1, <2>2 DEF Listening
  <1>4. contents' \subseteq Stores \X Nat \X Requests
    BY DEF Send, IInv, TypeOK
  <1>5. QED BY <1>1, <1>2, <1>3, <1>4, RequestStep DEF Send

LEMMA AcceptStep ==
  ASSUME IInv, NEW r \in Requests, Accept(r)
  PROVE  IInv'
  <1> DEFINE new == [request[r] EXCEPT !.state = "accepted"]
  <1>1. /\ new \in Request /\ new.state = "accepted"
        /\ new.service = request[r].service /\ new.boot = request[r].boot
    BY DEF IInv, TypeOK, Request
  <1>2. new.boot = boot /\ IsConnected(new.service)
    BY <1>1 DEF Accept, Moves, IInv, RequestsBelong, Unanswered
  <1>3. request' = [request EXCEPT ![r] = new]
    BY DEF Accept, Moves
  <1>4. contents' \subseteq Stores \X Nat \X Requests
    BY DEF Accept, IInv, TypeOK
  <1>5. step = Len(Order)
    BY DEF Accept, IInv, Stages
  <1> HIDE DEF new
  <1>6. QED BY <1>1, <1>2, <1>3, <1>4, <1>5, RequestStep DEF Accept

LEMMA HandleStep ==
  ASSUME IInv, NEW r \in Requests, Handle(r)
  PROVE  IInv'
  <1> DEFINE new == [request[r] EXCEPT !.state = "handled"]
             s == request[r].service
             st == StoreOf[s]
  <1>1. /\ new \in Request /\ new.state = "handled"
        /\ new.service = s /\ new.boot = request[r].boot /\ s \in Services
    BY DEF IInv, TypeOK, Request
  <1>2. new.boot = boot /\ IsConnected(s) /\ step = Len(Order)
    BY <1>1 DEF Handle, Moves, IInv, RequestsBelong, Unanswered
  <1>3. request' = [request EXCEPT ![r] = new] /\ phase # "down"
    BY DEF Handle, Moves
  <1>4. s \in DOMAIN StoreOf =>
            /\ st \in Stores /\ st \in Parts
            /\ singleton[st] # 0 /\ uses[s, st] = singleton[st] /\ singleton[st] \in Nat
    <2> SUFFICES ASSUME s \in DOMAIN StoreOf
                 PROVE  /\ st \in Stores /\ st \in Parts
                        /\ singleton[st] # 0 /\ uses[s, st] = singleton[st]
                        /\ singleton[st] \in Nat
      OBVIOUS
    <2>1. st \in Stores /\ st \in Parts /\ st \in PartsOf[s] /\ s \in Users
      BY StoreFacts
    <2>2. Holds(s)
      BY <1>1, <1>2 DEF IInv, ConnectedHold
    <2> HIDE DEF s, st
    <2>3. uses[s, st] # 0
      BY <2>1, <2>2 DEF Holds
    <2>4. uses[s, st] = singleton[st]
      BY <2>1, <2>3 DEF IInv, Shared
    <2>5. QED BY <2>1, <2>3, <2>4 DEF IInv, TypeOK
  <1>5. /\ contents \subseteq contents'
        /\ s \in DOMAIN StoreOf => <<st, Place(st, singleton[st]), r>> \in contents'
        /\ contents' \subseteq Stores \X Nat \X Requests
    <2>1. CASE s \in DOMAIN StoreOf
      <3>1. contents' = contents \cup {<<st, Place(st, singleton[st]), r>>}
        BY <1>4, <2>1 DEF Handle
      <3>2. Place(st, singleton[st]) \in Nat
        BY <1>4, <2>1 DEF Place
      <3>3. <<st, Place(st, singleton[st]), r>> \in Stores \X Nat \X Requests
        BY <1>4, <2>1, <3>2
      <3>4. contents \subseteq Stores \X Nat \X Requests
        BY DEF IInv, TypeOK
      <3> HIDE DEF s, st
      <3>5. QED BY <3>1, <3>3, <3>4
    <2>2. CASE s \notin DOMAIN StoreOf
      BY <2>2 DEF Handle, IInv, TypeOK
    <2>3. QED BY <2>1, <2>2
  <1> HIDE DEF new
  <1>6. QED BY <1>1, <1>2, <1>3, <1>4, <1>5, RequestStep DEF Handle

LEMMA AnswerStep ==
  ASSUME IInv, NEW r \in Requests, Answer(r)
  PROVE  IInv'
  <1> DEFINE new == [request[r] EXCEPT !.state = "answered"]
  <1>1. /\ new \in Request /\ new.state = "answered"
        /\ new.service = request[r].service /\ new.boot = request[r].boot
    BY DEF IInv, TypeOK, Request
  <1>2. new.boot = boot /\ IsConnected(new.service) /\ step = Len(Order)
    BY <1>1 DEF Answer, Moves, IInv, RequestsBelong, Unanswered
  <1>3. request' = [request EXCEPT ![r] = new] /\ phase # "down"
    BY DEF Answer, Moves
  <1>4. contents' \subseteq Stores \X Nat \X Requests
    BY DEF Answer, IInv, TypeOK
  <1> HIDE DEF new
  <1>5. QED BY <1>1, <1>2, <1>3, <1>4, RequestStep DEF Answer, Moves

-----------------------------------------------------------------------------
LEMMA NextIInv ==
  ASSUME IInv, [Next]_vars
  PROVE  IInv'
  <1>1. CASE Start
    BY <1>1, StartStep
  <1>2. CASE PassOver
    BY <1>2, PassOverStep
  <1>3. CASE Connect
    BY <1>3, ConnectStep
  <1>4. CASE Serve
    BY <1>4, ServeStep
  <1>5. CASE StartFails
    BY <1>5, EndProcessStep DEF StartFails
  <1>6. CASE Kill
    BY <1>6, EndProcessStep DEF Kill
  <1>7. CASE SendSignal
    BY <1>7, SignalStep
  <1>8. CASE StopOnSignal
    BY <1>8, EndSelectStep DEF StopOnSignal
  <1>9. CASE StopOnError
    <2>1. PICK s \in config.enabled : EndSelect({s})
      BY <1>9 DEF StopOnError
    <2>2. s \in Services
      BY DEF IInv, TypeOK, Config, ServiceEnablement
    <2>3. QED BY <2>1, <2>2, EndSelectStep
  <1>10. CASE Exit
    <2>1. Clean => signalled /\ broken = {} /\ background = "done"
      BY <1>10 DEF Exit, Clean, IInv, Stages
    <2>2. CASE Clean
      BY <1>10, <2>1, <2>2, EndProcessStep DEF Exit
    <2>3. CASE ~Clean
      BY <1>10, <2>3, EndProcessStep DEF Exit
    <2>4. QED BY <2>2, <2>3
  <1>11. CASE Background
    BY <1>11, LoopStep DEF Background, BeginRound, EndRound, Panic, SeeShutdown
  <1>12. ASSUME NEW r \in Requests, Send(r) \/ Accept(r) \/ Handle(r) \/ Answer(r)
         PROVE  IInv'
    BY <1>12, SendStep, AcceptStep, HandleStep, AnswerStep
  <1>13. CASE UNCHANGED vars
    <2>1. TypeOK' /\ Stages'
      BY <1>13 DEF vars, IInv, TypeOK, Stages, CleanExit, procVars, stopVars, dataVars
    <2>2. RequestsBelong'
      BY <1>13 DEF vars, IInv, RequestsBelong, IsConnected, dataVars
    <2>3. RecordsKept'
      BY <1>13 DEF vars, IInv, RecordsKept, procVars, dataVars
    <2>4. QED BY <1>13, <2>1, <2>2, <2>3, SameHolders DEF vars, IInv
  <1>14. QED
    BY <1>1, <1>2, <1>3, <1>4, <1>5, <1>6, <1>7, <1>8, <1>9, <1>10, <1>11, <1>12, <1>13
       DEF Next, Startup

\* The life cycle's types, for any number of requests and restarts.
THEOREM LifecycleTypes == Spec => []TypeOK
  <1>1. IInv /\ [Next]_vars => IInv'
    BY NextIInv
  <1>2. IInv => TypeOK
    BY DEF IInv
  <1>3. QED
    BY <1>1, <1>2, InitIInv, PTL DEF Spec

\* A record acknowledged by one service is what every user of its store sees, in
\* this process and, unless it was in memory, in every later one.
THEOREM AcknowledgedAlwaysVisible == Spec => []AcknowledgedVisible
  <1>1. IInv /\ [Next]_vars => IInv'
    BY NextIInv
  <1>2. IInv => AcknowledgedVisible
    <2> SUFFICES ASSUME IInv, NEW r \in Requests, NEW u \in Users, NEW st \in Parts,
                        request[r].state = "answered", request[r].service \in DOMAIN StoreOf,
                        st = StoreOf[request[r].service], phase # "down", uses[u, st] # 0
                 PROVE  \/ <<st, Place(st, uses[u, st]), r>> \in contents
                        \/ config.kind[st] = "memory" /\ request[r].boot < boot
      BY StoreFacts DEF AcknowledgedVisible
    <2>1. uses[u, st] = singleton[st]
      BY DEF IInv, Shared
    <2>2. request[r].boot < boot \/ request[r].boot = boot
      BY BootFacts
    <2>3. QED BY <2>1, <2>2 DEF IInv, RecordsKept, Place
  <1>3. QED
    BY <1>1, <1>2, InitIInv, PTL DEF Spec

\* The background loop keeps healthy the balancer requests select from, and
\* that balancer follows the store the discovery service writes.
THEOREM AlwaysHealsWhatServes == Spec => []HealsWhatServes
  <1>1. IInv /\ [Next]_vars => IInv'
    BY NextIInv
  <1>2. IInv => HealsWhatServes
    <2> SUFFICES ASSUME IInv, phase \in {"serving", "stopping"}, "lnurl" \in config.enabled
                 PROVE  /\ uses["lnurl", "balancer"] # 0
                        /\ uses["background", "balancer"] = uses["lnurl", "balancer"]
                        /\ "discovery" \in config.enabled =>
                               uses["balancer", "discover_store"] = uses["discovery", "discover_store"]
      BY DEF HealsWhatServes
    <2> USE PartsFacts
    <2>1. Holds("lnurl") /\ Holds("background")
      BY OrderFacts DEF IInv, Stages, ConnectedHold, IsConnected, Services
    <2>2. /\ uses["lnurl", "balancer"] # 0 /\ uses["background", "balancer"] # 0
          /\ "balancer" \in Parts /\ "discover_store" \in Parts
      BY <2>1 DEF Holds, Parts, Stores
    <2>3. /\ uses["lnurl", "balancer"] = singleton["balancer"]
          /\ uses["background", "balancer"] = singleton["balancer"]
      BY <2>2 DEF IInv, Shared, Services
    <2>4. uses["balancer", "discover_store"] = singleton["discover_store"]
      BY <2>2, <2>3 DEF IInv, ConnectedHold, Holds, Shared
    <2>5. ASSUME "discovery" \in config.enabled
          PROVE  uses["discovery", "discover_store"] = singleton["discover_store"]
      <3>1. Holds("discovery")
        BY <2>5, OrderFacts DEF IInv, Stages, ConnectedHold, IsConnected, Services
      <3>2. QED BY <2>2, <3>1 DEF IInv, Holds, Shared, Services
    <2>6. QED BY <2>2, <2>3, <2>4, <2>5
  <1>3. QED
    BY <1>1, <1>2, InitIInv, PTL DEF Spec

\* No request is accepted by a server some service of which did not come up.
THEOREM NeverHalfServer == Spec => []NoHalfServer
  <1>1. IInv /\ [Next]_vars => IInv'
    BY NextIInv
  <1>2. IInv => NoHalfServer
    BY DEF IInv, RequestsBelong, NoHalfServer
  <1>3. QED
    BY <1>1, <1>2, InitIInv, PTL DEF Spec

\* Exit code 0 means: told to stop, no service failed, the loop ran to its end.
THEOREM AlwaysCleanExit == Spec => []CleanExit
  <1>1. IInv /\ [Next]_vars => IInv'
    BY NextIInv
  <1>2. IInv => CleanExit
    BY DEF IInv, Stages
  <1>3. QED
    BY <1>1, <1>2, InitIInv, PTL DEF Spec

=============================================================================
