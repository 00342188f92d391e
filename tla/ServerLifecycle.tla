-------------------------- MODULE ServerLifecycle --------------------------
(***************************************************************************)
(* One `swgr service` process from start to exit, and started again:       *)
(* execute() of server/src/commands/services.rs with the injectors of      *)
(* server/src/di/inject, the signal stream of server/src/signals.rs and    *)
(* the exit code of server/src/main.rs.                                    *)
(*                                                                         *)
(* Start-up connects the enabled services one after the other; every `?`   *)
(* on the way ends it.  The injectors make the discovery store, the offer  *)
(* store and the balancer when they are first needed and hand out clones   *)
(* afterwards.  Then a select! waits for a service's future or a signal    *)
(* while the balancer's background loop runs in a task of its own; when    *)
(* the select! is over the loop is told to stop and waited for.            *)
(*                                                                         *)
(* Listening sockets are bound during start-up and accept only within the  *)
(* select!; a connection accepted is served by a task of the runtime       *)
(* (axum_server, external), which ends with main.  A request to the        *)
(* discovery or the offer service is the posting of one record, named      *)
(* after the request; the LNURL service uses what the others stored.       *)
(***************************************************************************)
EXTENDS Naturals, Sequences

CONSTANTS
    Requests,
    StoreKinds,  \* the kinds of store the configuration may name
    MaxBoots     \* bound: how often the process is started

ASSUME KindsAssumption == StoreKinds \subseteq {"memory", "database", "http"}
ASSUME BootsAssumption == MaxBoots \in Nat

VARIABLES
    config,      \* what the command line and the configuration file say
    phase,       \* where execute() is
    step,        \* how many of the services are connected (or passed over)
    singleton,   \* the cell of each injector: a number of its instances, or 0
    made,        \* how many instances each injector has made in this boot
    uses,        \* uses[u, part]: the instance of the part that user u holds, or 0
    background,  \* the task of the balancer's background loop
    shutdown,    \* the watch channel
    signalled,   \* a termination signal has arrived in this boot
    broken,      \* services whose future has ended with an error
    exit,        \* how the last process ended
    boot,        \* the number of this process
    request,     \* request[r]: where it is
    contents     \* records in the stores: <<store, place, request>>

procVars == <<singleton, made, uses>>
stopVars == <<background, shutdown, signalled, broken, exit>>
dataVars == <<request, contents>>
vars == <<config, phase, step, procVars, stopVars, boot, dataVars>>

Services == {"discovery", "offer", "lnurl"}

\* The order in which execute() connects them.
Order == <<"discovery", "offer", "lnurl">>

Stores == {"discover_store", "offer_store"}

Parts == Stores \cup {"balancer"}

\* What a service takes from the injectors; the balancer takes the discovery store.
PartsOf == [discovery |-> {"discover_store"}, offer |-> {"offer_store"},
            lnurl |-> {"balancer", "offer_store"}, balancer |-> {"discover_store"},
            background |-> {"balancer"}]

Users == Services \cup {"balancer", "background"}

\* The store a request to the service writes.
StoreOf == [discovery |-> "discover_store", offer |-> "offer_store"]

\* The services asked for on the command line: all when none or `all` is named.
ServiceEnablement == (SUBSET Services) \ {{}}

\* The stores the file configures.
StoreConfig == [Stores -> StoreKinds \cup {"absent"}]

\* sections: the services the file configures.
Config == [enabled : ServiceEnablement, sections : SUBSET Services, kind : StoreConfig]

Phase == {"down", "starting", "serving", "stopping"}

Request == [state : {"new", "queued", "accepted", "handled", "answered", "lost"},
            service : Services, boot : Nat]

TypeOK ==
    /\ config \in Config
    /\ phase \in Phase
    /\ step \in 0 .. Len(Order)
    /\ singleton \in [Parts -> Nat] /\ made \in [Parts -> Nat]
    /\ uses \in [Users \X Parts -> Nat]
    /\ background \in {"none", "check", "work", "done", "panicked"}
    /\ shutdown \in BOOLEAN /\ signalled \in BOOLEAN
    /\ broken \subseteq Services
    /\ exit \in {"none", "success", "failure", "killed"}
    /\ boot \in 0 .. MaxBoots
    /\ request \in [Requests -> Request]
    /\ contents \subseteq Stores \X Nat \X Requests

NoUses == [k \in Users \X Parts |-> 0]
NoParts == [p \in Parts |-> 0]

Init ==
    /\ config \in Config
    /\ phase = "down"
    /\ step = 0
    /\ singleton = NoParts /\ made = NoParts /\ uses = NoUses
    /\ background = "none" /\ shutdown = FALSE /\ signalled = FALSE
    /\ broken = {}
    /\ exit = "none"
    /\ boot = 0
    /\ request = [r \in Requests |-> [state |-> "new", service |-> "lnurl", boot |-> 0]]
    /\ contents = {}

-----------------------------------------------------------------------------
(* The injectors.                                                          *)

\* What get() returns: the instance in the cell, or else a new one.
Held(p) == IF singleton[p] # 0 THEN singleton[p] ELSE made[p] + 1

\* The parts made or fetched for user u: a new balancer fetches its own.
Fetched(u) ==
    PartsOf[u] \cup
        IF "balancer" \in PartsOf[u] /\ singleton["balancer"] = 0 THEN PartsOf["balancer"] ELSE {}

\* Mutant: the stores' injectors do not fill their cells.
Remember_no_store(parts) ==
    singleton' = [p \in Parts |-> IF p \in parts \ Stores THEN Held(p) ELSE singleton[p]]

\* Mutant: the balancer's injector does not fill its cell.
Remember_no_balancer(parts) ==
    singleton' = [p \in Parts |-> IF p \in parts \cap Stores THEN Held(p) ELSE singleton[p]]

\* inject() fills the cell.
Remember(parts) ==
    singleton' = [p \in Parts |-> IF p \in parts THEN Held(p) ELSE singleton[p]]

\* User u gets its parts.
Take(u) ==
    LET fetched == Fetched(u)
        new == {p \in fetched : singleton[p] = 0}
        holders == IF "balancer" \in new THEN {u, "balancer"} ELSE {u}
    IN  /\ made' = [p \in Parts |-> IF p \in new THEN made[p] + 1 ELSE made[p]]
        /\ Remember(fetched)
        /\ uses' = [k \in Users \X Parts |->
                       IF k[1] \in holders /\ k[2] \in PartsOf[k[1]] THEN Held(k[2]) ELSE uses[k]]

\* The sections of the file that connecting the service reads.
Configured(s) ==
    /\ s \in config.sections
    /\ \A p \in Fetched(s) \cap Stores : config.kind[p] # "absent"

-----------------------------------------------------------------------------
(* Start-up.                                                               *)

\* The signal handlers are installed before anything else.
Start ==
    /\ phase = "down" /\ boot < MaxBoots
    /\ phase' = "starting"
    /\ boot' = boot + 1
    /\ step' = 0
    /\ singleton' = NoParts /\ made' = NoParts /\ uses' = NoUses
    /\ background' = "none" /\ shutdown' = FALSE /\ signalled' = FALSE
    /\ broken' = {}
    /\ exit' = "none"
    /\ UNCHANGED <<config, dataVars>>

\* Mutant: a service that is not enabled takes the next one with it.
PassOver_two ==
    /\ phase = "starting" /\ step < Len(Order)
    /\ Order[step + 1] \notin config.enabled
    /\ step' = step + 2
    /\ UNCHANGED <<config, phase, procVars, stopVars, boot, dataVars>>

\* connect() of a service that is not enabled.
PassOver ==
    /\ phase = "starting" /\ step < Len(Order)
    /\ Order[step + 1] \notin config.enabled
    /\ step' = step + 1
    /\ UNCHANGED <<config, phase, procVars, stopVars, boot, dataVars>>

\* connect() of an enabled one: stores connected and migrated, socket bound.
Connect ==
    /\ phase = "starting" /\ step < Len(Order)
    /\ Order[step + 1] \in config.enabled
    /\ Configured(Order[step + 1])
    /\ Take(Order[step + 1])
    /\ step' = step + 1
    /\ UNCHANGED <<config, phase, stopVars, boot, dataVars>>

\* BackgroundBalancerServiceInjector::start: the loop is for the LNURL service.
StartBackground ==
    \/ /\ "lnurl" \in config.enabled
       /\ Take("background")
       /\ background' = "check"
    \/ /\ "lnurl" \notin config.enabled
       /\ background' = "done"
       /\ UNCHANGED procVars

\* The background loop is spawned, and the select! entered.
Serve ==
    /\ phase = "starting" /\ step = Len(Order)
    /\ phase' = "serving"
    /\ StartBackground
    /\ UNCHANGED <<config, step, shutdown, signalled, broken, exit, boot, dataVars>>

-----------------------------------------------------------------------------
(* The end of the process.                                                 *)

Unanswered == {"queued", "accepted", "handled"}

\* The connections in these states are closed.
Lose(states) ==
    request' = [r \in Requests |->
                   IF request[r].state \in states THEN [request[r] EXCEPT !.state = "lost"]
                   ELSE request[r]]

\* What a memory store holds goes with the process, the rest is kept elsewhere.
EndProcess(how) ==
    /\ phase' = "down"
    /\ exit' = how
    /\ contents' = {w \in contents : w[2] = 0}
    /\ Lose(Unanswered)
    /\ UNCHANGED <<config, step, procVars, background, shutdown, signalled, broken, boot>>

\* The file cannot be read, or a connect() answers an error: a section is missing,
\* a store or an address is not available, a key or a certificate cannot be read.
StartFails ==
    /\ phase = "starting"
    /\ \/ step = 0
       \/ step < Len(Order) /\ Order[step + 1] \in config.enabled
    /\ EndProcess("failure")

Kill == phase # "down" /\ EndProcess("killed")

-----------------------------------------------------------------------------
(* The select! and what follows it.                                        *)

SendSignal ==
    /\ phase # "down"
    /\ signalled' = TRUE
    /\ UNCHANGED <<config, phase, step, procVars, background, shutdown, broken, exit, boot, dataVars>>

\* Mutant: the background loop is not told.
EndSelect_untold(failed) ==
    /\ phase = "serving"
    /\ phase' = "stopping"
    /\ UNCHANGED shutdown
    /\ broken' = broken \cup failed
    /\ Lose({"queued"})
    /\ UNCHANGED <<config, step, procVars, background, signalled, exit, boot, contents>>

\* One branch is ready: the futures of the others are dropped, and with them the
\* listening sockets; the loop is told to stop.
EndSelect(failed) ==
    /\ phase = "serving"
    /\ phase' = "stopping"
    /\ shutdown' = TRUE
    /\ broken' = broken \cup failed
    /\ Lose({"queued"})
    /\ UNCHANGED <<config, step, procVars, background, signalled, exit, boot, contents>>

StopOnSignal == signalled /\ EndSelect({})

\* A service's future ends only with an error: axum_server, served without a
\* Handle, accepts for ever and never returns Ok(()) (external).
StopOnError == \E s \in config.enabled : EndSelect({s})

\* Mutant: only the errors of the select! count.
Clean_ignores_join == broken = {}

\* No error was collected: not from the select!, not from joining the loop's task.
Clean == broken = {} /\ background # "panicked"

\* The loop's task is joined, execute() returns, and main with it.
Exit ==
    /\ phase = "stopping"
    /\ background \in {"done", "panicked"}
    /\ EndProcess(IF Clean THEN "success" ELSE "failure")

-----------------------------------------------------------------------------
(* pingora's background loop (external): it looks at the channel before     *)
(* every round of update and health check.                                  *)

Loops(from, to) ==
    /\ phase \in {"serving", "stopping"}
    /\ background = from
    /\ background' = to
    /\ UNCHANGED <<config, phase, step, procVars, shutdown, signalled, broken, exit, boot, dataVars>>

BeginRound == ~shutdown /\ Loops("check", "work")

EndRound == Loops("work", "check")

\* The task panics, for instance on a period that overflows the clock.
Panic == Loops("work", "panicked")

SeeShutdown == shutdown /\ Loops("check", "done")

-----------------------------------------------------------------------------
(* Requests.                                                               *)

Moves(r, from, to) ==
    /\ request[r].state = from
    /\ request' = [request EXCEPT ![r].state = to]

\* The socket is bound, and its future not dropped yet.
Listening(s) ==
    /\ s \in config.enabled
    /\ \/ phase = "starting" /\ \E i \in 1 .. step : Order[i] = s
       \/ phase = "serving"

\* The kernel takes the connection.
Send(r) ==
    /\ request[r].state = "new"
    /\ \E s \in Services :
           /\ Listening(s)
           /\ request' = [request EXCEPT ![r] = [state |-> "queued", service |-> s, boot |-> boot]]
    /\ UNCHANGED <<config, phase, step, procVars, stopVars, boot, contents>>

\* Mutant: a service serves from its own connect() on.
Accept_early(r) ==
    /\ phase \in {"starting", "serving"}
    /\ Moves(r, "queued", "accepted")
    /\ UNCHANGED <<config, phase, step, procVars, stopVars, boot, contents>>

\* The service's future accepts it and spawns a task.
Accept(r) ==
    /\ phase = "serving"
    /\ Moves(r, "queued", "accepted")
    /\ UNCHANGED <<config, phase, step, procVars, stopVars, boot, contents>>

\* Where instance i of a store keeps its records: 0 is outside of the process, for
\* good.  (An http store counts as outside; what the remote process keeps its
\* records in is not modelled.)
Place(s, i) == IF config.kind[s] = "memory" THEN i ELSE 0

\* The handler runs, and the posted record is in the store (a refused
\* post changes nothing and is left out).
Handle(r) ==
    LET s == request[r].service
    IN  /\ phase # "down"
        /\ Moves(r, "accepted", "handled")
        /\ contents' = IF s \in DOMAIN StoreOf
                       THEN contents \cup {<<StoreOf[s], Place(StoreOf[s], uses[s, StoreOf[s]]), r>>}
                       ELSE contents
        /\ UNCHANGED <<config, phase, step, procVars, stopVars, boot>>

Answer(r) ==
    /\ phase # "down"
    /\ Moves(r, "handled", "answered")
    /\ UNCHANGED <<config, phase, step, procVars, stopVars, boot, contents>>

-----------------------------------------------------------------------------
Startup == PassOver \/ Connect \/ Serve \/ StartFails

Background == BeginRound \/ EndRound \/ Panic \/ SeeShutdown

Next ==
    \/ Start \/ Startup \/ Kill
    \/ SendSignal \/ StopOnSignal \/ StopOnError \/ Exit
    \/ Background
    \/ \E r \in Requests : Send(r) \/ Accept(r) \/ Handle(r) \/ Answer(r)

Spec == Init /\ [][Next]_vars

\* Connecting to a store or reading a file ends with an answer or an error; the
\* select! is polled; a round of the loop ends, since its store calls, its node
\* calls and its sleep do.
FairSpec ==
    /\ Spec
    /\ WF_vars(Startup) /\ WF_vars(StopOnSignal) /\ WF_vars(Background) /\ WF_vars(Exit)

-----------------------------------------------------------------------------
\* A record whose posting was acknowledged is what every user of that store sees,
\* the other service and the balancer included, for as long as the process runs
\* and, unless the store is in memory, in every later process (the injectors'
\* shared cells; README.md:625 "Volatile storage, data is lost on restart").
AcknowledgedVisible ==
    \A r \in Requests, u \in Users :
        LET s == request[r].service
        IN  /\ request[r].state = "answered" /\ s \in DOMAIN StoreOf
            /\ phase # "down" /\ uses[u, StoreOf[s]] # 0
            => \/ <<StoreOf[s], Place(StoreOf[s], uses[u, StoreOf[s]]), r>> \in contents
               \/ config.kind[StoreOf[s]] = "memory" /\ request[r].boot < boot

\* The background loop updates and checks the balancer that the LNURL service
\* selects from, and that balancer follows the discovery store the discovery
\* service writes (BalancerInjector::get by connect and again by start).
HealsWhatServes ==
    phase \in {"serving", "stopping"} /\ "lnurl" \in config.enabled =>
        /\ uses["lnurl", "balancer"] # 0
        /\ uses["background", "balancer"] = uses["lnurl", "balancer"]
        /\ "discovery" \in config.enabled =>
               uses["balancer", "discover_store"] = uses["discovery", "discover_store"]

\* A process that could not start leaves no trace of requests: none was handled
\* by a service that came up before another one failed (execute: all connects
\* before the select!).
NoHalfServer ==
    \A r \in Requests :
        request[r].boot = boot /\ request[r].state \in {"accepted", "handled", "answered"} =>
            step = Len(Order)

\* Exit code 0 only after a signal, with no service having failed and the
\* background loop having run to its end: a loop that died, which nobody notices
\* while the services go on, is reported at last (execute's errors).
CleanExit ==
    exit = "success" => signalled /\ broken = {} /\ background = "done"

\* A signal, at whatever moment of start-up or service, ends the process, requests
\* under way or not ("the server should exit").
SignalEnds == (signalled /\ phase # "down") ~> phase = "down"

=============================================================================
