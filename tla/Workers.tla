-------------------------------- MODULE Workers -------------------------------
(***************************************************************************)
(* The agent in the processes of a server that forks.  The handler is a    *)
(* singleton that a child inherits together with its buffer, its HTTP      *)
(* client and the task handles of loops that only run in the parent.  Two  *)
(* fork hooks and two comparisons of pids keep a child from using them; a  *)
(* server that forks behind Python's back leaves only the comparisons.     *)
(* Every construction resolves the install id (InstallId).                 *)
(*                                                                         *)
(* Pids are not reused.  Of flushing, starting and stopping only what      *)
(* touches the inherited state is kept; the rest is in other modules.      *)
(***************************************************************************)
EXTENDS InstallId

CONSTANT NoProc         \* no process

ASSUME NoProcAssumption == NoProc \notin Procs

VARIABLES
  alive, dead,  \* processes that run, and that have ended
  agent         \* of each process: its GuardAgentHandler._instance

vars == <<idVars, alive, dead, agent>>

(* The client is named after the process whose sockets it holds, an event  *)
(* in the buffer after the process it was reported in.                     *)
NoAgent ==
  [initialized |-> FALSE,       \* _initialized
   owner |-> NoProc,            \* _owner_pid; NoProc: no _instance yet
   running |-> FALSE,           \* _running
   loops |-> "none",            \* _flush_task and others: "none", "own", or
                                \* "inherited", which nobody runs
   items |-> {},                \* buffer
   auto |-> "none",             \* buffer._flush_task, likewise
   client |-> NoProc,           \* transport._client, if it is open
   pid |-> NoProc]              \* transport._pid; NoProc: no transport yet

Set(p, a) == agent' = [agent EXCEPT ![p] = a]

(* The processes whose application can call the agent.  The constructor    *)
(* does not suspend.                                                       *)
Ready == {p \in alive : phase[p] = "out" /\ agent[p].pid # NoProc}

(* The handler was constructed in this process.                            *)
Own(p) == agent[p].initialized /\ agent[p].owner = p
-----------------------------------------------------------------------------
Init ==
  /\ IdInit
  /\ alive = {} /\ dead = {}
  /\ agent = [p \in Procs |-> NoAgent]

Spawn(p) ==
  /\ p \notin alive \cup dead
  /\ alive' = alive \cup {p}
  /\ UNCHANGED <<idVars, dead, agent>>

(* GuardAgentHandler(config), up to the install id.  A handler that was    *)
(* constructed here is returned as it is.                                  *)
ConstructEarly(p) ==    \* mutant: _initialized is set first
  /\ p \in alive
  /\ ~Own(p)
  /\ Resolve(p)
  /\ Set(p, [agent[p] EXCEPT
               !.initialized = TRUE, !.owner = p, !.loops = "none",
               !.items = {}, !.auto = "none"])
  /\ UNCHANGED <<alive, dead>>

Construct(p) ==
  /\ p \in alive
  /\ ~Own(p)
  /\ Resolve(p)
  /\ Set(p, [agent[p] EXCEPT
               !.initialized = FALSE, !.owner = p,
               !.loops = IF agent[p].owner = p THEN @ ELSE "none",
               !.items = {}, !.auto = "none"])  \* a new buffer
  /\ UNCHANGED <<alive, dead>>

Constructed(p) ==       \* the rest of __init__, with a new transport
  /\ phase[p] = "resolved"
  /\ Resolved(p)
  /\ Set(p, [agent[p] EXCEPT !.initialized = TRUE, !.running = FALSE,
               !.loops = "none", !.client = NoProc, !.pid = p])
  /\ UNCHANGED <<alive, dead>>

ConstructFails(p) ==    \* the install id, or the encryption key
  /\ \/ MkdirFails(p)
     \/ phase[p] = "resolved" /\ Resolved(p)
  /\ UNCHANGED <<alive, dead, agent>>
-----------------------------------------------------------------------------
(* What the application and the loops do, in a child also without another  *)
(* construction.                                                           *)
Report(p) ==
  /\ p \in Ready
  /\ Set(p, [agent[p] EXCEPT !.items = @ \cup {p}])
  /\ UNCHANGED <<idVars, alive, dead>>

Initialize(client, p) == IF client = NoProc THEN p ELSE client

(* start_auto_flush() keeps a task that is not done: an inherited one      *)
(* never is.                                                               *)
Start(p) ==
  /\ p \in Ready
  /\ ~agent[p].running
  /\ Set(p, [agent[p] EXCEPT !.running = TRUE, !.loops = "own",
               !.client = Initialize(@, p),
               !.auto = IF @ = "none" THEN "own" ELSE @])
  /\ UNCHANGED <<idVars, alive, dead>>

EnsureUnchecked(p) ==   \* mutant: the pid is not compared
  [agent[p] EXCEPT !.client = Initialize(@, p)]
EnsureClient(p) ==      \* _ensure_client_for_current_process
  [agent[p] EXCEPT !.pid = p,
     !.client = Initialize(IF agent[p].pid = p THEN @ ELSE NoProc, p)]

Send(p) ==              \* flush_buffer, from a loop or from the application
  /\ p \in Ready
  /\ agent[p].items # {}
  /\ Set(p, [EnsureClient(p) EXCEPT !.items = {}])
  /\ UNCHANGED <<idVars, alive, dead>>

(* A task that was inherited cannot be awaited: stop() raises before it    *)
(* closes the client.  The handler's loops come before the buffer's.       *)
Stopped(a) ==
  CASE a.loops = "inherited" -> [a EXCEPT !.running = FALSE]
    [] a.loops # "inherited" /\ a.auto = "inherited" ->
         [a EXCEPT !.running = FALSE, !.loops = "none"]
    [] OTHER ->
         [a EXCEPT !.running = FALSE, !.loops = "none", !.auto = "none",
                   !.client = NoProc]

Stop(p) ==
  /\ p \in Ready
  /\ Set(p, Stopped(agent[p]))
  /\ UNCHANGED <<idVars, alive, dead>>
-----------------------------------------------------------------------------
HooksKeepFlag(a, q) ==  \* mutant: _initialized is not reset
  [a EXCEPT !.owner = q, !.loops = "none", !.client = NoProc,
            !.pid = IF @ = NoProc THEN NoProc ELSE q]
(* The handler's and the transport's _reset_after_fork.  The buffer, with  *)
(* its task, stays until the handler is constructed again.                 *)
Hooks(a, q) ==
  [a EXCEPT !.initialized = FALSE, !.owner = q, !.loops = "none",
            !.client = NoProc, !.pid = IF @ = NoProc THEN NoProc ELSE q]

(* What process q, a child of p, begins with.                              *)
Inherit(p, q, hooked) ==
  LET Parents(task) == IF task = "none" THEN "none" ELSE "inherited"
      a == [agent[p] EXCEPT !.loops = Parents(@), !.auto = Parents(@)]
  IN IF hooked /\ a.owner # NoProc THEN Hooks(a, q) ELSE a

Fork(p, q) ==
  /\ p \in alive /\ phase[p] = "out"
  /\ q \notin alive \cup dead
  /\ alive' = alive \cup {q}
  /\ \E hooked \in BOOLEAN : Set(q, Inherit(p, q, hooked))
  /\ UNCHANGED <<idVars, dead>>

(* A crash.  Elsewhere than in the constructor it would change nothing for *)
(* the others.                                                             *)
Exit(p) ==
  /\ p \in alive /\ phase[p] # "out"
  /\ alive' = alive \ {p} /\ dead' = dead \cup {p}
  /\ Set(p, NoAgent)
  /\ Resolved(p)

Next ==
  \E p \in Procs :
    \/ Spawn(p) \/ Construct(p) \/ Constructed(p) \/ ConstructFails(p)
    \/ Resolving(p) /\ UNCHANGED <<alive, dead, agent>>
    \/ Report(p) \/ Start(p) \/ Send(p) \/ Stop(p)
    \/ Exit(p) \/ \E q \in Procs : Fork(p, q)

Spec == Init /\ [][Next]_vars
-----------------------------------------------------------------------------
Tasks == {"none", "own", "inherited"}

TypeOK ==
  /\ IdTypeOK
  /\ \A p \in Procs : phase[p] # "out" => p \in alive /\ ~agent[p].initialized
  /\ alive \subseteq Procs /\ dead \subseteq Procs \ alive
  /\ agent \in [Procs ->
       [initialized : BOOLEAN, owner : Procs \cup {NoProc},
        running : BOOLEAN, loops : Tasks, auto : Tasks,
        items : SUBSET Procs, client : Procs \cup {NoProc},
        pid : Procs \cup {NoProc}]]

(* No request goes over a connection that was opened by another process.   *)
SocketPrivate ==
  [][\A p \in Procs : Send(p) => agent'[p].client = p]_vars

(* A handler that was constructed in its process has nothing of the        *)
(* parent's: it holds no event that the parent sends itself, and when it   *)
(* says it is running, start() was not only done in the parent: its loops  *)
(* and the buffer's flush loop run here.                                   *)
OwnAgent ==
  \A p \in alive : Own(p) =>
    /\ agent[p].items \subseteq {p}
    /\ agent[p].running => agent[p].loops = "own" /\ agent[p].auto = "own"
=============================================================================
