----------------------------- MODULE WorkersProofs -----------------------------
(***************************************************************************)
(* The safety properties of Workers, for any number of processes, of       *)
(* generations of children and of ids.                                     *)
(***************************************************************************)
EXTENDS Workers, TLAPS

USE NoIdAssumption, NoProcAssumption
-----------------------------------------------------------------------------
(* A file that holds an id, or is about to, exists; and who has made an id *)
(* up or is done has one.                                                  *)
Named ==
  /\ content # NoId \/ (\E p \in Procs : phase[p] = "write") => exists
  /\ \A p \in Procs : phase[p] \in {"open", "write", "resolved"} => id[p] # NoId

(* As long as reading never fails, nobody touches a file that somebody has *)
(* found settled.                                                          *)
Undisturbed ==
  \A p \in Procs : settled[p] # NoId /\ ~misread =>
    /\ Minting = {} /\ content = settled[p]
    /\ phase[p] = "resolved" => id[p] = settled[p]

IdInv == IdTypeOK /\ Named /\ Undisturbed

LEMMA IdStart == IdInit => IdInv
  BY DEF IdInit, IdInv, IdTypeOK, Named, Undisturbed, Minting

LEMMA IdMint ==
  ASSUME IdInv, NEW p \in Procs, Mint(p),
         phase[p] = "read" \/ (phase[p] = "out" /\ ~exists),
         UNCHANGED fileVars, misread' \in BOOLEAN, misread => misread',
         phase[p] = "read" => UNCHANGED settled /\ (misread' \/ content = NoId),
         phase[p] = "out" =>
           settled' = [settled EXCEPT ![p] = IF Minting = {} THEN content ELSE NoId]
  PROVE  IdInv'
<1>1. PICK i \in Ids : used' = used \cup {i} /\ id' = [id EXCEPT ![p] = i]
  BY DEF Mint
<1>2. phase' = [phase EXCEPT ![p] = "open"]
  BY DEF Mint
<1>3. content = NoId \/ misread'
  BY DEF IdInv, Named
<1>4. settled' \in [Procs -> Ids \cup {NoId}]
  BY DEF IdInv, IdTypeOK
<1>5. IdTypeOK'
  BY <1>1, <1>2, <1>4 DEF IdInv, IdTypeOK, fileVars
<1>6. Named'
  BY <1>1, <1>2 DEF IdInv, IdTypeOK, Named, fileVars
<1>7. Undisturbed'
  <2> SUFFICES ASSUME NEW q \in Procs, settled'[q] # NoId, ~misread' PROVE FALSE
    BY DEF Undisturbed
  <2>1. content = NoId
    BY <1>3
  <2>2. settled[q] # NoId
    BY <2>1 DEF IdInv, IdTypeOK
  <2> QED
    BY <2>1, <2>2 DEF IdInv, Undisturbed
<1> QED
  BY <1>5, <1>6, <1>7 DEF IdInv

LEMMA IdResolve ==
  ASSUME IdInv, NEW p \in Procs, Resolve(p)
  PROVE  IdInv'
<1>1. CASE ~exists
  BY <1>1, IdMint DEF Resolve, IdInv, IdTypeOK, fileVars
<1>2. CASE exists
  <2>1. /\ phase' = [phase EXCEPT ![p] = "read"] /\ UNCHANGED <<used, id, fileVars, misread>>
        /\ settled' = [settled EXCEPT ![p] = IF Minting = {} THEN content ELSE NoId]
    BY <1>2 DEF Resolve
  <2>2. IdTypeOK'
    BY <2>1 DEF IdInv, IdTypeOK, fileVars
  <2>3. Named'
    BY <2>1 DEF IdInv, IdTypeOK, Named, fileVars
  <2>4. Minting' = Minting
    BY <2>1 DEF Minting, IdInv, IdTypeOK, Resolve
  <2>5. Undisturbed'
    BY <2>1, <2>4 DEF IdInv, IdTypeOK, Undisturbed, fileVars
  <2> QED
    BY <2>2, <2>3, <2>5 DEF IdInv
<1> QED
  BY <1>1, <1>2

LEMMA IdResolved ==
  ASSUME IdInv, NEW p \in Procs, Resolved(p)
  PROVE  IdInv'
<1>1. Minting' \subseteq Minting
  BY DEF Resolved, Minting, IdInv, IdTypeOK
<1>2. IdTypeOK'
  BY DEF Resolved, IdInv, IdTypeOK, fileVars
<1>3. Named'
  BY DEF Resolved, IdInv, IdTypeOK, Named, fileVars
<1>4. Undisturbed'
  BY <1>1 DEF Resolved, IdInv, IdTypeOK, Undisturbed, fileVars
<1> QED
  BY <1>2, <1>3, <1>4 DEF IdInv

(* A step of a process that is making an id up: then nobody counts on the  *)
(* file, unless reading it has failed.                                     *)
LEMMA IdWriting ==
  ASSUME IdInv, NEW p \in Procs, p \in Minting, Open(p) \/ Write(p) \/ WriteFails(p)
  PROVE  IdInv'
<1>1. misread \/ \A q \in Procs : settled[q] = NoId
  BY DEF IdInv, Undisturbed
<1>2. UNCHANGED <<used, id, settled, misread>>
  BY DEF Open, Write, WriteFails
<1>3. IdTypeOK' /\ Named'
  <2>1. id[p] # NoId /\ id[p] \in Ids
    BY DEF IdInv, IdTypeOK, Named, Minting
  <2>2. CASE Open(p)
    BY <2>1, <2>2 DEF IdInv, IdTypeOK, Named, Open
  <2>3. CASE Write(p)
    BY <2>1, <2>3 DEF IdInv, IdTypeOK, Named, Write
  <2>4. CASE WriteFails(p)
    BY <2>1, <2>4 DEF IdInv, IdTypeOK, Named, WriteFails, fileVars
  <2> QED
    BY <2>2, <2>3, <2>4
<1>4. Undisturbed'
  BY <1>1, <1>2 DEF Undisturbed
<1> QED
  BY <1>3, <1>4 DEF IdInv

LEMMA IdResolving ==
  ASSUME IdInv, NEW p \in Procs, Resolving(p)
  PROVE  IdInv'
<1>1. CASE Read(p) /\ content = NoId
  BY <1>1, IdMint DEF Read, IdInv, IdTypeOK
<1>2. CASE Read(p) /\ content # NoId
  <2>1. /\ id' = [id EXCEPT ![p] = content] /\ phase' = [phase EXCEPT ![p] = "resolved"]
        /\ UNCHANGED <<used, fileVars, settled, misread>> /\ phase[p] = "read"
    BY <1>2 DEF Read
  <2>2. Minting' = Minting
    BY <2>1 DEF Minting, IdInv, IdTypeOK
  <2>3. IdTypeOK'
    BY <2>1 DEF IdInv, IdTypeOK, fileVars
  <2>4. Named'
    BY <1>2, <2>1 DEF IdInv, IdTypeOK, Named, fileVars
  <2>5. Undisturbed'
    BY <2>1, <2>2 DEF IdInv, IdTypeOK, Undisturbed, fileVars
  <2> QED
    BY <2>3, <2>4, <2>5 DEF IdInv
<1>3. CASE ReadFails(p)
  BY <1>3, IdMint DEF ReadFails, IdInv, IdTypeOK
<1>4. CASE Open(p) \/ Write(p) \/ WriteFails(p)
  BY <1>4, IdWriting DEF Minting, Open, Write, WriteFails
<1> QED
  BY <1>1, <1>2, <1>3, <1>4 DEF Resolving
-----------------------------------------------------------------------------
(* Who owns an agent has been a process, so that a new process owns none.  *)
Known == alive \cup dead \cup {NoProc}
OwnersKnown == \A p \in Procs : agent[p].owner \in Known /\ agent[p].pid \in Known

(* While it is being constructed an agent holds no events, and its buffer  *)
(* is not flushed.                                                         *)
EmptyWhileConstructed ==
  \A p \in Procs : phase[p] # "out" => agent[p].items = {} /\ agent[p].auto = "none"

(* A client whose pid is the process's has the process's sockets. *)
ClientOwn ==
  \A p \in Procs : agent[p].pid = p => agent[p].client \in {p, NoProc}

(* The buffer of a handler that was constructed here was made here, too.   *)
OwnBuffer == \A p \in Procs : Own(p) => agent[p].auto # "inherited"

IInv ==
  /\ TypeOK /\ IdInv /\ OwnersKnown /\ EmptyWhileConstructed /\ ClientOwn
  /\ OwnBuffer /\ OwnAgent

Agents ==
  [initialized : BOOLEAN, owner : Procs \cup {NoProc},
   running : BOOLEAN, loops : Tasks, auto : Tasks,
   items : SUBSET Procs, client : Procs \cup {NoProc}, pid : Procs \cup {NoProc}]

(* What IInv says of the agent a of process p. *)
Good(a, p) ==
  /\ a \in Agents
  /\ a.owner \in Known /\ a.pid \in Known
  /\ a.pid = p => a.client \in {p, NoProc}
  /\ a.initialized /\ a.owner = p =>
       a.items \subseteq {p} /\ (a.running => a.loops = "own" /\ a.auto = "own")
            /\ a.auto # "inherited"

LEMMA GoodAgents == IInv => \A p \in alive : Good(agent[p], p)
  BY DEF IInv, TypeOK, OwnersKnown, ClientOwn, OwnBuffer, OwnAgent, Own, Good, Agents

(* A step that changes one agent and leaves every process where it is. *)
LEMMA StepOwn ==
  ASSUME IInv, NEW p \in alive, NEW a, Good(a, p), Set(p, a), UNCHANGED <<alive, dead>>,
         IdInv', \A q \in Procs : q # p => phase'[q] = phase[q],
         phase'[p] # "out" => a.items = {} /\ a.auto = "none" /\ ~a.initialized
  PROVE  IInv'
<1>1. agent \in [Procs -> Agents] /\ p \in Procs /\ alive \subseteq Procs
  BY DEF IInv, TypeOK, Agents
<1>2. /\ agent' \in [Procs -> Agents] /\ agent'[p] = a
      /\ \A q \in Procs : q # p => agent'[q] = agent[q]
  BY <1>1 DEF Set, Good
<1>3. TypeOK'
  BY <1>1, <1>2 DEF IInv, TypeOK, IdInv, Agents
<1>4. OwnersKnown' /\ EmptyWhileConstructed' /\ ClientOwn' /\ OwnBuffer' /\ OwnAgent'
  BY <1>1, <1>2 DEF IInv, OwnersKnown, Known, EmptyWhileConstructed, ClientOwn, OwnBuffer,
     OwnAgent, Own, Good
<1> QED
  BY <1>3, <1>4 DEF IInv

LEMMA InitIInv == Init => IInv
<1> SUFFICES ASSUME Init PROVE IInv
  OBVIOUS
<1>1. NoAgent \in Agents
  BY DEF NoAgent, Agents, Tasks
<1>2. TypeOK
  BY <1>1, IdStart DEF Init, IdInv, IdInit, TypeOK, Agents
<1>3. OwnersKnown /\ EmptyWhileConstructed /\ ClientOwn /\ OwnBuffer /\ OwnAgent
  BY DEF Init, OwnersKnown, Known, EmptyWhileConstructed, ClientOwn, OwnBuffer, OwnAgent, NoAgent
<1> QED
  BY <1>2, <1>3, IdStart DEF Init, IInv

LEMMA StepSpawn ==
  ASSUME IInv, NEW p \in Procs, Spawn(p)
  PROVE  IInv'
<1>1. IdInv' /\ phase' = phase
  BY DEF IInv, IdInv, IdTypeOK, Named, Undisturbed, Minting, Spawn, idVars, fileVars
<1>2. agent[p].owner # p
  BY DEF Spawn, IInv, OwnersKnown, Known
<1>3. TypeOK' /\ OwnersKnown' /\ EmptyWhileConstructed' /\ ClientOwn' /\ OwnBuffer' /\ OwnAgent'
  BY <1>1, <1>2 DEF IInv, IdInv, TypeOK, OwnersKnown, Known, EmptyWhileConstructed, ClientOwn,
     OwnBuffer, OwnAgent, Own, Spawn
<1> QED
  BY <1>1, <1>3 DEF IInv

LEMMA StepConstruct ==
  ASSUME IInv, NEW p \in Procs, Construct(p)
  PROVE  IInv'
<1> DEFINE a == [agent[p] EXCEPT
               !.initialized = FALSE, !.owner = p,
               !.loops = IF agent[p].owner = p THEN @ ELSE "none",
               !.items = {}, !.auto = "none"]
<1>1. p \in alive /\ Good(agent[p], p)
  BY GoodAgents DEF Construct
<1>2. Good(a, p)
  BY <1>1 DEF Good, Agents, Known, Tasks
<1>3. a.items = {} /\ a.auto = "none" /\ ~a.initialized
  BY <1>1 DEF Good, Agents
<1>4. IdInv' /\ \A q \in Procs : q # p => phase'[q] = phase[q]
  BY IdResolve DEF IInv, IdInv, IdTypeOK, Construct, Resolve, Mint
<1>5. Set(p, a) /\ UNCHANGED <<alive, dead>>
  BY DEF Construct
<1> HIDE DEF a
<1> QED
  BY <1>1, <1>2, <1>3, <1>4, <1>5, StepOwn

LEMMA StepConstructed ==
  ASSUME IInv, NEW p \in Procs, Constructed(p)
  PROVE  IInv'
<1> DEFINE a == [agent[p] EXCEPT !.initialized = TRUE, !.running = FALSE,
               !.loops = "none", !.client = NoProc, !.pid = p]
<1>1. p \in alive /\ Good(agent[p], p) /\ agent[p].items = {} /\ agent[p].auto = "none"
  BY GoodAgents DEF Constructed, IInv, TypeOK, EmptyWhileConstructed
<1>2. Good(a, p)
  BY <1>1 DEF Good, Agents, Known, Tasks
<1>3. /\ IdInv' /\ phase'[p] = "out"
      /\ \A q \in Procs : q # p => phase'[q] = phase[q]
  BY IdResolved DEF IInv, IdInv, IdTypeOK, Constructed, Resolved
<1>4. Set(p, a) /\ UNCHANGED <<alive, dead>>
  BY DEF Constructed
<1> HIDE DEF a
<1> QED
  BY <1>1, <1>2, <1>3, <1>4, StepOwn

(* Steps of the constructor that do not touch the agent. *)
LEMMA StepIdOnly ==
  ASSUME IInv, NEW p \in Procs, phase[p] # "out", UNCHANGED <<alive, dead, agent>>,
         IdInv', \A q \in Procs : q # p => phase'[q] = phase[q]
  PROVE  IInv'
  BY DEF IInv, IdInv, TypeOK, OwnersKnown, Known, EmptyWhileConstructed, ClientOwn, OwnBuffer,
     OwnAgent, Own

LEMMA StepResolving ==
  ASSUME IInv, NEW p \in Procs,
         \/ ConstructFails(p)
         \/ Resolving(p) /\ UNCHANGED <<alive, dead, agent>>
  PROVE  IInv'
<1>1. CASE ConstructFails(p)
  BY <1>1, IdResolved, StepIdOnly DEF ConstructFails, MkdirFails, Resolved, IInv, IdInv, IdTypeOK
<1>2. CASE Resolving(p) /\ UNCHANGED <<alive, dead, agent>>
  <2>1. phase[p] # "out" /\ \A q \in Procs : q # p => phase'[q] = phase[q]
    BY <1>2 DEF Resolving, Read, ReadFails, Open, Write, WriteFails, Mint, IInv, IdInv, IdTypeOK
  <2> QED
    BY <1>2, <2>1, IdResolving, StepIdOnly DEF IInv
<1> QED
  BY <1>1, <1>2

(* What the application does with the agent of its process. *)
LEMMA StepUse ==
  ASSUME IInv, NEW p \in Procs, Report(p) \/ Start(p) \/ Send(p) \/ Stop(p)
  PROVE  IInv'
<1>1. p \in alive /\ phase[p] = "out" /\ Good(agent[p], p)
  BY GoodAgents DEF Report, Start, Send, Stop, Ready
<1>2. /\ IdInv' /\ phase' = phase /\ UNCHANGED <<alive, dead>>
  BY DEF IInv, IdInv, IdTypeOK, Named, Undisturbed, Minting, Report, Start, Send, Stop, idVars, fileVars
<1>3. PICK a : Set(p, a) /\ Good(a, p)
  <2>1. CASE Report(p)
    <3>1. Good([agent[p] EXCEPT !.items = @ \cup {p}], p)
      BY <1>1 DEF Good, Agents
    <3> QED
      BY <2>1, <3>1 DEF Report
  <2>2. CASE Start(p)
    <3>1. Good([agent[p] EXCEPT !.running = TRUE, !.loops = "own",
                  !.client = Initialize(@, p),
                  !.auto = IF @ = "none" THEN "own" ELSE @], p)
      BY <1>1 DEF Good, Agents, Tasks, Initialize
    <3> QED
      BY <2>2, <3>1 DEF Start
  <2>3. CASE Send(p)
    <3>1. Good([EnsureClient(p) EXCEPT !.items = {}], p)
      BY <1>1 DEF Good, Agents, EnsureClient, Initialize, Known
    <3> QED
      BY <2>3, <3>1 DEF Send
  <2>4. CASE Stop(p)
    <3>1. Good(Stopped(agent[p]), p)
      BY <1>1 DEF Good, Agents, Tasks, Stopped
    <3> QED
      BY <2>4, <3>1 DEF Stop
  <2> QED
    BY <2>1, <2>2, <2>3, <2>4
<1> QED
  BY <1>1, <1>2, <1>3, StepOwn

(* A child starts with nothing that counts as its own. *)
LEMMA StepFork ==
  ASSUME IInv, NEW p \in Procs, NEW q \in Procs, Fork(p, q)
  PROVE  IInv'
<1>1. PICK hooked \in BOOLEAN : Set(q, Inherit(p, q, hooked))
  BY DEF Fork
<1>2. /\ p \in alive /\ q \notin alive \cup dead /\ q # NoProc /\ phase[q] = "out"
      /\ alive' = alive \cup {q} /\ dead' = dead
      /\ agent \in [Procs -> Agents] /\ Good(agent[p], p)
  BY GoodAgents DEF Fork, IInv, TypeOK, Agents
<1>3. IdInv' /\ phase' = phase
  BY DEF IInv, IdInv, IdTypeOK, Named, Undisturbed, Minting, Fork, idVars, fileVars
<1> DEFINE Parents(task) == IF task = "none" THEN "none" ELSE "inherited"
           b == [agent[p] EXCEPT !.loops = Parents(@), !.auto = Parents(@)]
           a == Inherit(p, q, hooked)
<1>4. b \in Agents /\ b.owner \in Known /\ b.pid \in Known
  BY <1>2 DEF Good, Agents, Tasks
<1>5. a = b \/ a = Hooks(b, q)
  BY DEF Inherit
<1>6. /\ a \in Agents /\ a.owner \in Known \cup {q} /\ a.pid \in Known \cup {q}
      /\ ~(a.initialized /\ a.owner = q)
      /\ a.pid = q => a.client = NoProc
  <2>1. CASE a = b
    BY <1>2, <1>4, <2>1 DEF Known
  <2>2. CASE a = Hooks(b, q)
    <3> HIDE DEF b
    <3> QED
      BY <1>4, <2>2 DEF Hooks, Agents, Tasks
  <2> QED
    BY <1>5, <2>1, <2>2
<1> HIDE DEF a
<1>7. /\ agent' \in [Procs -> Agents] /\ agent'[q] = a
      /\ \A r \in Procs : r # q => agent'[r] = agent[r]
  BY <1>1, <1>2, <1>6 DEF Set, a
<1>8. TypeOK'
  BY <1>2, <1>3, <1>7 DEF IInv, TypeOK, IdInv, Agents
<1>9. OwnersKnown' /\ EmptyWhileConstructed' /\ ClientOwn' /\ OwnBuffer' /\ OwnAgent'
  <2>1. OwnersKnown'
    BY <1>2, <1>6, <1>7 DEF IInv, OwnersKnown, Known
  <2>2. EmptyWhileConstructed'
    BY <1>2, <1>3, <1>7 DEF IInv, EmptyWhileConstructed
  <2>3. ClientOwn'
    BY <1>6, <1>7 DEF IInv, ClientOwn
  <2>4. OwnAgent'
    <3>1. \A r \in alive : r # q /\ agent'[r] = agent[r]
      BY <1>2, <1>7 DEF IInv, TypeOK
    <3> QED
      BY <1>2, <1>6, <1>7, <3>1 DEF IInv, OwnAgent, Own
  <2>5. OwnBuffer'
    BY <1>2, <1>6, <1>7 DEF IInv, OwnBuffer, Own
  <2> QED
    BY <2>1, <2>2, <2>3, <2>4, <2>5
<1> QED
  BY <1>3, <1>8, <1>9 DEF IInv

LEMMA StepExit ==
  ASSUME IInv, NEW p \in Procs, Exit(p)
  PROVE  IInv'
<1>1. IdInv' /\ phase'[p] = "out" /\ \A q \in Procs : q # p => phase'[q] = phase[q]
  BY IdResolved DEF IInv, IdInv, IdTypeOK, Exit, Resolved
<1>2. NoAgent \in Agents /\ NoAgent.owner = NoProc /\ NoAgent.pid = NoProc /\ NoAgent.items = {}
      /\ NoAgent.auto = "none"
  BY DEF NoAgent, Agents, Tasks
<1>3. /\ agent' \in [Procs -> Agents] /\ agent'[p] = NoAgent
      /\ \A q \in Procs : q # p => agent'[q] = agent[q]
  BY <1>2 DEF Exit, Set, IInv, TypeOK, Agents
<1>4. alive' = alive \ {p} /\ dead' = dead \cup {p} /\ p \in alive
  BY DEF Exit
<1>5. TypeOK'
  BY <1>1, <1>3, <1>4 DEF IInv, TypeOK, IdInv, Agents
<1>6. OwnersKnown' /\ EmptyWhileConstructed' /\ ClientOwn' /\ OwnBuffer' /\ OwnAgent'
  BY <1>1, <1>2, <1>3, <1>4 DEF IInv, TypeOK, OwnersKnown, Known, EmptyWhileConstructed, ClientOwn,
     OwnBuffer, OwnAgent, Own
<1> QED
  BY <1>1, <1>5, <1>6 DEF IInv

LEMMA StepNext == IInv /\ [Next]_vars => IInv'
<1> SUFFICES ASSUME IInv, [Next]_vars PROVE IInv'
  OBVIOUS
<1>1. CASE UNCHANGED vars
  BY <1>1 DEF vars, IInv, TypeOK, IdInv, IdTypeOK, Named, Undisturbed, Minting, OwnersKnown, Known,
     EmptyWhileConstructed, ClientOwn, OwnBuffer, OwnAgent, Own, idVars, fileVars
<1> QED
  BY <1>1, StepSpawn, StepConstruct, StepConstructed, StepResolving, StepUse, StepFork, StepExit
     DEF Next

(* Ids, owners and clients, in every reachable state. *)
THEOREM WorkersInvariance == Spec => []IInv
  BY InitIInv, StepNext, PTL DEF Spec

(* Every variable keeps its type, the inherited copies of the agent too.   *)
THEOREM TypeCorrect == Spec => []TypeOK
<1>1. IInv => TypeOK
  BY DEF IInv
<1> QED
  BY WorkersInvariance, <1>1, PTL

(* A handler constructed in its process holds none of the parent's events  *)
(* and does not take the parent's loops for its own (__new__, __init__,    *)
(* _reset_after_fork).                                                     *)
THEOREM OwnState == Spec => []OwnAgent
<1>1. IInv => OwnAgent
  BY DEF IInv
<1> QED
  BY WorkersInvariance, <1>1, PTL

(* The processes that find an id in the file go by it, and none by a blank *)
(* one (resolve_install_id).                                               *)
THEOREM OneIdentity == Spec => []Agreed
<1>1. IInv => Agreed
  BY DEF IInv, IdInv, Named, Undisturbed, Agreed
<1> QED
  BY WorkersInvariance, <1>1, PTL

(* No request goes over another process's connection                       *)
(* (_ensure_client_for_current_process, _reset_after_fork).                *)
THEOREM SocketsPrivate == Spec => SocketPrivate
<1>1. IInv /\ [Next]_vars => [\A p \in Procs : Send(p) => agent'[p].client = p]_vars
  <2> SUFFICES ASSUME IInv, NEW p \in Procs, Send(p) PROVE agent'[p].client = p
    OBVIOUS
  <2>1. agent \in [Procs -> Agents] /\ (agent[p].pid = p => agent[p].client \in {p, NoProc})
    BY DEF IInv, TypeOK, Agents, ClientOwn
  <2>2. agent'[p] = [EnsureClient(p) EXCEPT !.items = {}]
    BY <2>1 DEF Send, Set
  <2>3. EnsureClient(p).client = p
    BY <2>1 DEF EnsureClient, Initialize, Agents
  <2> QED
    BY <2>1, <2>2, <2>3 DEF EnsureClient, Agents
<1> QED
  BY WorkersInvariance, <1>1, PTL DEF Spec, SocketPrivate
=============================================================================
