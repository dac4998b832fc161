------------------------------- MODULE InstallId ------------------------------
(***************************************************************************)
(* resolve_install_id: the processes of one installation share a file that *)
(* holds the id they send with every request.  A process reads the file    *)
(* and goes by what it holds; if there is none it makes an id up and       *)
(* writes it, without a lock and without reading it back.  The file is     *)
(* emptied when it is opened and filled by a later write, so that a crash, *)
(* or a reader in between, finds it blank.                                 *)
(***************************************************************************)
EXTENDS Integers, FiniteSets

CONSTANTS
  Procs,        \* processes
  Ids,          \* bound: ids that can be made up, each only once (uuid4)
  NoId          \* no id; the content of a blank file

ASSUME NoIdAssumption == NoId \notin Ids

VARIABLES
  exists,       \* the file exists
  content,      \* what it holds
  used,         \* ids made up so far
  phase,        \* of each process: "out", the next thing it does ("read",
                \* "open", "write"), or "resolved"
  id            \* the id it has resolved or made up in this phase

(* History, for the properties only. *)
VARIABLES
  settled,      \* the file's id when the process began, if nothing disturbed it
  misread       \* reading the file has failed

fileVars == <<exists, content>>
idVars   == <<fileVars, used, phase, id, settled, misread>>

Minting == {p \in Procs : phase[p] \in {"open", "write"}}
-----------------------------------------------------------------------------
IdInit ==
  /\ exists = FALSE /\ content = NoId
  /\ used = {}
  /\ phase = [p \in Procs |-> "out"]
  /\ id = [p \in Procs |-> NoId]
  /\ settled = [p \in Procs |-> NoId]
  /\ misread = FALSE

Mint(p) ==              \* str(uuid4())
  /\ \E i \in Ids \ used : used' = used \cup {i} /\ id' = [id EXCEPT ![p] = i]
  /\ phase' = [phase EXCEPT ![p] = "open"]

Resolve(p) ==
  /\ phase[p] = "out"
  /\ settled' = [settled EXCEPT ![p] = IF Minting = {} THEN content ELSE NoId]
  /\ IF exists THEN phase' = [phase EXCEPT ![p] = "read"] /\ UNCHANGED <<used, id>>
               ELSE Mint(p)
  /\ UNCHANGED <<fileVars, misread>>

ReadBlind(p) ==         \* mutant: what the file holds is not used
  /\ phase[p] = "read"
  /\ Mint(p)
  /\ UNCHANGED <<fileVars, settled, misread>>

Read(p) ==
  /\ phase[p] = "read"
  /\ IF content = NoId
       THEN Mint(p)
       ELSE /\ id' = [id EXCEPT ![p] = content]
            /\ phase' = [phase EXCEPT ![p] = "resolved"]
            /\ UNCHANGED used
  /\ UNCHANGED <<fileVars, settled, misread>>

ReadFails(p) ==         \* OSError, as if there were no file
  /\ phase[p] = "read"
  /\ misread' = TRUE
  /\ Mint(p)
  /\ UNCHANGED <<fileVars, settled>>

Open(p) ==              \* write_text creates the file or empties it
  /\ phase[p] = "open"
  /\ exists' = TRUE /\ content' = NoId
  /\ phase' = [phase EXCEPT ![p] = "write"]
  /\ UNCHANGED <<used, id, settled, misread>>

Write(p) ==
  /\ phase[p] = "write"
  /\ content' = id[p]
  /\ phase' = [phase EXCEPT ![p] = "resolved"]
  /\ UNCHANGED <<exists, used, id, settled, misread>>

WriteFails(p) ==        \* OSError from the open or the write: the id is used
  /\ phase[p] \in {"open", "write"}
  /\ phase' = [phase EXCEPT ![p] = "resolved"]
  /\ UNCHANGED <<fileVars, used, id, settled, misread>>

Resolved(p) ==          \* the caller has got the id, or an exception
  /\ phase' = [phase EXCEPT ![p] = "out"]
  /\ id' = [id EXCEPT ![p] = NoId]
  /\ settled' = [settled EXCEPT ![p] = NoId]
  /\ UNCHANGED <<fileVars, used, misread>>

(* Of the directory only that it may not be possible to make it: an        *)
(* OSError that nobody handles, so that resolve_install_id raises.         *)
MkdirFails(p) == phase[p] = "open" /\ Resolved(p)

Resolving(p) == Read(p) \/ ReadFails(p) \/ Open(p) \/ Write(p) \/ WriteFails(p)
-----------------------------------------------------------------------------
IdTypeOK ==
  /\ exists \in BOOLEAN /\ misread \in BOOLEAN
  /\ content \in Ids \cup {NoId} /\ used \subseteq Ids
  /\ phase \in [Procs -> {"out", "read", "open", "write", "resolved"}]
  /\ {id, settled} \subseteq [Procs -> Ids \cup {NoId}]

(* No process goes by a blank id, though it may read the file while        *)
(* another one is about to write it, or after that one has crashed.  And   *)
(* one that starts when the file holds an id and nobody is about to write  *)
(* goes by that id, whatever the others do meanwhile, unless reading the   *)
(* file has failed for one of them: the one that cannot read the id        *)
(* replaces it.                                                            *)
Agreed ==
  \A p \in Procs : phase[p] = "resolved" =>
    /\ id[p] # NoId
    /\ settled[p] # NoId => id[p] = settled[p] \/ misread
=============================================================================
