----------------------------- MODULE DaemonInv -----------------------------
(***************************************************************************)
(* The inductive invariant of the server processes (module Daemon) that    *)
(* the PID file rests on: who writes it, what it will hold then, and which *)
(* servers it must name.                                                   *)
(***************************************************************************)
EXTENDS Daemon

\* What the PID file, or somebody who read it, may hold.
Content ==
  [kind : {"none", "torn", "ok"}, pid : Server \cup {0}, auth : Server \cup {0},
   state : {"", "n", "y", "error"}]

\* The string is that of the process, and only a whole file names one.
Sound(c) == c \in Content /\ c.auth = c.pid /\ (c.pid # 0 => c.kind = "ok")

\* Every variable has its type.
DaemonTypeOK ==
  /\ mix \in Mixes
  /\ file \in Content
  /\ writers \subseteq {"launcher", "waiter"} \X Server
  /\ command \in [op : {"none", "stop", "state", "signal"}, read : Content]
  /\ launcher \in [Server -> {"off", "remove", "spawn", "create", "write", "poll", "over"}]
  /\ seen \in [{"launcher", "waiter"} -> [Server -> Content]]
  /\ main \in [Server -> {"off", "prepare", "load", "listen", "result", "failed", "accept",
                          "exitsignal", "theend", "finish", "exited"}]
  /\ auth \in [Server -> Server \cup {0}]
  /\ sig \in [Server -> {"off", "wait", "void", "confirm", "done"}]
  /\ waiter \in [Server -> [at : {"off", "wait", "load", "create", "write", "closed"},
                            result : {"", "y", "error"}]]
  /\ pending \in [Server -> SUBSET (Tx \cup {Void})]
  /\ adding \in [Server -> SUBSET Tx]
  /\ signalling \in [Server -> SUBSET Tx]
  /\ builder \in [Server -> {"off", "idle", "busy", "exited"}]
  /\ queue \in [Server -> Seq(Tx \cup {Exit})]
  /\ told \in [Server -> {"no", "early", "heard"}]
  /\ pool \in [Server -> SUBSET Tx]
  /\ tried \in [Server -> SUBSET Tx]
  /\ raced \in BOOLEAN

\* All that was read from the file is sound, as the file is.
ContentInv ==
  /\ Sound(file) /\ Sound(command.read)
  /\ \A role \in {"launcher", "waiter"}, s \in Server : Sound(seen[role][s])

\* One command at a time starts, stops or looks for a server.
CommandInv ==
  /\ IF command.op = "none" THEN command = Idle ELSE command.read.kind = "ok"
  /\ command.op = "state" => ~ checkProcessExists(command.read.pid)
  /\ \A s \in Server : ~ Over(launcher[s]) =>
       command = Idle /\ \A t \in Server : ~ Over(launcher[t]) => t = s

(***************************************************************************)
(* A process lives once: not before its launcher has started it, and its   *)
(* goroutines only as long as it does.  A launcher removes the file of a   *)
(* dead process only.                                                      *)
(***************************************************************************)
LivesOnce(s) ==
  /\ launcher[s] \in {"off", "remove", "spawn"} => main[s] = "off"
  /\ launcher[s] = "remove" => ~ checkProcessExists(seen["launcher"][s].pid)
  /\ main[s] \in {"off", "prepare", "load", "exited"} =>
       sig[s] = "off" /\ waiter[s].at = "off" /\ builder[s] = "off"
  /\ <<"waiter", s>> \in writers => waiter[s].at = "write" \/ main[s] = "exited"

ProcessInv == \A s \in Server : LivesOnce(s)

-----------------------------------------------------------------------------
\* A process that nobody has told to stop, or read the file to do so.
Up(s) ==
  /\ main[s] \notin {"off", "exited"}
  /\ sig[s] \in {"off", "wait"}
  /\ command.read.pid # s

\* The PID file names s, or will when who has it open has written it.
Held(s) ==
  IF writers = {} THEN file.pid = s
  ELSE \A w \in writers : IF w[1] = "launcher" THEN w[2] = s ELSE seen["waiter"][w[2]].pid = s

\* At most one has the file open, and then it is torn.
WriterInv == writers = {} \/ (file = Torn /\ \E w \in writers : writers = {w})

(***************************************************************************)
(* As long as nobody acted on what was not, or not any more, in the file:  *)
(* it stands for every server that is up, except for one whose launcher is *)
(* about to create it; a launcher removes no torn file, and starts a       *)
(* server only when no other is up.                                        *)
(***************************************************************************)
FoundInv ==
  \A s \in Server :
    /\ Up(s) /\ launcher[s] # "create" => Held(s)
    /\ launcher[s] = "remove" => seen["launcher"][s] # Torn
    /\ launcher[s] \in {"spawn", "create"} => \A t \in Server : Up(t) => t = s

\* A server has read its own string.
AuthInv == \A s \in Server : main[s] \notin {"off", "prepare", "load", "exited"} => auth[s] = s

PidFileInv == WriterInv /\ FoundInv /\ AuthInv

DaemonInvariant ==
  /\ DaemonTypeOK
  /\ ContentInv
  /\ CommandInv
  /\ ProcessInv
  /\ raced \/ PidFileInv
=============================================================================
