------------------------------- MODULE Daemon -------------------------------
(***************************************************************************)
(* The life of server processes (node/server/daemon.go and server.go): the *)
(* commands that start, stop and look for a server by means of the PID     *)
(* file, and the goroutines of a server: main, the one that waits for a    *)
(* signal, the one that waits for the start, handlers of requests and the  *)
(* block maker with its channel.                                           *)
(*                                                                         *)
(* The PID file is truncated and written in two steps, and everybody reads *)
(* it before acting on it.  All servers use the same port.                 *)
(***************************************************************************)
EXTENDS Naturals, Sequences

CONSTANTS
  Server,    \* server processes, by PID; each is started once
  Tx,        \* transactions that clients send
  Mixes,     \* kinds of use: which servers are started and how, which transactions
             \* are sent, and whether a server is stopped by commands or by signals
  Void,      \* the void command
  Exit,      \* the exit signal of the block maker
  Capacity   \* of channel BlockBilderChan (100)

ASSUME DaemonAssumption ==
  /\ Server \subseteq Nat \ {0}
  /\ Mixes \subseteq [servers : SUBSET Server, interactive : BOOLEAN, txs : SUBSET Tx, commands : BOOLEAN]
  /\ Void \notin Tx /\ Exit \notin Tx
  /\ Capacity \in Nat \ {0}

VARIABLES
  mix,
  file,       \* the PID file: [kind, pid, auth, state]
  writers,    \* <<role, s>>: has the present file open for writing
  command,    \* the stop or showstate command that runs: [op, read]
  \* of each server
  launcher,   \* the command that starts it
  seen,       \* what its launcher, and its waiting goroutine, read from the PID file
  main,       \* the main goroutine
  auth,       \* NodeAuthStr
  sig,        \* the goroutine that waits for a signal
  waiter,     \* the goroutine that waits for the start, with the result it got
  pending,    \* connections that are not accepted yet
  adding, signalling,  \* transactions whose handler is at the pool, and at the channel
  builder, queue,      \* the block maker and its channel
  \* history
  told,       \* a SIGTERM arrived: "no", "early" (before it listened) or "heard"
  pool,       \* transactions that were added to the pool
  tried,      \* transactions that were in the pool when an attempt to make a block began
  raced       \* somebody acted on what was not, or not any more, in the PID file

pidfile == <<file, writers>>
process == <<main, auth, sig, waiter, pending, adding, signalling, builder, queue, told, pool, tried>>
vars    == <<mix, pidfile, command, launcher, seen, process, raced>>

NoFile == [kind |-> "none", pid |-> 0, auth |-> 0, state |-> ""]
Torn   == [kind |-> "torn", pid |-> 0, auth |-> 0, state |-> ""]
PidFile(pid, authstr, state) == [kind |-> "ok", pid |-> pid, auth |-> authstr, state |-> state]
Idle   == [op |-> "none", read |-> NoFile]

Of(v) == [s \in Server |-> v]

Init ==
  /\ mix \in Mixes
  /\ file = NoFile /\ writers = {}
  /\ command = Idle
  /\ launcher = Of("off")
  /\ seen = [role \in {"launcher", "waiter"} |-> Of(NoFile)]
  /\ main = Of("off") /\ auth = Of(0) /\ sig = Of("off")
  /\ waiter = Of([at |-> "off", result |-> ""])
  /\ pending = Of({}) /\ adding = Of({}) /\ signalling = Of({})
  /\ builder = Of("off") /\ queue = Of(<<>>)
  /\ told = Of("no") /\ pool = Of({}) /\ tried = Of({})
  /\ raced = FALSE

-----------------------------------------------------------------------------
(***************************************************************************)
(* The PID file.  A write reaches the present file only if that was not    *)
(* removed since the writer opened it.                                     *)
(***************************************************************************)
CreateFile(w) ==
  /\ file' = Torn
  /\ writers' = writers \cup {w}

WriteFile(w, content) ==
  /\ file' = IF w \in writers THEN content ELSE file
  /\ writers' = writers \ {w}

RemoveFile == file' = NoFile /\ writers' = {}

checkProcessExists(s) == s \in Server /\ main[s] \notin {"off", "exited"}

\* loadPIDFile gives a PID > 0.
Names(content) == content.kind = "ok" /\ content.pid > 0

-----------------------------------------------------------------------------
(***************************************************************************)
(* StartServer and StartServerInteractive of the daemon object.            *)
(***************************************************************************)
Launch(s, l) == launcher' = [launcher EXCEPT ![s] = l]
Over(l) == l \in {"off", "over"}

\* One command is given after the other.
NoCommandRuns == command = Idle /\ \A t \in Server : Over(launcher[t])

\* What is read is remembered until it is acted on.
Saw(role, s, content) == seen' = [seen EXCEPT ![role][s] = content]

\* checkPIDFile
CheckPID_removesLive(s) ==
  /\ launcher[s] = "off"
  /\ s \in mix.servers /\ \A t \in mix.servers : t < s => launcher[t] # "off"
  /\ NoCommandRuns
  /\ Saw("launcher", s, file)
  /\ Launch(s, IF file.kind = "none" THEN "spawn" ELSE "remove")
  /\ raced' = (raced \/ file.kind = "torn")
  /\ UNCHANGED <<pidfile, command, process>>

CheckPID(s) ==
  /\ launcher[s] = "off"
  /\ s \in mix.servers /\ \A t \in mix.servers : t < s => launcher[t] # "off"
  /\ NoCommandRuns
  /\ Saw("launcher", s, file)
  /\ Launch(s, IF file.kind = "none" THEN "spawn"
               ELSE IF Names(file) /\ checkProcessExists(file.pid) THEN "over"
               ELSE "remove")
  /\ raced' = (raced \/ file.kind = "torn")
  /\ UNCHANGED <<pidfile, command, process>>

CheckPIDRemove(s) ==
  /\ launcher[s] = "remove"
  /\ RemoveFile
  /\ Launch(s, "spawn")
  /\ Saw("launcher", s, NoFile)
  /\ raced' = (raced \/ file # seen["launcher"][s])
  /\ UNCHANGED <<command, process>>

\* checkArgumentsAreFine returns an error.
BadArguments(s) ==
  /\ launcher[s] = "spawn"
  /\ Launch(s, "over")
  /\ UNCHANGED <<pidfile, command, seen, process, raced>>

\* cmd.Start; an interactive server is this process itself.
Spawn(s) ==
  /\ launcher[s] = "spawn"
  /\ main' = [main EXCEPT ![s] = IF mix.interactive THEN "prepare" ELSE "load"]
  /\ Launch(s, "create")
  /\ UNCHANGED <<pidfile, command, seen, auth, sig, waiter, pending, adding, signalling,
                 builder, queue, told, pool, tried, raced>>

LaunchCreate(s) ==
  /\ launcher[s] = "create"
  /\ CreateFile(<<"launcher", s>>)
  /\ raced' = (raced \/ writers # {})
  /\ Launch(s, "write")
  /\ UNCHANGED <<command, seen, process>>

LaunchWrite(s) ==
  /\ launcher[s] = "write"
  /\ WriteFile(<<"launcher", s>>, PidFile(s, s, IF mix.interactive THEN "y" ELSE "n"))
  /\ Launch(s, IF mix.interactive THEN "over" ELSE "poll")
  /\ main' = IF main[s] = "prepare" THEN [main EXCEPT ![s] = "load"] ELSE main
  /\ UNCHANGED <<command, seen, auth, sig, waiter, pending, adding, signalling, builder,
                 queue, told, pool, tried, raced>>

\* The loop reads the file every second until it holds a result, is missing
\* or torn, or for twelve rounds; what the command reports is left out.
Poll(s) ==
  /\ launcher[s] = "poll"
  /\ Launch(s, "over")
  /\ UNCHANGED <<pidfile, command, seen, process, raced>>

-----------------------------------------------------------------------------
(***************************************************************************)
(* StopServer and GetServerState.                                          *)
(***************************************************************************)
Command(op) ==
  /\ mix.commands
  /\ NoCommandRuns
  /\ Names(file)
  /\ op = "state" => ~ checkProcessExists(file.pid)
  /\ command' = [op |-> op, read |-> file]
  /\ UNCHANGED <<pidfile, launcher, seen, process, raced>>

CommandRemoves ==
  /\ command.op \in {"stop", "state"}
  /\ RemoveFile
  /\ command' = IF command.op = "stop" THEN [command EXCEPT !.op = "signal"] ELSE Idle
  /\ raced' = (raced \/ file # command.read)
  /\ UNCHANGED <<launcher, seen, process>>

(***************************************************************************)
(* SIGTERM: the goroutine takes it (and stops taking signals, and closes   *)
(* StopMainChan), or the process ends at once.                             *)
(***************************************************************************)
Listening(s) == main[s] \in {"result", "accept"}

Die(s) ==
  /\ main' = [main EXCEPT ![s] = "exited"]
  /\ sig' = [sig EXCEPT ![s] = "off"]
  /\ waiter' = [waiter EXCEPT ![s] = [at |-> "off", result |-> ""]]
  /\ pending' = [pending EXCEPT ![s] = {}]
  /\ adding' = [adding EXCEPT ![s] = {}]
  /\ signalling' = [signalling EXCEPT ![s] = {}]
  /\ builder' = [builder EXCEPT ![s] = "off"]
  /\ queue' = [queue EXCEPT ![s] = <<>>]
  /\ auth' = [auth EXCEPT ![s] = 0]
  /\ told' = [told EXCEPT ![s] = "no"]
  /\ UNCHANGED <<pool, tried>>

Sigterm(s) ==
  \/ /\ sig[s] = "wait"
     /\ sig' = [sig EXCEPT ![s] = "void"]
     /\ told' = [told EXCEPT ![s] = IF Listening(s) THEN "heard" ELSE "early"]
     /\ UNCHANGED <<main, auth, waiter, pending, adding, signalling, builder, queue, pool, tried>>
  \/ sig[s] # "wait" /\ Die(s)

\* An interactive server that ends before it served ends its launcher too.
EndLauncher(s) ==
  launcher' = IF mix.interactive /\ ~ Over(launcher[s]) THEN [launcher EXCEPT ![s] = "over"] ELSE launcher

StopSignals ==
  /\ command.op = "signal"
  /\ LET s == command.read.pid
     IN  IF checkProcessExists(s) THEN Sigterm(s) /\ EndLauncher(s) ELSE UNCHANGED <<process, launcher>>
  /\ command' = Idle
  /\ UNCHANGED <<pidfile, seen, raced>>

\* A signal that is not from StopServer.
Terminate(s) ==
  /\ ~ mix.commands
  /\ checkProcessExists(s)
  /\ Sigterm(s) /\ EndLauncher(s)
  /\ UNCHANGED <<pidfile, command, seen, raced>>

-----------------------------------------------------------------------------
(***************************************************************************)
(* DaemonizeServer and StartServer of the server: the main goroutine.      *)
(***************************************************************************)
Main(s, l) == main' = [main EXCEPT ![s] = l]

\* NodeAuthStr is read from the PID file; the two goroutines are started.
Daemonize(s) ==
  /\ main[s] = "load"
  /\ auth' = [auth EXCEPT ![s] = file.auth]
  /\ raced' = (raced \/ file.pid # s)
  /\ sig' = [sig EXCEPT ![s] = "wait"]
  /\ waiter' = [waiter EXCEPT ![s].at = "wait"]
  /\ Main(s, "listen")
  /\ UNCHANGED <<pidfile, command, launcher, seen, pending, adding, signalling, builder, queue, told,
                 pool, tried>>

\* Fails when the port is taken, or for a reason of the system.
Listen(s, good) ==
  /\ main[s] = "listen"
  /\ good => \A t \in Server : ~ Listening(t)
  /\ Main(s, IF good THEN "result" ELSE "failed")
  /\ UNCHANGED <<pidfile, command, launcher, seen, auth, sig, waiter, pending, adding, signalling,
                 builder, queue, told, pool, tried, raced>>

\* serverStartResult <- "" or the error: meets the waiting goroutine.
SendResult(s) ==
  /\ main[s] \in {"result", "failed"}
  /\ waiter[s].at = "wait"
  /\ LET good == main[s] = "result"
     IN  /\ waiter' = [waiter EXCEPT ![s] = [at |-> "load", result |-> IF good THEN "y" ELSE "error"]]
         /\ builder' = IF good THEN [builder EXCEPT ![s] = "idle"] ELSE builder
         /\ Main(s, IF good THEN "accept" ELSE "finish")
  /\ UNCHANGED <<pidfile, command, launcher, seen, auth, sig, pending, adding, signalling, queue, told,
                 pool, tried, raced>>

\* A connection is accepted; when StopMainChan is closed the port is closed
\* and StopMainConfirmChan too, whatever the connection brought.
Accept(s, c) ==
  /\ main[s] = "accept"
  /\ c \in pending[s]
  /\ IF sig[s] # "wait"
     THEN Main(s, "exitsignal") /\ pending' = [pending EXCEPT ![s] = {}] /\ UNCHANGED adding
     ELSE /\ pending' = [pending EXCEPT ![s] = @ \ {c}]
          /\ adding' = [adding EXCEPT ![s] = @ \cup ({c} \ {Void})]
          /\ UNCHANGED main
  /\ UNCHANGED <<pidfile, command, launcher, seen, auth, sig, waiter, signalling, builder, queue, told,
                 pool, tried, raced>>

SendExit(s) ==
  /\ main[s] = "exitsignal"
  /\ Len(queue[s]) < Capacity
  /\ queue' = [queue EXCEPT ![s] = Append(@, Exit)]
  /\ Main(s, "theend")
  /\ UNCHANGED <<pidfile, command, launcher, seen, auth, sig, waiter, pending, adding, signalling,
                 builder, told, pool, tried, raced>>

\* <-theendchan, unless the start failed; <-serverStartResult; the end of the process.
Finish(s) ==
  /\ main[s] = "finish" \/ (main[s] = "theend" /\ sig[s] = "done")
  /\ waiter[s].at = "closed"
  /\ IF mix.interactive
     THEN RemoveFile /\ raced' = (raced \/ (file # NoFile /\ file.pid # s))
     ELSE UNCHANGED <<pidfile, raced>>
  /\ Die(s)
  /\ UNCHANGED <<command, launcher, seen>>

MainStep(s) ==
  \/ Daemonize(s) \/ Listen(s, TRUE) \/ Listen(s, FALSE) \/ SendResult(s)
  \/ \E c \in Tx \cup {Void} : Accept(s, c)
  \/ SendExit(s) \/ Finish(s)

-----------------------------------------------------------------------------
(***************************************************************************)
(* The goroutine that waits for a signal, after it got one.                *)
(***************************************************************************)
SendVoid_nowhere(s) ==
  /\ sig[s] = "void"
  /\ sig' = [sig EXCEPT ![s] = "confirm"]
  /\ UNCHANGED <<pidfile, command, launcher, seen, main, auth, waiter, pending, adding, signalling, builder,
                 queue, told, pool, tried, raced>>

SendVoid(s) ==
  /\ sig[s] = "void"
  /\ pending' = IF Listening(s) THEN [pending EXCEPT ![s] = @ \cup {Void}] ELSE pending
  /\ sig' = [sig EXCEPT ![s] = "confirm"]
  /\ UNCHANGED <<pidfile, command, launcher, seen, main, auth, waiter, adding, signalling, builder,
                 queue, told, pool, tried, raced>>

\* <-StopMainConfirmChan, and the PID file is removed.
SignalRemoves(s) ==
  /\ sig[s] = "confirm"
  /\ main[s] \in {"exitsignal", "theend", "finish"}
  /\ RemoveFile
  /\ sig' = [sig EXCEPT ![s] = "done"]
  /\ raced' = (raced \/ (file # NoFile /\ file.pid # s))
  /\ UNCHANGED <<command, launcher, seen, main, auth, waiter, pending, adding, signalling, builder,
                 queue, told, pool, tried>>

SignalStep(s) == SendVoid(s) \/ SignalRemoves(s)

(***************************************************************************)
(* waitServerStarted: what was read is written again, with the result.  A  *)
(* missing file is read as PID -1 (here 0), without an error.              *)
(***************************************************************************)
WaiterAt(s, l) == waiter' = [waiter EXCEPT ![s] = [at |-> l, result |-> IF l = "closed" THEN "" ELSE @.result]]

WaiterLoads(s) ==
  /\ waiter[s].at = "load"
  /\ Saw("waiter", s, IF file.kind = "torn" THEN NoFile ELSE file)
  /\ WaiterAt(s, IF file.kind = "torn" THEN "closed" ELSE "create")
  /\ UNCHANGED <<pidfile, command, launcher, main, auth, sig, pending, adding, signalling, builder,
                 queue, told, pool, tried, raced>>

WaiterCreates(s) ==
  /\ waiter[s].at = "create"
  /\ CreateFile(<<"waiter", s>>)
  /\ raced' = (raced \/ writers # {} \/ file # seen["waiter"][s])
  /\ WaiterAt(s, "write")
  /\ UNCHANGED <<command, launcher, seen, main, auth, sig, pending, adding, signalling, builder, queue,
                 told, pool, tried>>

WaiterWrites(s) ==
  /\ waiter[s].at = "write"
  /\ WriteFile(<<"waiter", s>>,
               PidFile(seen["waiter"][s].pid, seen["waiter"][s].auth, waiter[s].result))
  /\ Saw("waiter", s, NoFile)
  /\ WaiterAt(s, "closed")
  /\ UNCHANGED <<command, launcher, main, auth, sig, pending, adding, signalling, builder, queue,
                 told, pool, tried, raced>>

WaiterStep(s) == WaiterLoads(s) \/ WaiterCreates(s) \/ WaiterWrites(s)

-----------------------------------------------------------------------------
(***************************************************************************)
(* Transactions of clients, and the block maker.                           *)
(***************************************************************************)
Connect(s, t) ==
  /\ t \in mix.txs
  /\ Listening(s)
  /\ \A r \in Server : t \notin pending[r] \cup adding[r] \cup pool[r]
  /\ pending' = [pending EXCEPT ![s] = @ \cup {t}]
  /\ UNCHANGED <<pidfile, command, launcher, seen, main, auth, sig, waiter, adding, signalling, builder,
                 queue, told, pool, tried, raced>>

\* handleTxFull, handleTxData
AddTx(s, t) ==
  /\ t \in adding[s]
  /\ adding' = [adding EXCEPT ![s] = @ \ {t}]
  /\ pool' = [pool EXCEPT ![s] = @ \cup {t}]
  /\ signalling' = [signalling EXCEPT ![s] = @ \cup {t}]
  /\ UNCHANGED <<pidfile, command, launcher, seen, main, auth, sig, waiter, pending, builder, queue,
                 told, tried, raced>>

\* A signal is dropped when the channel is full; a send on the closed
\* channel ends the process.
TryToMakeNewBlock(s, t) ==
  /\ t \in signalling[s]
  /\ IF builder[s] = "exited"
     THEN Die(s)
     ELSE /\ signalling' = [signalling EXCEPT ![s] = @ \ {t}]
          /\ queue' = IF Len(queue[s]) < Capacity THEN [queue EXCEPT ![s] = Append(@, t)] ELSE queue
          /\ UNCHANGED <<main, auth, sig, waiter, pending, adding, builder, told, pool, tried>>
  /\ UNCHANGED <<pidfile, command, launcher, seen, raced>>

BuilderTakes(s) ==
  /\ builder[s] = "idle"
  /\ queue[s] # <<>>
  /\ queue' = [queue EXCEPT ![s] = Tail(@)]
  /\ IF Head(queue[s]) = Exit
     THEN builder' = [builder EXCEPT ![s] = "exited"] /\ UNCHANGED tried
     ELSE /\ builder' = [builder EXCEPT ![s] = "busy"]
          /\ tried' = [tried EXCEPT ![s] = @ \cup pool[s]]
  /\ UNCHANGED <<pidfile, command, launcher, seen, main, auth, sig, waiter, pending, adding, signalling,
                 told, pool, raced>>

BuilderReady_drains(s) ==
  /\ builder[s] = "busy"
  /\ builder' = [builder EXCEPT ![s] = "idle"]
  /\ queue' = [queue EXCEPT ![s] = SelectSeq(@, LAMBDA t : t = Exit)]
  /\ UNCHANGED <<pidfile, command, launcher, seen, main, auth, sig, waiter, pending, adding, signalling,
                 told, pool, tried, raced>>

\* The attempt is over, with or without a block.
BuilderReady(s) ==
  /\ builder[s] = "busy"
  /\ builder' = [builder EXCEPT ![s] = "idle"]
  /\ UNCHANGED <<pidfile, command, launcher, seen, main, auth, sig, waiter, pending, adding, signalling,
                 queue, told, pool, tried, raced>>

Handle(s) == \E t \in Tx : AddTx(s, t) \/ TryToMakeNewBlock(s, t)
Build(s) == BuilderTakes(s) \/ BuilderReady(s)

-----------------------------------------------------------------------------
LaunchStep(s) ==
  \/ CheckPID(s) \/ CheckPIDRemove(s) \/ BadArguments(s) \/ Spawn(s)
  \/ LaunchCreate(s) \/ LaunchWrite(s) \/ Poll(s)

\* stopnode and nodestate
ExecuteManageCommand == Command("stop") \/ Command("state") \/ CommandRemoves \/ StopSignals

Next ==
  /\ \/ \E s \in Server : LaunchStep(s) \/ Terminate(s)
     \/ ExecuteManageCommand
     \/ \E s \in Server : MainStep(s) \/ SignalStep(s) \/ WaiterStep(s) \/ Handle(s) \/ Build(s)
     \/ \E s \in Server, t \in Tx : Connect(s, t)
  /\ UNCHANGED mix

Spec == Init /\ [][Next]_vars

(***************************************************************************)
(* The goroutines of a process run; an attempt to make a block ends.       *)
(* Nobody is obliged to give a command or to send a transaction.           *)
(***************************************************************************)
InMix(A) == A /\ UNCHANGED mix

FairSpec ==
  /\ Spec
  /\ \A s \in Server :
       /\ WF_vars(InMix(MainStep(s))) /\ WF_vars(InMix(SignalStep(s))) /\ WF_vars(InMix(WaiterStep(s)))
       /\ WF_vars(InMix(Handle(s))) /\ WF_vars(InMix(Build(s)))

-----------------------------------------------------------------------------
(***************************************************************************)
(* Properties.                                                             *)
(***************************************************************************)

(***************************************************************************)
(* The PID file finds the server: a server that accepts connections and    *)
(* was not told to stop is named by the PID file, with the string that it  *)
(* takes for authentication, when nobody writes the file, or died writing; *)
(* except if some step before acted on a PID file that was torn, not there *)
(* yet, or not any more what had been read.  Commands that start, stop and *)
(* look for servers, failed starts and dead processes do not suffice.      *)
(***************************************************************************)
Serves(s) ==
  /\ main[s] = "accept" /\ sig[s] = "wait" /\ waiter[s].at = "closed"
  /\ Over(launcher[s]) /\ command.read.pid # s

ServerIsFound ==
  \A s \in Server : Serves(s) /\ writers = {} /\ ~ raced => file.kind = "ok" /\ file.pid = s /\ file.auth = auth[s]

(***************************************************************************)
(* A server that listens when SIGTERM arrives ends, although Accept waits  *)
(* for connections, the block maker may be busy and its channel full, and  *)
(* the goroutine that reports the start may not be ready.                  *)
(***************************************************************************)
StopEnds == []<>(\A s \in Server : told[s] = "heard" => main[s] = "exited")

(***************************************************************************)
(* "If yes, we will skip adding a signal. this will not be a problem"      *)
(* (server.go): although signals are dropped when the channel is full, an  *)
(* attempt to make a block begins after every new transaction.  There are  *)
(* finitely many transactions, and servers that may be stopped (above).    *)
(***************************************************************************)
EveryTxIsTried == []<>(\A s \in Server : pool[s] \subseteq tried[s] \/ main[s] = "exited")
=============================================================================
