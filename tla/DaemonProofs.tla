---------------------------- MODULE DaemonProofs ----------------------------
(***************************************************************************)
(* Proofs about server processes and the PID file, for every set of        *)
(* servers, of transactions and of ways to use them.                       *)
(***************************************************************************)
EXTENDS DaemonInv, TLAPS

\* A PID is not 0, which stands for a file that names nobody.
LEMMA NoPidIsZero == 0 \notin Server
  BY DaemonAssumption

\* The files that are written and removed.
LEMMA ContentTypes ==
  /\ NoFile \in Content /\ Torn \in Content /\ Idle \in [op : {"none", "stop", "state", "signal"}, read : Content]
  /\ \A p \in Server \cup {0}, a \in Server \cup {0}, state \in {"", "n", "y", "error"} :
       PidFile(p, a, state) \in Content
  BY DEF NoFile, Torn, Idle, PidFile, Content

-----------------------------------------------------------------------------
(***************************************************************************)
(* Types.                                                                  *)
(***************************************************************************)

LEMMA InitTypes == Init => DaemonTypeOK
<1> SUFFICES ASSUME Init
             PROVE  DaemonTypeOK
  OBVIOUS
<1>1. /\ file \in Content
      /\ command \in [op : {"none", "stop", "state", "signal"}, read : Content]
      /\ seen \in [{"launcher", "waiter"} -> [Server -> Content]]
  BY ContentTypes DEF Init, Of
<1>2. raced \in BOOLEAN
  BY DEF Init
<1>3. <<>> \in Seq(Tx \cup {Exit})
  OBVIOUS
<1>4. /\ mix \in Mixes /\ writers = {}
      /\ launcher = Of("off") /\ main = Of("off") /\ auth = Of(0) /\ sig = Of("off")
      /\ waiter = Of([at |-> "off", result |-> ""])
      /\ pending = Of({}) /\ adding = Of({}) /\ signalling = Of({})
      /\ builder = Of("off") /\ queue = Of(<<>>)
      /\ told = Of("no") /\ pool = Of({}) /\ tried = Of({})
  BY DEF Init
<1> QED
  BY <1>1, <1>2, <1>3, <1>4 DEF Of, DaemonTypeOK

\* The end of a process.
LEMMA DieTypes ==
  ASSUME DaemonTypeOK, NEW s \in Server, Die(s)
  PROVE  /\ main' \in [Server -> {"off", "prepare", "load", "listen", "result", "failed", "accept",
                                  "exitsignal", "theend", "finish", "exited"}]
         /\ auth' \in [Server -> Server \cup {0}]
         /\ sig' \in [Server -> {"off", "wait", "void", "confirm", "done"}]
         /\ waiter' \in [Server -> [at : {"off", "wait", "load", "create", "write", "closed"},
                                    result : {"", "y", "error"}]]
         /\ pending' \in [Server -> SUBSET (Tx \cup {Void})]
         /\ adding' \in [Server -> SUBSET Tx]
         /\ signalling' \in [Server -> SUBSET Tx]
         /\ builder' \in [Server -> {"off", "idle", "busy", "exited"}]
         /\ queue' \in [Server -> Seq(Tx \cup {Exit})]
         /\ told' \in [Server -> {"no", "early", "heard"}]
         /\ pool' \in [Server -> SUBSET Tx]
         /\ tried' \in [Server -> SUBSET Tx]
<1>1. <<>> \in Seq(Tx \cup {Exit})
  OBVIOUS
<1> QED
  BY <1>1 DEF DaemonTypeOK, Die

LEMMA SigtermTypes ==
  ASSUME DaemonTypeOK, NEW s \in Server, Sigterm(s), EndLauncher(s), UNCHANGED <<mix, pidfile, seen, raced>>,
         command' \in [op : {"none", "stop", "state", "signal"}, read : Content]
  PROVE  DaemonTypeOK'
<1>1. launcher' \in [Server -> {"off", "remove", "spawn", "create", "write", "poll", "over"}]
  BY DEF DaemonTypeOK, EndLauncher
<1>2. CASE Die(s)
  BY <1>1, <1>2, DieTypes DEF DaemonTypeOK, pidfile
<1>3. CASE ~ Die(s)
  <2>1. /\ UNCHANGED <<main, auth, waiter, pending, adding, signalling, builder, queue, pool, tried>>
        /\ sig' = [sig EXCEPT ![s] = "void"]
        /\ told' = [told EXCEPT ![s] = IF Listening(s) THEN "heard" ELSE "early"]
    BY <1>3 DEF Sigterm
  <2> QED
    BY <1>1, <2>1 DEF DaemonTypeOK, pidfile
<1> QED
  BY <1>2, <1>3

LEMMA LaunchTypes ==
  ASSUME DaemonTypeOK, NEW s \in Server, LaunchStep(s), UNCHANGED mix
  PROVE  DaemonTypeOK'
<1>1. CASE CheckPID(s)
  <2>1. seen' \in [{"launcher", "waiter"} -> [Server -> Content]]
    BY <1>1 DEF CheckPID, Saw, DaemonTypeOK
  <2>2. launcher' \in [Server -> {"off", "remove", "spawn", "create", "write", "poll", "over"}]
    BY <1>1 DEF CheckPID, Launch, DaemonTypeOK
  <2>3. raced' \in BOOLEAN
    BY <1>1 DEF CheckPID, DaemonTypeOK
  <2>4. UNCHANGED <<pidfile, command, process>>
    BY <1>1 DEF CheckPID
  <2> QED
    BY <2>1, <2>2, <2>3, <2>4 DEF DaemonTypeOK, pidfile, process
<1>2. CASE CheckPIDRemove(s)
  <2>1. seen' \in [{"launcher", "waiter"} -> [Server -> Content]]
    BY <1>2, ContentTypes DEF CheckPIDRemove, Saw, DaemonTypeOK
  <2>2. file' \in Content /\ writers' = {}
    BY <1>2, ContentTypes DEF CheckPIDRemove, RemoveFile
  <2>3. raced' \in BOOLEAN
    BY <1>2 DEF CheckPIDRemove, DaemonTypeOK
  <2> QED
    BY <1>2, <2>1, <2>2, <2>3 DEF CheckPIDRemove, Launch, DaemonTypeOK, process
<1>3. CASE BadArguments(s)
  BY <1>3 DEF BadArguments, Launch, DaemonTypeOK, pidfile, process
<1>4. CASE Spawn(s)
  BY <1>4 DEF Spawn, Launch, DaemonTypeOK, pidfile, process
<1>5. CASE LaunchCreate(s)
  <2>1. file' \in Content /\ writers' \subseteq {"launcher", "waiter"} \X Server
    <3>1. writers \subseteq {"launcher", "waiter"} \X Server
      BY DEF DaemonTypeOK
    <3>2. file' = Torn /\ writers' = writers \cup {<<"launcher", s>>}
      BY <1>5 DEF LaunchCreate, CreateFile
    <3>3. <<"launcher", s>> \in {"launcher", "waiter"} \X Server
      OBVIOUS
    <3>4. writers' \subseteq {"launcher", "waiter"} \X Server
      BY <3>1, <3>2, <3>3
    <3> QED
      BY <3>2, <3>4, ContentTypes
  <2>2. raced' \in BOOLEAN
    BY <1>5 DEF LaunchCreate, DaemonTypeOK
  <2> QED
    BY <1>5, <2>1, <2>2 DEF LaunchCreate, Launch, DaemonTypeOK, process
<1>6. CASE LaunchWrite(s)
  <2>1. file' \in Content /\ writers' \subseteq {"launcher", "waiter"} \X Server
    BY <1>6, ContentTypes DEF LaunchWrite, WriteFile, DaemonTypeOK
  <2>2. main' \in [Server -> {"off", "prepare", "load", "listen", "result", "failed", "accept",
                              "exitsignal", "theend", "finish", "exited"}]
    BY <1>6 DEF LaunchWrite, DaemonTypeOK
  <2> QED
    BY <1>6, <2>1, <2>2 DEF LaunchWrite, Launch, DaemonTypeOK
<1>7. CASE Poll(s)
  BY <1>7 DEF Poll, Launch, DaemonTypeOK, pidfile, process
<1> QED
  BY <1>1, <1>2, <1>3, <1>4, <1>5, <1>6, <1>7 DEF LaunchStep

LEMMA CommandTypes ==
  ASSUME DaemonTypeOK, ExecuteManageCommand, UNCHANGED mix
  PROVE  DaemonTypeOK'
<1>1. ASSUME NEW op \in {"stop", "state"}, Command(op)
      PROVE  DaemonTypeOK'
  <2>1. command' \in [op : {"none", "stop", "state", "signal"}, read : Content]
    BY <1>1 DEF Command, DaemonTypeOK
  <2>2. UNCHANGED <<pidfile, launcher, seen, process, raced>>
    BY <1>1 DEF Command
  <2> QED
    BY <2>1, <2>2 DEF DaemonTypeOK, pidfile, process
<1>2. CASE CommandRemoves
  <2>1. command' \in [op : {"none", "stop", "state", "signal"}, read : Content]
    BY <1>2, ContentTypes DEF CommandRemoves, DaemonTypeOK
  <2>2. file' \in Content /\ writers' = {}
    BY <1>2, ContentTypes DEF CommandRemoves, RemoveFile
  <2>3. raced' \in BOOLEAN
    BY <1>2 DEF CommandRemoves, DaemonTypeOK
  <2>4. UNCHANGED <<launcher, seen, process>>
    BY <1>2 DEF CommandRemoves
  <2> QED
    BY <2>1, <2>2, <2>3, <2>4 DEF DaemonTypeOK, process
<1>3. CASE StopSignals
  <2> DEFINE s == command.read.pid
  <2>1. command' \in [op : {"none", "stop", "state", "signal"}, read : Content]
    BY <1>3, ContentTypes DEF StopSignals
  <2>2. UNCHANGED <<pidfile, seen, raced>>
    BY <1>3 DEF StopSignals
  <2>3. CASE checkProcessExists(s)
    <3>1. Sigterm(s) /\ EndLauncher(s) /\ s \in Server
      BY <1>3, <2>3 DEF StopSignals, checkProcessExists
    <3> QED
      BY <2>1, <2>2, <3>1, SigtermTypes
  <2>4. CASE ~ checkProcessExists(s)
    <3>1. UNCHANGED <<process, launcher>>
      BY <1>3, <2>4 DEF StopSignals
    <3> QED
      BY <2>1, <2>2, <3>1 DEF DaemonTypeOK, pidfile, process
  <2> QED
    BY <2>3, <2>4
<1> QED
  BY <1>1, <1>2, <1>3 DEF ExecuteManageCommand

LEMMA MainTypes ==
  ASSUME DaemonTypeOK, NEW s \in Server, MainStep(s), UNCHANGED mix
  PROVE  DaemonTypeOK'
<1>1. CASE Daemonize(s)
  <2>1. auth' \in [Server -> Server \cup {0}]
    BY <1>1 DEF Daemonize, DaemonTypeOK, Content
  <2>2. raced' \in BOOLEAN
    BY <1>1 DEF Daemonize, DaemonTypeOK
  <2>3. waiter' \in [Server -> [at : {"off", "wait", "load", "create", "write", "closed"},
                                result : {"", "y", "error"}]]
    <3>1. waiter \in [Server -> [at : {"off", "wait", "load", "create", "write", "closed"},
                                 result : {"", "y", "error"}]]
      BY DEF DaemonTypeOK
    <3>2. waiter' = [waiter EXCEPT ![s].at = "wait"]
      BY <1>1 DEF Daemonize
    <3> QED
      BY <3>1, <3>2
  <2>4. /\ UNCHANGED <<pidfile, command, launcher, seen, pending, adding, signalling, builder, queue, told,
                       pool, tried>>
        /\ sig' = [sig EXCEPT ![s] = "wait"] /\ main' = [main EXCEPT ![s] = "listen"]
    BY <1>1 DEF Daemonize, Main
  <2> QED
    BY <2>1, <2>2, <2>3, <2>4 DEF DaemonTypeOK, pidfile
<1>2. ASSUME NEW good \in BOOLEAN, Listen(s, good)
      PROVE  DaemonTypeOK'
  <2>1. main' \in [Server -> {"off", "prepare", "load", "listen", "result", "failed", "accept",
                              "exitsignal", "theend", "finish", "exited"}]
    BY <1>2 DEF Listen, Main, DaemonTypeOK
  <2>2. UNCHANGED <<pidfile, command, launcher, seen, auth, sig, waiter, pending, adding, signalling,
                    builder, queue, told, pool, tried, raced>>
    BY <1>2 DEF Listen
  <2> QED
    BY <2>1, <2>2 DEF DaemonTypeOK, pidfile
<1>3. CASE SendResult(s)
  <2>1. /\ main' = [main EXCEPT ![s] = IF main[s] = "result" THEN "accept" ELSE "finish"]
        /\ waiter' = [waiter EXCEPT ![s] =
                        [at |-> "load", result |-> IF main[s] = "result" THEN "y" ELSE "error"]]
        /\ builder' = IF main[s] = "result" THEN [builder EXCEPT ![s] = "idle"] ELSE builder
    BY <1>3 DEF SendResult, Main
  <2>2. UNCHANGED <<pidfile, command, launcher, seen, auth, sig, pending, adding, signalling, queue, told,
                    pool, tried, raced>>
    BY <1>3 DEF SendResult
  <2> QED
    BY <2>1, <2>2 DEF DaemonTypeOK, pidfile
<1>4. ASSUME NEW c \in Tx \cup {Void}, Accept(s, c)
      PROVE  DaemonTypeOK'
  <2>1. /\ main' \in [Server -> {"off", "prepare", "load", "listen", "result", "failed", "accept",
                                 "exitsignal", "theend", "finish", "exited"}]
        /\ pending' \in [Server -> SUBSET (Tx \cup {Void})]
        /\ adding' \in [Server -> SUBSET Tx]
    <3>0. /\ main \in [Server -> {"off", "prepare", "load", "listen", "result", "failed", "accept",
                                  "exitsignal", "theend", "finish", "exited"}]
          /\ pending \in [Server -> SUBSET (Tx \cup {Void})]
          /\ adding \in [Server -> SUBSET Tx]
      BY DEF DaemonTypeOK
    <3>1. CASE sig[s] # "wait"
      BY <1>4, <3>0, <3>1 DEF Accept, Main
    <3>2. CASE sig[s] = "wait"
      <4>1. /\ pending' = [pending EXCEPT ![s] = @ \ {c}]
            /\ adding' = [adding EXCEPT ![s] = @ \cup ({c} \ {Void})]
            /\ UNCHANGED main
        BY <1>4, <3>2 DEF Accept
      <4>2. {c} \ {Void} \subseteq Tx
        OBVIOUS
      <4> QED
        BY <3>0, <4>1, <4>2
    <3> QED
      BY <3>1, <3>2
  <2>2. UNCHANGED <<pidfile, command, launcher, seen, auth, sig, waiter, signalling, builder, queue, told,
                    pool, tried, raced>>
    BY <1>4 DEF Accept
  <2> QED
    BY <2>1, <2>2 DEF DaemonTypeOK, pidfile
<1>5. CASE SendExit(s)
  <2>1. queue' \in [Server -> Seq(Tx \cup {Exit})]
    <3>1. queue[s] \in Seq(Tx \cup {Exit})
      BY DEF DaemonTypeOK
    <3>2. Append(queue[s], Exit) \in Seq(Tx \cup {Exit})
      BY <3>1
    <3> QED
      BY <1>5, <3>2 DEF SendExit, DaemonTypeOK
  <2>2. /\ UNCHANGED <<pidfile, command, launcher, seen, auth, sig, waiter, pending, adding, signalling,
                       builder, told, pool, tried, raced>>
        /\ main' = [main EXCEPT ![s] = "theend"]
    BY <1>5 DEF SendExit, Main
  <2> QED
    BY <2>1, <2>2 DEF DaemonTypeOK, pidfile
<1>6. CASE Finish(s)
  <2>1. file' \in Content /\ writers' \subseteq {"launcher", "waiter"} \X Server /\ raced' \in BOOLEAN
    <3>1. CASE mix.interactive
      BY <1>6, <3>1, ContentTypes DEF Finish, RemoveFile, DaemonTypeOK
    <3>2. CASE ~ mix.interactive
      BY <1>6, <3>2 DEF Finish, pidfile, DaemonTypeOK
    <3> QED
      BY <3>1, <3>2
  <2>2. Die(s) /\ UNCHANGED <<command, launcher, seen>>
    BY <1>6 DEF Finish
  <2> QED
    BY <2>1, <2>2, DieTypes DEF DaemonTypeOK
<1> QED
  BY <1>1, <1>2, <1>3, <1>4, <1>5, <1>6 DEF MainStep

LEMMA GoroutineTypes ==
  ASSUME DaemonTypeOK, NEW s \in Server, SignalStep(s) \/ WaiterStep(s), UNCHANGED mix
  PROVE  DaemonTypeOK'
<1>1. CASE SendVoid(s)
  <2>1. pending' \in [Server -> SUBSET (Tx \cup {Void})]
    BY <1>1 DEF SendVoid, DaemonTypeOK
  <2>2. /\ UNCHANGED <<pidfile, command, launcher, seen, main, auth, waiter, adding, signalling, builder,
                       queue, told, pool, tried, raced>>
        /\ sig' = [sig EXCEPT ![s] = "confirm"]
    BY <1>1 DEF SendVoid
  <2> QED
    BY <2>1, <2>2 DEF DaemonTypeOK, pidfile
<1>2. CASE SignalRemoves(s)
  <2>1. file' \in Content /\ writers' = {}
    BY <1>2, ContentTypes DEF SignalRemoves, RemoveFile
  <2>2. raced' \in BOOLEAN
    BY <1>2 DEF SignalRemoves, DaemonTypeOK
  <2>3. /\ UNCHANGED <<command, launcher, seen, main, auth, waiter, pending, adding, signalling, builder,
                       queue, told, pool, tried>>
        /\ sig' = [sig EXCEPT ![s] = "done"]
    BY <1>2 DEF SignalRemoves
  <2> QED
    BY <2>1, <2>2, <2>3 DEF DaemonTypeOK
<1>3. CASE WaiterLoads(s)
  <2>1. seen' \in [{"launcher", "waiter"} -> [Server -> Content]]
    BY <1>3, ContentTypes DEF WaiterLoads, Saw, DaemonTypeOK
  <2>2. waiter' \in [Server -> [at : {"off", "wait", "load", "create", "write", "closed"},
                                result : {"", "y", "error"}]]
    BY <1>3 DEF WaiterLoads, WaiterAt, DaemonTypeOK
  <2>3. UNCHANGED <<pidfile, command, launcher, main, auth, sig, pending, adding, signalling, builder,
                    queue, told, pool, tried, raced>>
    BY <1>3 DEF WaiterLoads
  <2> QED
    BY <2>1, <2>2, <2>3 DEF DaemonTypeOK, pidfile
<1>4. CASE WaiterCreates(s)
  <2>1. file' \in Content /\ writers' \subseteq {"launcher", "waiter"} \X Server
    <3>1. writers \subseteq {"launcher", "waiter"} \X Server
      BY DEF DaemonTypeOK
    <3>2. file' = Torn /\ writers' = writers \cup {<<"waiter", s>>}
      BY <1>4 DEF WaiterCreates, CreateFile
    <3>3. <<"waiter", s>> \in {"launcher", "waiter"} \X Server
      OBVIOUS
    <3>4. writers' \subseteq {"launcher", "waiter"} \X Server
      BY <3>1, <3>2, <3>3
    <3> QED
      BY <3>2, <3>4, ContentTypes
  <2>2. waiter' \in [Server -> [at : {"off", "wait", "load", "create", "write", "closed"},
                                result : {"", "y", "error"}]]
    BY <1>4 DEF WaiterCreates, WaiterAt, DaemonTypeOK
  <2>3. raced' \in BOOLEAN
    BY <1>4 DEF WaiterCreates, DaemonTypeOK
  <2>4. UNCHANGED <<command, launcher, seen, main, auth, sig, pending, adding, signalling, builder, queue,
                    told, pool, tried>>
    BY <1>4 DEF WaiterCreates
  <2> QED
    BY <2>1, <2>2, <2>3, <2>4 DEF DaemonTypeOK
<1>5. CASE WaiterWrites(s)
  <2>1. seen' \in [{"launcher", "waiter"} -> [Server -> Content]]
    BY <1>5, ContentTypes DEF WaiterWrites, Saw, DaemonTypeOK
  <2>2. waiter' \in [Server -> [at : {"off", "wait", "load", "create", "write", "closed"},
                                result : {"", "y", "error"}]]
    BY <1>5 DEF WaiterWrites, WaiterAt, DaemonTypeOK
  <2>3. file' \in Content
    <3> DEFINE c == seen["waiter"][s]
    <3>0. c \in Content /\ waiter[s].result \in {"", "y", "error"}
      <4>1. seen \in [{"launcher", "waiter"} -> [Server -> Content]]
        BY DEF DaemonTypeOK
      <4>2. waiter \in [Server -> [at : {"off", "wait", "load", "create", "write", "closed"},
                                   result : {"", "y", "error"}]]
        BY DEF DaemonTypeOK
      <4> QED
        BY <4>1, <4>2
    <3>1. c.pid \in Server \cup {0} /\ c.auth \in Server \cup {0}
      BY <3>0 DEF Content
    <3> HIDE DEF c
    <3>2. PidFile(c.pid, c.auth, waiter[s].result) \in Content
      BY <3>0, <3>1, ContentTypes
    <3> QED
      BY <1>5, <3>2 DEF WaiterWrites, WriteFile, DaemonTypeOK, c
  <2>4. writers' \subseteq {"launcher", "waiter"} \X Server
    BY <1>5 DEF WaiterWrites, WriteFile, DaemonTypeOK
  <2>5. UNCHANGED <<command, launcher, main, auth, sig, pending, adding, signalling, builder, queue, told,
                    pool, tried, raced>>
    BY <1>5 DEF WaiterWrites
  <2> QED
    BY <2>1, <2>2, <2>3, <2>4, <2>5 DEF DaemonTypeOK
<1> QED
  BY <1>1, <1>2, <1>3, <1>4, <1>5 DEF SignalStep, WaiterStep

LEMMA ClientTypes ==
  ASSUME DaemonTypeOK, NEW s \in Server, UNCHANGED mix,
         Handle(s) \/ Build(s) \/ \E t \in Tx : Connect(s, t)
  PROVE  DaemonTypeOK'
<1>0. /\ pending \in [Server -> SUBSET (Tx \cup {Void})]
      /\ adding \in [Server -> SUBSET Tx] /\ signalling \in [Server -> SUBSET Tx]
      /\ pool \in [Server -> SUBSET Tx] /\ tried \in [Server -> SUBSET Tx]
      /\ queue \in [Server -> Seq(Tx \cup {Exit})]
      /\ builder \in [Server -> {"off", "idle", "busy", "exited"}]
  BY DEF DaemonTypeOK
<1>1. ASSUME NEW t \in Tx, Connect(s, t)
      PROVE  DaemonTypeOK'
  <2>1. pending' \in [Server -> SUBSET (Tx \cup {Void})]
    BY <1>0, <1>1 DEF Connect
  <2>2. UNCHANGED <<pidfile, command, launcher, seen, main, auth, sig, waiter, adding, signalling, builder,
                    queue, told, pool, tried, raced>>
    BY <1>1 DEF Connect
  <2> QED
    BY <2>1, <2>2 DEF DaemonTypeOK, pidfile
<1>2. ASSUME NEW t \in Tx, AddTx(s, t)
      PROVE  DaemonTypeOK'
  <2>1. /\ adding' \in [Server -> SUBSET Tx] /\ pool' \in [Server -> SUBSET Tx]
        /\ signalling' \in [Server -> SUBSET Tx]
    BY <1>0, <1>2 DEF AddTx
  <2>2. UNCHANGED <<pidfile, command, launcher, seen, main, auth, sig, waiter, pending, builder, queue,
                    told, tried, raced>>
    BY <1>2 DEF AddTx
  <2> QED
    BY <2>1, <2>2 DEF DaemonTypeOK, pidfile
<1>3. ASSUME NEW t \in Tx, TryToMakeNewBlock(s, t)
      PROVE  DaemonTypeOK'
  <2>1. UNCHANGED <<pidfile, command, launcher, seen, raced>>
    BY <1>3 DEF TryToMakeNewBlock
  <2>2. CASE builder[s] = "exited"
    <3>1. Die(s)
      BY <1>3, <2>2 DEF TryToMakeNewBlock
    <3> QED
      BY <2>1, <3>1, DieTypes DEF DaemonTypeOK, pidfile
  <2>3. CASE builder[s] # "exited"
    <3>1. signalling' \in [Server -> SUBSET Tx]
      BY <1>0, <1>3, <2>3 DEF TryToMakeNewBlock
    <3>2. queue[s] \in Seq(Tx \cup {Exit}) /\ t \in Tx \cup {Exit}
      BY <1>0
    <3>3. Append(queue[s], t) \in Seq(Tx \cup {Exit})
      BY <3>2
    <3>4. queue' \in [Server -> Seq(Tx \cup {Exit})]
      BY <1>0, <1>3, <2>3, <3>3 DEF TryToMakeNewBlock
    <3>5. UNCHANGED <<main, auth, sig, waiter, pending, adding, builder, told, pool, tried>>
      BY <1>3, <2>3 DEF TryToMakeNewBlock
    <3> QED
      BY <2>1, <3>1, <3>4, <3>5 DEF DaemonTypeOK, pidfile
  <2> QED
    BY <2>2, <2>3
<1>4. CASE BuilderTakes(s)
  <2>1. queue[s] \in Seq(Tx \cup {Exit}) /\ queue[s] # <<>>
    BY <1>0, <1>4 DEF BuilderTakes
  <2>2. Tail(queue[s]) \in Seq(Tx \cup {Exit})
    BY <2>1
  <2>3. queue' \in [Server -> Seq(Tx \cup {Exit})]
    BY <1>0, <1>4, <2>2 DEF BuilderTakes
  <2>4. builder' \in [Server -> {"off", "idle", "busy", "exited"}] /\ tried' \in [Server -> SUBSET Tx]
    <3>1. CASE Head(queue[s]) = Exit
      <4>1. builder' = [builder EXCEPT ![s] = "exited"] /\ tried' = tried
        BY <1>4, <3>1 DEF BuilderTakes
      <4> QED
        BY <1>0, <4>1
    <3>2. CASE Head(queue[s]) # Exit
      <4>1. builder' = [builder EXCEPT ![s] = "busy"] /\ tried' = [tried EXCEPT ![s] = @ \cup pool[s]]
        BY <1>4, <3>2 DEF BuilderTakes
      <4>2. tried[s] \cup pool[s] \in SUBSET Tx
        BY <1>0
      <4> QED
        BY <1>0, <4>1, <4>2
    <3> QED
      BY <3>1, <3>2
  <2>5. UNCHANGED <<pidfile, command, launcher, seen, main, auth, sig, waiter, pending, adding, signalling,
                    told, pool, raced>>
    BY <1>4 DEF BuilderTakes
  <2> QED
    BY <2>3, <2>4, <2>5 DEF DaemonTypeOK, pidfile
<1>5. CASE BuilderReady(s)
  <2>1. builder' \in [Server -> {"off", "idle", "busy", "exited"}]
    BY <1>0, <1>5 DEF BuilderReady
  <2>2. UNCHANGED <<pidfile, command, launcher, seen, main, auth, sig, waiter, pending, adding, signalling,
                    queue, told, pool, tried, raced>>
    BY <1>5 DEF BuilderReady
  <2> QED
    BY <2>1, <2>2 DEF DaemonTypeOK, pidfile
<1> QED
  BY <1>1, <1>2, <1>3, <1>4, <1>5 DEF Handle, Build

LEMMA StepTypes == DaemonTypeOK /\ [Next]_vars => DaemonTypeOK'
<1> SUFFICES ASSUME DaemonTypeOK, [Next]_vars
             PROVE  DaemonTypeOK'
  OBVIOUS
<1>1. CASE UNCHANGED vars
  BY <1>1 DEF DaemonTypeOK, vars, pidfile, process
<1>2. CASE Next
  <2>0. UNCHANGED mix
    BY <1>2 DEF Next
  <2>1. ASSUME NEW s \in Server, Terminate(s)
        PROVE  DaemonTypeOK'
    <3>1. Sigterm(s) /\ EndLauncher(s) /\ UNCHANGED <<pidfile, command, seen, raced>>
      BY <2>1 DEF Terminate
    <3>2. command' \in [op : {"none", "stop", "state", "signal"}, read : Content]
      BY <3>1 DEF DaemonTypeOK
    <3> QED
      BY <2>0, <3>1, <3>2, SigtermTypes
  <2> QED
    BY <1>2, <2>0, <2>1, LaunchTypes, CommandTypes, MainTypes, GoroutineTypes, ClientTypes DEF Next
<1> QED
  BY <1>1, <1>2

-----------------------------------------------------------------------------
(***************************************************************************)
(* Facts about a state.                                                    *)
(***************************************************************************)

\* The functions that the steps below update.
Tables ==
  /\ DOMAIN launcher = Server /\ DOMAIN main = Server /\ DOMAIN auth = Server
  /\ DOMAIN sig = Server /\ DOMAIN waiter = Server /\ DOMAIN builder = Server
  /\ DOMAIN seen = {"launcher", "waiter"} /\ \A role \in DOMAIN seen : DOMAIN seen[role] = Server

LEMMA TypedTables == DaemonTypeOK => Tables
<1> SUFFICES ASSUME DaemonTypeOK
             PROVE  Tables
  OBVIOUS
<1>1. /\ DOMAIN launcher = Server /\ DOMAIN main = Server /\ DOMAIN auth = Server
      /\ DOMAIN sig = Server /\ DOMAIN waiter = Server /\ DOMAIN builder = Server
  BY DEF DaemonTypeOK
<1>2. seen \in [{"launcher", "waiter"} -> [Server -> Content]]
  BY DEF DaemonTypeOK
<1> QED
  BY <1>1, <1>2 DEF Tables

\* What is written, or there when nothing is, is sound.
LEMMA SoundContents ==
  /\ Sound(NoFile) /\ Sound(Torn) /\ Sound(Idle.read) /\ Idle.read.pid = 0
  /\ \A p \in Server, state \in {"", "n", "y", "error"} : Sound(PidFile(p, p, state))
<1>1. Sound(NoFile) /\ Sound(Torn)
  BY ContentTypes DEF Sound, NoFile, Torn
<1>2. Idle.read = NoFile /\ NoFile.pid = 0
  BY DEF Idle, NoFile
<1>3. ASSUME NEW p \in Server, NEW state \in {"", "n", "y", "error"}
      PROVE  Sound(PidFile(p, p, state))
  <2>1. PidFile(p, p, state) \in Content
    BY ContentTypes
  <2> QED
    BY <2>1 DEF Sound, PidFile
<1> QED
  BY <1>1, <1>2, <1>3

LEMMA KindsDiffer ==
  /\ Torn.kind = "torn" /\ Torn.pid = 0 /\ NoFile.kind = "none" /\ NoFile.pid = 0 /\ Torn # NoFile
  /\ Idle.op = "none" /\ Idle.read = NoFile
  /\ \A p, a, state : PidFile(p, a, state).kind = "ok" /\ PidFile(p, a, state).pid = p
                      /\ PidFile(p, a, state).auth = a
<1>1. Torn.kind = "torn" /\ Torn.pid = 0 /\ NoFile.kind = "none" /\ NoFile.pid = 0
  BY DEF Torn, NoFile
<1>2. Torn # NoFile
  BY <1>1
<1> QED
  BY <1>1, <1>2 DEF Idle, PidFile

\* When the file is not torn, a server is held by what it names.
LEMMA HeldByFile ==
  ASSUME WriterInv, NEW s, Held(s), file # Torn
  PROVE  writers = {} /\ file.pid = s
  BY DEF WriterInv, Held

\* The parts of the invariant that say more than types.
Parts ==
  /\ ContentInv
  /\ CommandInv
  /\ ProcessInv
  /\ raced \/ PidFileInv

\* No process comes to life.
NoneStarts == \A t \in Server : main[t] \in {"off", "exited"} => main'[t] \in {"off", "exited"}

LEMMA NoneExists ==
  ASSUME NoneStarts, NEW p, ~ checkProcessExists(p)
  PROVE  ~ checkProcessExists(p)'
  BY DEF NoneStarts, checkProcessExists

LEMMA KeepContent ==
  ASSUME ContentInv, UNCHANGED <<file, command, seen>>
  PROVE  ContentInv'
  BY DEF ContentInv, Sound

LEMMA NewContent ==
  ASSUME ContentInv, Sound(file'), Sound(command'.read),
         \A role \in {"launcher", "waiter"}, t \in Server :
           seen'[role][t] = seen[role][t] \/ Sound(seen'[role][t])
  PROVE  ContentInv'
<1>1. ASSUME NEW role \in {"launcher", "waiter"}, NEW t \in Server
      PROVE  Sound(seen'[role][t])
  BY <1>1 DEF ContentInv
<1>2. Content' = Content
  BY DEF Content
<1> QED
  BY <1>1, <1>2 DEF ContentInv, Sound

\* A step that ends commands only, and starts no process.
LEMMA KeepCommand ==
  ASSUME CommandInv, command' = command, NoneStarts \/ command = Idle,
         \A t \in Server : Over(launcher[t]) => Over(launcher'[t])
  PROVE  CommandInv'
<1>1. (IF command.op = "none" THEN command = Idle ELSE command.read.kind = "ok")'
  BY DEF CommandInv, Idle, NoFile
<1>2. (command.op = "state" => ~ checkProcessExists(command.read.pid))'
  <2>1. CASE command = Idle
    BY <2>1, KindsDiffer
  <2>2. CASE command # Idle
    BY <2>2, NoneExists DEF CommandInv
  <2> QED
    BY <2>1, <2>2
<1>3. (\A s \in Server : ~ Over(launcher[s]) =>
         command = Idle /\ \A t \in Server : ~ Over(launcher[t]) => t = s)'
  BY DEF CommandInv, Idle, NoFile, Over
<1> QED
  BY <1>1, <1>2, <1>3 DEF CommandInv

\* A launcher is the only one that runs.
LEMMA OneLauncher ==
  ASSUME NEW s \in Server, command' = Idle, \A t \in Server : t # s => Over(launcher'[t])
  PROVE  CommandInv'
<1>1. Idle' = Idle
  BY DEF Idle, NoFile
<1>2. command'.op = "none"
  BY KindsDiffer
<1>3. \A t \in Server : ~ Over(launcher'[t]) => t = s
  OBVIOUS
<1> QED
  BY <1>1, <1>2, <1>3 DEF CommandInv, Over

LEMMA LauncherRuns ==
  ASSUME Parts, NEW s \in Server, launcher[s] \notin {"off", "over"}
  PROVE  command = Idle /\ \A t \in Server : t # s => Over(launcher[t])
  BY DEF Parts, CommandInv, Over

\* A process that the step does not touch.
LEMMA OtherProcess ==
  ASSUME NEW t \in Server, LivesOnce(t), NoneStarts \/ launcher[t] # "remove",
         launcher'[t] = launcher[t], main'[t] = main[t], sig'[t] = sig[t], waiter'[t] = waiter[t],
         builder'[t] = builder[t], seen'["launcher"][t] = seen["launcher"][t],
         <<"waiter", t>> \in writers' => <<"waiter", t>> \in writers
  PROVE  LivesOnce(t)'
<1>1. (launcher[t] = "remove" => ~ checkProcessExists(seen["launcher"][t].pid))'
  BY NoneExists DEF LivesOnce
<1> QED
  BY <1>1 DEF LivesOnce

(***************************************************************************)
(* The file stands for the servers that are up as long as none more are,   *)
(* it keeps its name, and no launcher gets ahead.                          *)
(***************************************************************************)
LEMMA KeepFound ==
  ASSUME FoundInv,
         \A t \in Server : Up(t)' => Up(t),
         \A t \in Server : Up(t)' /\ Held(t) => Held(t)',
         \A t \in Server : \/ launcher'[t] = launcher[t]
                           \/ launcher'[t] \in {"poll", "over"} /\ (launcher[t] = "create" => ~ Up(t)'),
         \A t \in Server : seen'["launcher"][t] = seen["launcher"][t]
  PROVE  FoundInv'
<1>1. ASSUME NEW t \in Server, Up(t)', launcher'[t] # "create"
      PROVE  Held(t)'
  <2>1. Up(t) /\ launcher[t] # "create"
    BY <1>1
  <2> QED
    BY <1>1, <2>1 DEF FoundInv
<1>2. ASSUME NEW t \in Server, launcher'[t] = "remove"
      PROVE  seen'["launcher"][t] # Torn
  <2>1. launcher[t] = "remove"
    BY <1>2
  <2> QED
    BY <2>1 DEF FoundInv
<1>3. ASSUME NEW t \in Server, launcher'[t] \in {"spawn", "create"}, NEW u \in Server, Up(u)'
      PROVE  u = t
  <2>1. launcher[t] \in {"spawn", "create"} /\ Up(u)
    BY <1>3
  <2> QED
    BY <2>1 DEF FoundInv
<1>4. Torn' = Torn
  BY DEF Torn
<1> QED
  BY <1>1, <1>2, <1>3, <1>4 DEF FoundInv

-----------------------------------------------------------------------------
(***************************************************************************)
(* Starting a server.                                                      *)
(***************************************************************************)

LEMMA CheckPIDParts ==
  ASSUME Tables, Parts, NEW s \in Server, CheckPID(s)
  PROVE  Parts'
<1>1. /\ launcher[s] = "off" /\ command = Idle
      /\ \A t \in Server : Over(launcher[t])
      /\ seen' = [seen EXCEPT !["launcher"][s] = file]
      /\ launcher' = [launcher EXCEPT ![s] =
                        IF file.kind = "none" THEN "spawn"
                        ELSE IF Names(file) /\ checkProcessExists(file.pid) THEN "over" ELSE "remove"]
      /\ UNCHANGED <<file, writers, command, main, auth, sig, waiter, builder>>
  BY DEF CheckPID, NoCommandRuns, Launch, Saw, pidfile, process
<1>2. /\ seen'["launcher"][s] = file
      /\ \A t \in Server : t # s => seen'["launcher"][t] = seen["launcher"][t]
      /\ seen'["waiter"] = seen["waiter"]
      /\ \A t \in Server : t # s => launcher'[t] = launcher[t]
      /\ launcher'[s] \in {"spawn", "over", "remove"}
  BY <1>1 DEF Tables
<1>3. ContentInv'
  BY <1>1, <1>2 DEF Parts, ContentInv, Sound
<1>4. CommandInv'
  <2>1. \A t \in Server : t # s => Over(launcher'[t])
    BY <1>1, <1>2
  <2> QED
    BY <1>1, <2>1, OneLauncher
<1>5. ProcessInv'
  <2>0. NoneStarts
    BY <1>1 DEF NoneStarts
  <2>1. ASSUME launcher'[s] = "remove"
        PROVE  ~ checkProcessExists(file.pid)
    <3>1. ASSUME checkProcessExists(file.pid)
          PROVE  Names(file)
      <4>1. file.pid \in Server /\ file.pid \in Nat \ {0} /\ Sound(file)
        BY <3>1, DaemonAssumption DEF checkProcessExists, Parts, ContentInv
      <4>2. file.kind = "ok" /\ file.pid > 0
        BY <4>1 DEF Sound
      <4> QED
        BY <4>2 DEF Names
    <3> QED
      BY <1>1, <2>1, <3>1 DEF Tables
  <2>2. LivesOnce(s)'
    <3>1. LivesOnce(s) /\ main[s] = "off"
      BY <1>1 DEF Parts, ProcessInv, LivesOnce
    <3>2. (launcher[s] = "remove" => ~ checkProcessExists(seen["launcher"][s].pid))'
      BY <1>1, <1>2, <2>1 DEF checkProcessExists
    <3> QED
      BY <1>1, <3>1, <3>2 DEF LivesOnce
  <2>3. ASSUME NEW t \in Server, t # s
        PROVE  LivesOnce(t)'
    BY <1>1, <1>2, <2>0, <2>3, OtherProcess DEF Parts, ProcessInv
  <2> QED
    BY <2>2, <2>3 DEF ProcessInv
<1>6. ASSUME ~ raced'
      PROVE  PidFileInv'
  <2>1. ~ raced /\ file.kind # "torn" /\ PidFileInv
    BY <1>6 DEF CheckPID, Parts
  <2>2. file # Torn
    BY <2>1, KindsDiffer
  <2>3. WriterInv' /\ AuthInv'
    BY <1>1, <2>1 DEF PidFileInv, WriterInv, AuthInv, Torn
  <2>4. \A t \in Server : (Up(t)' <=> Up(t)) /\ (Held(t)' <=> Held(t))
    BY <1>1, <1>2 DEF Up, Held
  <2>5. ASSUME file.kind = "none", NEW t \in Server, Up(t)
        PROVE  FALSE
    <3>1. Held(t)
      BY <1>1, <2>1, <2>5 DEF PidFileInv, FoundInv, Over
    <3>2. file.pid = t
      BY <2>1, <2>2, <3>1, HeldByFile DEF PidFileInv
    <3>3. file.kind = "ok"
      BY <3>2, NoPidIsZero DEF Parts, ContentInv, Sound
    <3> QED
      BY <2>5, <3>3
  <2>6. \A t \in Server : launcher[t] \notin {"spawn", "create", "remove"}
    BY <1>1 DEF Over
  <2>7. FoundInv'
    <3>1. ASSUME NEW t \in Server, Up(t)', launcher'[t] # "create"
          PROVE  Held(t)'
      BY <2>1, <2>4, <2>6, <3>1 DEF PidFileInv, FoundInv
    <3>2. ASSUME NEW t \in Server, launcher'[t] = "remove"
          PROVE  seen'["launcher"][t] # Torn
      BY <1>2, <2>2, <2>6, <3>2
    <3>3. ASSUME NEW t \in Server, launcher'[t] \in {"spawn", "create"}, NEW u \in Server, Up(u)'
          PROVE  u = t
      <4>1. t = s /\ file.kind = "none"
        BY <1>1, <1>2, <2>6, <3>3 DEF Tables
      <4> QED
        BY <2>4, <2>5, <3>3, <4>1
    <3>4. Torn' = Torn
      BY DEF Torn
    <3> QED
      BY <3>1, <3>2, <3>3, <3>4 DEF FoundInv
  <2> QED
    BY <2>3, <2>7 DEF PidFileInv
<1> QED
  BY <1>3, <1>4, <1>5, <1>6 DEF Parts

LEMMA CheckPIDRemoveParts ==
  ASSUME Tables, Parts, NEW s \in Server, CheckPIDRemove(s)
  PROVE  Parts'
<1>1. /\ launcher[s] = "remove" /\ file' = NoFile /\ writers' = {}
      /\ seen' = [seen EXCEPT !["launcher"][s] = NoFile]
      /\ launcher' = [launcher EXCEPT ![s] = "spawn"]
      /\ UNCHANGED <<command, main, auth, sig, waiter, builder>>
  BY DEF CheckPIDRemove, RemoveFile, Launch, Saw, process
<1>2. /\ seen'["launcher"][s] = NoFile
      /\ \A t \in Server : t # s => seen'["launcher"][t] = seen["launcher"][t]
      /\ \A t \in Server : seen'["waiter"][t] = seen["waiter"][t]
      /\ \A t \in Server : t # s => launcher'[t] = launcher[t]
      /\ launcher'[s] = "spawn"
  BY <1>1 DEF Tables
<1>3. command = Idle /\ \A t \in Server : t # s => Over(launcher[t])
  BY <1>1, LauncherRuns
<1>4. ContentInv'
  <2>1. ContentInv /\ Sound(file') /\ Sound(command'.read)
    BY <1>1, SoundContents DEF Parts, ContentInv
  <2>2. \A role \in {"launcher", "waiter"}, t \in Server : seen'[role][t] \in {seen[role][t], NoFile}
    BY <1>2
  <2> QED
    BY <2>1, <2>2, SoundContents, NewContent
<1>5. CommandInv'
  <2>1. \A t \in Server : t # s => Over(launcher'[t])
    BY <1>2, <1>3
  <2> QED
    BY <1>1, <1>3, <2>1, OneLauncher
<1>6. ProcessInv'
  <2>1. NoneStarts
    BY <1>1 DEF NoneStarts
  <2>2. LivesOnce(s)'
    BY <1>1, <1>2 DEF Parts, ProcessInv, LivesOnce
  <2>3. ASSUME NEW t \in Server, t # s
        PROVE  LivesOnce(t)'
    BY <1>1, <1>2, <2>1, <2>3, OtherProcess DEF Parts, ProcessInv
  <2> QED
    BY <2>2, <2>3 DEF ProcessInv
<1>7. ASSUME ~ raced'
      PROVE  PidFileInv'
  <2>1. ~ raced /\ file = seen["launcher"][s] /\ PidFileInv
    BY <1>7 DEF CheckPIDRemove, Parts
  <2>2. ASSUME NEW t \in Server, Up(t)
        PROVE  FALSE
    <3>1. launcher[t] # "create"
      BY <1>1, <1>3 DEF Over
    <3>2. Held(t) /\ file # Torn
      BY <1>1, <2>1, <2>2, <3>1 DEF PidFileInv, FoundInv
    <3>3. file.pid = t
      BY <2>1, <3>2, HeldByFile DEF PidFileInv
    <3>4. ~ checkProcessExists(t)
      BY <1>1, <2>1, <3>3 DEF Parts, ProcessInv, LivesOnce
    <3> QED
      BY <2>2, <3>4 DEF Up, checkProcessExists
  <2>3. \A t \in Server : ~ Up(t)'
    BY <1>1, <2>2 DEF Up
  <2>4. \A t \in Server : launcher'[t] # "remove"
    BY <1>2, <1>3 DEF Over
  <2>5. FoundInv'
    BY <2>3, <2>4 DEF FoundInv
  <2>6. WriterInv' /\ AuthInv'
    BY <1>1, <2>1 DEF PidFileInv, WriterInv, AuthInv
  <2> QED
    BY <2>5, <2>6 DEF PidFileInv
<1> QED
  BY <1>4, <1>5, <1>6, <1>7 DEF Parts

\* BadArguments and Poll: the launcher ends.
LEMMA LauncherEndsParts ==
  ASSUME Tables, Parts, NEW s \in Server, BadArguments(s) \/ Poll(s)
  PROVE  Parts'
<1>1. /\ launcher[s] \in {"spawn", "poll"}
      /\ launcher' = [launcher EXCEPT ![s] = "over"]
      /\ UNCHANGED <<file, writers, command, seen, main, auth, sig, waiter, builder>>
      /\ raced' = raced
  BY DEF BadArguments, Poll, Launch, pidfile, process
<1>2. launcher'[s] = "over" /\ \A t \in Server : t # s => launcher'[t] = launcher[t]
  BY <1>1 DEF Tables
<1>3. NoneStarts
  BY <1>1 DEF NoneStarts
<1>4. ContentInv'
  BY <1>1, KeepContent DEF Parts
<1>5. CommandInv'
  BY <1>1, <1>2, <1>3, KeepCommand DEF Parts, Over
<1>6. ProcessInv'
  <2>1. LivesOnce(s)'
    BY <1>1, <1>2 DEF Parts, ProcessInv, LivesOnce
  <2>2. ASSUME NEW t \in Server, t # s
        PROVE  LivesOnce(t)'
    BY <1>1, <1>2, <1>3, <2>2, OtherProcess DEF Parts, ProcessInv
  <2> QED
    BY <2>1, <2>2 DEF ProcessInv
<1>7. ASSUME ~ raced'
      PROVE  PidFileInv'
  <2>1. PidFileInv
    BY <1>1, <1>7 DEF Parts
  <2>2. \A t \in Server : (Up(t)' <=> Up(t)) /\ (Held(t)' <=> Held(t))
    BY <1>1 DEF Up, Held
  <2>3. \A t \in Server : launcher'[t] = launcher[t] \/ (launcher'[t] = "over" /\ launcher[t] # "create")
    BY <1>1, <1>2
  <2>4. FoundInv'
    BY <1>1, <2>1, <2>2, <2>3, KeepFound DEF PidFileInv
  <2>5. WriterInv' /\ AuthInv'
    BY <1>1, <2>1 DEF PidFileInv, WriterInv, AuthInv, Torn
  <2> QED
    BY <2>4, <2>5 DEF PidFileInv
<1> QED
  BY <1>4, <1>5, <1>6, <1>7 DEF Parts

LEMMA SpawnParts ==
  ASSUME Tables, Parts, NEW s \in Server, Spawn(s)
  PROVE  Parts'
<1>1. /\ launcher[s] = "spawn"
      /\ main' = [main EXCEPT ![s] = IF mix.interactive THEN "prepare" ELSE "load"]
      /\ launcher' = [launcher EXCEPT ![s] = "create"]
      /\ UNCHANGED <<file, writers, command, seen, auth, sig, waiter, builder>>
      /\ raced' = raced
  BY DEF Spawn, Launch, pidfile
<1>2. /\ launcher'[s] = "create" /\ main'[s] \in {"prepare", "load"}
      /\ \A t \in Server : t # s => launcher'[t] = launcher[t] /\ main'[t] = main[t]
  BY <1>1 DEF Tables
<1>3. command = Idle /\ \A t \in Server : t # s => Over(launcher[t])
  BY <1>1, LauncherRuns
<1>4. ContentInv'
  BY <1>1, KeepContent DEF Parts
<1>5. CommandInv'
  <2>1. \A t \in Server : t # s => Over(launcher'[t])
    BY <1>2, <1>3
  <2> QED
    BY <1>1, <1>3, <2>1, OneLauncher
<1>6. ProcessInv'
  <2>1. LivesOnce(s)'
    <3>1. LivesOnce(s)
      BY DEF Parts, ProcessInv
    <3>2. main[s] = "off" /\ sig[s] = "off" /\ waiter[s].at = "off" /\ builder[s] = "off"
      BY <1>1, <3>1 DEF LivesOnce
    <3>3. <<"waiter", s>> \notin writers
      BY <3>1, <3>2 DEF LivesOnce
    <3> QED
      BY <1>1, <1>2, <3>2, <3>3 DEF LivesOnce
  <2>2. ASSUME NEW t \in Server, t # s
        PROVE  LivesOnce(t)'
    <3>1. launcher[t] # "remove"
      BY <1>3, <2>2 DEF Over
    <3> QED
      BY <1>1, <1>2, <2>2, <3>1, OtherProcess DEF Parts, ProcessInv
  <2> QED
    BY <2>1, <2>2 DEF ProcessInv
<1>7. ASSUME ~ raced'
      PROVE  PidFileInv'
  <2>1. PidFileInv
    BY <1>1, <1>7 DEF Parts
  <2>2. ASSUME NEW t \in Server, Up(t)'
        PROVE  t = s
    <3>1. ASSUME t # s
          PROVE  Up(t)
      BY <1>1, <1>2, <2>2, <3>1 DEF Up
    <3> QED
      BY <1>1, <2>1, <3>1 DEF PidFileInv, FoundInv
  <2>3. \A t \in Server : launcher'[t] # "remove" /\ (launcher'[t] \in {"spawn", "create"} => t = s)
    BY <1>2, <1>3 DEF Over
  <2>4. FoundInv'
    BY <1>2, <2>2, <2>3 DEF FoundInv
  <2>5. AuthInv'
    BY <1>1, <1>2, <2>1 DEF PidFileInv, AuthInv
  <2>6. WriterInv'
    BY <1>1, <2>1 DEF PidFileInv, WriterInv, Torn
  <2> QED
    BY <2>4, <2>5, <2>6 DEF PidFileInv
<1> QED
  BY <1>4, <1>5, <1>6, <1>7 DEF Parts

LEMMA LaunchCreateParts ==
  ASSUME Tables, Parts, NEW s \in Server, LaunchCreate(s)
  PROVE  Parts'
<1>1. /\ launcher[s] = "create" /\ file' = Torn /\ writers' = writers \cup {<<"launcher", s>>}
      /\ launcher' = [launcher EXCEPT ![s] = "write"]
      /\ UNCHANGED <<command, seen, main, auth, sig, waiter, builder>>
  BY DEF LaunchCreate, CreateFile, Launch, process
<1>2. launcher'[s] = "write" /\ \A t \in Server : t # s => launcher'[t] = launcher[t]
  BY <1>1 DEF Tables
<1>3. command = Idle /\ \A t \in Server : t # s => Over(launcher[t])
  BY <1>1, LauncherRuns
<1>4. ContentInv'
  BY <1>1, SoundContents DEF Parts, ContentInv, Sound
<1>5. CommandInv'
  <2>1. \A t \in Server : t # s => Over(launcher'[t])
    BY <1>2, <1>3
  <2> QED
    BY <1>1, <1>3, <2>1, OneLauncher
<1>6. ProcessInv'
  <2>0. \A t \in Server : <<"waiter", t>> \in writers' => <<"waiter", t>> \in writers
    BY <1>1
  <2>1. LivesOnce(s)'
    BY <1>1, <1>2, <2>0 DEF Parts, ProcessInv, LivesOnce
  <2>2. NoneStarts
    BY <1>1 DEF NoneStarts
  <2>3. ASSUME NEW t \in Server, t # s
        PROVE  LivesOnce(t)'
    BY <1>1, <1>2, <2>0, <2>2, <2>3, OtherProcess DEF Parts, ProcessInv
  <2> QED
    BY <2>1, <2>3 DEF ProcessInv
<1>7. ASSUME ~ raced'
      PROVE  PidFileInv'
  <2>1. writers = {} /\ PidFileInv
    BY <1>7 DEF LaunchCreate, Parts
  <2>2. writers' = {<<"launcher", s>>}
    BY <1>1, <2>1
  <2>3. \A t \in Server : Up(t)' => t = s
    BY <1>1, <2>1 DEF PidFileInv, FoundInv, Up
  <2>4. Held(s)'
    <3>1. \A w \in writers' : w[1] = "launcher" /\ w[2] = s
      BY <2>2
    <3>2. writers' # {}
      BY <2>2
    <3> QED
      BY <3>1, <3>2 DEF Held
  <2>5. \A t \in Server : launcher'[t] \notin {"remove", "spawn", "create"}
    BY <1>2, <1>3 DEF Over
  <2>6. FoundInv'
    BY <2>3, <2>4, <2>5 DEF FoundInv
  <2>7. WriterInv' /\ AuthInv'
    BY <1>1, <2>1, <2>2 DEF PidFileInv, WriterInv, AuthInv, Torn
  <2> QED
    BY <2>6, <2>7 DEF PidFileInv
<1> QED
  BY <1>4, <1>5, <1>6, <1>7 DEF Parts

LEMMA LaunchWriteParts ==
  ASSUME Tables, Parts, NEW s \in Server, LaunchWrite(s)
  PROVE  Parts'
<1> DEFINE w == <<"launcher", s>>
           result == IF mix.interactive THEN "y" ELSE "n"
           content == PidFile(s, s, result)
<1>1. /\ launcher[s] = "write"
      /\ file' = IF w \in writers THEN content ELSE file
      /\ writers' = writers \ {w}
      /\ launcher' = [launcher EXCEPT ![s] = IF mix.interactive THEN "over" ELSE "poll"]
      /\ main' = IF main[s] = "prepare" THEN [main EXCEPT ![s] = "load"] ELSE main
      /\ UNCHANGED <<command, seen, auth, sig, waiter, builder>>
      /\ raced' = raced
  BY DEF LaunchWrite, WriteFile, Launch
<1>2. /\ launcher'[s] \in {"over", "poll"}
      /\ \A t \in Server : t # s => launcher'[t] = launcher[t] /\ main'[t] = main[t]
      /\ main'[s] = main[s] \/ (main[s] = "prepare" /\ main'[s] = "load")
  BY <1>1 DEF Tables
<1>3. command = Idle /\ \A t \in Server : t # s => Over(launcher[t])
  BY <1>1, LauncherRuns
<1>4. Sound(content) /\ content.pid = s
  <2>1. result \in {"", "n", "y", "error"}
    OBVIOUS
  <2> HIDE DEF result
  <2>2. Sound(content)
    BY <2>1, SoundContents
  <2>3. content.pid = s
    BY DEF PidFile
  <2> QED
    BY <2>2, <2>3
<1> HIDE DEF content, result
<1>5. ContentInv'
  BY <1>1, <1>4 DEF Parts, ContentInv, Sound
<1>6. CommandInv'
  <2>1. \A t \in Server : t # s => Over(launcher'[t])
    BY <1>2, <1>3
  <2> QED
    BY <1>1, <1>3, <2>1, OneLauncher
<1>7. ProcessInv'
  <2>1. LivesOnce(s)'
    BY <1>1, <1>2 DEF Parts, ProcessInv, LivesOnce
  <2>2. NoneStarts
    BY <1>2 DEF NoneStarts
  <2>3. ASSUME NEW t \in Server, t # s
        PROVE  LivesOnce(t)'
    BY <1>1, <1>2, <2>2, <2>3, OtherProcess DEF Parts, ProcessInv
  <2> QED
    BY <2>1, <2>3 DEF ProcessInv
<1>8. ASSUME ~ raced'
      PROVE  PidFileInv'
  <2>1. PidFileInv /\ WriterInv
    BY <1>1, <1>8 DEF Parts, PidFileInv
  <2>2. \A t \in Server : Up(t)' => Up(t)
    BY <1>1, <1>2 DEF Up
  <2>3. w \in writers => writers = {w}
    BY <2>1 DEF WriterInv
  <2>4. ASSUME NEW t \in Server, Held(t)
        PROVE  Held(t)'
    <3>1. CASE w \in writers
      <4>1. writers = {w} /\ w[1] = "launcher" /\ w[2] = s
        BY <2>3, <3>1
      <4>2. t = s
        BY <2>4, <4>1 DEF Held
      <4>3. writers' = {} /\ file'.pid = s
        BY <1>1, <1>4, <3>1, <4>1
      <4> QED
        BY <4>2, <4>3 DEF Held
    <3>2. CASE w \notin writers
      BY <1>1, <2>4, <3>2 DEF Held
    <3> QED
      BY <3>1, <3>2
  <2>5. \A t \in Server : \/ launcher'[t] = launcher[t]
                          \/ launcher'[t] \in {"poll", "over"} /\ launcher[t] # "create"
    BY <1>1, <1>2
  <2>6. FoundInv'
    BY <1>1, <2>1, <2>2, <2>4, <2>5, KeepFound DEF PidFileInv
  <2>7. WriterInv'
    BY <1>1, <2>1, <2>3 DEF WriterInv, Torn
  <2>8. AuthInv'
    BY <1>1, <1>2, <2>1 DEF PidFileInv, AuthInv
  <2> QED
    BY <2>6, <2>7, <2>8 DEF PidFileInv
<1> QED
  BY <1>5, <1>6, <1>7, <1>8 DEF Parts

-----------------------------------------------------------------------------
(***************************************************************************)
(* A step of the process of one server: what it leaves alone, and what it  *)
(* may do to the launcher, to the command that stops the server and to the *)
(* file.                                                                   *)
(***************************************************************************)
Late == {"listen", "result", "failed", "accept", "exitsignal", "theend", "finish"}

WritersTyped == writers \subseteq {"launcher", "waiter"} \X Server

OthersStay(s) ==
  \A t \in Server : t # s =>
    /\ launcher'[t] = launcher[t] /\ main'[t] = main[t] /\ auth'[t] = auth[t] /\ sig'[t] = sig[t]
    /\ waiter'[t] = waiter[t] /\ builder'[t] = builder[t]

Moves(s) ==
  /\ main[s] \notin {"off", "exited"} /\ main'[s] # "off"
  /\ main'[s] \in {"prepare", "load", "exited"} =>
       sig'[s] = "off" /\ waiter'[s].at = "off" /\ builder'[s] = "off"
  /\ waiter[s].at = "write" => waiter'[s].at = "write" \/ main'[s] = "exited"
  /\ Up(s)' => sig[s] \in {"off", "wait"}

EndsLauncher(s) == launcher'[s] = launcher[s] \/ (launcher'[s] = "over" /\ ~ Up(s)')

EndsCommand(s) == command' = command \/ (command' = Idle /\ command.read.pid = s /\ ~ Up(s)')

Reads(s) ==
  /\ \A t \in Server : seen'["launcher"][t] = seen["launcher"][t]
  /\ \A t \in Server : t # s => seen'["waiter"][t] = seen["waiter"][t]
  /\ Sound(seen'["waiter"][s])
  /\ <<"waiter", s>> \in writers' => seen'["waiter"][s] = seen["waiter"][s]

RemovesOwn(s) ==
  \/ file' = file /\ writers' = writers
  \/ /\ file' = NoFile /\ writers' = {} /\ ~ Up(s)'
     /\ raced' \/ file = NoFile \/ file.pid = s

LEMMA ProcessParts ==
  ASSUME Parts, WritersTyped, NEW s \in Server, OthersStay(s), Moves(s), EndsLauncher(s),
         EndsCommand(s), Reads(s), RemovesOwn(s), raced => raced',
         main'[s] \in Late => raced' \/ auth'[s] = s,
         main'[s] \in Late \cup {"prepare", "load", "exited"}
  PROVE  Parts'
<1>1. NoneStarts
  BY DEF NoneStarts, OthersStay, Moves
<1>2. \A t \in Server : Over(launcher[t]) => Over(launcher'[t])
  BY DEF OthersStay, EndsLauncher, Over
<1>3. writers' \subseteq writers
  BY DEF RemovesOwn
<1>4. \A t \in Server : Up(t)' => Up(t)
  <2>1. ASSUME NEW t \in Server, Up(t)', t = s
        PROVE  Up(t)
    BY <2>1 DEF Up, Moves, EndsCommand
  <2>2. ASSUME NEW t \in Server, Up(t)', t # s
        PROVE  Up(t)
    BY <2>2 DEF Up, OthersStay, EndsCommand
  <2> QED
    BY <2>1, <2>2
<1>5. ContentInv'
  <2>1. Sound(file')
    BY SoundContents DEF Parts, ContentInv, RemovesOwn
  <2>2. Sound(command'.read)
    BY SoundContents DEF Parts, ContentInv, EndsCommand
  <2>3. \A role \in {"launcher", "waiter"}, t \in Server :
          seen'[role][t] = seen[role][t] \/ Sound(seen'[role][t])
    BY DEF Reads
  <2> QED
    BY <2>1, <2>2, <2>3, NewContent DEF Parts
<1>6. CommandInv'
  <2>1. CASE command' = command
    BY <1>1, <1>2, <2>1, KeepCommand DEF Parts
  <2>2. CASE command' = Idle
    <3>1. Idle' = Idle /\ command'.op = "none"
      BY <2>2, KindsDiffer DEF Idle, NoFile
    <3>2. \A t, u \in Server : ~ Over(launcher'[t]) /\ ~ Over(launcher'[u]) => t = u
      BY <1>2 DEF Parts, CommandInv
    <3> QED
      BY <2>2, <3>1, <3>2 DEF CommandInv, Over
  <2> QED
    BY <2>1, <2>2 DEF EndsCommand
<1>7. ProcessInv'
  <2>1. LivesOnce(s)'
    <3>1. LivesOnce(s) /\ main[s] # "off" /\ main[s] # "exited"
      BY DEF Parts, ProcessInv, Moves
    <3>2. launcher'[s] \notin {"off", "remove", "spawn"}
      BY <3>1 DEF LivesOnce, EndsLauncher
    <3>3. <<"waiter", s>> \in writers' => waiter'[s].at = "write" \/ main'[s] = "exited"
      BY <1>3, <3>1 DEF LivesOnce, Moves
    <3> QED
      BY <3>2, <3>3 DEF LivesOnce, Moves
  <2>2. ASSUME NEW t \in Server, t # s
        PROVE  LivesOnce(t)'
    BY <1>1, <1>3, <2>2, OtherProcess DEF Parts, ProcessInv, OthersStay, Reads
  <2> QED
    BY <2>1, <2>2 DEF ProcessInv
<1>8. ASSUME ~ raced'
      PROVE  PidFileInv'
  <2>1. PidFileInv
    BY <1>8 DEF Parts
  <2>2. WriterInv /\ FoundInv /\ AuthInv
    BY <2>1 DEF PidFileInv
  <2>3. WriterInv'
    BY <2>2 DEF WriterInv, RemovesOwn, Torn
  <2>4. ASSUME NEW t \in Server, Up(t)', Held(t)
        PROVE  Held(t)'
    <3>1. CASE file' = file /\ writers' = writers
      <4>1. ASSUME NEW w \in writers', w[1] # "launcher"
            PROVE  seen'["waiter"][w[2]] = seen["waiter"][w[2]]
        <5>1. w \in {"launcher", "waiter"} \X Server
          BY <3>1, <4>1 DEF WritersTyped
        <5>2. w = <<"waiter", w[2]>> /\ w[2] \in Server
          BY <4>1, <5>1
        <5> QED
          BY <4>1, <5>2 DEF Reads
      <4> QED
        BY <2>4, <3>1, <4>1 DEF Held
    <3>2. CASE file' = NoFile /\ ~ Up(s)' /\ (raced' \/ file = NoFile \/ file.pid = s)
      <4>1. file = NoFile \/ file.pid = s
        BY <1>8, <3>2
      <4>2. file # Torn
        BY <4>1, KindsDiffer, NoPidIsZero
      <4>3. file.pid = t
        BY <2>2, <2>4, <4>2, HeldByFile
      <4> QED
        BY <2>4, <3>2, <4>1, <4>3, KindsDiffer, NoPidIsZero
    <3> QED
      BY <3>1, <3>2 DEF RemovesOwn
  <2>5. \A t \in Server : \/ launcher'[t] = launcher[t]
                          \/ launcher'[t] \in {"poll", "over"} /\ (launcher[t] = "create" => ~ Up(t)')
    BY DEF OthersStay, EndsLauncher
  <2>6. FoundInv'
    BY <1>4, <2>2, <2>4, <2>5, KeepFound DEF Reads
  <2>7. AuthInv'
    <3>1. ASSUME NEW t \in Server, main'[t] \notin {"off", "prepare", "load", "exited"}
          PROVE  auth'[t] = t
      <4>1. CASE t = s
        BY <1>8, <3>1, <4>1
      <4>2. CASE t # s
        BY <2>2, <3>1, <4>2 DEF AuthInv, OthersStay
      <4> QED
        BY <4>1, <4>2
    <3> QED
      BY <3>1 DEF AuthInv
  <2> QED
    BY <2>3, <2>6, <2>7 DEF PidFileInv
<1> QED
  BY <1>5, <1>6, <1>7, <1>8 DEF Parts

\* What the types give to the steps of a process.
LEMMA ProcessTypes ==
  ASSUME DaemonTypeOK
  PROVE  Tables /\ WritersTyped /\ \A s \in Server : main[s] \in Late \cup {"off", "prepare", "load", "exited"}
<1>1. WritersTyped
  BY DEF DaemonTypeOK, WritersTyped
<1>2. main \in [Server -> {"off", "prepare", "load", "listen", "result", "failed", "accept",
                           "exitsignal", "theend", "finish", "exited"}]
  BY DEF DaemonTypeOK
<1> QED
  BY <1>1, <1>2, TypedTables DEF Late

\* A server that has come so far keeps its own string.
LEMMA KnowsItself ==
  ASSUME Parts, NEW s \in Server, main[s] \in Late, auth'[s] = auth[s], raced => raced'
  PROVE  raced' \/ auth'[s] = s
<1>1. main[s] \notin {"off", "prepare", "load", "exited"}
  BY DEF Late
<1> QED
  BY <1>1 DEF Parts, PidFileInv, AuthInv

LEMMA ReadsNothing ==
  ASSUME Parts, NEW s \in Server, seen' = seen
  PROVE  Reads(s)
  BY DEF Parts, ContentInv, Reads

LEMMA DieMoves ==
  ASSUME Tables, NEW s \in Server, checkProcessExists(s), Die(s)
  PROVE  /\ Moves(s) /\ main'[s] = "exited" /\ ~ Up(s)'
         /\ (\A t \in Server : t # s => launcher'[t] = launcher[t]) => OthersStay(s)
<1>1. /\ main' = [main EXCEPT ![s] = "exited"] /\ sig' = [sig EXCEPT ![s] = "off"]
      /\ waiter' = [waiter EXCEPT ![s] = [at |-> "off", result |-> ""]]
      /\ builder' = [builder EXCEPT ![s] = "off"] /\ auth' = [auth EXCEPT ![s] = 0]
  BY DEF Die
<1>2. main'[s] = "exited" /\ sig'[s] = "off" /\ waiter'[s].at = "off" /\ builder'[s] = "off"
  BY <1>1 DEF Tables
<1>3. ~ Up(s)'
  BY <1>2 DEF Up
<1>4. Moves(s)
  BY <1>2, <1>3 DEF Moves, checkProcessExists
<1>5. \A t \in Server : t # s => main'[t] = main[t] /\ auth'[t] = auth[t] /\ sig'[t] = sig[t]
                                /\ waiter'[t] = waiter[t] /\ builder'[t] = builder[t]
  BY <1>1 DEF Tables
<1> QED
  BY <1>2, <1>3, <1>4, <1>5 DEF OthersStay

LEMMA SigtermMoves ==
  ASSUME DaemonTypeOK, Parts, NEW s \in Server, checkProcessExists(s), Sigterm(s), EndLauncher(s)
  PROVE  /\ OthersStay(s) /\ Moves(s) /\ EndsLauncher(s) /\ ~ Up(s)'
         /\ main'[s] \in Late => main[s] \in Late /\ auth'[s] = auth[s]
         /\ main'[s] \in Late \cup {"prepare", "load", "exited"}
<1>1. Tables /\ main[s] \in Late \cup {"off", "prepare", "load", "exited"} /\ main[s] # "off"
  BY ProcessTypes DEF checkProcessExists
<1>2. launcher' = launcher \/ launcher' = [launcher EXCEPT ![s] = "over"]
  BY DEF EndLauncher
<1>3. /\ \A t \in Server : t # s => launcher'[t] = launcher[t]
      /\ launcher'[s] \in {launcher[s], "over"}
  BY <1>1, <1>2 DEF Tables
<1>4. CASE sig[s] = "wait" /\ sig' = [sig EXCEPT ![s] = "void"] /\ UNCHANGED <<main, auth, waiter, builder>>
  <2>1. sig'[s] = "void" /\ \A t \in Server : t # s => sig'[t] = sig[t]
    BY <1>1, <1>4 DEF Tables
  <2>2. ~ Up(s)'
    BY <2>1 DEF Up
  <2>3. main[s] \notin {"off", "prepare", "load", "exited"}
    BY <1>4 DEF Parts, ProcessInv, LivesOnce
  <2>4. OthersStay(s) /\ EndsLauncher(s)
    BY <1>3, <1>4, <2>1, <2>2 DEF OthersStay, EndsLauncher
  <2>5. Moves(s)
    BY <1>4, <2>2, <2>3 DEF Moves
  <2> QED
    BY <1>1, <1>4, <2>2, <2>3, <2>4, <2>5
<1>5. CASE Die(s)
  <2>1. Moves(s) /\ main'[s] = "exited" /\ ~ Up(s)' /\ OthersStay(s)
    BY <1>1, <1>3, <1>5, DieMoves
  <2> QED
    BY <1>3, <2>1 DEF EndsLauncher, Late
<1> QED
  BY <1>4, <1>5 DEF Sigterm

LEMMA TerminateParts ==
  ASSUME DaemonTypeOK, Parts, NEW s \in Server, Terminate(s)
  PROVE  Parts'
<1>1. /\ checkProcessExists(s) /\ Sigterm(s) /\ EndLauncher(s)
      /\ UNCHANGED <<file, writers, command, seen, raced>>
  BY DEF Terminate, pidfile
<1>2. /\ OthersStay(s) /\ Moves(s) /\ EndsLauncher(s) /\ ~ Up(s)'
      /\ main'[s] \in Late => main[s] \in Late /\ auth'[s] = auth[s]
      /\ main'[s] \in Late \cup {"prepare", "load", "exited"}
  BY <1>1, SigtermMoves
<1>3. EndsCommand(s) /\ RemovesOwn(s) /\ Reads(s)
  BY <1>1, ReadsNothing DEF EndsCommand, RemovesOwn
<1>4. main'[s] \in Late => raced' \/ auth'[s] = s
  BY <1>1, <1>2, KnowsItself
<1> QED
  BY <1>1, <1>2, <1>3, <1>4, ProcessTypes, ProcessParts

LEMMA StopSignalsParts ==
  ASSUME DaemonTypeOK, Parts, StopSignals
  PROVE  Parts'
<1>1. command' = Idle /\ UNCHANGED <<file, writers, seen, raced>>
  BY DEF StopSignals, pidfile
<1>2. CASE checkProcessExists(command.read.pid)
  <2>0. PICK s \in Server : s = command.read.pid
    BY <1>2 DEF checkProcessExists
  <2>1. Sigterm(s) /\ EndLauncher(s) /\ checkProcessExists(s)
    BY <1>2, <2>0 DEF StopSignals
  <2>2. /\ OthersStay(s) /\ Moves(s) /\ EndsLauncher(s) /\ ~ Up(s)'
        /\ main'[s] \in Late => main[s] \in Late /\ auth'[s] = auth[s]
        /\ main'[s] \in Late \cup {"prepare", "load", "exited"}
    BY <1>2, <2>1, SigtermMoves
  <2>3. RemovesOwn(s) /\ Reads(s)
    BY <1>1, <2>1, ReadsNothing DEF RemovesOwn
  <2>4. EndsCommand(s)
    BY <1>1, <2>0, <2>2 DEF EndsCommand
  <2>5. main'[s] \in Late => raced' \/ auth'[s] = s
    BY <1>1, <2>1, <2>2, KnowsItself
  <2> QED
    BY <1>1, <2>1, <2>2, <2>3, <2>4, <2>5, ProcessTypes, ProcessParts
<1>3. CASE ~ checkProcessExists(command.read.pid)
  <2>1. UNCHANGED <<main, auth, sig, waiter, builder, launcher>>
    BY <1>3 DEF StopSignals, process
  <2>2. ContentInv'
    <3>1. ContentInv /\ Sound(file') /\ Sound(command'.read)
      BY <1>1, SoundContents DEF Parts, ContentInv
    <3> QED
      BY <1>1, <3>1, NewContent
  <2>3. CommandInv'
    <3>1. Idle' = Idle /\ command'.op = "none"
      BY <1>1, KindsDiffer DEF Idle, NoFile
    <3>2. \A t, u \in Server : ~ Over(launcher'[t]) /\ ~ Over(launcher'[u]) => t = u
      BY <2>1 DEF Parts, CommandInv
    <3> QED
      BY <1>1, <3>1, <3>2 DEF CommandInv, Over
  <2>4. ProcessInv'
    <3>1. NoneStarts
      BY <2>1 DEF NoneStarts
    <3>2. ASSUME NEW t \in Server
          PROVE  LivesOnce(t)'
      BY <1>1, <2>1, <3>1, OtherProcess DEF Parts, ProcessInv
    <3> QED
      BY <3>2 DEF ProcessInv
  <2>5. ASSUME ~ raced'
        PROVE  PidFileInv'
    <3>1. PidFileInv
      BY <1>1, <2>5 DEF Parts
    <3>2. \A t \in Server : (Up(t)' => Up(t)) /\ (Held(t) => Held(t)')
      <4>1. ASSUME NEW t \in Server, Up(t)'
            PROVE  Up(t)
        BY <1>3, <2>1, <4>1 DEF Up, checkProcessExists
      <4>2. ASSUME NEW t \in Server, Held(t)
            PROVE  Held(t)'
        BY <1>1, <4>2 DEF Held
      <4> QED
        BY <4>1, <4>2
    <3>3. FoundInv'
      BY <1>1, <2>1, <3>1, <3>2, KeepFound DEF PidFileInv
    <3>4. WriterInv' /\ AuthInv'
      BY <1>1, <2>1, <3>1 DEF PidFileInv, WriterInv, AuthInv, Torn
    <3> QED
      BY <3>3, <3>4 DEF PidFileInv
  <2> QED
    BY <2>2, <2>3, <2>4, <2>5 DEF Parts
<1> QED
  BY <1>2, <1>3

-----------------------------------------------------------------------------
(***************************************************************************)
(* The goroutines of a server.                                             *)
(***************************************************************************)

\* Steps that only handlers and the block maker take.
LEMMA KeepParts ==
  ASSUME Parts, UNCHANGED <<file, writers, command, launcher, seen, main, auth, sig, waiter, raced>>,
         \A t \in Server : builder[t] = "off" => builder'[t] = "off"
  PROVE  Parts'
<1>1. ContentInv'
  BY KeepContent DEF Parts
<1>2. NoneStarts
  BY DEF NoneStarts
<1>3. CommandInv'
  BY <1>2, KeepCommand DEF Parts
<1>4. ProcessInv'
  <2>1. ASSUME NEW t \in Server
        PROVE  LivesOnce(t)'
    BY DEF Parts, ProcessInv, LivesOnce, checkProcessExists
  <2> QED
    BY <2>1 DEF ProcessInv
<1>5. ASSUME ~ raced'
      PROVE  PidFileInv'
  <2>1. PidFileInv
    BY <1>5 DEF Parts
  <2>2. \A t \in Server : (Up(t)' <=> Up(t)) /\ (Held(t)' <=> Held(t))
    BY DEF Up, Held
  <2>3. FoundInv'
    BY <2>1, <2>2, KeepFound DEF PidFileInv
  <2>4. WriterInv' /\ AuthInv'
    BY <2>1 DEF PidFileInv, WriterInv, AuthInv, Torn
  <2> QED
    BY <2>3, <2>4 DEF PidFileInv
<1> QED
  BY <1>1, <1>3, <1>4, <1>5 DEF Parts

\* A server that has read the file goes on, and does not touch the file.
LEMMA GoesOn ==
  ASSUME DaemonTypeOK, Parts, NEW s \in Server,
         UNCHANGED <<file, writers, command, launcher, seen, auth, raced>>,
         main[s] \in Late, main'[s] \in Late,
         \A t \in Server : t # s => main'[t] = main[t] /\ sig'[t] = sig[t] /\ waiter'[t] = waiter[t]
                                    /\ builder'[t] = builder[t],
         waiter[s].at = "write" => waiter'[s].at = "write",
         sig'[s] \in {"off", "wait"} => sig[s] \in {"off", "wait"}
  PROVE  Parts'
<1>1. OthersStay(s)
  BY DEF OthersStay
<1>2. Moves(s)
  BY DEF Moves, Late, Up
<1>3. EndsLauncher(s) /\ EndsCommand(s) /\ RemovesOwn(s) /\ Reads(s)
  BY ReadsNothing DEF EndsLauncher, EndsCommand, RemovesOwn
<1>4. raced' \/ auth'[s] = s
  BY KnowsItself
<1> QED
  BY <1>1, <1>2, <1>3, <1>4, ProcessTypes, ProcessParts

LEMMA DaemonizeParts ==
  ASSUME DaemonTypeOK, Parts, NEW s \in Server, Daemonize(s)
  PROVE  Parts'
<1>1. /\ main[s] = "load"
      /\ auth' = [auth EXCEPT ![s] = file.auth]
      /\ sig' = [sig EXCEPT ![s] = "wait"]
      /\ waiter' = [waiter EXCEPT ![s].at = "wait"]
      /\ main' = [main EXCEPT ![s] = "listen"]
      /\ UNCHANGED <<file, writers, command, launcher, seen, builder>>
  BY DEF Daemonize, Main, pidfile
<1>2. Tables
  BY TypedTables
<1>3. /\ main'[s] = "listen" /\ auth'[s] = file.auth
      /\ \A t \in Server : t # s => /\ main'[t] = main[t] /\ auth'[t] = auth[t] /\ sig'[t] = sig[t]
                                    /\ waiter'[t] = waiter[t]
  BY <1>1, <1>2 DEF Tables
<1>4. sig[s] = "off" /\ waiter[s].at = "off"
  BY <1>1 DEF Parts, ProcessInv, LivesOnce
<1>5. OthersStay(s)
  BY <1>1, <1>3 DEF OthersStay
<1>6. Moves(s)
  BY <1>1, <1>3, <1>4 DEF Moves
<1>7. EndsLauncher(s) /\ EndsCommand(s) /\ RemovesOwn(s) /\ Reads(s)
  BY <1>1, ReadsNothing DEF EndsLauncher, EndsCommand, RemovesOwn
<1>8. raced => raced'
  BY DEF Daemonize
<1>9. raced' \/ auth'[s] = s
  <2>1. raced' \/ file.pid = s
    BY DEF Daemonize
  <2>2. file.auth = file.pid
    BY DEF Parts, ContentInv, Sound
  <2> QED
    BY <1>3, <2>1, <2>2
<1>10. main'[s] \in Late
  BY <1>3 DEF Late
<1> QED
  BY <1>5, <1>6, <1>7, <1>8, <1>9, <1>10, ProcessTypes, ProcessParts

\* Listen, SendResult, Accept and SendExit.
LEMMA ListenParts ==
  ASSUME DaemonTypeOK, Parts, NEW s \in Server, NEW good \in BOOLEAN, Listen(s, good)
  PROVE  Parts'
<1>1. main[s] = "listen" /\ main' = [main EXCEPT ![s] = IF good THEN "result" ELSE "failed"]
      /\ UNCHANGED <<file, writers, command, launcher, seen, auth, sig, waiter, builder, raced>>
  BY DEF Listen, Main, pidfile
<1>2. Tables
  BY TypedTables
<1>3. main'[s] \in {"result", "failed"} /\ \A t \in Server : t # s => main'[t] = main[t]
  BY <1>1, <1>2 DEF Tables
<1>4. main[s] \in Late /\ main'[s] \in Late
  BY <1>1, <1>3 DEF Late
<1> QED
  BY <1>1, <1>3, <1>4, GoesOn

LEMMA SendResultParts ==
  ASSUME DaemonTypeOK, Parts, NEW s \in Server, SendResult(s)
  PROVE  Parts'
<1> DEFINE good == main[s] = "result"
<1>1. /\ main[s] \in {"result", "failed"} /\ waiter[s].at = "wait"
      /\ waiter' = [waiter EXCEPT ![s] = [at |-> "load", result |-> IF good THEN "y" ELSE "error"]]
      /\ builder' = IF good THEN [builder EXCEPT ![s] = "idle"] ELSE builder
      /\ main' = [main EXCEPT ![s] = IF good THEN "accept" ELSE "finish"]
      /\ UNCHANGED <<file, writers, command, launcher, seen, auth, sig, raced>>
  BY DEF SendResult, Main, pidfile
<1>2. Tables
  BY TypedTables
<1>3. main'[s] \in {"accept", "finish"}
      /\ \A t \in Server : t # s => main'[t] = main[t] /\ waiter'[t] = waiter[t] /\ builder'[t] = builder[t]
  BY <1>1, <1>2 DEF Tables
<1>4. main[s] \in Late /\ main'[s] \in Late
  BY <1>1, <1>3 DEF Late
<1>5. waiter[s].at # "write"
  BY <1>1
<1>6. UNCHANGED <<file, writers, command, launcher, seen, auth, sig, raced>>
  BY <1>1
<1> QED
  BY <1>3, <1>4, <1>5, <1>6, GoesOn

LEMMA AcceptParts ==
  ASSUME DaemonTypeOK, Parts, NEW s \in Server, NEW c, Accept(s, c)
  PROVE  Parts'
<1>1. /\ main[s] = "accept" /\ (main' = main \/ main' = [main EXCEPT ![s] = "exitsignal"])
      /\ UNCHANGED <<file, writers, command, launcher, seen, auth, sig, waiter, builder, raced>>
  BY DEF Accept, Main, pidfile
<1>2. Tables
  BY TypedTables
<1>3. main'[s] \in {"accept", "exitsignal"} /\ \A t \in Server : t # s => main'[t] = main[t]
  BY <1>1, <1>2 DEF Tables
<1>4. main[s] \in Late /\ main'[s] \in Late
  BY <1>1, <1>3 DEF Late
<1> QED
  BY <1>1, <1>3, <1>4, GoesOn

LEMMA SendExitParts ==
  ASSUME DaemonTypeOK, Parts, NEW s \in Server, SendExit(s)
  PROVE  Parts'
<1>1. /\ main[s] = "exitsignal" /\ main' = [main EXCEPT ![s] = "theend"]
      /\ UNCHANGED <<file, writers, command, launcher, seen, auth, sig, waiter, builder, raced>>
  BY DEF SendExit, Main, pidfile
<1>2. Tables
  BY TypedTables
<1>3. main'[s] = "theend" /\ \A t \in Server : t # s => main'[t] = main[t]
  BY <1>1, <1>2 DEF Tables
<1>4. main[s] \in Late /\ main'[s] \in Late
  BY <1>1, <1>3 DEF Late
<1> QED
  BY <1>1, <1>3, <1>4, GoesOn

LEMMA FinishParts ==
  ASSUME DaemonTypeOK, Parts, NEW s \in Server, Finish(s)
  PROVE  Parts'
<1>1. /\ main[s] \in {"finish", "theend"} /\ Die(s) /\ UNCHANGED <<command, launcher, seen>>
      /\ \/ file' = NoFile /\ writers' = {} /\ raced' = (raced \/ (file # NoFile /\ file.pid # s))
         \/ UNCHANGED <<file, writers, raced>>
  BY DEF Finish, RemoveFile, pidfile
<1>2. checkProcessExists(s) /\ Tables
  BY <1>1, TypedTables DEF checkProcessExists
<1>3. Moves(s) /\ main'[s] = "exited" /\ ~ Up(s)' /\ OthersStay(s)
  BY <1>1, <1>2, DieMoves
<1>4. raced => raced'
  BY <1>1
<1>5. RemovesOwn(s)
  BY <1>1, <1>3 DEF RemovesOwn
<1>6. EndsLauncher(s) /\ EndsCommand(s) /\ Reads(s)
  BY <1>1, ReadsNothing DEF EndsLauncher, EndsCommand
<1>7. main'[s] \notin Late
  BY <1>3 DEF Late
<1> QED
  BY <1>3, <1>4, <1>5, <1>6, <1>7, ProcessTypes, ProcessParts

\* A goroutine runs in a process that has come so far.
LEMMA GoroutineRuns ==
  ASSUME DaemonTypeOK, Parts, NEW s \in Server,
         sig[s] # "off" \/ waiter[s].at # "off" \/ builder[s] # "off"
  PROVE  main[s] \in Late
<1>1. main[s] \notin {"off", "prepare", "load", "exited"}
  BY DEF Parts, ProcessInv, LivesOnce
<1> QED
  BY <1>1, ProcessTypes

LEMMA SendVoidParts ==
  ASSUME DaemonTypeOK, Parts, NEW s \in Server, SendVoid(s)
  PROVE  Parts'
<1>1. /\ sig[s] = "void" /\ sig' = [sig EXCEPT ![s] = "confirm"]
      /\ UNCHANGED <<file, writers, command, launcher, seen, main, auth, waiter, builder, raced>>
  BY DEF SendVoid, pidfile
<1>2. Tables
  BY TypedTables
<1>3. sig'[s] = "confirm" /\ \A t \in Server : t # s => sig'[t] = sig[t]
  BY <1>1, <1>2 DEF Tables
<1>4. main[s] \in Late
  BY <1>1, GoroutineRuns
<1> QED
  BY <1>1, <1>3, <1>4, GoesOn

LEMMA SignalRemovesParts ==
  ASSUME DaemonTypeOK, Parts, NEW s \in Server, SignalRemoves(s)
  PROVE  Parts'
<1>1. /\ sig[s] = "confirm" /\ sig' = [sig EXCEPT ![s] = "done"]
      /\ file' = NoFile /\ writers' = {} /\ raced' = (raced \/ (file # NoFile /\ file.pid # s))
      /\ UNCHANGED <<command, launcher, seen, main, auth, waiter, builder>>
  BY DEF SignalRemoves, RemoveFile
<1>2. Tables
  BY TypedTables
<1>3. sig'[s] = "done" /\ \A t \in Server : t # s => sig'[t] = sig[t]
  BY <1>1, <1>2 DEF Tables
<1>4. main[s] \in Late
  BY <1>1, GoroutineRuns
<1>5. ~ Up(s)'
  BY <1>3 DEF Up
<1>6. OthersStay(s)
  BY <1>1, <1>3 DEF OthersStay
<1>7. Moves(s)
  BY <1>1, <1>4, <1>5 DEF Moves, Late
<1>8. raced => raced'
  BY <1>1
<1>9. RemovesOwn(s)
  BY <1>1, <1>5 DEF RemovesOwn
<1>10. EndsLauncher(s) /\ EndsCommand(s) /\ Reads(s)
  BY <1>1, ReadsNothing DEF EndsLauncher, EndsCommand
<1>11. raced' \/ auth'[s] = s
  BY <1>1, <1>4, <1>8, KnowsItself
<1>12. main'[s] \in Late
  BY <1>1, <1>4
<1> QED
  BY <1>6, <1>7, <1>8, <1>9, <1>10, <1>11, <1>12, ProcessTypes, ProcessParts

LEMMA WaiterLoadsParts ==
  ASSUME DaemonTypeOK, Parts, NEW s \in Server, WaiterLoads(s)
  PROVE  Parts'
<1>1. /\ waiter[s].at = "load"
      /\ seen' = [seen EXCEPT !["waiter"][s] = IF file.kind = "torn" THEN NoFile ELSE file]
      /\ \E x : waiter' = [waiter EXCEPT ![s] = x]
      /\ UNCHANGED <<file, writers, command, launcher, main, auth, sig, builder, raced>>
  BY DEF WaiterLoads, Saw, WaiterAt, pidfile
<1>2. Tables
  BY TypedTables
<1>3. /\ \A t \in Server : seen'["launcher"][t] = seen["launcher"][t]
      /\ \A t \in Server : t # s => seen'["waiter"][t] = seen["waiter"][t]
      /\ seen'["waiter"][s] \in {NoFile, file}
      /\ \A t \in Server : t # s => waiter'[t] = waiter[t]
  BY <1>1, <1>2 DEF Tables
<1>4. main[s] \in Late
  BY <1>1, GoroutineRuns
<1>5. OthersStay(s)
  BY <1>1, <1>3 DEF OthersStay
<1>6. Moves(s)
  BY <1>1, <1>4 DEF Moves, Late, Up
<1>7. Reads(s)
  <2>1. Sound(seen'["waiter"][s])
    BY <1>3, SoundContents DEF Parts, ContentInv
  <2>2. <<"waiter", s>> \notin writers'
    BY <1>1, <1>4 DEF Parts, ProcessInv, LivesOnce, Late
  <2> QED
    BY <1>3, <2>1, <2>2 DEF Reads
<1>8. EndsLauncher(s) /\ EndsCommand(s) /\ RemovesOwn(s)
  BY <1>1 DEF EndsLauncher, EndsCommand, RemovesOwn
<1>9. raced' \/ auth'[s] = s
  BY <1>1, <1>4, KnowsItself
<1> QED
  BY <1>1, <1>4, <1>5, <1>6, <1>7, <1>8, <1>9, ProcessTypes, ProcessParts

LEMMA WaiterCreatesParts ==
  ASSUME DaemonTypeOK, Parts, NEW s \in Server, WaiterCreates(s)
  PROVE  Parts'
<1> DEFINE w == <<"waiter", s>>
<1>1. /\ waiter[s].at = "create" /\ file' = Torn /\ writers' = writers \cup {w}
      /\ \E x : waiter' = [waiter EXCEPT ![s] = [at |-> "write", result |-> x]]
      /\ UNCHANGED <<command, launcher, seen, main, auth, sig, builder>>
  BY DEF WaiterCreates, CreateFile, WaiterAt
<1>2. Tables
  BY TypedTables
<1>3. waiter'[s].at = "write" /\ \A t \in Server : t # s => waiter'[t] = waiter[t]
  BY <1>1, <1>2 DEF Tables
<1>4. main[s] \in Late
  BY <1>1, GoroutineRuns
<1>5. NoneStarts
  BY <1>1 DEF NoneStarts
<1>6. ContentInv'
  <2>1. ContentInv /\ Sound(file') /\ Sound(command'.read)
    BY <1>1, SoundContents DEF Parts, ContentInv
  <2> QED
    BY <1>1, <2>1, NewContent
<1>7. CommandInv'
  BY <1>1, <1>5, KeepCommand DEF Parts
<1>8. ProcessInv'
  <2>1. LivesOnce(s)'
    <3>1. main'[s] \notin {"off", "prepare", "load", "exited"}
      BY <1>1, <1>4 DEF Late
    <3>2. launcher'[s] \notin {"off", "remove", "spawn"}
      BY <1>1, <3>1 DEF Parts, ProcessInv, LivesOnce
    <3> QED
      BY <1>3, <3>1, <3>2 DEF LivesOnce
  <2>2. ASSUME NEW t \in Server, t # s
        PROVE  LivesOnce(t)'
    <3>1. <<"waiter", t>> \in writers' => <<"waiter", t>> \in writers
      BY <1>1, <2>2
    <3> QED
      BY <1>1, <1>3, <1>5, <2>2, <3>1, OtherProcess DEF Parts, ProcessInv
  <2> QED
    BY <2>1, <2>2 DEF ProcessInv
<1>9. ASSUME ~ raced'
      PROVE  PidFileInv'
  <2>1. writers = {} /\ file = seen["waiter"][s] /\ PidFileInv
    BY <1>9 DEF WaiterCreates, Parts
  <2>2. writers' = {w}
    BY <1>1, <2>1
  <2>3. \A t \in Server : Up(t)' => Up(t)
    BY <1>1 DEF Up
  <2>4. ASSUME NEW t \in Server, Held(t)
        PROVE  Held(t)'
    <3>1. file.pid = t
      BY <2>1, <2>4 DEF Held
    <3>2. seen'["waiter"][s].pid = t
      BY <1>1, <2>1, <3>1
    <3>3. \A x \in writers' : x[1] # "launcher" /\ x[2] = s
      BY <2>2
    <3>4. writers' # {}
      BY <2>2
    <3> QED
      BY <3>2, <3>3, <3>4 DEF Held
  <2>5. FoundInv'
    BY <1>1, <2>1, <2>3, <2>4, KeepFound DEF PidFileInv
  <2>6. WriterInv'
    BY <1>1, <2>2 DEF WriterInv, Torn
  <2>7. AuthInv'
    BY <1>1, <2>1 DEF PidFileInv, AuthInv
  <2> QED
    BY <2>5, <2>6, <2>7 DEF PidFileInv
<1> QED
  BY <1>6, <1>7, <1>8, <1>9 DEF Parts

LEMMA WaiterWritesParts ==
  ASSUME DaemonTypeOK, Parts, NEW s \in Server, WaiterWrites(s)
  PROVE  Parts'
<1> DEFINE w == <<"waiter", s>>
           old == seen["waiter"][s]
           content == PidFile(old.pid, old.auth, waiter[s].result)
<1>1. /\ waiter[s].at = "write"
      /\ file' = IF w \in writers THEN content ELSE file
      /\ writers' = writers \ {w}
      /\ seen' = [seen EXCEPT !["waiter"][s] = NoFile]
      /\ \E x : waiter' = [waiter EXCEPT ![s] = x]
      /\ UNCHANGED <<command, launcher, main, auth, sig, builder, raced>>
  BY DEF WaiterWrites, WriteFile, Saw, WaiterAt
<1>2. Tables
  BY TypedTables
<1>3. /\ \A t \in Server : seen'["launcher"][t] = seen["launcher"][t]
      /\ \A t \in Server : t # s => seen'["waiter"][t] = seen["waiter"][t]
      /\ seen'["waiter"][s] = NoFile
      /\ \A t \in Server : t # s => waiter'[t] = waiter[t]
  BY <1>1, <1>2 DEF Tables
<1>4. main[s] \in Late
  BY <1>1, GoroutineRuns
<1>5. NoneStarts
  BY <1>1 DEF NoneStarts
<1>6. Sound(content) /\ content.pid = old.pid
  <2>1. waiter[s].result \in {"", "n", "y", "error"}
    <3>1. waiter \in [Server -> [at : {"off", "wait", "load", "create", "write", "closed"},
                                 result : {"", "y", "error"}]]
      BY DEF DaemonTypeOK
    <3> QED
      BY <3>1
  <2>2. Sound(old)
    BY DEF Parts, ContentInv
  <2>3. old.pid \in Server \cup {0} /\ old.auth = old.pid
    <3>1. old \in Content /\ old.auth = old.pid
      BY <2>2 DEF Sound
    <3> QED
      BY <3>1 DEF Content
  <2> HIDE DEF old
  <2>4. content \in Content
    BY <2>1, <2>3, ContentTypes
  <2>5. content.kind = "ok" /\ content.pid = old.pid /\ content.auth = old.auth
    BY DEF PidFile
  <2> QED
    BY <2>3, <2>4, <2>5 DEF Sound
<1> HIDE DEF content
<1>7. ContentInv'
  <2>1. ContentInv /\ Sound(file') /\ Sound(command'.read)
    BY <1>1, <1>6 DEF Parts, ContentInv
  <2>2. \A role \in {"launcher", "waiter"}, t \in Server : seen'[role][t] \in {seen[role][t], NoFile}
    BY <1>3
  <2> QED
    BY <2>1, <2>2, SoundContents, NewContent
<1>8. CommandInv'
  BY <1>1, <1>5, KeepCommand DEF Parts
<1>9. ProcessInv'
  <2>1. LivesOnce(s)'
    <3>1. main'[s] \notin {"off", "prepare", "load", "exited"}
      BY <1>1, <1>4 DEF Late
    <3>2. launcher'[s] \notin {"off", "remove", "spawn"}
      BY <1>1, <3>1 DEF Parts, ProcessInv, LivesOnce
    <3>3. <<"waiter", s>> \notin writers'
      BY <1>1
    <3> QED
      BY <3>1, <3>2, <3>3 DEF LivesOnce
  <2>2. ASSUME NEW t \in Server, t # s
        PROVE  LivesOnce(t)'
    BY <1>1, <1>3, <1>5, <2>2, OtherProcess DEF Parts, ProcessInv
  <2> QED
    BY <2>1, <2>2 DEF ProcessInv
<1>10. ASSUME ~ raced'
       PROVE  PidFileInv'
  <2>1. PidFileInv /\ WriterInv
    BY <1>1, <1>10 DEF Parts, PidFileInv
  <2>2. \A t \in Server : Up(t)' => Up(t)
    BY <1>1 DEF Up
  <2>3. w \in writers => writers = {w}
    BY <2>1 DEF WriterInv
  <2>4. ASSUME NEW t \in Server, Held(t)
        PROVE  Held(t)'
    <3>1. CASE w \in writers
      <4>1. writers = {w} /\ w[1] # "launcher" /\ w[2] = s
        BY <2>3, <3>1
      <4>2. old.pid = t
        BY <2>4, <4>1 DEF Held
      <4>3. writers' = {} /\ file'.pid = t
        BY <1>1, <1>6, <3>1, <4>1, <4>2
      <4> QED
        BY <4>3 DEF Held
    <3>2. CASE w \notin writers
      <4>1. file' = file /\ writers' = writers
        BY <1>1, <3>2
      <4>2. ASSUME NEW x \in writers', x[1] # "launcher"
            PROVE  seen'["waiter"][x[2]] = seen["waiter"][x[2]]
        <5>1. x \in {"launcher", "waiter"} \X Server
          BY <4>1, <4>2, ProcessTypes DEF WritersTyped
        <5>2. x = <<"waiter", x[2]>> /\ x[2] \in Server
          BY <4>2, <5>1
        <5> QED
          BY <1>3, <3>2, <4>1, <4>2, <5>2
      <4> QED
        BY <2>4, <4>1, <4>2 DEF Held
    <3> QED
      BY <3>1, <3>2
  <2>5. FoundInv'
    BY <1>1, <1>3, <2>1, <2>2, <2>4, KeepFound DEF PidFileInv
  <2>6. WriterInv'
    BY <1>1, <2>1, <2>3 DEF WriterInv, Torn
  <2>7. AuthInv'
    BY <1>1, <2>1 DEF PidFileInv, AuthInv
  <2> QED
    BY <2>5, <2>6, <2>7 DEF PidFileInv
<1> QED
  BY <1>7, <1>8, <1>9, <1>10 DEF Parts

LEMMA HandleParts ==
  ASSUME DaemonTypeOK, Parts, NEW s \in Server, NEW t, AddTx(s, t) \/ TryToMakeNewBlock(s, t) \/ Connect(s, t)
  PROVE  Parts'
<1>1. CASE AddTx(s, t) \/ Connect(s, t)
  <2>1. UNCHANGED <<file, writers, command, launcher, seen, main, auth, sig, waiter, builder, raced>>
    BY <1>1 DEF AddTx, Connect, pidfile
  <2> QED
    BY <2>1, KeepParts
<1>2. CASE TryToMakeNewBlock(s, t) /\ builder[s] # "exited"
  <2>1. UNCHANGED <<file, writers, command, launcher, seen, main, auth, sig, waiter, builder, raced>>
    BY <1>2 DEF TryToMakeNewBlock, pidfile
  <2> QED
    BY <2>1, KeepParts
<1>3. CASE TryToMakeNewBlock(s, t) /\ builder[s] = "exited"
  <2>1. Die(s) /\ UNCHANGED <<file, writers, command, launcher, seen, raced>>
    BY <1>3 DEF TryToMakeNewBlock, pidfile
  <2>2. main[s] \in Late
    BY <1>3, GoroutineRuns
  <2>3. checkProcessExists(s) /\ Tables
    BY <2>2, TypedTables DEF checkProcessExists, Late
  <2>4. Moves(s) /\ main'[s] = "exited" /\ OthersStay(s)
    BY <2>1, <2>3, DieMoves
  <2>5. EndsLauncher(s) /\ EndsCommand(s) /\ RemovesOwn(s) /\ Reads(s)
    BY <2>1, ReadsNothing DEF EndsLauncher, EndsCommand, RemovesOwn
  <2>6. main'[s] \notin Late
    BY <2>4 DEF Late
  <2> QED
    BY <2>1, <2>4, <2>5, <2>6, ProcessTypes, ProcessParts
<1> QED
  BY <1>1, <1>2, <1>3

LEMMA BuildParts ==
  ASSUME DaemonTypeOK, Parts, NEW s \in Server, Build(s)
  PROVE  Parts'
<1>1. /\ builder[s] \in {"idle", "busy"} /\ \E x : builder' = [builder EXCEPT ![s] = x]
      /\ UNCHANGED <<file, writers, command, launcher, seen, main, auth, sig, waiter, raced>>
  <2>1. CASE BuilderTakes(s)
    BY <2>1 DEF BuilderTakes, pidfile
  <2>2. CASE BuilderReady(s)
    BY <2>2 DEF BuilderReady, pidfile
  <2> QED
    BY <2>1, <2>2 DEF Build
<1>2. Tables
  BY TypedTables
<1>3. \A t \in Server : builder[t] = "off" => builder'[t] = "off"
  BY <1>1, <1>2 DEF Tables
<1> QED
  BY <1>1, <1>3, KeepParts

-----------------------------------------------------------------------------
(***************************************************************************)
(* The commands that stop and look for a server.                           *)
(***************************************************************************)

LEMMA CommandParts ==
  ASSUME DaemonTypeOK, Parts, NEW op \in {"stop", "state"}, Command(op)
  PROVE  Parts'
<1>1. /\ \A t \in Server : Over(launcher[t])
      /\ command = Idle /\ file.kind = "ok" /\ (op = "state" => ~ checkProcessExists(file.pid))
      /\ command' = [op |-> op, read |-> file]
      /\ UNCHANGED <<file, writers, launcher, seen, main, auth, sig, waiter, builder, raced>>
  BY DEF Command, NoCommandRuns, Names, pidfile, process
<1>2. command'.op = op /\ command'.read = file
  BY <1>1
<1>3. NoneStarts
  BY <1>1 DEF NoneStarts
<1>4. ContentInv'
  <2>1. ContentInv /\ Sound(file') /\ Sound(command'.read)
    BY <1>1, <1>2 DEF Parts, ContentInv
  <2> QED
    BY <1>1, <2>1, NewContent
<1>5. CommandInv'
  <2>1. (op = "state" => ~ checkProcessExists(command.read.pid))'
    BY <1>1, <1>2, <1>3 DEF checkProcessExists, NoneStarts
  <2>2. \A t \in Server : Over(launcher'[t])
    BY <1>1
  <2> QED
    BY <1>1, <1>2, <2>1, <2>2 DEF CommandInv, Over
<1>6. ProcessInv'
  <2>1. ASSUME NEW t \in Server
        PROVE  LivesOnce(t)'
    BY <1>1, <1>3, OtherProcess DEF Parts, ProcessInv
  <2> QED
    BY <2>1 DEF ProcessInv
<1>7. ASSUME ~ raced'
      PROVE  PidFileInv'
  <2>1. PidFileInv
    BY <1>1, <1>7 DEF Parts
  <2>2. ASSUME NEW t \in Server, Up(t)'
        PROVE  Up(t)
    BY <1>1, <2>2, KindsDiffer, NoPidIsZero DEF Up
  <2>3. \A t \in Server : Held(t) => Held(t)'
    BY <1>1 DEF Held
  <2>4. FoundInv'
    BY <1>1, <2>1, <2>2, <2>3, KeepFound DEF PidFileInv
  <2>5. WriterInv' /\ AuthInv'
    BY <1>1, <2>1 DEF PidFileInv, WriterInv, AuthInv, Torn
  <2> QED
    BY <2>4, <2>5 DEF PidFileInv
<1> QED
  BY <1>4, <1>5, <1>6, <1>7 DEF Parts

LEMMA CommandRemovesParts ==
  ASSUME DaemonTypeOK, Parts, CommandRemoves
  PROVE  Parts'
<1>1. /\ command.op \in {"stop", "state"} /\ file' = NoFile /\ writers' = {}
      /\ command' = IF command.op = "stop" THEN [command EXCEPT !.op = "signal"] ELSE Idle
      /\ UNCHANGED <<launcher, seen, main, auth, sig, waiter, builder>>
  BY DEF CommandRemoves, RemoveFile, process
<1>2. command.read.kind = "ok" /\ (command.op = "state" => ~ checkProcessExists(command.read.pid))
  BY <1>1 DEF Parts, CommandInv
<1>3. \A t \in Server : Over(launcher[t])
  BY <1>1, KindsDiffer DEF Parts, CommandInv
<1>4. \/ command.op = "stop" /\ command'.op = "signal" /\ command'.read = command.read
      \/ command.op = "state" /\ command' = Idle
  <2>1. command \in [op : {"none", "stop", "state", "signal"}, read : Content]
    BY DEF DaemonTypeOK
  <2> QED
    BY <1>1, <2>1
<1>5. NoneStarts
  BY <1>1 DEF NoneStarts
<1>6. ContentInv'
  <2>1. ContentInv /\ Sound(file') /\ Sound(command'.read)
    BY <1>1, <1>4, SoundContents DEF Parts, ContentInv
  <2> QED
    BY <1>1, <2>1, NewContent
<1>7. CommandInv'
  <2>1. \A t \in Server : Over(launcher'[t])
    BY <1>1, <1>3
  <2>2. Idle' = Idle
    BY DEF Idle, NoFile
  <2> QED
    BY <1>2, <1>4, <2>1, <2>2, KindsDiffer DEF CommandInv, Over
<1>8. ProcessInv'
  <2>1. ASSUME NEW t \in Server
        PROVE  LivesOnce(t)'
    BY <1>1, <1>5, OtherProcess DEF Parts, ProcessInv
  <2> QED
    BY <2>1 DEF ProcessInv
<1>9. ASSUME ~ raced'
      PROVE  PidFileInv'
  <2>1. PidFileInv /\ file = command.read
    BY <1>9 DEF CommandRemoves, Parts
  <2>2. ASSUME NEW t \in Server, Up(t)'
        PROVE  FALSE
    <3>1. command.read.pid # t
      BY <1>1, <1>2, <1>4, <2>2 DEF Up, checkProcessExists
    <3>2. Up(t)
      BY <1>1, <2>2, <3>1 DEF Up
    <3>3. Held(t)
      BY <1>3, <2>1, <3>2 DEF PidFileInv, FoundInv, Over
    <3>4. file # Torn
      BY <1>2, <2>1, KindsDiffer
    <3>5. file.pid = t
      BY <2>1, <3>3, <3>4, HeldByFile DEF PidFileInv
    <3> QED
      BY <2>1, <3>1, <3>5
  <2>3. \A t \in Server : launcher'[t] \notin {"remove", "spawn", "create"}
    BY <1>1, <1>3 DEF Over
  <2>4. FoundInv'
    BY <2>2, <2>3 DEF FoundInv
  <2>5. WriterInv' /\ AuthInv'
    BY <1>1, <2>1 DEF PidFileInv, WriterInv, AuthInv
  <2> QED
    BY <2>4, <2>5 DEF PidFileInv
<1> QED
  BY <1>6, <1>7, <1>8, <1>9 DEF Parts

-----------------------------------------------------------------------------
(***************************************************************************)
(* The invariant.                                                          *)
(***************************************************************************)

LEMMA InitParts == Init => Parts
<1> SUFFICES ASSUME Init
             PROVE  Parts
  OBVIOUS
<1>1. /\ file = NoFile /\ writers = {} /\ command = Idle
      /\ \A t \in Server : launcher[t] = "off" /\ main[t] = "off" /\ sig[t] = "off" /\ builder[t] = "off"
  BY DEF Init, Of
<1>2. \A role \in {"launcher", "waiter"}, t \in Server : seen[role][t] = NoFile
  BY DEF Init, Of
<1>3. \A t \in Server : waiter[t].at = "off"
  BY DEF Init, Of
<1>4. ContentInv
  BY <1>1, <1>2, SoundContents DEF ContentInv
<1>5. CommandInv
  BY <1>1, KindsDiffer DEF CommandInv, Over
<1>6. ProcessInv
  BY <1>1, <1>3 DEF ProcessInv, LivesOnce
<1>7. PidFileInv
  BY <1>1 DEF PidFileInv, WriterInv, FoundInv, AuthInv, Up
<1> QED
  BY <1>4, <1>5, <1>6, <1>7 DEF Parts

LEMMA StepParts == DaemonTypeOK /\ Parts /\ [Next]_vars => Parts'
<1> SUFFICES ASSUME DaemonTypeOK, Parts, [Next]_vars
             PROVE  Parts'
  OBVIOUS
<1>1. CASE UNCHANGED vars
  BY <1>1, KeepParts DEF vars, pidfile, process
<1>2. ASSUME NEW s \in Server, LaunchStep(s) \/ Terminate(s)
      PROVE  Parts'
  BY <1>2, TypedTables, CheckPIDParts, CheckPIDRemoveParts, LauncherEndsParts, SpawnParts,
     LaunchCreateParts, LaunchWriteParts, TerminateParts DEF LaunchStep
<1>3. CASE ExecuteManageCommand
  BY <1>3, CommandParts, CommandRemovesParts, StopSignalsParts DEF ExecuteManageCommand
<1>4. ASSUME NEW s \in Server, MainStep(s)
      PROVE  Parts'
  BY <1>4, DaemonizeParts, ListenParts, SendResultParts, AcceptParts, SendExitParts, FinishParts
     DEF MainStep
<1>5. ASSUME NEW s \in Server, SignalStep(s) \/ WaiterStep(s)
      PROVE  Parts'
  BY <1>5, SendVoidParts, SignalRemovesParts, WaiterLoadsParts, WaiterCreatesParts, WaiterWritesParts
     DEF SignalStep, WaiterStep
<1>6. ASSUME NEW s \in Server, Handle(s) \/ Build(s)
      PROVE  Parts'
  BY <1>6, HandleParts, BuildParts DEF Handle
<1>7. ASSUME NEW s \in Server, NEW t \in Tx, Connect(s, t)
      PROVE  Parts'
  BY <1>7, HandleParts
<1> QED
  BY <1>1, <1>2, <1>3, <1>4, <1>5, <1>6, <1>7 DEF Next

(***************************************************************************)
(* Every variable of the daemon and server processes has its type,         *)
(* whatever commands, signals and clients do to the servers.               *)
(***************************************************************************)
THEOREM DaemonTypes == Spec => []DaemonTypeOK
  BY InitTypes, StepTypes, PTL DEF Spec

(***************************************************************************)
(* The PID file (daemon.go), for any number of servers: it holds the       *)
(* string of the process that it names, one command runs at a time,        *)
(* goroutines live in a live process; and as long as nobody acted on what  *)
(* was not, or not any more, in the file, at most one has it open, and it  *)
(* stands for every server that is up, unless that is being started.       *)
(***************************************************************************)
THEOREM DaemonInvariance == Spec => []DaemonInvariant
<1>1. Init => DaemonInvariant
  BY InitTypes, InitParts DEF DaemonInvariant, Parts
<1>2. DaemonInvariant /\ [Next]_vars => DaemonInvariant'
  BY StepTypes, StepParts DEF DaemonInvariant, Parts
<1> QED
  BY <1>1, <1>2, PTL DEF Spec

(***************************************************************************)
(* Daemon.ServerIsFound: whatever servers are started, stopped and looked  *)
(* for by commands, ended by signals, or fail to start or die, the PID     *)
(* file names a server that serves, with its NodeAuthStr, when nobody      *)
(* writes the file and nobody acted on a file that had changed.            *)
(***************************************************************************)
THEOREM ServerFound == Spec => []ServerIsFound
<1>1. DaemonInvariant => ServerIsFound
  <2> SUFFICES ASSUME DaemonInvariant, NEW s \in Server, Serves(s), writers = {}, ~ raced
               PROVE  file.kind = "ok" /\ file.pid = s /\ file.auth = auth[s]
    BY DEF ServerIsFound
  <2>1. main[s] = "accept" /\ sig[s] = "wait" /\ launcher[s] # "create" /\ command.read.pid # s
    BY DEF Serves, Over
  <2>2. Up(s)
    BY <2>1 DEF Up
  <2>3. PidFileInv
    BY DEF DaemonInvariant
  <2>4. file.pid = s
    BY <2>1, <2>2, <2>3 DEF PidFileInv, FoundInv, Held
  <2>5. auth[s] = s
    BY <2>1, <2>3 DEF PidFileInv, AuthInv
  <2>6. file.auth = file.pid /\ (file.pid # 0 => file.kind = "ok")
    BY DEF DaemonInvariant, ContentInv, Sound
  <2> QED
    BY <2>4, <2>5, <2>6, NoPidIsZero
<1> QED
  BY <1>1, DaemonInvariance, PTL
=============================================================================
