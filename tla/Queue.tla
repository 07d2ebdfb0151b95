------------------------------- MODULE Queue -------------------------------
(***************************************************************************)
(* The Redis message queue (mq): a buffered queue that one process writes  *)
(* into, and consumers that get packages, acknowledge, reject or requeue   *)
(* them, quit, crash and are started again under the same name.            *)
(*                                                                         *)
(* A step is one Redis command or one channel operation.  A Redis list is  *)
(* written with its right end first: LPush appends, RPop takes the head,   *)
(* and BRPopLPush, one command, does both on two lists.                    *)
(***************************************************************************)
EXTENDS Naturals, Sequences, SequencesExt, FiniteSets

CONSTANTS
  Package,     \* packages, in the order the producer puts them: 1 .. n
  Client,      \* processes that may run a consumer
  Name,        \* names of consumers
  NameOf,      \* NameOf[c]: the name client c uses
  MaxGet,      \* the longest MultiGet
  Mixes,       \* kinds of use: the queue is buffered or not, who consumes, what is
               \* put, and which commands are used beside AddConsumer, Get and Ack
  BufferSize   \* BufferSize of the buffered queue

Commands == {"nowait", "multi", "reject", "requeue", "reset", "delete"}

ASSUME QueueAssumption ==
  /\ NameOf \in [Client -> Name]
  /\ Mixes \subseteq [buffered : BOOLEAN, clients : SUBSET Client, packages : SUBSET Package, uses : SUBSET Commands]
  /\ MaxGet \in Nat /\ BufferSize \in Nat \ {0}

VARIABLES
  mix,            \* the kind of use
  \* in Redis
  input, failed,  \* the input and the failed list
  working,        \* working[n]: the working list of consumer n
  workers,        \* the set of names that were added
  beating,        \* names whose heartbeat key exists
  \* the consumers' processes
  conn,           \* where each client is in AddConsumer
  pc, left,       \* the command it is in, and the rounds left of it
  have,           \* the packages it was given last: [pack, acked, astray]
  multi,          \* they have a Collection
  deleter,        \* where a process is in Delete
  todo, current,  \* the names Delete has left, and the one it works on
  kept,           \* names for which that process runs a heartbeat
  \* the producer's process
  buffer,         \* channel Buffer
  commands,       \* number of elements of channel flushCommand
  flushStatus,    \* channel flushStatus is not empty
  flushed,        \* the channel FlushBuffer waits on got its answer
  producer,       \* what the producing goroutine does
  writer, batch,  \* what the writing goroutine does, and what it took
  due,            \* time.Now() >= nextWrite
  \* history
  put,            \* packages put so far
  early,          \* FlushBuffer found the writer behind its look at Buffer
  raced,          \* names that were added twice, or added and deleted, at the same time
  confirmed,      \* packages somebody called Ack or MultiAck for
  popped, reset,  \* packages removed by RPop, and by Del
  excused         \* packages popped by a client that was Misled

redis    == <<input, failed, working, workers, beating>>
deletion == <<deleter, todo, current, kept>>
client   == <<conn, pc, left, have, multi, deletion, raced>>
buffered == <<buffer, commands, flushStatus, flushed, producer, writer, batch, due, put, early>>
removed  == <<confirmed, popped, reset, excused>>
vars     == <<mix, redis, client, buffered, removed>>

Init ==
  /\ mix \in Mixes
  /\ input = <<>> /\ failed = <<>>
  /\ working = [n \in Name |-> <<>>]
  /\ workers = {} /\ beating = {}
  /\ conn = [c \in Client |-> "off"]
  /\ pc = [c \in Client |-> "idle"]
  /\ left = [c \in Client |-> 0]
  /\ have = [c \in Client |-> <<>>]
  /\ multi = [c \in Client |-> FALSE]
  /\ deleter = "no" /\ todo = {} /\ current = {} /\ kept = {}
  /\ buffer = <<>> /\ commands = 0
  /\ flushStatus = FALSE /\ flushed = FALSE
  /\ producer = "idle"
  /\ writer = "test" /\ batch = <<>>
  /\ due = TRUE
  /\ put = {} /\ early = FALSE
  /\ raced = {}
  /\ confirmed = {} /\ popped = {} /\ reset = {} /\ excused = {}

-----------------------------------------------------------------------------
\* Put of a queue that is not buffered: one LPush.
Put(p) ==
  /\ p \notin put /\ \A q \in Package : q < p => q \in put
  /\ input' = Append(input, p)
  /\ put' = put \cup {p}
  /\ UNCHANGED <<failed, working, workers, beating, client, buffer, commands, flushStatus, flushed,
                 producer, writer, batch, due, early, removed>>

(***************************************************************************)
(* The buffered queue.                                                     *)
(***************************************************************************)
Capacity == 2 * BufferSize    \* of channels Buffer and flushCommand

BufferedPut(p) ==
  /\ producer = "idle"
  /\ p \notin put /\ \A q \in Package : q < p => q \in put
  /\ Len(buffer) < Capacity
  /\ buffer' = Append(buffer, p)
  /\ put' = put \cup {p}
  /\ producer' = "put"
  /\ UNCHANGED <<redis, client, commands, flushStatus, flushed, writer, batch, due, early, removed>>

FlushBuffer ==
  /\ producer = "idle"
  /\ ~ flushStatus
  /\ flushStatus' = TRUE
  /\ flushed' = FALSE
  /\ producer' = "flush"
  /\ early' = (writer \in {"push", "answer"} /\ buffer # <<>>)
  /\ UNCHANGED <<redis, client, buffer, commands, writer, batch, due, put, removed>>

\* queue.flushCommand <- true, the second step of both.
SendCommand ==
  /\ producer \in {"put", "flush"}
  /\ commands < Capacity
  /\ commands' = commands + 1
  /\ producer' = IF producer = "put" THEN "idle" ELSE "wait"
  /\ UNCHANGED <<redis, client, buffer, flushStatus, flushed, writer, batch, due, put, early, removed>>

FlushReturns ==
  /\ producer = "wait"
  /\ flushed
  /\ producer' = "idle"
  /\ UNCHANGED <<redis, client, buffer, commands, flushStatus, flushed, writer, batch, due, put, early, removed>>

Pacemaker ==
  /\ commands < Capacity
  /\ commands' = commands + 1
  /\ UNCHANGED <<redis, client, buffer, flushStatus, flushed, producer, writer, batch, due, put, early, removed>>

Tick ==
  /\ ~ due
  /\ due' = TRUE
  /\ UNCHANGED <<redis, client, buffer, commands, flushStatus, flushed, producer, writer, batch, put, early, removed>>

\* Only what is in the channel at this moment is taken.
WriterTakes_onlyFull ==
  /\ writer = "test"
  /\ IF Len(buffer) >= BufferSize
     THEN batch' = buffer /\ buffer' = <<>> /\ writer' = "push"
     ELSE writer' = "sleep" /\ UNCHANGED <<batch, buffer>>
  /\ UNCHANGED <<redis, client, commands, flushStatus, flushed, producer, due, put, early, removed>>

WriterTakes_some ==
  /\ writer = "test"
  /\ IF Len(buffer) >= BufferSize \/ due
     THEN LET size == Min({Len(buffer), BufferSize})
          IN  /\ batch' = SubSeq(buffer, 1, size)
              /\ buffer' = SubSeq(buffer, size + 1, Len(buffer))
              /\ writer' = "push"
     ELSE writer' = "sleep" /\ UNCHANGED <<batch, buffer>>
  /\ UNCHANGED <<redis, client, commands, flushStatus, flushed, producer, due, put, early, removed>>

WriterTakes ==
  /\ writer = "test"
  /\ IF Len(buffer) >= BufferSize \/ due
     THEN batch' = buffer /\ buffer' = <<>> /\ writer' = "push"
     ELSE writer' = "sleep" /\ UNCHANGED <<batch, buffer>>
  /\ UNCHANGED <<redis, client, commands, flushStatus, flushed, producer, due, put, early, removed>>

WriterPushes ==
  /\ writer = "push"
  /\ input' = input \o batch
  /\ batch' = <<>>
  /\ writer' = "answer"
  /\ UNCHANGED <<failed, working, workers, beating, client, buffer, commands, flushStatus, flushed,
                 producer, due, put, early, removed>>

WriterAnswers ==
  /\ writer = "answer"
  /\ flushed' = (flushed \/ flushStatus)
  /\ flushStatus' = FALSE
  /\ due' = FALSE
  /\ writer' = "sleep"
  /\ UNCHANGED <<redis, client, buffer, commands, producer, batch, put, early, removed>>

WriterWakes ==
  /\ writer = "sleep"
  /\ commands > 0
  /\ commands' = commands - 1
  /\ writer' = "test"
  /\ UNCHANGED <<redis, client, buffer, flushStatus, flushed, producer, batch, due, put, early, removed>>

Write == WriterTakes \/ WriterPushes \/ WriterAnswers \/ WriterWakes

-----------------------------------------------------------------------------
(***************************************************************************)
(* Names and heartbeats.  The key lives one second and is written again    *)
(* every half second: a process that runs is taken to be in time, so that  *)
(* the key expires only when no process writes it any more.                *)
(***************************************************************************)
Starting(c) == conn[c] \in {"check", "start"}

\* SAdd, which says whether the name is new.
AddConsumer(c) ==
  /\ conn[c] = "off"
  /\ workers' = workers \cup {NameOf[c]}
  /\ conn' = [conn EXCEPT ![c] = IF NameOf[c] \in workers THEN "check" ELSE "start"]
  /\ raced' = IF deleter # "no" \/ \E d \in Client : NameOf[d] = NameOf[c] /\ Starting(d)
              THEN raced \cup {NameOf[c]}
              ELSE raced
  /\ UNCHANGED <<input, failed, working, beating, pc, left, have, multi, deletion, buffered, removed>>

\* isActiveConsumer: "consumer with this name is already active"
CheckActive_never(c) ==
  /\ conn[c] = "check"
  /\ conn' = [conn EXCEPT ![c] = "start"]
  /\ UNCHANGED <<redis, pc, left, have, multi, deletion, raced, buffered, removed>>

CheckActive(c) ==
  /\ conn[c] = "check"
  /\ conn' = [conn EXCEPT ![c] = IF NameOf[c] \in beating THEN "off" ELSE "start"]
  /\ UNCHANGED <<redis, pc, left, have, multi, deletion, raced, buffered, removed>>

StartHeartbeat(c) ==
  /\ conn[c] = "start"
  /\ beating' = beating \cup {NameOf[c]}
  /\ conn' = [conn EXCEPT ![c] = "active"]
  /\ UNCHANGED <<input, failed, working, workers, pc, left, have, multi, deletion, raced, buffered, removed>>

\* The heartbeat of a consumer, or of one that Delete added.
Running(n) == n \in kept \/ \E c \in Client : NameOf[c] = n /\ conn[c] = "active"

Beat(n) ==
  /\ Running(n)
  /\ n \notin beating
  /\ beating' = beating \cup {n}
  /\ UNCHANGED <<input, failed, working, workers, client, buffered, removed>>

Expire(n) ==
  /\ n \in beating
  /\ ~ Running(n)
  /\ beating' = beating \ {n}
  /\ UNCHANGED <<input, failed, working, workers, client, buffered, removed>>

\* What a process knew is gone when it ends.
Forget(c) ==
  /\ conn' = [conn EXCEPT ![c] = "off"]
  /\ pc' = [pc EXCEPT ![c] = "idle"]
  /\ left' = [left EXCEPT ![c] = 0]
  /\ have' = [have EXCEPT ![c] = <<>>]
  /\ multi' = [multi EXCEPT ![c] = FALSE]
  /\ UNCHANGED <<deletion, raced>>

Ready(c) == conn[c] = "active" /\ pc[c] = "idle"

Quit(c) ==
  /\ Ready(c)
  /\ beating' = beating \ {NameOf[c]}
  /\ Forget(c)
  /\ UNCHANGED <<input, failed, working, workers, buffered, removed>>

Crash(c) ==
  /\ conn[c] # "off"
  /\ Forget(c)
  /\ UNCHANGED <<redis, buffered, removed>>

-----------------------------------------------------------------------------
(***************************************************************************)
(* A consumer's commands.  A client uses the packages it was given last.   *)
(***************************************************************************)
Unacked(c) == working[NameOf[c]]
HasUnacked(c) == Unacked(c) # <<>>
Given(p, late) == [pack |-> p, acked |-> FALSE, astray |-> late]

\* RPopLPush to, and from, the working list of client c.
TakeFrom(list, c) == working' = [working EXCEPT ![NameOf[c]] = Append(@, Head(list))]
DropFirst_copies(c) == UNCHANGED working
DropFirst(c) == working' = [working EXCEPT ![NameOf[c]] = Tail(@)]

Call(c, command, rounds) ==
  /\ pc' = [pc EXCEPT ![c] = command]
  /\ left' = [left EXCEPT ![c] = rounds]

\* One round of the command is over; a command without rounds left returns.
Round(c) == Call(c, IF left[c] = 1 THEN "idle" ELSE pc[c], left[c] - 1)

Hold(c, packages, collection) ==
  /\ have' = [have EXCEPT ![c] = packages]
  /\ multi' = [multi EXCEPT ![c] = collection]

(***************************************************************************)
(* RPop takes the oldest package of the working list, whatever package is  *)
(* acknowledged.  A client is misled about the first k packages it holds   *)
(* when one of them was rejected, which leaves it unmarked, or was put     *)
(* behind others by GetFailed, or when two consumers may use the list.     *)
(***************************************************************************)
Misled(c, k) == NameOf[c] \in raced \/ \E i \in 1 .. k : have[c][i].astray

PopFirst(c, k) ==
  /\ HasUnacked(c)
  /\ DropFirst(c)
  /\ popped' = popped \cup {Head(Unacked(c))}
  /\ excused' = IF Misled(c, k) THEN excused \cup {Head(Unacked(c))} ELSE excused

(***************************************************************************)
(* Get, NoWaitGet and MultiGet look for unacknowledged packages first and  *)
(* pop in a later command.  MultiGet sends its commands in one pipeline,   *)
(* between which Redis may serve others; only the first one blocks.        *)
(***************************************************************************)
Get_unchecked(c, command, rounds) ==
  /\ Ready(c)
  /\ Call(c, command, rounds)
  /\ Hold(c, <<>>, command = "multi")
  /\ UNCHANGED <<redis, conn, deletion, raced, buffered, removed>>

Get(c, command, rounds) ==
  /\ Ready(c)
  /\ ~ HasUnacked(c)
  /\ Call(c, command, rounds)
  /\ Hold(c, <<>>, command = "multi")
  /\ UNCHANGED <<redis, conn, deletion, raced, buffered, removed>>

Pop(c) ==
  /\ pc[c] \in {"get", "nowait", "multi"}
  /\ input # <<>>
  /\ TakeFrom(input, c)
  /\ input' = Tail(input)
  /\ have' = [have EXCEPT ![c] = Append(@, Given(Head(input), FALSE))]
  /\ Round(c)
  /\ UNCHANGED <<failed, workers, beating, conn, multi, deletion, raced, buffered, removed>>

PopNothing(c) ==
  /\ pc[c] = "nowait" \/ (pc[c] = "multi" /\ have[c] # <<>>)
  /\ input = <<>>
  /\ Round(c)
  /\ UNCHANGED <<redis, conn, have, multi, deletion, raced, buffered, removed>>

GetUnacked(c) ==
  /\ Ready(c)
  /\ HasUnacked(c)
  /\ Hold(c, <<Given(Head(Unacked(c)), FALSE)>>, FALSE)
  /\ UNCHANGED <<redis, conn, pc, left, deletion, raced, buffered, removed>>

\* GetFailed does not look for unacknowledged packages.
GetFailed(c) ==
  /\ Ready(c)
  /\ failed # <<>>
  /\ TakeFrom(failed, c)
  /\ failed' = Tail(failed)
  /\ Hold(c, <<Given(Head(failed), HasUnacked(c))>>, FALSE)
  /\ UNCHANGED <<input, workers, beating, conn, pc, left, deletion, raced, buffered, removed>>

\* A client acknowledges, or rejects, a single package once.
Ack(c) ==
  /\ Ready(c)
  /\ ~ multi[c] /\ have[c] # <<>>
  /\ PopFirst(c, 1)
  /\ confirmed' = confirmed \cup {have[c][1].pack}
  /\ Hold(c, <<>>, FALSE)
  /\ UNCHANGED <<input, failed, workers, beating, conn, pc, left, deletion, raced, buffered, reset>>

(***************************************************************************)
(* MultiAck of the k-th package of the collection: one RPop for each of    *)
(* the first k that is not marked Acked, until the list is empty.  A       *)
(* client that acknowledged the last one is done with the collection.      *)
(***************************************************************************)
Unmarked(c, k) == {i \in 1 .. k : ~ have[c][i].acked}

MultiAck(c, k) ==
  /\ Ready(c)
  /\ multi[c]
  /\ Call(c, "multiAck", k)
  /\ confirmed' = confirmed \cup {have[c][i].pack : i \in 1 .. k}
  /\ UNCHANGED <<redis, conn, have, multi, deletion, raced, buffered, popped, reset, excused>>

MultiAckOne(c) ==
  /\ pc[c] = "multiAck"
  /\ Unmarked(c, left[c]) # {}
  /\ PopFirst(c, left[c])
  /\ have' = [have EXCEPT ![c][Min(Unmarked(c, left[c]))].acked = TRUE]
  /\ UNCHANGED <<input, failed, workers, beating, conn, pc, left, multi, deletion, raced, buffered, confirmed, reset>>

MultiAckEnds(c) ==
  /\ pc[c] = "multiAck"
  /\ Unmarked(c, left[c]) = {} \/ ~ HasUnacked(c)
  /\ Call(c, "idle", 0)
  /\ IF Unmarked(c, Len(have[c])) = {} THEN Hold(c, <<>>, FALSE) ELSE UNCHANGED <<have, multi>>
  /\ UNCHANGED <<redis, conn, deletion, raced, buffered, removed>>

(***************************************************************************)
(* Requeue and Fail of the k-th package: the one before it in its          *)
(* collection must be marked Acked (k = 1 is an index out of range, and    *)
(* ends the process: Crash).  The package itself is not marked, so that a  *)
(* MultiAck after it pops one package too many.                            *)
(***************************************************************************)
Reject(c, k, requeue) ==
  /\ Ready(c)
  /\ multi[c] => k > 1 /\ have[c][k - 1].acked
  /\ HasUnacked(c)
  /\ DropFirst(c)
  /\ IF requeue
     THEN input' = Append(input, Head(Unacked(c))) /\ UNCHANGED failed
     ELSE failed' = Append(failed, Head(Unacked(c))) /\ UNCHANGED input
  /\ have' = [have EXCEPT ![c] = IF multi[c] THEN [@ EXCEPT ![k].astray = TRUE] ELSE <<>>]
  /\ UNCHANGED <<workers, beating, conn, pc, left, multi, deletion, raced, buffered, removed>>

RequeueWorking(c) ==
  /\ Ready(c)
  /\ HasUnacked(c)
  /\ Call(c, "requeueWorking", 0)
  /\ Hold(c, <<>>, FALSE)
  /\ UNCHANGED <<redis, conn, deletion, raced, buffered, removed>>

RequeueOne(c) ==
  /\ pc[c] = "requeueWorking"
  /\ IF HasUnacked(c)
     THEN /\ input' = Append(input, Head(Unacked(c)))
          /\ DropFirst(c)
          /\ UNCHANGED pc
     ELSE pc' = [pc EXCEPT ![c] = "idle"] /\ UNCHANGED <<input, working>>
  /\ UNCHANGED <<failed, workers, beating, conn, left, have, multi, deletion, raced, buffered, removed>>

\* The number of rounds is the length the failed list had at the beginning.
RequeueFailed(c) ==
  /\ Ready(c)
  /\ failed # <<>>
  /\ Call(c, "requeueFailed", Len(failed))
  /\ UNCHANGED <<redis, conn, have, multi, deletion, raced, buffered, removed>>

RequeueFailedOne(c) ==
  /\ pc[c] = "requeueFailed"
  /\ IF failed # <<>>
     THEN /\ input' = Append(input, Head(failed))
          /\ failed' = Tail(failed)
          /\ Round(c)
     ELSE Call(c, "idle", 0) /\ UNCHANGED <<input, failed>>
  /\ UNCHANGED <<working, workers, beating, conn, have, multi, deletion, raced, buffered, removed>>

-----------------------------------------------------------------------------
(***************************************************************************)
(* Del of a list.                                                          *)
(***************************************************************************)
ResetWorking(c) ==
  /\ Ready(c)
  /\ reset' = reset \cup ToSet(Unacked(c))
  /\ working' = [working EXCEPT ![NameOf[c]] = <<>>]
  /\ Hold(c, <<>>, FALSE)
  /\ UNCHANGED <<input, failed, workers, beating, conn, pc, left, deletion, raced, buffered,
                 confirmed, popped, excused>>

DelInput ==
  /\ reset' = reset \cup ToSet(input)
  /\ input' = <<>>
  /\ UNCHANGED <<failed, working, workers, beating, conn, pc, left, have, multi, raced, buffered,
                 confirmed, popped, excused>>

DelFailed ==
  /\ reset' = reset \cup ToSet(failed)
  /\ failed' = <<>>
  /\ UNCHANGED <<input, working, workers, beating, conn, pc, left, have, multi, raced, buffered,
                 confirmed, popped, excused>>

ResetInput == DelInput /\ UNCHANGED deletion
ResetFailed == DelFailed /\ UNCHANGED deletion

(***************************************************************************)
(* Delete.  For each name that was in the set at the beginning: is it      *)
(* active, then AddConsumer, whose heartbeat runs on until the process     *)
(* ends, ResetWorking and SRem.  The lists and the set of names follow.    *)
(***************************************************************************)
DeleteStart ==
  /\ deleter = "no"
  /\ deleter' = "next"
  /\ todo' = workers
  /\ raced' = raced \cup {NameOf[c] : c \in {d \in Client : Starting(d)}}
  /\ UNCHANGED <<redis, conn, pc, left, have, multi, current, kept, buffered, removed>>

Refuse ==
  /\ deleter' = "no" /\ todo' = {} /\ current' = {}
  /\ UNCHANGED <<redis, conn, pc, left, have, multi, kept, raced, buffered, removed>>

\* "cannot delete queue with active consumers"
DeleteNext(n) ==
  /\ deleter = "next"
  /\ n \in todo
  /\ IF n \in beating
     THEN Refuse
     ELSE /\ deleter' = "add" /\ current' = {n}
          /\ UNCHANGED <<redis, conn, pc, left, have, multi, todo, kept, raced, buffered, removed>>

DeleteAdds(n) ==
  /\ deleter = "add"
  /\ n \in current
  /\ workers' = workers \cup {n}
  /\ deleter' = IF n \in workers THEN "check" ELSE "start"
  /\ UNCHANGED <<input, failed, working, beating, conn, pc, left, have, multi, todo, current, kept, raced,
                 buffered, removed>>

DeleteChecks(n) ==
  /\ deleter = "check"
  /\ n \in current
  /\ IF n \in beating
     THEN Refuse
     ELSE /\ deleter' = "start"
          /\ UNCHANGED <<redis, conn, pc, left, have, multi, todo, current, kept, raced, buffered, removed>>

DeleteBeats(n) ==
  /\ deleter = "start"
  /\ n \in current
  /\ beating' = beating \cup {n}
  /\ kept' = kept \cup {n}
  /\ deleter' = "reset"
  /\ UNCHANGED <<input, failed, working, workers, conn, pc, left, have, multi, todo, current, raced,
                 buffered, removed>>

DeleteResets(n) ==
  /\ deleter = "reset"
  /\ n \in current
  /\ reset' = reset \cup ToSet(working[n])
  /\ working' = [working EXCEPT ![n] = <<>>]
  /\ deleter' = "rem"
  /\ UNCHANGED <<input, failed, workers, beating, conn, pc, left, have, multi, todo, current, kept, raced,
                 buffered, confirmed, popped, excused>>

DeleteRemoves(n) ==
  /\ deleter = "rem"
  /\ n \in current
  /\ workers' = workers \ {n}
  /\ deleter' = "next" /\ todo' = todo \ {n} /\ current' = {}
  /\ UNCHANGED <<input, failed, working, beating, conn, pc, left, have, multi, kept, raced, buffered, removed>>

DeleteInput ==
  /\ deleter = "next" /\ todo = {}
  /\ deleter' = "failed"
  /\ DelInput
  /\ UNCHANGED <<todo, current, kept>>

DeleteFailed ==
  /\ deleter = "failed"
  /\ deleter' = "workers"
  /\ DelFailed
  /\ UNCHANGED <<todo, current, kept>>

\* Close of the connection ends the heartbeats.
DeleteWorkers ==
  /\ deleter = "workers"
  /\ workers' = {}
  /\ deleter' = "no" /\ kept' = {}
  /\ UNCHANGED <<input, failed, working, beating, conn, pc, left, have, multi, todo, current, raced,
                 buffered, removed>>

\* The process that deletes, or that failed to, ends or crashes.
DeleterEnds ==
  /\ deleter # "no" \/ kept # {}
  /\ deleter' = "no" /\ todo' = {} /\ current' = {} /\ kept' = {}
  /\ UNCHANGED <<redis, conn, pc, left, have, multi, raced, buffered, removed>>

-----------------------------------------------------------------------------
Uses(command) == command \in mix.uses

Consume(c) ==
  \/ AddConsumer(c) \/ CheckActive(c) \/ StartHeartbeat(c) \/ Quit(c) \/ Crash(c)
  \/ Get(c, "get", 1) \/ GetUnacked(c) \/ Ack(c) \/ Pop(c) \/ PopNothing(c)
  \/ Uses("nowait") /\ Get(c, "nowait", 1)
  \/ Uses("multi") /\ \E n \in 2 .. MaxGet : Get(c, "multi", n)
  \/ MultiAckOne(c) \/ MultiAckEnds(c) \/ \E k \in DOMAIN have[c] : MultiAck(c, k)
  \/ Uses("reject") /\ \E k \in DOMAIN have[c], r \in BOOLEAN : Reject(c, k, r)
  \/ Uses("reject") /\ (GetFailed(c) \/ RequeueFailed(c))
  \/ Uses("requeue") /\ RequeueWorking(c)
  \/ RequeueOne(c) \/ RequeueFailedOne(c)
  \/ Uses("reset") /\ ResetWorking(c)

Delete ==
  \/ DeleteStart \/ DeleteInput \/ DeleteFailed \/ DeleteWorkers \/ DeleterEnds
  \/ \E n \in Name : \/ DeleteNext(n) \/ DeleteAdds(n) \/ DeleteChecks(n)
                      \/ DeleteBeats(n) \/ DeleteResets(n) \/ DeleteRemoves(n)

Buffered ==
  \/ \E p \in mix.packages : BufferedPut(p)
  \/ FlushBuffer \/ SendCommand \/ FlushReturns \/ Write \/ Pacemaker \/ Tick

Next ==
  /\ \/ mix.buffered /\ Buffered
     \/ ~ mix.buffered /\ \E p \in mix.packages : Put(p)
     \/ \E c \in mix.clients : Consume(c)
     \/ \E n \in Name : Expire(n) \/ Beat(n)
     \/ Uses("reset") /\ (ResetInput \/ ResetFailed)
     \/ Uses("delete") /\ Delete
  /\ UNCHANGED mix

Spec == Init /\ [][Next]_vars

(***************************************************************************)
(* The goroutines of the buffered queue run, and time passes.  A send on a *)
(* full channel waits in line with the other senders, so the pacemaker     *)
(* cannot keep the producer from it forever: strong fairness.  Nobody is   *)
(* obliged to put, to flush or to consume.                                 *)
(***************************************************************************)
InBuffered(A) == mix.buffered /\ A /\ UNCHANGED mix

FairSpec ==
  /\ Spec
  /\ WF_vars(InBuffered(Write)) /\ WF_vars(InBuffered(Pacemaker)) /\ WF_vars(InBuffered(Tick))
  /\ SF_vars(InBuffered(SendCommand)) /\ WF_vars(InBuffered(FlushReturns))

-----------------------------------------------------------------------------
(***************************************************************************)
(* Properties.                                                             *)
(***************************************************************************)

RedisTypeOK ==
  /\ input \in Seq(Package) /\ failed \in Seq(Package)
  /\ working \in [Name -> Seq(Package)]
  /\ workers \subseteq Name /\ beating \subseteq Name

Entry == [pack : Package, acked : BOOLEAN, astray : BOOLEAN]

ClientTypeOK ==
  /\ conn \in [Client -> {"off", "check", "start", "active"}]
  /\ pc \in [Client -> {"idle", "get", "nowait", "multi", "multiAck", "requeueWorking", "requeueFailed"}]
  /\ left \in [Client -> Nat]
  /\ have \in [Client -> Seq(Entry)]
  /\ multi \in [Client -> BOOLEAN]
  /\ deleter \in {"no", "next", "add", "check", "start", "reset", "rem", "failed", "workers"}
  /\ todo \subseteq Name /\ current \subseteq todo /\ kept \subseteq Name /\ raced \subseteq Name

BufferTypeOK ==
  /\ buffer \in Seq(Package) /\ batch \in Seq(Package)
  /\ Len(buffer) <= 2 * BufferSize /\ commands \in 0 .. 2 * BufferSize
  /\ flushStatus \in BOOLEAN /\ flushed \in BOOLEAN /\ due \in BOOLEAN
  /\ producer \in {"idle", "put", "flush", "wait"}
  /\ writer \in {"test", "push", "answer", "sleep"}
  /\ put \subseteq Package /\ early \in BOOLEAN

\* Lists hold packages, and channels are no longer than their capacity.
QueueTypeOK ==
  /\ mix \in Mixes
  /\ RedisTypeOK /\ ClientTypeOK /\ BufferTypeOK
  /\ confirmed \cup popped \cup reset \cup excused \subseteq Package

(***************************************************************************)
(* No package is lost and none is there twice: every package that was put  *)
(* is at exactly one place of exactly one list, or was removed.            *)
(***************************************************************************)
Occurrences(list, p) == {i \in DOMAIN list : list[i] = p}

Places(p) ==
  Cardinality(Occurrences(input, p)) + Cardinality(Occurrences(failed, p))
  + Cardinality(Occurrences(buffer, p)) + Cardinality(Occurrences(batch, p))
  + Cardinality(UNION {{n} \X Occurrences(working[n], p) : n \in Name})
  + (IF p \in popped THEN 1 ELSE 0) + (IF p \in reset THEN 1 ELSE 0)

PackageIsInOnePlace == \A p \in Package : Places(p) = IF p \in put THEN 1 ELSE 0

(***************************************************************************)
(* Ack and MultiAck pop from the end of the working list without looking   *)
(* which package is there (consumer.go, ackPackage).  A package that       *)
(* nobody acknowledged is removed in three cases only, those of Misled:    *)
(* the collection has a rejected package, although mq/Readme.md goes on    *)
(* with it ("This way you can Fail() single packages"); GetFailed was      *)
(* called with packages unacknowledged; or two starts of the name met.     *)
(* Crashes, take-overs of the name, a MultiAck that was cut off and Delete *)
(* are no such case.                                                       *)
(***************************************************************************)
AckRemovesItsPackage == popped \ excused \subseteq confirmed

(***************************************************************************)
(* At most one process runs the consumer of a name ("should not allow a    *)
(* second consumer with the same name", integration_test.go; "check        *)
(* uniqueness", queue.go), unless two AddConsumer of the name, or one and  *)
(* Delete, ran at the same time: SAdd, the look for the heartbeat and the  *)
(* first heartbeat are commands of their own, and two processes that are   *)
(* both between them both start.  Quit, a crash, an expiring heartbeat, a  *)
(* Delete that was refused or cut off and a start that follow each other   *)
(* in any order do not lead there.                                         *)
(***************************************************************************)
OneConsumerPerName ==
  \A c, d \in Client :
    c # d /\ NameOf[c] = NameOf[d] /\ conn[c] = "active" /\ conn[d] = "active" => NameOf[c] \in raced

(***************************************************************************)
(* "tell the queue to flush the buffer and wait till it's empty"           *)
(* (mq/Readme.md): when FlushBuffer has its answer, everything that was    *)
(* put is in Redis, unless the call came after the writer had looked at    *)
(* Buffer and before it answered: then what was put after that look is     *)
(* still in the channel.                                                   *)
(***************************************************************************)
FlushedIsWritten == producer = "wait" /\ flushed /\ ~ early => buffer = <<>> /\ batch = <<>>

(***************************************************************************)
(* FlushBuffer returns: the answer comes although the writer sleeps until  *)
(* a command arrives and skips writing until a second has passed.          *)
(***************************************************************************)
FlushEnds == producer = "flush" ~> producer = "idle"
=============================================================================
