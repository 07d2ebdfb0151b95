------------------------------ MODULE QueueInv ------------------------------
(***************************************************************************)
(* The inductive invariant of Queue: who runs the consumer of a name, what *)
(* the client that runs it knows of the working list, and where every      *)
(* package is.                                                             *)
(***************************************************************************)
EXTENDS Queue

(***************************************************************************)
(* Names that were not added twice at the same time.  A consumer that runs *)
(* has its heartbeat, and its name is in the set from the start; one that  *)
(* starts is the only one of its name that starts, and when it has found   *)
(* no heartbeat nobody runs under the name.  While the queue is deleted    *)
(* nobody starts, and who runs is still in front of Delete.                *)
(***************************************************************************)
Sure(c) == NameOf[c] \notin raced

NameOK(c) ==
  /\ conn[c] # "off" => NameOf[c] \in workers
  /\ conn[c] = "active" => NameOf[c] \in beating
  /\ deleter # "no" => ~ Starting(c) /\ (conn[c] = "active" => NameOf[c] \in todo \ current)

NamesInv ==
  /\ \A c \in Client : Sure(c) => NameOK(c)
  /\ \A c, d \in Client : Sure(c) /\ NameOf[c] = NameOf[d] /\ Starting(c) /\ Starting(d) => c = d
  /\ \A c, d \in Client : Sure(c) /\ NameOf[c] = NameOf[d] /\ conn[c] = "start" => conn[d] # "active"
  /\ deleter \in {"no", "failed", "workers"} => todo = {}
  /\ deleter \in {"no", "next", "failed", "workers"} => current = {}
  /\ OneConsumerPerName

(***************************************************************************)
(* Where a client is in a command, whoever else uses its name.  Of a       *)
(* collection the packages up to some one are marked; the ones before a    *)
(* rejected package are among them.                                        *)
(***************************************************************************)
CommandOK(c) ==
  /\ conn[c] # "active" => pc[c] = "idle" /\ have[c] = <<>> /\ ~ multi[c]
  /\ pc[c] \in {"get", "nowait"} => left[c] = 1 /\ have[c] = <<>> /\ ~ multi[c]
  /\ pc[c] \in {"multi", "requeueFailed"} => left[c] > 0
  /\ pc[c] = "multi" => multi[c] /\ \A i \in DOMAIN have[c] : ~ have[c][i].acked /\ ~ have[c][i].astray
  /\ pc[c] = "multiAck" => /\ multi[c] /\ left[c] \in DOMAIN have[c]
                           /\ \A i \in 1 .. left[c] : have[c][i].pack \in confirmed
  /\ pc[c] = "requeueWorking" => have[c] = <<>> /\ ~ multi[c]
  /\ multi[c] => \A i, j \in DOMAIN have[c] :
                   j < i /\ (have[c][i].acked \/ have[c][i].astray) => have[c][j].acked

CommandInv == \A c \in Client : CommandOK(c)

(***************************************************************************)
(* What a client holds.  A single package is the oldest one of the working *)
(* list, if that is not empty.  Of a collection the packages up to some    *)
(* one are marked, and the working list is exactly the rest.               *)
(***************************************************************************)
RestFrom(c, a) ==
  /\ \A i \in DOMAIN have[c] : have[c][i].acked <=> i <= a
  /\ Unacked(c) = [i \in 1 .. Len(have[c]) - a |-> have[c][a + i].pack]

Straight(c) == \A i \in DOMAIN have[c] : ~ have[c][i].astray

HoldOK(c) ==
  /\ pc[c] \in {"get", "nowait"} => ~ HasUnacked(c)
  /\ ~ multi[c] /\ have[c] # <<>> /\ ~ have[c][1].astray /\ HasUnacked(c) => Head(Unacked(c)) = have[c][1].pack
  /\ multi[c] /\ Straight(c) => \E a \in 0 .. Len(have[c]) : RestFrom(c, a)

HoldInv == \A c \in Client : Sure(c) => HoldOK(c)

(***************************************************************************)
(* Packages.  No list has a package twice, and no two lists have one in    *)
(* common, nor a list and what was removed.                                *)
(***************************************************************************)
NoRepeat(list) == \A i, j \in DOMAIN list : list[i] = list[j] => i = j

InWorking == UNION {ToSet(working[n]) : n \in Name}

ListsInv ==
  /\ NoRepeat(input) /\ NoRepeat(failed) /\ NoRepeat(buffer) /\ NoRepeat(batch)
  /\ \A n \in Name : NoRepeat(working[n])
  /\ \A n, m \in Name : n # m => ToSet(working[n]) \cap ToSet(working[m]) = {}
  /\ writer # "push" => batch = <<>>

Apart(in, fail, buff, bat, work, pop, res, all) ==
  /\ in \cap (fail \cup buff \cup bat \cup work \cup pop \cup res) = {}
  /\ fail \cap (buff \cup bat \cup work \cup pop \cup res) = {}
  /\ buff \cap (bat \cup work \cup pop \cup res) = {}
  /\ bat \cap (work \cup pop \cup res) = {}
  /\ work \cap (pop \cup res) = {}
  /\ pop \cap res = {}
  /\ in \cup fail \cup buff \cup bat \cup work \cup pop \cup res = all

PlacesInv ==
  Apart(ToSet(input), ToSet(failed), ToSet(buffer), ToSet(batch), InWorking, popped, reset, put)

(***************************************************************************)
(* A flush that was called in time: once the writer has looked at Buffer   *)
(* the channel is empty, and when it has answered so is the batch.         *)
(***************************************************************************)
Flushing == producer \in {"flush", "wait"} /\ ~ early

FlushInv ==
  /\ Flushing /\ writer \in {"push", "answer"} => buffer = <<>>
  /\ Flushing /\ flushed => buffer = <<>> /\ batch = <<>>

(***************************************************************************)
(* Every step of consumers, producers and of Delete leaves each package in *)
(* one place, and what is removed was named by the one who removes it.     *)
(***************************************************************************)
QueueInvariant ==
  /\ QueueTypeOK
  /\ NamesInv
  /\ CommandInv
  /\ HoldInv
  /\ ListsInv
  /\ PlacesInv
  /\ FlushInv
  /\ AckRemovesItsPackage
=============================================================================
