----------------------------- MODULE QueueProofs -----------------------------
(***************************************************************************)
(* Proofs about the message queue, for any number of packages, clients and *)
(* names, collections of any length and every size of the buffer.          *)
(***************************************************************************)
EXTENDS QueueInv, FiniteSetTheorems, WellFoundedInduction, TLAPS

(***************************************************************************)
(* Lists                                                                   *)
(***************************************************************************)

\* A set of natural numbers that is not empty has a least element.
LEMMA LeastNumber ==
  ASSUME NEW T \in SUBSET Nat, T # {}
  PROVE  \E n \in T : \A m \in T : n <= m
<1> DEFINE Less == {pair \in Nat \X Nat : pair[1] < pair[2]}
<1>1. IsWellFoundedOn(Less, Nat)
  BY NatLessThanWellFounded DEF OpToRel
<1> HIDE DEF Less
<1>2. PICK n \in T : \A m \in T : <<m, n>> \notin Less
  BY <1>1, WFMin
<1>3. \A m \in T : ~ (m < n)
  BY <1>2 DEF Less
<1> QED
  BY <1>3

\* A list as a function of its positions, and back.
LEMMA ListIsFunction ==
  ASSUME NEW P, NEW s \in Seq(P)
  PROVE  s \in [1 .. Len(s) -> P] /\ Len(s) \in Nat /\ DOMAIN s = 1 .. Len(s)
OBVIOUS

LEMMA FunctionIsList ==
  ASSUME NEW P, NEW n \in Nat, NEW f \in [1 .. n -> P]
  PROVE  f \in Seq(P) /\ Len(f) = n
OBVIOUS

\* The positions of a list with one more member.
LEMMA AppendPositions ==
  ASSUME NEW P, NEW s \in Seq(P), NEW x \in P
  PROVE  /\ Len(Append(s, x)) = Len(s) + 1
         /\ Append(s, x) \in [1 .. Len(s) + 1 -> P]
         /\ \A i \in 1 .. Len(s) : Append(s, x)[i] = s[i]
         /\ Append(s, x)[Len(s) + 1] = x
<1>1. /\ Append(s, x) \in Seq(P) /\ Len(Append(s, x)) = Len(s) + 1
      /\ \A i \in 1 .. Len(s) : Append(s, x)[i] = s[i]
      /\ Append(s, x)[Len(s) + 1] = x
  OBVIOUS
<1>2. Append(s, x) \in [1 .. Len(Append(s, x)) -> P]
  BY <1>1, ListIsFunction
<1> QED
  BY <1>1, <1>2

\* LPush: a package at the end of a list.
LEMMA Pushed ==
  ASSUME NEW P, NEW s \in Seq(P), NEW x \in P
  PROVE  /\ Append(s, x) \in Seq(P)
         /\ ToSet(Append(s, x)) = ToSet(s) \cup {x}
         /\ NoRepeat(s) /\ x \notin ToSet(s) => NoRepeat(Append(s, x))
<1>1. /\ Append(s, x) \in Seq(P)
      /\ DOMAIN s = 1 .. Len(s) /\ Len(s) \in Nat
      /\ DOMAIN Append(s, x) = 1 .. Len(s) + 1
      /\ \A i \in 1 .. Len(s) : Append(s, x)[i] = s[i]
      /\ Append(s, x)[Len(s) + 1] = x
  OBVIOUS
<1> DEFINE t == Append(s, x)
<1> HIDE DEF t
<1>2. ToSet(t) = ToSet(s) \cup {x}
  BY <1>1 DEF ToSet, t
<1>3. ASSUME NoRepeat(s), x \notin ToSet(s)
      PROVE  NoRepeat(t)
  BY <1>1, <1>3 DEF NoRepeat, ToSet, t
<1> QED
  BY <1>1, <1>2, <1>3 DEF t

\* RPop: the first package of a list and the others.
LEMMA Shifted ==
  ASSUME NEW P, NEW s \in Seq(P), s # <<>>
  PROVE  /\ Head(s) \in P /\ Tail(s) \in Seq(P)
         /\ Head(s) \in ToSet(s)
         /\ ToSet(s) = {Head(s)} \cup ToSet(Tail(s))
         /\ NoRepeat(s) => NoRepeat(Tail(s)) /\ Head(s) \notin ToSet(Tail(s))
<1>1. /\ Head(s) \in P /\ Tail(s) \in Seq(P)
      /\ DOMAIN s = 1 .. Len(s) /\ Len(s) \in Nat /\ Len(s) > 0
      /\ DOMAIN Tail(s) = 1 .. Len(s) - 1
      /\ \A i \in 1 .. Len(s) - 1 : Tail(s)[i] = s[i + 1]
      /\ Head(s) = s[1]
  OBVIOUS
<1> DEFINE t == Tail(s)
<1> HIDE DEF t
<1>2. ToSet(s) \subseteq {s[1]} \cup ToSet(t)
  <2> SUFFICES ASSUME NEW i \in 1 .. Len(s) PROVE s[i] \in {s[1]} \cup ToSet(t)
    BY <1>1 DEF ToSet
  <2>1. CASE i = 1
    BY <2>1
  <2>2. CASE i # 1
    <3>1. i - 1 \in 1 .. Len(s) - 1 /\ (i - 1) + 1 = i
      BY <1>1, <2>2
    <3>2. t[i - 1] = s[i]
      BY <1>1, <3>1 DEF t
    <3> QED
      BY <1>1, <3>1, <3>2 DEF ToSet, t
  <2> QED
    BY <2>1, <2>2
<1>3. {s[1]} \cup ToSet(t) \subseteq ToSet(s)
  BY <1>1 DEF ToSet, t
<1>4. ASSUME NoRepeat(s)
      PROVE  NoRepeat(t) /\ s[1] \notin ToSet(t)
  BY <1>1, <1>4 DEF NoRepeat, ToSet, t
<1>5. s[1] \in ToSet(s)
  BY <1>1 DEF ToSet
<1> QED
  BY <1>1, <1>2, <1>3, <1>4, <1>5 DEF t

\* A list with another one at its end.
LEMMA Joined ==
  ASSUME NEW P, NEW s \in Seq(P), NEW t \in Seq(P)
  PROVE  /\ s \o t \in Seq(P)
         /\ ToSet(s \o t) = ToSet(s) \cup ToSet(t)
         /\ NoRepeat(s) /\ NoRepeat(t) /\ ToSet(s) \cap ToSet(t) = {} => NoRepeat(s \o t)
<1>1. /\ s \o t \in Seq(P)
      /\ DOMAIN s = 1 .. Len(s) /\ Len(s) \in Nat
      /\ DOMAIN t = 1 .. Len(t) /\ Len(t) \in Nat
      /\ DOMAIN (s \o t) = 1 .. Len(s) + Len(t)
      /\ \A i \in 1 .. Len(s) + Len(t) : (s \o t)[i] = IF i <= Len(s) THEN s[i] ELSE t[i - Len(s)]
  OBVIOUS
<1> DEFINE u == s \o t
<1> HIDE DEF u
<1>2. ToSet(u) \subseteq ToSet(s) \cup ToSet(t)
  <2> SUFFICES ASSUME NEW i \in 1 .. Len(s) + Len(t) PROVE u[i] \in ToSet(s) \cup ToSet(t)
    BY <1>1 DEF ToSet, u
  <2>1. CASE i <= Len(s)
    BY <1>1, <2>1 DEF ToSet, u
  <2>2. CASE i > Len(s)
    <3>1. u[i] = t[i - Len(s)] /\ i - Len(s) \in 1 .. Len(t)
      BY <1>1, <2>2 DEF u
    <3> QED
      BY <1>1, <3>1 DEF ToSet
  <2> QED
    BY <1>1, <2>1, <2>2
<1>3. ToSet(s) \subseteq ToSet(u)
  <2> SUFFICES ASSUME NEW i \in 1 .. Len(s) PROVE s[i] \in ToSet(u)
    BY <1>1 DEF ToSet
  <2>1. u[i] = s[i] /\ i \in DOMAIN u
    BY <1>1 DEF u
  <2> QED
    BY <2>1 DEF ToSet
<1>4. ToSet(t) \subseteq ToSet(u)
  <2> SUFFICES ASSUME NEW i \in 1 .. Len(t) PROVE t[i] \in ToSet(u)
    BY <1>1 DEF ToSet
  <2>1. i + Len(s) \in DOMAIN u /\ ~ (i + Len(s) <= Len(s)) /\ (i + Len(s)) - Len(s) = i
    BY <1>1 DEF u
  <2>2. u[i + Len(s)] = t[i]
    BY <1>1, <2>1 DEF u
  <2> QED
    BY <2>1, <2>2 DEF ToSet
<1>5. ASSUME NoRepeat(s), NoRepeat(t), ToSet(s) \cap ToSet(t) = {}
      PROVE  NoRepeat(u)
  <2> SUFFICES ASSUME NEW i \in DOMAIN u, NEW j \in DOMAIN u, u[i] = u[j]
               PROVE  i = j
    BY DEF NoRepeat
  <2>1. \A k \in DOMAIN u : IF k <= Len(s) THEN k \in DOMAIN s /\ u[k] = s[k]
                            ELSE k - Len(s) \in DOMAIN t /\ u[k] = t[k - Len(s)]
    BY <1>1 DEF u
  <2>2. i \in Nat /\ j \in Nat
    BY <1>1 DEF u
  <2>3. \A k \in DOMAIN s : s[k] \in ToSet(s)
    BY DEF ToSet
  <2>4. \A k \in DOMAIN t : t[k] \in ToSet(t)
    BY DEF ToSet
  <2> QED
    BY <1>1, <1>5, <2>1, <2>2, <2>3, <2>4 DEF NoRepeat
<1> QED
  BY <1>1, <1>2, <1>3, <1>4, <1>5 DEF u

\* An empty list.
LEMMA Nothing ==
  /\ ToSet(<<>>) = {} /\ NoRepeat(<<>>)
  /\ \A P : <<>> \in Seq(P)
BY DEF ToSet, NoRepeat

(***************************************************************************)
(* Types                                                                   *)
(***************************************************************************)

\* The goroutines of the buffered queue keep the types of what they share.
LEMMA BufferTypes ==
  ASSUME QueueTypeOK, Buffered
  PROVE  BufferTypeOK'
<1> USE DEF BufferTypeOK
<1>1. Capacity = 2 * BufferSize /\ 2 * BufferSize \in Nat
  BY QueueAssumption DEF Capacity
<1>2. BufferTypeOK /\ mix.packages \subseteq Package
  BY QueueAssumption DEF QueueTypeOK
<1>3. ASSUME NEW p \in Package, BufferedPut(p)
      PROVE  BufferTypeOK'
  <2>1. Append(buffer, p) \in Seq(Package) /\ Len(Append(buffer, p)) = Len(buffer) + 1 /\ Len(buffer) \in Nat
    BY <1>2
  <2>2. buffer' \in Seq(Package) /\ Len(buffer') <= 2 * BufferSize
    BY <1>1, <1>3, <2>1 DEF BufferedPut
  <2> QED
    BY <1>2, <1>3, <2>2 DEF BufferedPut
<1>4. CASE FlushBuffer
  BY <1>2, <1>4 DEF FlushBuffer
<1>5. CASE SendCommand
  <2>1. commands' \in 0 .. 2 * BufferSize
    BY <1>1, <1>2, <1>5 DEF SendCommand
  <2>2. producer' \in {"idle", "put", "flush", "wait"}
    BY <1>5 DEF SendCommand
  <2> QED
    BY <1>2, <1>5, <2>1, <2>2 DEF SendCommand
<1>6. CASE FlushReturns
  BY <1>2, <1>6 DEF FlushReturns
<1>7. CASE Pacemaker
  <2>1. commands' \in 0 .. 2 * BufferSize
    BY <1>1, <1>2, <1>7 DEF Pacemaker
  <2> QED
    BY <1>2, <1>7, <2>1 DEF Pacemaker
<1>8. CASE Tick
  BY <1>2, <1>8 DEF Tick
<1>9. CASE WriterTakes
  <2>1. <<>> \in Seq(Package) /\ Len(<<>>) <= 2 * BufferSize
    BY <1>1
  <2>2. buffer' \in Seq(Package) /\ batch' \in Seq(Package) /\ Len(buffer') <= 2 * BufferSize
    BY <1>2, <1>9, <2>1 DEF WriterTakes
  <2>3. writer' \in {"test", "push", "answer", "sleep"}
    BY <1>9 DEF WriterTakes
  <2> QED
    BY <1>2, <1>9, <2>2, <2>3 DEF WriterTakes
<1>10. CASE WriterPushes
  <2>1. <<>> \in Seq(Package)
    OBVIOUS
  <2> QED
    BY <1>2, <1>10, <2>1 DEF WriterPushes
<1>11. CASE WriterAnswers
  <2>1. flushed' \in BOOLEAN
    BY <1>2, <1>11 DEF WriterAnswers
  <2> QED
    BY <1>2, <1>11, <2>1 DEF WriterAnswers
<1>12. CASE WriterWakes
  <2>1. commands' \in 0 .. 2 * BufferSize
    BY <1>1, <1>2, <1>12 DEF WriterWakes
  <2> QED
    BY <1>2, <1>12, <2>1 DEF WriterWakes
<1> QED
  BY <1>2, <1>3, <1>4, <1>5, <1>6, <1>7, <1>8, <1>9, <1>10, <1>11, <1>12 DEF Buffered, Write

\* What is known of a client that takes a step.
LEMMA ClientKnown ==
  ASSUME QueueInvariant, NEW c \in Client
  PROVE  /\ NameOf[c] \in Name
         /\ Unacked(c) = working[NameOf[c]] /\ Unacked(c) \in Seq(Package)
         /\ have[c] \in Seq(Entry)
         /\ left[c] \in Nat /\ multi[c] \in BOOLEAN
         /\ input \in Seq(Package) /\ failed \in Seq(Package) /\ working \in [Name -> Seq(Package)]
<1>1. NameOf[c] \in Name
  BY QueueAssumption
<1> QED
  BY <1>1 DEF QueueInvariant, QueueTypeOK, RedisTypeOK, ClientTypeOK, Unacked

\* A consumer's commands keep the types of the lists.
LEMMA ConsumeRedisTypes ==
  ASSUME QueueInvariant, NEW c \in Client, Consume(c)
  PROVE  RedisTypeOK'
<1> DEFINE n == NameOf[c]
           w == working[n]
<1>1. /\ n \in Name /\ Unacked(c) = w /\ w \in Seq(Package)
      /\ input \in Seq(Package) /\ failed \in Seq(Package) /\ working \in [Name -> Seq(Package)]
      /\ workers \subseteq Name /\ beating \subseteq Name
  BY ClientKnown DEF QueueInvariant, QueueTypeOK, RedisTypeOK
<1>2. w # <<>> => Head(w) \in Package /\ Tail(w) \in Seq(Package)
  BY <1>1
<1>3. input # <<>> => Head(input) \in Package /\ Tail(input) \in Seq(Package)
  BY <1>1
<1>4. failed # <<>> => Head(failed) \in Package /\ Tail(failed) \in Seq(Package)
  BY <1>1
<1> HIDE DEF n, w
<1>5. CASE UNCHANGED <<input, failed, working>> /\ (workers' = workers \/ workers' = workers \cup {n})
           /\ (beating' = beating \/ beating' = beating \cup {n} \/ beating' = beating \ {n})
  BY <1>1, <1>5 DEF RedisTypeOK
<1>6. ASSUME NEW s \in Seq(Package), working' = [working EXCEPT ![n] = s],
             input' \in Seq(Package), failed' \in Seq(Package), UNCHANGED <<workers, beating>>
      PROVE  RedisTypeOK'
  BY <1>1, <1>6 DEF RedisTypeOK
<1>7. ASSUME input' \in Seq(Package), failed' \in Seq(Package), UNCHANGED <<working, workers, beating>>
      PROVE  RedisTypeOK'
  BY <1>1, <1>7 DEF RedisTypeOK
<1>8. CASE AddConsumer(c) \/ CheckActive(c) \/ StartHeartbeat(c) \/ Quit(c) \/ Crash(c)
  BY <1>5, <1>8 DEF AddConsumer, CheckActive, StartHeartbeat, Quit, Crash, redis, n
<1>9. CASE Get(c, "get", 1) \/ Get(c, "nowait", 1) \/ (\E m \in 2 .. MaxGet : Get(c, "multi", m))
           \/ PopNothing(c) \/ GetUnacked(c) \/ RequeueWorking(c) \/ RequeueFailed(c)
  BY <1>5, <1>9 DEF Get, PopNothing, GetUnacked, RequeueWorking, RequeueFailed, redis
<1>10. CASE Pop(c)
  <2>1. Append(w, Head(input)) \in Seq(Package) /\ input' = Tail(input) /\ Tail(input) \in Seq(Package)
    BY <1>1, <1>3, <1>10 DEF Pop
  <2>2. working' = [working EXCEPT ![n] = Append(w, Head(input))] /\ UNCHANGED <<failed, workers, beating>>
    BY <1>10 DEF Pop, TakeFrom, n, w
  <2> QED
    BY <1>1, <1>6, <2>1, <2>2
<1>11. CASE GetFailed(c)
  <2>1. Append(w, Head(failed)) \in Seq(Package) /\ failed' = Tail(failed) /\ Tail(failed) \in Seq(Package)
    BY <1>1, <1>4, <1>11 DEF GetFailed
  <2>2. working' = [working EXCEPT ![n] = Append(w, Head(failed))] /\ UNCHANGED <<input, workers, beating>>
    BY <1>11 DEF GetFailed, TakeFrom, n, w
  <2> QED
    BY <1>1, <1>6, <2>1, <2>2
<1>12. CASE Ack(c) \/ MultiAckOne(c)
  <2>1. working' = [working EXCEPT ![n] = Tail(w)] /\ UNCHANGED <<input, failed, workers, beating>>
    BY <1>12 DEF Ack, MultiAckOne, PopFirst, DropFirst, n, w
  <2>2. Tail(w) \in Seq(Package)
    BY <1>1, <1>2, <1>12 DEF Ack, MultiAckOne, PopFirst, HasUnacked
  <2> QED
    BY <1>1, <1>6, <2>1, <2>2
<1>13. CASE MultiAckEnds(c) \/ \E k \in DOMAIN have[c] : MultiAck(c, k)
  BY <1>5, <1>13 DEF MultiAck, MultiAckEnds, redis
<1>14. ASSUME NEW k, NEW r \in BOOLEAN, Reject(c, k, r)
       PROVE  RedisTypeOK'
  <2>1. working' = [working EXCEPT ![n] = Tail(w)] /\ UNCHANGED <<workers, beating>> /\ w # <<>>
    BY <1>1, <1>14 DEF Reject, DropFirst, HasUnacked, n, w
  <2>2. input' \in {input, Append(input, Head(w))} /\ failed' \in {failed, Append(failed, Head(w))}
    BY <1>1, <1>14 DEF Reject
  <2>3. Append(input, Head(w)) \in Seq(Package) /\ Append(failed, Head(w)) \in Seq(Package)
    BY <1>1, <1>2, <2>1
  <2> QED
    BY <1>1, <1>2, <1>6, <2>1, <2>2, <2>3
<1>15. CASE RequeueOne(c)
  <2>1. CASE w # <<>>
    <3>1. /\ working' = [working EXCEPT ![n] = Tail(w)] /\ UNCHANGED <<failed, workers, beating>>
          /\ input' = Append(input, Head(w))
      BY <1>1, <1>15, <2>1 DEF RequeueOne, DropFirst, HasUnacked, n, w
    <3>2. Append(input, Head(w)) \in Seq(Package)
      BY <1>1, <1>2, <2>1
    <3> QED
      BY <1>1, <1>2, <1>6, <2>1, <3>1, <3>2
  <2>2. CASE w = <<>>
    BY <1>1, <1>5, <1>15, <2>2 DEF RequeueOne, HasUnacked
  <2> QED
    BY <2>1, <2>2
<1>16. CASE RequeueFailedOne(c)
  <2>1. input' \in {input, Append(input, Head(failed))} /\ failed' \in {failed, Tail(failed)}
        /\ UNCHANGED <<working, workers, beating>> /\ (failed = <<>> => UNCHANGED <<input, failed>>)
    BY <1>16 DEF RequeueFailedOne
  <2>2. failed # <<>> => Append(input, Head(failed)) \in Seq(Package)
    BY <1>1, <1>4
  <2> QED
    BY <1>1, <1>4, <1>7, <2>1, <2>2
<1>17. CASE ResetWorking(c)
  <2>1. working' = [working EXCEPT ![n] = <<>>] /\ UNCHANGED <<input, failed, workers, beating>>
    BY <1>17 DEF ResetWorking, n
  <2> QED
    BY <1>1, <1>6, <2>1, Nothing
<1> QED
  BY <1>8, <1>9, <1>10, <1>11, <1>12, <1>13, <1>14, <1>15, <1>16, <1>17 DEF Consume

\* MultiAck marks the first package that is not marked.
LEMMA NextMarked ==
  ASSUME QueueInvariant, NEW c \in Client, MultiAckOne(c)
  PROVE  \E k \in DOMAIN have[c] :
           /\ k \in 1 .. left[c] /\ ~ have[c][k].acked /\ \A j \in 1 .. k - 1 : have[c][j].acked
           /\ have' = [have EXCEPT ![c] = [have[c] EXCEPT ![k] = [have[c][k] EXCEPT !.acked = TRUE]]]
<1> DEFINE open == Unmarked(c, left[c])
<1>1. /\ pc[c] = "multiAck" /\ open # {}
      /\ have' = [have EXCEPT ![c] = [have[c] EXCEPT ![Min(open)] = [have[c][Min(open)] EXCEPT !.acked = TRUE]]]
  BY DEF MultiAckOne
<1>2. have[c] \in Seq(Entry) /\ left[c] \in DOMAIN have[c] /\ left[c] \in Nat
  BY <1>1, ClientKnown DEF QueueInvariant, CommandInv, CommandOK
<1>3. DOMAIN have[c] = 1 .. Len(have[c]) /\ Len(have[c]) \in Nat
  BY <1>2, ListIsFunction
<1>4. open \subseteq Nat /\ open = {i \in 1 .. left[c] : ~ have[c][i].acked}
  BY DEF Unmarked
<1>5. \E k \in open : \A y \in open : k =< y
  <2> HIDE DEF open
  <2> QED
    BY <1>1, <1>4, LeastNumber
<1>6. Min(open) \in open /\ \A y \in open : Min(open) =< y
  BY <1>5 DEF Min
<1> DEFINE k == Min(open)
<1> HIDE DEF open, k
<1>7. k \in open /\ \A y \in open : k =< y
  BY <1>6 DEF k
<1>8. k \in 1 .. left[c] /\ ~ have[c][k].acked /\ k \in DOMAIN have[c]
  BY <1>2, <1>3, <1>4, <1>7
<1>9. ASSUME NEW j \in 1 .. k - 1 PROVE have[c][j].acked
  BY <1>2, <1>4, <1>7, <1>8
<1> QED
  BY <1>1, <1>8, <1>9 DEF k

\* A consumer's commands keep the types of what the clients know.
LEMMA ConsumeClientTypes ==
  ASSUME QueueInvariant, NEW c \in Client, Consume(c)
  PROVE  ClientTypeOK'
<1> DEFINE Held == Seq(Entry)
           Stages == {"idle", "get", "nowait", "multi", "multiAck", "requeueWorking", "requeueFailed"}
<1>1. /\ ClientTypeOK /\ Unacked(c) \in Seq(Package) /\ input \in Seq(Package) /\ failed \in Seq(Package)
      /\ NameOf[c] \in Name
  BY ClientKnown DEF QueueInvariant, QueueTypeOK
<1>2. have[c] \in Held /\ left[c] \in Nat /\ pc[c] \in Stages
  BY <1>1 DEF ClientTypeOK
<1>3. <<>> \in Held
  OBVIOUS
<1>4. ASSUME NEW p \in Package, NEW late \in BOOLEAN
      PROVE  Given(p, late) \in Entry /\ <<Given(p, late)>> \in Held /\ Append(have[c], Given(p, late)) \in Held
  <2>1. Given(p, late) \in Entry
    BY DEF Given, Entry
  <2> QED
    BY <1>2, <2>1
<1> HIDE DEF Held, Stages
<1>5. ASSUME conn' = conn \/ \E v \in {"off", "check", "start", "active"} : conn' = [conn EXCEPT ![c] = v],
             pc' = pc \/ \E v \in Stages : pc' = [pc EXCEPT ![c] = v],
             left' = left \/ \E v \in Nat : left' = [left EXCEPT ![c] = v],
             have' = have \/ \E v \in Held : have' = [have EXCEPT ![c] = v],
             multi' = multi \/ \E v \in BOOLEAN : multi' = [multi EXCEPT ![c] = v],
             UNCHANGED deletion, raced' \in {raced, raced \cup {NameOf[c]}}
      PROVE  ClientTypeOK'
  <2>1. conn' \in [Client -> {"off", "check", "start", "active"}]
    BY <1>1, <1>5 DEF ClientTypeOK
  <2>2. pc' \in [Client -> Stages]
    BY <1>1, <1>5 DEF ClientTypeOK, Stages
  <2>3. left' \in [Client -> Nat]
    BY <1>1, <1>5 DEF ClientTypeOK
  <2>4. have' \in [Client -> Held]
    BY <1>1, <1>5 DEF ClientTypeOK, Held
  <2>5. multi' \in [Client -> BOOLEAN]
    BY <1>1, <1>5 DEF ClientTypeOK
  <2>6. UNCHANGED <<deleter, todo, current, kept>> /\ raced' \subseteq Name
    BY <1>1, <1>5 DEF ClientTypeOK, deletion
  <2> QED
    BY <1>1, <2>1, <2>2, <2>3, <2>4, <2>5, <2>6 DEF ClientTypeOK, Held, Stages
<1>6. ASSUME Round(c), pc[c] \in {"get", "nowait", "multi", "requeueFailed"}
      PROVE  /\ \E v \in Stages : pc' = [pc EXCEPT ![c] = v]
             /\ \E v \in Nat : left' = [left EXCEPT ![c] = v]
  <2>1. left[c] > 0
    BY <1>6 DEF QueueInvariant, CommandInv, CommandOK
  <2>2. left[c] - 1 \in Nat
    BY <1>2, <2>1
  <2> QED
    BY <1>2, <1>6, <2>2 DEF Round, Call, Stages
<1>7. ASSUME NEW command \in Stages, NEW rounds \in Nat, Call(c, command, rounds)
      PROVE  /\ \E v \in Stages : pc' = [pc EXCEPT ![c] = v]
             /\ \E v \in Nat : left' = [left EXCEPT ![c] = v]
  BY <1>7 DEF Call
<1>8. ASSUME NEW packages \in Held, NEW collection \in BOOLEAN, Hold(c, packages, collection)
      PROVE  /\ \E v \in Held : have' = [have EXCEPT ![c] = v]
             /\ \E v \in BOOLEAN : multi' = [multi EXCEPT ![c] = v]
  BY <1>8 DEF Hold
<1>9. Forget(c) => ClientTypeOK'
  BY <1>3, <1>5 DEF Forget, Stages
<1>10. CASE AddConsumer(c) \/ CheckActive(c) \/ StartHeartbeat(c)
  BY <1>5, <1>10 DEF AddConsumer, CheckActive, StartHeartbeat
<1>11. CASE Quit(c) \/ Crash(c)
  BY <1>9, <1>11 DEF Quit, Crash
<1>12. ASSUME NEW command \in Stages, NEW rounds \in Nat, Get(c, command, rounds)
       PROVE  ClientTypeOK'
  <2>1. /\ Call(c, command, rounds) /\ Hold(c, <<>>, command = "multi") /\ UNCHANGED <<conn, deletion, raced>>
        /\ (command = "multi") \in BOOLEAN
    BY <1>12 DEF Get
  <2> QED
    BY <1>3, <1>5, <1>7, <1>8, <2>1
<1>13. CASE Pop(c)
  <2>1. Head(input) \in Package
    BY <1>1, <1>13 DEF Pop
  <2>2. /\ Round(c) /\ pc[c] \in {"get", "nowait", "multi", "requeueFailed"}
        /\ have' = [have EXCEPT ![c] = Append(have[c], Given(Head(input), FALSE))]
        /\ UNCHANGED <<conn, multi, deletion, raced>>
    BY <1>13 DEF Pop
  <2> QED
    BY <1>4, <1>5, <1>6, <2>1, <2>2
<1>14. CASE PopNothing(c)
  <2>1. /\ Round(c) /\ pc[c] \in {"get", "nowait", "multi", "requeueFailed"}
        /\ UNCHANGED <<conn, have, multi, deletion, raced>>
    BY <1>14 DEF PopNothing
  <2> QED
    BY <1>5, <1>6, <2>1
<1>15. CASE GetUnacked(c)
  <2>1. Head(Unacked(c)) \in Package
    BY <1>1, <1>15 DEF GetUnacked, HasUnacked
  <2>2. Hold(c, <<Given(Head(Unacked(c)), FALSE)>>, FALSE) /\ UNCHANGED <<conn, pc, left, deletion, raced>>
    BY <1>15 DEF GetUnacked
  <2> QED
    BY <1>4, <1>5, <1>8, <2>1, <2>2
<1>16. CASE GetFailed(c)
  <2>1. Head(failed) \in Package /\ HasUnacked(c) \in BOOLEAN
    BY <1>1, <1>16 DEF GetFailed, HasUnacked
  <2>2. Hold(c, <<Given(Head(failed), HasUnacked(c))>>, FALSE) /\ UNCHANGED <<conn, pc, left, deletion, raced>>
    BY <1>16 DEF GetFailed
  <2> QED
    BY <1>4, <1>5, <1>8, <2>1, <2>2
<1>17. CASE Ack(c) \/ ResetWorking(c)
  <2>1. Hold(c, <<>>, FALSE) /\ UNCHANGED <<conn, pc, left, deletion, raced>>
    BY <1>17 DEF Ack, ResetWorking
  <2> QED
    BY <1>3, <1>5, <1>8, <2>1
<1>18. ASSUME NEW k \in DOMAIN have[c], NEW e \in Entry
       PROVE  [have[c] EXCEPT ![k] = e] \in Held
  <2>1. /\ have[c] \in [1 .. Len(have[c]) -> Entry]
        /\ Len(have[c]) \in Nat /\ DOMAIN have[c] = 1 .. Len(have[c])
    BY <1>2, ListIsFunction DEF Held
  <2>2. [have[c] EXCEPT ![k] = e] \in [1 .. Len(have[c]) -> Entry]
    BY <2>1
  <2> QED
    BY <2>1, <2>2, FunctionIsList DEF Held
<1>19. ASSUME NEW k \in DOMAIN have[c]
       PROVE  /\ have[c][k] \in Entry
              /\ [have[c][k] EXCEPT !.acked = TRUE] \in Entry /\ [have[c][k] EXCEPT !.astray = TRUE] \in Entry
  <2>1. have[c][k] \in Entry
    BY <1>2, ListIsFunction DEF Held
  <2> QED
    BY <2>1 DEF Entry
<1>20. ASSUME NEW k \in DOMAIN have[c], MultiAck(c, k)
       PROVE  ClientTypeOK'
  <2>1. k \in Nat
    BY <1>2, ListIsFunction DEF Held
  <2>2. Call(c, "multiAck", k) /\ "multiAck" \in Stages /\ UNCHANGED <<conn, have, multi, deletion, raced>>
    BY <1>20 DEF MultiAck, Stages
  <2> QED
    BY <1>5, <1>7, <2>1, <2>2
<1>21. CASE MultiAckOne(c)
  <2>1. PICK k \in DOMAIN have[c] : have' = [have EXCEPT ![c] = [have[c] EXCEPT ![k] = [have[c][k] EXCEPT !.acked = TRUE]]]
    BY <1>21, NextMarked
  <2>2. UNCHANGED <<conn, pc, left, multi, deletion, raced>>
    BY <1>21 DEF MultiAckOne
  <2> QED
    BY <1>5, <1>18, <1>19, <2>1, <2>2
<1>22. CASE MultiAckEnds(c)
  <2>1. /\ Call(c, "idle", 0) /\ "idle" \in Stages /\ UNCHANGED <<conn, deletion, raced>>
        /\ Hold(c, <<>>, FALSE) \/ UNCHANGED <<have, multi>>
    BY <1>22 DEF MultiAckEnds, Stages
  <2> QED
    BY <1>3, <1>5, <1>7, <1>8, <2>1
<1>23. ASSUME NEW k \in DOMAIN have[c], NEW r \in BOOLEAN, Reject(c, k, r)
       PROVE  ClientTypeOK'
  <2>1. /\ have' = [have EXCEPT ![c] = IF multi[c] THEN [have[c] EXCEPT ![k] = [have[c][k] EXCEPT !.astray = TRUE]] ELSE <<>>]
        /\ UNCHANGED <<conn, pc, left, multi, deletion, raced>>
    BY <1>23 DEF Reject
  <2>2. (IF multi[c] THEN [have[c] EXCEPT ![k] = [have[c][k] EXCEPT !.astray = TRUE]] ELSE <<>>) \in Held
    BY <1>3, <1>18, <1>19
  <2> QED
    BY <1>5, <2>1, <2>2
<1>24. CASE RequeueWorking(c)
  <2>1. Call(c, "requeueWorking", 0) /\ Hold(c, <<>>, FALSE) /\ UNCHANGED <<conn, deletion, raced>>
        /\ "requeueWorking" \in Stages
    BY <1>24 DEF RequeueWorking, Stages
  <2> QED
    BY <1>3, <1>5, <1>7, <1>8, <2>1
<1>25. CASE RequeueOne(c)
  BY <1>5, <1>25 DEF RequeueOne, Stages
<1>26. CASE RequeueFailed(c)
  <2>1. /\ Call(c, "requeueFailed", Len(failed)) /\ UNCHANGED <<conn, have, multi, deletion, raced>>
        /\ "requeueFailed" \in Stages /\ Len(failed) \in Nat
    BY <1>1, <1>26 DEF RequeueFailed, Stages
  <2> QED
    BY <1>5, <1>7, <2>1
<1>27. CASE RequeueFailedOne(c)
  <2>1. UNCHANGED <<conn, have, multi, deletion, raced>>
    BY <1>27 DEF RequeueFailedOne
  <2>2. (Round(c) /\ pc[c] = "requeueFailed") \/ Call(c, "idle", 0)
    BY <1>27 DEF RequeueFailedOne
  <2>3. "idle" \in Stages
    BY DEF Stages
  <2> QED
    BY <1>5, <1>6, <1>7, <2>1, <2>2, <2>3
<1>28. {"get", "nowait", "multi"} \subseteq Stages /\ 1 \in Nat /\ 2 .. MaxGet \subseteq Nat
  BY QueueAssumption DEF Stages
<1> QED
  BY <1>10, <1>11, <1>12, <1>13, <1>14, <1>15, <1>16, <1>17, <1>20, <1>21, <1>22, <1>23, <1>24, <1>25, <1>26, <1>27,
     <1>28 DEF Consume

\* Delete, and commands on the whole queue.
DeleteOne(n) ==
  DeleteNext(n) \/ DeleteAdds(n) \/ DeleteChecks(n) \/ DeleteBeats(n) \/ DeleteResets(n) \/ DeleteRemoves(n)

Administer ==
  \/ \E n \in Name : Expire(n) \/ Beat(n) \/ DeleteOne(n)
  \/ ResetInput \/ ResetFailed
  \/ DeleteStart \/ DeleteInput \/ DeleteFailed \/ DeleteWorkers \/ DeleterEnds

\* What they do to the lists, and what they leave alone.
LEMMA AdministerLists ==
  ASSUME Administer
  PROVE  /\ UNCHANGED buffered /\ UNCHANGED <<confirmed, popped, excused>> /\ UNCHANGED <<conn, pc, left, have, multi>>
         /\ \/ UNCHANGED <<input, failed, working, reset>>
            \/ reset' = reset \cup ToSet(input) /\ input' = <<>> /\ UNCHANGED <<failed, working>>
            \/ reset' = reset \cup ToSet(failed) /\ failed' = <<>> /\ UNCHANGED <<input, working>>
            \/ \E n \in Name : /\ deleter = "reset" /\ n \in current
                               /\ reset' = reset \cup ToSet(working[n])
                               /\ working' = [working EXCEPT ![n] = <<>>] /\ UNCHANGED <<input, failed>>
<1>1. ASSUME NEW n \in Name, Expire(n) \/ Beat(n) \/ DeleteOne(n)
      PROVE  /\ UNCHANGED buffered /\ UNCHANGED <<confirmed, popped, excused>> /\ UNCHANGED <<conn, pc, left, have, multi>>
             /\ \/ UNCHANGED <<input, failed, working, reset>>
                \/ /\ deleter = "reset" /\ n \in current
                   /\ reset' = reset \cup ToSet(working[n])
                   /\ working' = [working EXCEPT ![n] = <<>>] /\ UNCHANGED <<input, failed>>
  BY <1>1 DEF DeleteOne, Expire, Beat, DeleteNext, DeleteAdds, DeleteChecks, DeleteBeats, DeleteResets,
     DeleteRemoves, Refuse, redis, client, removed
<1>2. CASE ResetInput \/ ResetFailed \/ DeleteInput \/ DeleteFailed
  BY <1>2 DEF ResetInput, ResetFailed, DeleteInput, DeleteFailed, DelInput, DelFailed
<1>3. CASE DeleteStart \/ DeleteWorkers \/ DeleterEnds
  BY <1>3 DEF DeleteStart, DeleteWorkers, DeleterEnds, redis, removed
<1> QED
  BY <1>1, <1>2, <1>3 DEF Administer

LEMMA AdministerTypes ==
  ASSUME QueueInvariant, Administer
  PROVE  RedisTypeOK' /\ ClientTypeOK' /\ BufferTypeOK' /\ reset' \subseteq Package
<1>1. RedisTypeOK /\ ClientTypeOK /\ BufferTypeOK /\ reset \subseteq Package
  BY DEF QueueInvariant, QueueTypeOK
<1>2. /\ input \in Seq(Package) /\ failed \in Seq(Package) /\ <<>> \in Seq(Package)
      /\ working \in [Name -> Seq(Package)] /\ workers \subseteq Name /\ beating \subseteq Name
      /\ todo \subseteq Name /\ current \subseteq todo /\ kept \subseteq Name /\ raced \subseteq Name
  BY <1>1, Nothing DEF RedisTypeOK, ClientTypeOK
<1>3. ASSUME NEW s \in Seq(Package)
      PROVE  ToSet(s) \subseteq Package
  BY ListIsFunction DEF ToSet
<1>4. UNCHANGED buffered /\ UNCHANGED <<conn, pc, left, have, multi>>
  BY AdministerLists
<1>5. BufferTypeOK'
  BY <1>1, <1>4 DEF BufferTypeOK, buffered
<1>6. reset' \subseteq Package /\ input' \in Seq(Package) /\ failed' \in Seq(Package) /\ working' \in [Name -> Seq(Package)]
  <2>1. ASSUME NEW n \in Name PROVE ToSet(working[n]) \subseteq Package
    BY <1>2, <1>3
  <2>2. ToSet(input) \subseteq Package /\ ToSet(failed) \subseteq Package
    BY <1>2, <1>3
  <2> QED
    BY <1>1, <1>2, <2>1, <2>2, AdministerLists
<1>7. \A c \in Client : NameOf[c] \in Name
  BY QueueAssumption
<1>8. /\ workers' \subseteq Name /\ beating' \subseteq Name
      /\ deleter' \in {"no", "next", "add", "check", "start", "reset", "rem", "failed", "workers"}
      /\ todo' \subseteq Name /\ current' \subseteq todo' /\ kept' \subseteq Name /\ raced' \subseteq Name
  <2>1. deleter \in {"no", "next", "add", "check", "start", "reset", "rem", "failed", "workers"}
    BY <1>1 DEF ClientTypeOK
  <2>2. ASSUME NEW n \in Name, Expire(n) \/ Beat(n)
        PROVE  beating' \subseteq Name /\ UNCHANGED <<workers, deleter, todo, current, kept, raced>>
    BY <1>2, <2>2 DEF Expire, Beat, client, deletion
  <2>3. ASSUME NEW n \in Name, DeleteNext(n) \/ DeleteAdds(n) \/ DeleteChecks(n)
        PROVE  /\ workers' \subseteq Name /\ UNCHANGED <<beating, kept, raced>>
               /\ deleter' \in {"no", "add", "check", "start"} /\ todo' \subseteq Name /\ current' \subseteq todo'
    BY <1>2, <2>3 DEF DeleteNext, DeleteAdds, DeleteChecks, Refuse, redis
  <2>4. ASSUME NEW n \in Name, DeleteBeats(n) \/ DeleteResets(n) \/ DeleteRemoves(n)
        PROVE  /\ workers' \subseteq Name /\ beating' \subseteq Name /\ kept' \subseteq Name /\ raced' = raced
               /\ deleter' \in {"reset", "rem", "next"} /\ todo' \subseteq Name /\ current' \subseteq todo'
    BY <1>2, <2>4 DEF DeleteBeats, DeleteResets, DeleteRemoves
  <2>5. CASE ResetInput \/ ResetFailed
    BY <1>2, <2>1, <2>5 DEF ResetInput, ResetFailed, DelInput, DelFailed, deletion
  <2>6. CASE DeleteStart
    <3>1. current' = {}
      BY <2>6 DEF DeleteStart, QueueInvariant, NamesInv
    <3> QED
      BY <1>2, <1>7, <2>6, <3>1 DEF DeleteStart, redis
  <2>7. CASE DeleteInput \/ DeleteFailed
    BY <1>2, <2>7 DEF DeleteInput, DeleteFailed, DelInput, DelFailed
  <2>8. CASE DeleteWorkers \/ DeleterEnds
    BY <1>2, <2>8 DEF DeleteWorkers, DeleterEnds, redis
  <2> QED
    BY <1>2, <2>1, <2>2, <2>3, <2>4, <2>5, <2>6, <2>7, <2>8 DEF Administer, DeleteOne
<1>9. ClientTypeOK'
  BY <1>1, <1>4, <1>8 DEF ClientTypeOK
<1> QED
  BY <1>5, <1>6, <1>8, <1>9 DEF RedisTypeOK

\* What a consumer removes or confirms are packages.
LEMMA ConsumeRemoves ==
  ASSUME QueueInvariant, NEW c \in Client, Consume(c)
  PROVE  confirmed' \cup popped' \cup reset' \cup excused' \subseteq Package
<1>1. /\ Unacked(c) \in Seq(Package) /\ have[c] \in Seq(Entry)
      /\ confirmed \cup popped \cup reset \cup excused \subseteq Package
  BY ClientKnown DEF QueueInvariant, QueueTypeOK
<1>2. \A i \in DOMAIN have[c] : have[c][i].pack \in Package
  <2>1. have[c] \in [1 .. Len(have[c]) -> Entry]
    BY <1>1, ListIsFunction
  <2> QED
    BY <2>1 DEF Entry
<1>3. ASSUME NEW s \in Seq(Package)
      PROVE  ToSet(s) \subseteq Package
  BY ListIsFunction DEF ToSet
<1>4. CASE Ack(c) \/ MultiAckOne(c)
  <2>1. PICK k : PopFirst(c, k)
    BY <1>4 DEF Ack, MultiAckOne
  <2>2. Head(Unacked(c)) \in Package
    BY <1>1, <2>1, Shifted DEF PopFirst, HasUnacked
  <2>3. popped' \cup excused' \subseteq Package
    BY <1>1, <2>1, <2>2 DEF PopFirst
  <2>4. Ack(c) => 1 \in DOMAIN have[c]
    BY <1>1 DEF Ack
  <2>5. confirmed' \subseteq Package /\ reset' = reset
    BY <1>1, <1>2, <1>4, <2>4 DEF Ack, MultiAckOne
  <2> QED
    BY <1>1, <2>3, <2>5
<1>5. ASSUME NEW k \in DOMAIN have[c], MultiAck(c, k)
      PROVE  confirmed' \cup popped' \cup reset' \cup excused' \subseteq Package
  <2>1. 1 .. k \subseteq DOMAIN have[c]
    BY <1>1, ListIsFunction
  <2> QED
    BY <1>1, <1>2, <1>5, <2>1 DEF MultiAck
<1>6. CASE ResetWorking(c)
  <2>1. ToSet(Unacked(c)) \subseteq Package
    BY <1>1, <1>3
  <2> QED
    BY <1>1, <1>6, <2>1 DEF ResetWorking
<1>7. ASSUME UNCHANGED removed
      PROVE  confirmed' \cup popped' \cup reset' \cup excused' \subseteq Package
  BY <1>1, <1>7 DEF removed
<1> QED
  BY <1>4, <1>5, <1>6, <1>7 DEF Consume, AddConsumer, CheckActive, StartHeartbeat, Quit, Crash, Get, Pop,
     PopNothing, GetUnacked, GetFailed, MultiAckEnds, Reject, RequeueWorking, RequeueOne, RequeueFailed, RequeueFailedOne

\* What a consumer leaves alone.
LEMMA ConsumeLeaves ==
  ASSUME NEW c, Consume(c)
  PROVE  UNCHANGED buffered /\ UNCHANGED deletion
BY DEF Consume, AddConsumer, CheckActive, StartHeartbeat, Quit, Crash, Get, Pop, Forget,
   PopNothing, GetUnacked, GetFailed, Ack, MultiAck, MultiAckOne, MultiAckEnds, Reject, RequeueWorking, RequeueOne,
   RequeueFailed, RequeueFailedOne, ResetWorking

\* What a producer leaves alone.
LEMMA ProducerLeaves ==
  ASSUME Buffered \/ \E p \in Package : Put(p)
  PROVE  UNCHANGED <<failed, working, workers, beating>> /\ UNCHANGED client /\ UNCHANGED removed
BY DEF Buffered, Write, BufferedPut, FlushBuffer, SendCommand, FlushReturns, WriterTakes, WriterPushes,
   WriterAnswers, WriterWakes, Pacemaker, Tick, Put, redis

\* The kinds of steps.
LEMMA StepKinds ==
  ASSUME QueueInvariant, Next
  PROVE  /\ UNCHANGED mix
         /\ mix.clients \subseteq Client /\ mix.packages \subseteq Package
         /\ Buffered \/ (\E p \in Package : Put(p)) \/ (\E c \in Client : Consume(c)) \/ Administer
<1>1. mix.clients \subseteq Client /\ mix.packages \subseteq Package
  BY QueueAssumption DEF QueueInvariant, QueueTypeOK
<1>2. Delete => Administer
  BY DEF Delete, Administer, DeleteOne
<1> QED
  BY <1>1, <1>2 DEF Next, Administer

\* Every step keeps the types.
LEMMA TypesStep ==
  ASSUME QueueInvariant, Next
  PROVE  QueueTypeOK'
<1>1. QueueTypeOK /\ mix \in Mixes /\ mix' = mix
  BY StepKinds DEF QueueInvariant, QueueTypeOK
<1>2. CASE Buffered
  <2>1. BufferTypeOK'
    BY <1>1, <1>2, BufferTypes
  <2>2. UNCHANGED <<failed, working, workers, beating>> /\ UNCHANGED client /\ UNCHANGED removed
    BY <1>2, ProducerLeaves
  <2>3. input' \in {input, input \o batch}
    BY <1>2 DEF Buffered, Write, BufferedPut, FlushBuffer, SendCommand, FlushReturns, WriterTakes, WriterPushes,
                WriterAnswers, WriterWakes, Pacemaker, Tick, redis
  <2>4. input \in Seq(Package) /\ input \o batch \in Seq(Package)
    BY <1>1, Joined DEF QueueTypeOK, RedisTypeOK, BufferTypeOK
  <2>5. RedisTypeOK'
    BY <1>1, <2>2, <2>3, <2>4 DEF QueueTypeOK, RedisTypeOK
  <2>6. ClientTypeOK' /\ confirmed' \cup popped' \cup reset' \cup excused' \subseteq Package
    BY <1>1, <2>2 DEF QueueTypeOK, ClientTypeOK, client, deletion, removed
  <2> QED
    BY <1>1, <2>1, <2>5, <2>6 DEF QueueTypeOK
<1>3. ASSUME NEW p \in Package, Put(p)
      PROVE  QueueTypeOK'
  <2>1. Append(input, p) \in Seq(Package)
    BY <1>1, Pushed DEF QueueTypeOK, RedisTypeOK
  <2>2. RedisTypeOK'
    BY <1>1, <1>3, <2>1 DEF Put, QueueTypeOK, RedisTypeOK
  <2>3. BufferTypeOK'
    BY <1>1, <1>3 DEF Put, QueueTypeOK, BufferTypeOK
  <2>4. ClientTypeOK' /\ confirmed' \cup popped' \cup reset' \cup excused' \subseteq Package
    BY <1>1, <1>3 DEF Put, QueueTypeOK, ClientTypeOK, client, deletion, removed
  <2> QED
    BY <1>1, <2>2, <2>3, <2>4 DEF QueueTypeOK
<1>4. ASSUME NEW c \in Client, Consume(c)
      PROVE  QueueTypeOK'
  <2>1. UNCHANGED buffered
    BY <1>4, ConsumeLeaves
  <2>2. BufferTypeOK'
    BY <1>1, <2>1 DEF QueueTypeOK, BufferTypeOK, buffered
  <2> QED
    BY <1>1, <1>4, <2>2, ConsumeRedisTypes, ConsumeClientTypes, ConsumeRemoves DEF QueueTypeOK
<1>5. CASE Administer
  <2>1. UNCHANGED <<confirmed, popped, excused>>
    BY <1>5, AdministerLists
  <2> QED
    BY <1>1, <1>5, <2>1, AdministerTypes DEF QueueTypeOK
<1> QED
  BY <1>2, <1>3, <1>4, <1>5, StepKinds

(***************************************************************************)
(* Names                                                                   *)
(***************************************************************************)

\* A client goes on in AddConsumer, or stops.
LEMMA ConsumeNames ==
  ASSUME QueueInvariant, NEW c \in Client, Consume(c)
  PROVE  NamesInv'
<1>1. /\ NamesInv /\ conn \in [Client -> {"off", "check", "start", "active"}]
      /\ UNCHANGED <<deleter, todo, current>>
  BY ConsumeLeaves DEF QueueInvariant, QueueTypeOK, ClientTypeOK, deletion
<1> USE DEF NamesInv, NameOK, Sure, Starting, OneConsumerPerName
<1>2. CASE AddConsumer(c)
  <2>1. /\ workers' = workers \cup {NameOf[c]} /\ UNCHANGED beating /\ conn[c] = "off"
        /\ conn' = [conn EXCEPT ![c] = IF NameOf[c] \in workers THEN "check" ELSE "start"]
    BY <1>2 DEF AddConsumer
  <2>2. CASE deleter # "no" \/ \E d \in Client : NameOf[d] = NameOf[c] /\ Starting(d)
    <3>1. raced' = raced \cup {NameOf[c]}
      BY <1>2, <2>2 DEF AddConsumer
    <3> QED
      BY <1>1, <2>1, <3>1
  <2>3. CASE deleter = "no" /\ \A d \in Client : NameOf[d] = NameOf[c] => ~ Starting(d)
    <3>1. raced' = raced
      BY <1>2, <2>3 DEF AddConsumer
    <3> QED
      BY <1>1, <2>1, <2>3, <3>1
  <2> QED
    BY <2>2, <2>3
<1>3. CASE CheckActive(c)
  <2>1. /\ UNCHANGED <<workers, beating, raced>> /\ conn[c] = "check"
        /\ conn' = [conn EXCEPT ![c] = IF NameOf[c] \in beating THEN "off" ELSE "start"]
    BY <1>3 DEF CheckActive, redis
  <2> QED
    BY <1>1, <2>1
<1>4. CASE StartHeartbeat(c)
  <2>1. /\ UNCHANGED <<workers, raced>> /\ conn[c] = "start"
        /\ conn' = [conn EXCEPT ![c] = "active"] /\ beating' = beating \cup {NameOf[c]}
    BY <1>4 DEF StartHeartbeat
  <2> QED
    BY <1>1, <2>1
<1>5. CASE Quit(c)
  <2>1. /\ UNCHANGED <<workers, raced>> /\ conn[c] = "active"
        /\ conn' = [conn EXCEPT ![c] = "off"] /\ beating' = beating \ {NameOf[c]}
    BY <1>5 DEF Quit, Forget, Ready
  <2> QED
    BY <1>1, <2>1
<1>6. CASE Crash(c)
  <2>1. UNCHANGED <<workers, beating, raced>> /\ conn' = [conn EXCEPT ![c] = "off"]
    BY <1>6 DEF Crash, Forget, redis
  <2> QED
    BY <1>1, <2>1
<1>7. ASSUME UNCHANGED <<conn, workers, beating, raced>>
      PROVE  NamesInv'
  BY <1>1, <1>7
<1> QED
  BY <1>2, <1>3, <1>4, <1>5, <1>6, <1>7 DEF Consume, Get, Pop,
     PopNothing, GetUnacked, GetFailed, Ack, MultiAck, MultiAckOne, MultiAckEnds, Reject, RequeueWorking, RequeueOne,
     RequeueFailed, RequeueFailedOne, ResetWorking, redis

\* Names are taken away by Delete only, and not from a consumer that runs.
LEMMA AdministerNames ==
  ASSUME QueueInvariant, Administer
  PROVE  NamesInv'
<1>1. /\ NamesInv /\ conn \in [Client -> {"off", "check", "start", "active"}] /\ current \subseteq todo
      /\ conn' = conn
  BY AdministerLists DEF QueueInvariant, QueueTypeOK, ClientTypeOK
<1> USE DEF NamesInv, NameOK, Sure, Starting, OneConsumerPerName
<1>2. ASSUME NEW n \in Name, Expire(n) \/ Beat(n)
      PROVE  NamesInv'
  BY <1>1, <1>2 DEF Expire, Beat, Running, client, deletion
<1>3. CASE ResetInput \/ ResetFailed
  <2>1. UNCHANGED <<workers, beating, deleter, todo, current, raced>>
    BY <1>3 DEF ResetInput, ResetFailed, DelInput, DelFailed, deletion
  <2> QED
    BY <1>1, <2>1
<1>4. CASE DeleteStart
  <2>1. /\ UNCHANGED <<workers, beating, current>> /\ deleter = "no" /\ deleter' = "next" /\ todo' = workers
        /\ raced \subseteq raced' /\ \A c \in Client : Starting(c) => NameOf[c] \in raced'
    BY <1>4 DEF DeleteStart, redis
  <2> QED
    BY <1>1, <2>1
<1>5. ASSUME Refuse PROVE NamesInv'
  <2>1. UNCHANGED <<workers, beating, raced>> /\ deleter' = "no" /\ todo' = {} /\ current' = {}
    BY <1>5 DEF Refuse, redis
  <2> QED
    BY <1>1, <2>1
<1>6. ASSUME NEW n \in Name, DeleteNext(n) PROVE NamesInv'
  <2>1. CASE n \in beating
    BY <1>5, <1>6, <2>1 DEF DeleteNext
  <2>2. CASE n \notin beating
    <3>1. /\ UNCHANGED <<workers, beating, todo, raced>> /\ deleter = "next" /\ deleter' = "add" /\ current' = {n}
          /\ n \in todo
      BY <1>6, <2>2 DEF DeleteNext, redis
    <3> QED
      BY <1>1, <2>2, <3>1
  <2> QED
    BY <2>1, <2>2
<1>7. ASSUME NEW n \in Name, DeleteAdds(n) PROVE NamesInv'
  <2>1. /\ UNCHANGED <<beating, todo, current, raced>> /\ deleter = "add" /\ deleter' \in {"check", "start"}
        /\ workers' = workers \cup {n}
    BY <1>7 DEF DeleteAdds
  <2> QED
    BY <1>1, <2>1
<1>8. ASSUME NEW n \in Name, DeleteChecks(n) PROVE NamesInv'
  <2>1. CASE n \in beating
    BY <1>5, <1>8, <2>1 DEF DeleteChecks
  <2>2. CASE n \notin beating
    <3>1. UNCHANGED <<workers, beating, todo, current, raced>> /\ deleter = "check" /\ deleter' = "start"
      BY <1>8, <2>2 DEF DeleteChecks, redis
    <3> QED
      BY <1>1, <3>1
  <2> QED
    BY <2>1, <2>2
<1>9. ASSUME NEW n \in Name, DeleteBeats(n) PROVE NamesInv'
  <2>1. UNCHANGED <<workers, todo, current, raced>> /\ deleter = "start" /\ deleter' = "reset" /\ beating' = beating \cup {n}
    BY <1>9 DEF DeleteBeats
  <2> QED
    BY <1>1, <2>1
<1>10. ASSUME NEW n \in Name, DeleteResets(n) PROVE NamesInv'
  <2>1. UNCHANGED <<workers, beating, todo, current, raced>> /\ deleter = "reset" /\ deleter' = "rem"
    BY <1>10 DEF DeleteResets
  <2> QED
    BY <1>1, <2>1
<1>11. ASSUME NEW n \in Name, DeleteRemoves(n) PROVE NamesInv'
  <2>1. /\ UNCHANGED <<beating, raced>> /\ deleter = "rem" /\ deleter' = "next" /\ current' = {}
        /\ n \in current /\ todo' = todo \ {n} /\ workers' = workers \ {n}
    BY <1>11 DEF DeleteRemoves
  <2>2. \A c \in Client : Sure(c) /\ conn[c] # "off" => conn[c] = "active" /\ NameOf[c] \in todo /\ NameOf[c] # n
    BY <1>1, <2>1
  <2> QED
    BY <1>1, <2>1, <2>2
<1>12. CASE DeleteInput \/ DeleteFailed
  <2>1. /\ UNCHANGED <<workers, beating, todo, current, raced>> /\ deleter' \in {"failed", "workers"}
        /\ deleter # "no" /\ todo = {} /\ current = {}
    BY <1>1, <1>12 DEF DeleteInput, DeleteFailed, DelInput, DelFailed
  <2> QED
    BY <1>1, <2>1
<1>13. CASE DeleteWorkers
  <2>1. UNCHANGED <<beating, todo, current, raced>> /\ deleter = "workers" /\ deleter' = "no" /\ todo = {} /\ current = {}
    BY <1>1, <1>13 DEF DeleteWorkers
  <2>2. \A c \in Client : Sure(c) => conn[c] = "off"
    BY <1>1, <2>1
  <2> QED
    BY <1>1, <2>1, <2>2
<1>14. CASE DeleterEnds
  <2>1. UNCHANGED <<workers, beating, raced>> /\ deleter' = "no" /\ todo' = {} /\ current' = {}
    BY <1>14 DEF DeleterEnds, redis
  <2> QED
    BY <1>1, <2>1
<1> QED
  BY <1>2, <1>3, <1>4, <1>6, <1>7, <1>8, <1>9, <1>10, <1>11, <1>12, <1>13, <1>14 DEF Administer, DeleteOne

\* Every step keeps what is known of the names.
LEMMA NamesStep ==
  ASSUME QueueInvariant, Next
  PROVE  NamesInv'
<1>1. NamesInv
  BY DEF QueueInvariant
<1>2. CASE Buffered \/ \E p \in Package : Put(p)
  <2>1. UNCHANGED <<conn, workers, beating, deleter, todo, current, raced>>
    BY <1>2, ProducerLeaves DEF client, deletion
  <2> QED
    BY <1>1, <2>1 DEF NamesInv, NameOK, Sure, Starting, OneConsumerPerName
<1> QED
  BY <1>2, StepKinds, ConsumeNames, AdministerNames

(***************************************************************************)
(* What clients hold                                                       *)
(***************************************************************************)

\* A client goes on where it was.
LEMMA SameCommand ==
  ASSUME NEW d, CommandOK(d), confirmed \subseteq confirmed',
         conn'[d] = conn[d], pc'[d] = pc[d], left'[d] = left[d], have'[d] = have[d], multi'[d] = multi[d]
  PROVE  CommandOK(d)'
BY DEF CommandOK

\* A command begins or is over, and what the client was given stays.
LEMMA SameHeld ==
  ASSUME NEW c, CommandOK(c), conn'[c] = "active", have'[c] = have[c], multi'[c] = multi[c],
         pc'[c] = "idle" \/ (pc'[c] = "requeueFailed" /\ left'[c] > 0)
  PROVE  CommandOK(c)'
BY DEF CommandOK

\* Neither the list nor what the client was given changes.
LEMMA SameList ==
  ASSUME NEW d, HoldOK(d), have'[d] = have[d], multi'[d] = multi[d],
         working'[NameOf[d]] = working[NameOf[d]], pc'[d] = pc[d] \/ pc'[d] \notin {"get", "nowait"}
  PROVE  HoldOK(d)'
<1>1. Unacked(d)' = Unacked(d) /\ HasUnacked(d)' = HasUnacked(d) /\ Straight(d)' = Straight(d)
  BY DEF Unacked, HasUnacked, Straight
<1>2. ASSUME NEW a PROVE RestFrom(d, a)' = RestFrom(d, a)
  BY <1>1 DEF RestFrom
<1> QED
  BY <1>1, <1>2 DEF HoldOK

\* A client that holds nothing, whatever happens to the lists.
LEMMA HoldsNothing ==
  ASSUME NEW c, have'[c] = <<>>, multi'[c] = FALSE,
         pc'[c] \in {"idle", "requeueWorking"} \/ (pc'[c] = "requeueFailed" /\ left'[c] > 0),
         conn'[c] = "active" \/ pc'[c] = "idle"
  PROVE  CommandOK(c)' /\ HoldOK(c)'
BY DEF CommandOK, HoldOK

\* The history of a client's commands grows.
LEMMA ConsumeHistory ==
  ASSUME NEW c, Consume(c)
  PROVE  confirmed \subseteq confirmed' /\ raced \subseteq raced'
BY DEF Consume, AddConsumer, CheckActive, StartHeartbeat, Quit, Crash, Get, Pop, Forget,
   PopNothing, GetUnacked, GetFailed, Ack, MultiAck, MultiAckOne, MultiAckEnds, Reject, RequeueWorking, RequeueOne,
   RequeueFailed, RequeueFailedOne, ResetWorking, removed

\* The other clients, when a client that runs works on the list of its name.
LEMMA OtherClients ==
  ASSUME QueueInvariant, NEW c \in Client, NEW d \in Client, c # d, Sure(d),
         pc'[d] = pc[d], have'[d] = have[d], multi'[d] = multi[d],
         working' = working \/ (conn[c] = "active" /\ \E s : working' = [working EXCEPT ![NameOf[c]] = s])
  PROVE  HoldOK(d)'
<1>1. CommandOK(d) /\ HoldOK(d)
  BY DEF QueueInvariant, CommandInv, HoldInv
<1>2. CASE working'[NameOf[d]] = working[NameOf[d]]
  BY <1>1, <1>2, SameList
<1>3. CASE working'[NameOf[d]] # working[NameOf[d]]
  <2>1. conn[c] = "active" /\ NameOf[c] = NameOf[d]
    <3>1. DOMAIN working = Name /\ NameOf[d] \in Name
      BY QueueAssumption DEF QueueInvariant, QueueTypeOK, RedisTypeOK
    <3>2. working' # working
      BY <1>3
    <3>3. PICK s : working' = [working EXCEPT ![NameOf[c]] = s]
      BY <3>2
    <3>4. NameOf[c] # NameOf[d] => working'[NameOf[d]] = working[NameOf[d]]
      BY <3>1, <3>3
    <3> QED
      BY <1>3, <3>2, <3>4
  <2>2. conn[d] # "active"
    BY <2>1 DEF QueueInvariant, NamesInv, OneConsumerPerName, Sure
  <2>3. pc[d] = "idle" /\ have[d] = <<>> /\ multi[d] = FALSE
    BY <1>1, <2>2 DEF CommandOK, QueueInvariant, QueueTypeOK, ClientTypeOK
  <2> QED
    BY <2>3 DEF HoldOK
<1> QED
  BY <1>2, <1>3

\* A consumer's commands leave the other clients alone.
LEMMA ConsumeOthers ==
  ASSUME QueueInvariant, NEW c \in Client, Consume(c), NEW d \in Client, c # d
  PROVE  CommandOK(d)' /\ (Sure(d)' => HoldOK(d)')
<1>1. /\ conn \in [Client -> {"off", "check", "start", "active"}] /\ DOMAIN pc = Client
      /\ DOMAIN left = Client /\ DOMAIN have = Client /\ DOMAIN multi = Client /\ DOMAIN conn = Client
  BY DEF QueueInvariant, QueueTypeOK, ClientTypeOK
<1>2. pc[c] # "idle" => conn[c] = "active"
  BY DEF QueueInvariant, CommandInv, CommandOK
<1>3. conn'[d] = conn[d]
  BY <1>1 DEF Consume, AddConsumer, CheckActive, StartHeartbeat, Quit, Crash, Get, Pop, Forget,
     PopNothing, GetUnacked, GetFailed, Ack, MultiAck, MultiAckOne, MultiAckEnds, Reject, RequeueWorking, RequeueOne,
     RequeueFailed, RequeueFailedOne, ResetWorking
<1>4. pc'[d] = pc[d]
  BY <1>1 DEF Consume, AddConsumer, CheckActive, StartHeartbeat, Quit, Crash, Get, Pop, Forget,
     PopNothing, GetUnacked, GetFailed, Ack, MultiAck, MultiAckOne, MultiAckEnds, Reject, RequeueWorking, RequeueOne,
     RequeueFailed, RequeueFailedOne, ResetWorking, Round, Call
<1>5. left'[d] = left[d]
  BY <1>1 DEF Consume, AddConsumer, CheckActive, StartHeartbeat, Quit, Crash, Get, Pop, Forget,
     PopNothing, GetUnacked, GetFailed, Ack, MultiAck, MultiAckOne, MultiAckEnds, Reject, RequeueWorking, RequeueOne,
     RequeueFailed, RequeueFailedOne, ResetWorking, Round, Call
<1>6. have'[d] = have[d] /\ multi'[d] = multi[d]
  <2>1. CASE MultiAckOne(c)
    BY <1>1, <2>1, NextMarked DEF MultiAckOne
  <2>2. CASE MultiAckEnds(c)
    BY <1>1, <2>2 DEF MultiAckEnds, Hold
  <2> QED
    BY <1>1, <2>1, <2>2 DEF Consume, AddConsumer, CheckActive, StartHeartbeat, Quit, Crash, Get, Pop, Forget,
     PopNothing, GetUnacked, GetFailed, Ack, MultiAck, Reject, RequeueWorking, RequeueOne, RequeueFailed,
     RequeueFailedOne, ResetWorking, Hold
<1>7. working' = working \/ (conn[c] = "active" /\ \E s : working' = [working EXCEPT ![NameOf[c]] = s])
  <2>1. CASE Ack(c) \/ MultiAckOne(c)
    BY <1>2, <2>1 DEF Ack, MultiAckOne, Ready, PopFirst, DropFirst
  <2> QED
    BY <1>2, <2>1 DEF Consume, AddConsumer, CheckActive, StartHeartbeat, Quit, Crash, Get, Pop, Ready,
     PopNothing, GetUnacked, GetFailed, MultiAck, MultiAckEnds, Reject, RequeueWorking, RequeueOne, RequeueFailed,
     RequeueFailedOne, ResetWorking, TakeFrom, DropFirst, redis
<1>8. confirmed \subseteq confirmed' /\ raced \subseteq raced'
  BY ConsumeHistory
<1>9. CommandOK(d)
  BY DEF QueueInvariant, CommandInv
<1>10. Sure(d)' => Sure(d)
  BY <1>8 DEF Sure
<1> QED
  BY <1>3, <1>4, <1>5, <1>6, <1>7, <1>8, <1>9, <1>10, OtherClients, SameCommand

\* Of a collection the working list has the packages that are not marked.
LEMMA RestOf ==
  ASSUME QueueInvariant, NEW c \in Client, NEW a \in 0 .. Len(have[c]), RestFrom(c, a)
  PROVE  /\ Len(Unacked(c)) = Len(have[c]) - a
         /\ \A i \in 1 .. Len(have[c]) - a : Unacked(c)[i] = have[c][a + i].pack
<1>1. /\ Unacked(c) = [i \in 1 .. Len(have[c]) - a |-> have[c][a + i].pack]
      /\ have[c] \in Seq(Entry)
  BY ClientKnown DEF RestFrom
<1>2. Len(have[c]) \in Nat
  BY <1>1, ListIsFunction
<1>3. Len(have[c]) - a \in Nat
  BY <1>2
<1>4. have[c] \in [1 .. Len(have[c]) -> Entry]
  BY <1>1, ListIsFunction
<1>5. \A i \in 1 .. Len(have[c]) - a : a + i \in 1 .. Len(have[c])
  BY <1>2
<1>6. \A i \in 1 .. Len(have[c]) - a : have[c][a + i].pack \in Package
  BY <1>4, <1>5 DEF Entry
<1>7. [i \in 1 .. Len(have[c]) - a |-> have[c][a + i].pack] \in [1 .. Len(have[c]) - a -> Package]
  BY <1>6
<1>8. Len(Unacked(c)) = Len(have[c]) - a
  BY <1>1, <1>3, <1>7, FunctionIsList
<1> QED
  BY <1>1, <1>8

\* A package is given to a client: the list of what it holds is longer by one.
LEMMA GivenMore ==
  ASSUME QueueInvariant, NEW c \in Client, Pop(c)
  PROVE  /\ Head(input) \in Package
         /\ have'[c] = Append(have[c], Given(Head(input), FALSE))
         /\ Len(have'[c]) = Len(have[c]) + 1 /\ Len(have[c]) \in Nat /\ DOMAIN have'[c] = 1 .. Len(have[c]) + 1
         /\ \A i \in 1 .. Len(have[c]) : i \in DOMAIN have[c] /\ have'[c][i] = have[c][i]
         /\ have'[c][Len(have[c]) + 1] = Given(Head(input), FALSE)
<1> DEFINE g == Given(Head(input), FALSE)
           hv == have[c]
<1>1. hv \in Seq(Entry) /\ Head(input) \in Package /\ DOMAIN have = Client
  BY ClientKnown, Shifted DEF Pop, QueueInvariant, QueueTypeOK, ClientTypeOK
<1>2. g \in Entry
  BY <1>1 DEF Given, Entry
<1>3. have'[c] = Append(hv, g)
  BY <1>1 DEF Pop
<1> HIDE DEF g, hv
<1>4. /\ Len(Append(hv, g)) = Len(hv) + 1 /\ Append(hv, g) \in [1 .. Len(hv) + 1 -> Entry]
      /\ \A i \in 1 .. Len(hv) : Append(hv, g)[i] = hv[i]
      /\ Append(hv, g)[Len(hv) + 1] = g
  BY <1>1, <1>2, AppendPositions
<1>5. DOMAIN Append(hv, g) = 1 .. Len(hv) + 1 /\ DOMAIN hv = 1 .. Len(hv) /\ Len(hv) \in Nat
  BY <1>1, <1>4, ListIsFunction
<1> QED
  BY <1>1, <1>3, <1>4, <1>5 DEF g, hv

\* An entry is marked, as acknowledged or as astray; the others stay.
LEMMA Marked ==
  ASSUME NEW hv \in Seq(Entry), NEW k \in DOMAIN hv
  PROVE  /\ LET nh == [hv EXCEPT ![k] = [hv[k] EXCEPT !.acked = TRUE]]
            IN  /\ nh \in Seq(Entry) /\ Len(nh) = Len(hv) /\ DOMAIN nh = DOMAIN hv
                /\ \A i \in DOMAIN hv : /\ nh[i].pack = hv[i].pack /\ (nh[i].astray <=> hv[i].astray)
                                        /\ nh[i].acked <=> hv[i].acked \/ i = k
         /\ LET nh == [hv EXCEPT ![k] = [hv[k] EXCEPT !.astray = TRUE]]
            IN  /\ DOMAIN nh = DOMAIN hv
                /\ \A i \in DOMAIN hv : /\ nh[i].acked <=> hv[i].acked
                                        /\ nh[i].astray <=> hv[i].astray \/ i = k
<1>1. DOMAIN hv = 1 .. Len(hv) /\ Len(hv) \in Nat /\ hv \in [1 .. Len(hv) -> Entry] /\ hv[k] \in Entry
  BY ListIsFunction
<1> DEFINE e == [hv[k] EXCEPT !.acked = TRUE]
           f == [hv[k] EXCEPT !.astray = TRUE]
<1>2. /\ e \in Entry /\ e.pack = hv[k].pack /\ (e.astray <=> hv[k].astray) /\ e.acked
      /\ f \in Entry /\ (f.acked <=> hv[k].acked) /\ f.astray
  BY <1>1 DEF Entry
<1> HIDE DEF e, f
<1>3. [hv EXCEPT ![k] = e] \in [1 .. Len(hv) -> Entry]
  BY <1>1, <1>2
<1>4. [hv EXCEPT ![k] = e] \in Seq(Entry) /\ Len([hv EXCEPT ![k] = e]) = Len(hv)
  BY <1>1, <1>3, FunctionIsList
<1>5. \A i \in DOMAIN hv : i # k => [hv EXCEPT ![k] = e][i] = hv[i] /\ [hv EXCEPT ![k] = f][i] = hv[i]
  BY <1>1
<1>6. [hv EXCEPT ![k] = e][k] = e /\ [hv EXCEPT ![k] = f][k] = f
  BY <1>1
<1>7. DOMAIN [hv EXCEPT ![k] = e] = DOMAIN hv /\ DOMAIN [hv EXCEPT ![k] = f] = DOMAIN hv
  OBVIOUS
<1> DEFINE ne == [hv EXCEPT ![k] = e]
           nf == [hv EXCEPT ![k] = f]
<1> HIDE DEF ne, nf
<1>8. \A i \in DOMAIN hv : /\ ne[i].pack = hv[i].pack /\ (ne[i].astray <=> hv[i].astray)
                           /\ ne[i].acked <=> hv[i].acked \/ i = k
  BY <1>2, <1>5, <1>6 DEF ne
<1>9. \A i \in DOMAIN hv : /\ nf[i].acked <=> hv[i].acked
                           /\ nf[i].astray <=> hv[i].astray \/ i = k
  BY <1>2, <1>5, <1>6 DEF nf
<1> QED
  BY <1>4, <1>7, <1>8, <1>9 DEF ne, nf, e, f

\* Where a client is after its command, whoever else uses its name.
LEMMA ConsumeCommand ==
  ASSUME QueueInvariant, NEW c \in Client, Consume(c)
  PROVE  CommandOK(c)'
<1>1. /\ have[c] \in Seq(Entry) /\ left[c] \in Nat /\ failed \in Seq(Package) /\ multi[c] \in BOOLEAN
      /\ DOMAIN have = Client /\ DOMAIN multi = Client /\ DOMAIN pc = Client
      /\ DOMAIN left = Client /\ DOMAIN conn = Client
  BY ClientKnown DEF QueueInvariant, QueueTypeOK, RedisTypeOK, ClientTypeOK
<1>2. CommandOK(c)
  BY DEF QueueInvariant, CommandInv
<1>3. DOMAIN have[c] = 1 .. Len(have[c]) /\ Len(have[c]) \in Nat /\ have[c] \in [1 .. Len(have[c]) -> Entry]
  BY <1>1, ListIsFunction
<1>4. pc[c] # "idle" => conn[c] = "active"
  BY <1>2 DEF CommandOK
<1>5. CASE AddConsumer(c) \/ CheckActive(c) \/ StartHeartbeat(c)
  <2>1. conn[c] # "active" /\ pc' = pc /\ have' = have /\ multi' = multi
    BY <1>5 DEF AddConsumer, CheckActive, StartHeartbeat
  <2>2. pc[c] = "idle" /\ have[c] = <<>> /\ multi[c] = FALSE
    BY <1>1, <1>2, <2>1 DEF CommandOK
  <2> QED
    BY <2>1, <2>2, HoldsNothing
<1>6. CASE Quit(c) \/ Crash(c)
  <2>1. pc'[c] = "idle" /\ have'[c] = <<>> /\ multi'[c] = FALSE
    BY <1>1, <1>6 DEF Quit, Crash, Forget
  <2> QED
    BY <2>1, HoldsNothing
<1>7. ASSUME NEW command \in {"get", "nowait", "multi"}, NEW rounds \in Nat \ {0},
             command # "multi" => rounds = 1, Get(c, command, rounds)
      PROVE  CommandOK(c)'
  <2>1. /\ conn'[c] = "active" /\ pc'[c] = command /\ left'[c] = rounds /\ have'[c] = <<>>
        /\ multi'[c] = (command = "multi")
    BY <1>1, <1>7 DEF Get, Ready, Call, Hold
  <2>2. (command = "multi" => multi'[c]) /\ (command # "multi" => ~ multi'[c])
    BY <2>1
  <2>3. left'[c] > 0 /\ (command # "multi" => left'[c] = 1)
    BY <1>7, <2>1
  <2> QED
    BY <2>1, <2>2, <2>3 DEF CommandOK
<1>8. CASE Pop(c)
  <2>1. /\ pc'[c] = (IF left[c] = 1 THEN "idle" ELSE pc[c]) /\ left'[c] = left[c] - 1
        /\ conn' = conn /\ multi' = multi /\ pc[c] \in {"get", "nowait", "multi"}
    BY <1>1, <1>8 DEF Pop, Round, Call
  <2>2. /\ pc[c] # "multi" => left[c] = 1 /\ ~ multi[c]
        /\ pc[c] = "multi" => left[c] > 0 /\ multi[c]
        /\ conn[c] = "active"
    BY <1>2, <1>4, <2>1 DEF CommandOK
  <2>3. pc'[c] = "idle" \/ (pc'[c] = "multi" /\ left'[c] > 0)
    BY <1>1, <2>1, <2>2
  <2>4. ASSUME multi[c] PROVE \A i \in DOMAIN have'[c] : ~ have'[c][i].acked /\ ~ have'[c][i].astray
    <3>1. pc[c] = "multi"
      BY <2>1, <2>2, <2>4
    <3>2. \A i \in DOMAIN have[c] : ~ have[c][i].acked /\ ~ have[c][i].astray
      BY <1>2, <3>1 DEF CommandOK
    <3>3. ~ Given(Head(input), FALSE).acked /\ ~ Given(Head(input), FALSE).astray
      BY DEF Given
    <3>4. \A i \in 1 .. Len(have[c]) + 1 : i \in 1 .. Len(have[c]) \/ i = Len(have[c]) + 1
      BY <1>3
    <3>5. /\ DOMAIN have'[c] = 1 .. Len(have[c]) + 1
          /\ \A i \in 1 .. Len(have[c]) : i \in DOMAIN have[c] /\ have'[c][i] = have[c][i]
          /\ have'[c][Len(have[c]) + 1] = Given(Head(input), FALSE)
      BY <1>8, GivenMore
    <3> QED
      BY <3>2, <3>3, <3>4, <3>5
  <2>5. pc'[c] = "multi" => multi[c]
    BY <2>1, <2>2
  <2> QED
    BY <2>1, <2>2, <2>3, <2>4, <2>5 DEF CommandOK
<1>9. CASE PopNothing(c)
  <2>1. /\ pc[c] = "nowait" \/ pc[c] = "multi"
        /\ pc'[c] = (IF left[c] = 1 THEN "idle" ELSE pc[c]) /\ left'[c] = left[c] - 1
        /\ conn' = conn /\ have' = have /\ multi' = multi
    BY <1>1, <1>9 DEF PopNothing, Round, Call
  <2>2. (pc[c] = "nowait" => left[c] = 1) /\ (pc[c] = "multi" => left[c] > 0)
    BY <1>2 DEF CommandOK
  <2>3. pc'[c] = "idle" \/ (pc'[c] = "multi" /\ pc[c] = "multi" /\ left'[c] > 0)
    BY <1>1, <2>1, <2>2
  <2>4. conn[c] = "active"
    BY <1>4, <2>1
  <2> QED
    BY <1>2, <2>1, <2>3, <2>4 DEF CommandOK
<1>10. CASE GetUnacked(c) \/ GetFailed(c)
  <2>1. conn'[c] = "active" /\ pc'[c] = "idle" /\ multi'[c] = FALSE
    BY <1>1, <1>10 DEF GetUnacked, GetFailed, Ready, Hold
  <2> QED
    BY <2>1 DEF CommandOK
<1>11. CASE Ack(c) \/ ResetWorking(c)
  <2>1. have'[c] = <<>> /\ multi'[c] = FALSE /\ pc'[c] = "idle"
    BY <1>1, <1>11 DEF Ack, ResetWorking, Ready, Hold
  <2> QED
    BY <2>1, HoldsNothing
<1>12. ASSUME NEW k \in DOMAIN have[c], MultiAck(c, k)
       PROVE  CommandOK(c)'
  <2>1. /\ conn'[c] = "active" /\ pc'[c] = "multiAck" /\ left'[c] = k /\ multi[c]
        /\ have' = have /\ multi' = multi /\ confirmed' = confirmed \cup {have[c][i].pack : i \in 1 .. k}
    BY <1>1, <1>12 DEF MultiAck, Ready, Call
  <2> QED
    BY <1>2, <2>1 DEF CommandOK
<1>13. CASE MultiAckOne(c)
  <2>1. UNCHANGED <<conn, pc, left, multi, confirmed>> /\ pc[c] = "multiAck"
    BY <1>13 DEF MultiAckOne
  <2>2. PICK k \in DOMAIN have[c] :
          /\ k \in 1 .. left[c] /\ ~ have[c][k].acked /\ \A j \in 1 .. k - 1 : have[c][j].acked
          /\ have' = [have EXCEPT ![c] = [have[c] EXCEPT ![k] = [have[c][k] EXCEPT !.acked = TRUE]]]
    BY <1>13, NextMarked
  <2>3. /\ DOMAIN have'[c] = DOMAIN have[c]
        /\ \A i \in DOMAIN have[c] : /\ have'[c][i].pack = have[c][i].pack /\ (have'[c][i].astray <=> have[c][i].astray)
                                     /\ have'[c][i].acked <=> have[c][i].acked \/ i = k
    <3>1. have'[c] = [have[c] EXCEPT ![k] = [have[c][k] EXCEPT !.acked = TRUE]]
      BY <1>1, <2>2
    <3> QED
      BY <1>1, <3>1, Marked
  <2>4. conn[c] = "active" /\ multi[c] /\ left[c] \in DOMAIN have[c] /\ \A i \in 1 .. left[c] : have[c][i].pack \in confirmed
    BY <1>2, <1>4, <2>1 DEF CommandOK
  <2>5. \A i \in 1 .. left[c] : i \in DOMAIN have[c]
    BY <1>3, <2>4
  <2>6. ASSUME NEW i \in DOMAIN have[c], NEW j \in DOMAIN have[c], j < i, have'[c][i].acked \/ have'[c][i].astray
        PROVE  have'[c][j].acked
    <3>1. CASE i = k
      <4>1. j \in 1 .. k - 1
        BY <1>3, <2>6, <3>1
      <4> QED
        BY <2>2, <2>3, <4>1
    <3>2. CASE i # k
      BY <1>2, <2>3, <2>4, <2>6, <3>2 DEF CommandOK
    <3> QED
      BY <3>1, <3>2
  <2> QED
    BY <2>1, <2>3, <2>4, <2>5, <2>6 DEF CommandOK
<1>14. CASE MultiAckEnds(c)
  <2>1. pc'[c] = "idle" /\ conn' = conn /\ pc[c] = "multiAck"
    BY <1>1, <1>14 DEF MultiAckEnds, Call
  <2>2. conn'[c] = "active"
    BY <1>4, <2>1
  <2>3. CASE Unmarked(c, Len(have[c])) = {}
    <3>1. have'[c] = <<>> /\ multi'[c] = FALSE
      BY <1>1, <1>14, <2>3 DEF MultiAckEnds, Hold
    <3> QED
      BY <2>1, <3>1, HoldsNothing
  <2>4. CASE Unmarked(c, Len(have[c])) # {}
    <3>1. have' = have /\ multi' = multi
      BY <1>14, <2>4 DEF MultiAckEnds
    <3> QED
      BY <1>2, <2>1, <2>2, <3>1, SameHeld
  <2> QED
    BY <2>3, <2>4
<1>15. ASSUME NEW k \in DOMAIN have[c], NEW r, Reject(c, k, r)
       PROVE  CommandOK(c)'
  <2>1. /\ conn'[c] = "active" /\ pc'[c] = "idle" /\ multi' = multi
        /\ have'[c] = IF multi[c] THEN [have[c] EXCEPT ![k].astray = TRUE] ELSE <<>>
        /\ multi[c] => k > 1 /\ have[c][k - 1].acked
    BY <1>1, <1>15 DEF Reject, Ready
  <2>2. CASE ~ multi[c]
    BY <1>1, <2>1, <2>2, HoldsNothing
  <2>3. CASE multi[c]
    <3>1. /\ DOMAIN have'[c] = DOMAIN have[c]
          /\ \A i \in DOMAIN have[c] : /\ have'[c][i].acked <=> have[c][i].acked
                                       /\ have'[c][i].astray <=> have[c][i].astray \/ i = k
      <4>1. have'[c] = [have[c] EXCEPT ![k] = [have[c][k] EXCEPT !.astray = TRUE]]
        BY <2>1, <2>3
      <4> QED
        BY <1>1, <4>1, Marked
    <3>2. k - 1 \in DOMAIN have[c]
      BY <1>3, <2>1, <2>3
    <3>3. ASSUME NEW i \in DOMAIN have[c], NEW j \in DOMAIN have[c], j < i, have'[c][i].acked \/ have'[c][i].astray
          PROVE  have'[c][j].acked
      <4>1. CASE have[c][i].acked \/ have[c][i].astray
        BY <1>2, <2>3, <3>1, <3>3, <4>1 DEF CommandOK
      <4>2. CASE i = k
        <5>1. j < k - 1 \/ j = k - 1
          BY <1>3, <3>3, <4>2
        <5> QED
          BY <1>2, <2>1, <2>3, <3>1, <3>2, <5>1 DEF CommandOK
      <4> QED
        BY <3>1, <3>3, <4>1, <4>2
    <3> QED
      BY <2>1, <2>3, <3>1, <3>3 DEF CommandOK
  <2> QED
    BY <2>2, <2>3
<1>16. CASE RequeueWorking(c)
  <2>1. have'[c] = <<>> /\ multi'[c] = FALSE /\ pc'[c] = "requeueWorking" /\ conn'[c] = "active"
    BY <1>1, <1>16 DEF RequeueWorking, Ready, Hold, Call
  <2> QED
    BY <2>1, HoldsNothing
<1>17. CASE RequeueOne(c)
  <2>1. have' = have /\ multi' = multi /\ conn' = conn /\ pc[c] = "requeueWorking" /\ pc'[c] \in {"requeueWorking", "idle"}
    BY <1>1, <1>17 DEF RequeueOne
  <2>2. have[c] = <<>> /\ multi[c] = FALSE /\ conn[c] = "active"
    BY <1>1, <1>2, <1>4, <2>1 DEF CommandOK
  <2> QED
    BY <2>1, <2>2, HoldsNothing
<1>18. CASE RequeueFailed(c)
  <2>1. /\ have' = have /\ multi' = multi /\ conn'[c] = "active" /\ pc'[c] = "requeueFailed"
        /\ left'[c] = Len(failed) /\ failed # <<>>
    BY <1>1, <1>18 DEF RequeueFailed, Ready, Call
  <2>2. left'[c] > 0
    BY <1>1, <2>1
  <2> QED
    BY <1>2, <2>1, <2>2, SameHeld
<1>19. CASE RequeueFailedOne(c)
  <2>1. /\ have' = have /\ multi' = multi /\ conn' = conn /\ pc[c] = "requeueFailed"
        /\ pc'[c] = "idle" \/ (left[c] # 1 /\ pc'[c] = "requeueFailed" /\ left'[c] = left[c] - 1)
    BY <1>1, <1>19 DEF RequeueFailedOne, Round, Call
  <2>2. left[c] > 0 /\ conn[c] = "active"
    BY <1>2, <1>4, <2>1 DEF CommandOK
  <2>3. pc'[c] = "idle" \/ (pc'[c] = "requeueFailed" /\ left'[c] > 0)
    BY <1>1, <2>1, <2>2
  <2> QED
    BY <1>2, <2>1, <2>2, <2>3, SameHeld
<1>20. ASSUME NEW n \in 2 .. MaxGet PROVE n \in Nat \ {0}
  BY QueueAssumption
<1> QED
  BY <1>5, <1>6, <1>7, <1>8, <1>9, <1>10, <1>11, <1>12, <1>13, <1>14, <1>15, <1>16, <1>17, <1>18, <1>19, <1>20 DEF Consume

\* Pop gives the client what it puts in the working list.
LEMMA PopHolds ==
  ASSUME QueueInvariant, NEW c \in Client, Sure(c), Pop(c)
  PROVE  HoldOK(c)'
<1> DEFINE x == Head(input)
           w == working[NameOf[c]]
           hv == have[c]
           nh == have'[c]
           nw == Append(w, x)
<1>1. /\ NameOf[c] \in Name /\ Unacked(c) = w /\ w \in Seq(Package) /\ hv \in Seq(Entry) /\ x \in Package
      /\ left[c] \in Nat /\ DOMAIN working = Name /\ DOMAIN pc = Client
  BY ClientKnown, Shifted DEF Pop, QueueInvariant, QueueTypeOK, RedisTypeOK, ClientTypeOK
<1>2. /\ working'[NameOf[c]] = nw /\ multi' = multi
      /\ pc'[c] = (IF left[c] = 1 THEN "idle" ELSE pc[c])
  BY <1>1 DEF Pop, TakeFrom, Round, Call
<1>3. CommandOK(c) /\ HoldOK(c) /\ pc[c] \in {"get", "nowait", "multi"}
  BY DEF QueueInvariant, CommandInv, HoldInv, Pop
<1>4. Unacked(c)' = nw
  BY <1>2 DEF Unacked
<1>5. /\ Len(nh) = Len(hv) + 1 /\ Len(hv) \in Nat /\ DOMAIN nh = 1 .. Len(hv) + 1
      /\ \A i \in 1 .. Len(hv) : i \in DOMAIN hv /\ nh[i] = hv[i]
      /\ nh[Len(hv) + 1] = Given(x, FALSE)
  BY GivenMore
<1>6. Given(x, FALSE).pack = x /\ Given(x, FALSE).acked = FALSE /\ Given(x, FALSE).astray = FALSE
  BY DEF Given
<1>7. /\ nw \in [1 .. Len(w) + 1 -> Package]
      /\ (\A i \in 1 .. Len(w) : nw[i] = w[i]) /\ nw[Len(w) + 1] = x
  BY <1>1, AppendPositions
<1> HIDE DEF x, w, hv, nh, nw
<1>8. CASE pc[c] \in {"get", "nowait"}
  <2>1. left[c] = 1 /\ hv = <<>> /\ ~ multi[c] /\ w = <<>>
    BY <1>1, <1>3, <1>8 DEF CommandOK, HoldOK, HasUnacked, hv
  <2>2. Len(hv) + 1 = 1
    BY <2>1
  <2>3. Head(nw) = x
    BY <1>1, <2>1 DEF nw
  <2>4. nh[1] = Given(x, FALSE)
    BY <1>5, <2>2
  <2> QED
    BY <1>2, <1>4, <1>6, <2>1, <2>3, <2>4 DEF HoldOK, nh
<1>9. CASE pc[c] = "multi"
  <2>1. multi[c] /\ \A i \in DOMAIN hv : ~ hv[i].acked /\ ~ hv[i].astray
    BY <1>3, <1>9 DEF CommandOK, hv
  <2>2. PICK a \in 0 .. Len(hv) : RestFrom(c, a)
    BY <1>3, <2>1 DEF HoldOK, Straight, hv
  <2>3. DOMAIN hv = 1 .. Len(hv)
    BY <1>1, ListIsFunction DEF hv
  <2>4. a = 0
    <3>1. a \in 1 .. Len(hv) => hv[a].acked
      BY <2>2, <2>3 DEF RestFrom, hv
    <3> QED
      BY <1>5, <2>1, <2>2, <2>3, <3>1
  <2>5. Len(w) = Len(hv) /\ \A i \in 1 .. Len(hv) : w[i] = hv[i].pack
    <3>1. /\ Len(Unacked(c)) = Len(have[c]) - 0
          /\ \A i \in 1 .. Len(have[c]) - 0 : Unacked(c)[i] = have[c][0 + i].pack
      BY <2>2, <2>4, RestOf DEF hv
    <3>2. Len(have[c]) - 0 = Len(have[c]) /\ \A i \in 1 .. Len(have[c]) : 0 + i = i
      BY <1>5 DEF hv
    <3> QED
      BY <1>1, <3>1, <3>2 DEF hv
  <2>6. \A i \in 1 .. Len(hv) + 1 : ~ nh[i].acked /\ nw[i] = nh[i].pack
    <3>1. \A i \in 1 .. Len(hv) + 1 : i \in 1 .. Len(hv) \/ i = Len(hv) + 1
      BY <1>5
    <3> QED
      BY <1>5, <1>6, <1>7, <2>1, <2>5, <3>1
  <2>7. (\A i \in DOMAIN nh : nh[i].acked <=> i <= 0) /\ nw = [i \in 1 .. Len(nh) - 0 |-> nh[0 + i].pack]
    <3>1. Len(nh) - 0 = Len(hv) + 1 /\ \A i \in 1 .. Len(hv) + 1 : 0 + i = i /\ ~ (i <= 0)
      BY <1>5
    <3>2. nw = [i \in 1 .. Len(hv) + 1 |-> nw[i]]
      BY <1>7, <2>5
    <3> QED
      BY <1>5, <2>6, <3>1, <3>2
  <2>8. RestFrom(c, 0)'
    BY <1>4, <2>7 DEF RestFrom, nh
  <2>9. 0 \in 0 .. Len(have'[c])
    BY <1>5 DEF nh
  <2>10. pc'[c] \notin {"get", "nowait"} /\ multi'[c]
    BY <1>2, <1>9, <2>1
  <2> QED
    BY <2>8, <2>9, <2>10 DEF HoldOK
<1> QED
  BY <1>3, <1>8, <1>9

\* The package that MultiAck marks next is the oldest one of the working list.
LEMMA OldestMarked ==
  ASSUME QueueInvariant, NEW c \in Client, Sure(c), Straight(c), MultiAckOne(c),
         NEW k \in DOMAIN have[c], ~ have[c][k].acked, \A j \in 1 .. k - 1 : have[c][j].acked
  PROVE  RestFrom(c, k - 1) /\ Head(Unacked(c)) = have[c][k].pack
<1>1. HoldOK(c) /\ CommandOK(c) /\ pc[c] = "multiAck"
  BY DEF QueueInvariant, CommandInv, HoldInv, MultiAckOne
<1>2. multi[c]
  BY <1>1 DEF CommandOK
<1>3. PICK a \in 0 .. Len(have[c]) : RestFrom(c, a)
  BY <1>1, <1>2 DEF HoldOK
<1>4. Unacked(c) \in Seq(Package) /\ DOMAIN have[c] = 1 .. Len(have[c]) /\ Len(have[c]) \in Nat
  BY ClientKnown, ListIsFunction
<1>5. \A i \in 1 .. Len(have[c]) : have[c][i].acked <=> i <= a
  BY <1>3, <1>4 DEF RestFrom
<1>6. a = k - 1
  <2>1. ~ (k <= a)
    BY <1>4, <1>5
  <2>2. k - 1 \in 1 .. Len(have[c]) => k - 1 <= a
    BY <1>4, <1>5
  <2> QED
    BY <1>4, <2>1, <2>2
<1>7. Unacked(c)[1] = have[c][k].pack
  <2>1. 1 \in 1 .. Len(have[c]) - a /\ a + 1 = k
    BY <1>4, <1>6
  <2> QED
    BY <1>3, <2>1, RestOf
<1> QED
  BY <1>3, <1>4, <1>6, <1>7 DEF MultiAckOne, PopFirst, HasUnacked

\* After the pop the working list is the rest behind the package that is marked now.
LEMMA MultiAckHolds ==
  ASSUME QueueInvariant, NEW c \in Client, Sure(c), MultiAckOne(c)
  PROVE  HoldOK(c)'
<1> DEFINE hv == have[c]
           nh == have'[c]
           w == Unacked(c)
<1>1. /\ NameOf[c] \in Name /\ w = working[NameOf[c]] /\ w \in Seq(Package) /\ hv \in Seq(Entry)
      /\ DOMAIN working = Name /\ DOMAIN have = Client
  BY ClientKnown DEF QueueInvariant, QueueTypeOK, RedisTypeOK, ClientTypeOK
<1>2. /\ UNCHANGED <<pc, multi>> /\ pc[c] = "multiAck" /\ w # <<>> /\ Unacked(c)' = Tail(w)
  BY <1>1 DEF MultiAckOne, PopFirst, DropFirst, HasUnacked, Unacked
<1>3. PICK k \in DOMAIN hv :
        /\ k \in 1 .. left[c] /\ ~ hv[k].acked /\ \A j \in 1 .. k - 1 : hv[j].acked
        /\ have' = [have EXCEPT ![c] = [hv EXCEPT ![k] = [hv[k] EXCEPT !.acked = TRUE]]]
  BY NextMarked
<1>4. DOMAIN hv = 1 .. Len(hv) /\ Len(hv) \in Nat /\ hv \in [1 .. Len(hv) -> Entry]
  BY <1>1, ListIsFunction
<1>5. nh = [hv EXCEPT ![k] = [hv[k] EXCEPT !.acked = TRUE]]
  BY <1>1, <1>3
<1>6. /\ DOMAIN nh = DOMAIN hv /\ Len(nh) = Len(hv)
      /\ \A i \in DOMAIN hv : /\ nh[i].pack = hv[i].pack /\ (nh[i].astray <=> hv[i].astray)
                              /\ nh[i].acked <=> hv[i].acked \/ i = k
  <2> HIDE DEF hv, nh
  <2> QED
    BY <1>1, <1>5, Marked
<1>7. /\ DOMAIN nh = 1 .. Len(hv)
      /\ \A i \in 1 .. Len(hv) : /\ nh[i].pack = hv[i].pack /\ (nh[i].astray <=> hv[i].astray)
                                 /\ nh[i].acked <=> hv[i].acked \/ i = k
  BY <1>4, <1>6
<1>8. ASSUME Straight(c)' PROVE k \in 0 .. Len(nh) /\ RestFrom(c, k)'
  <2>1. Straight(c)
    BY <1>4, <1>6, <1>8 DEF Straight
  <2>2. RestFrom(c, k - 1)
    BY <1>3, <2>1, OldestMarked
  <2>3. /\ \A i \in 1 .. Len(hv) : hv[i].acked <=> i <= k - 1
        /\ Len(w) = Len(hv) - (k - 1)
        /\ \A i \in 1 .. Len(hv) - (k - 1) : w[i] = hv[k - 1 + i].pack
    <3>1. k - 1 \in 0 .. Len(have[c])
      BY <1>4
    <3> QED
      BY <1>4, <2>2, <3>1, RestOf DEF RestFrom
  <2> HIDE DEF hv, nh, w
  <2>4. \A i \in 1 .. Len(hv) : nh[i].acked <=> i <= k
    <3>1. \A i \in 1 .. Len(hv) : i <= k <=> i <= k - 1 \/ i = k
      BY <1>4
    <3> QED
      BY <1>7, <2>3, <3>1
  <2>5. Tail(w) = [i \in 1 .. Len(hv) - k |-> nh[k + i].pack]
    <3>1. Len(w) - 1 = Len(hv) - k /\ Len(w) \in Nat
      BY <1>1, <1>4, <2>3
    <3>2. Tail(w) \in [1 .. Len(hv) - k -> Package] /\ \A i \in 1 .. Len(hv) - k : Tail(w)[i] = w[i + 1]
      <4>1. /\ Tail(w) \in Seq(Package) /\ Len(Tail(w)) = Len(w) - 1
            /\ \A i \in 1 .. Len(w) - 1 : Tail(w)[i] = w[i + 1]
        BY <1>1, <1>2
      <4> QED
        BY <3>1, <4>1, ListIsFunction
    <3>3. ASSUME NEW i \in 1 .. Len(hv) - k
          PROVE  Tail(w)[i] = nh[k + i].pack
      <4>1. i + 1 \in 1 .. Len(hv) - (k - 1) /\ k - 1 + (i + 1) = k + i /\ k + i \in 1 .. Len(hv)
        BY <1>4
      <4> QED
        BY <1>7, <2>3, <3>2, <4>1
    <3> QED
      BY <3>2, <3>3
  <2>6. RestFrom(c, k)'
    BY <1>2, <1>6, <1>7, <2>4, <2>5 DEF RestFrom, nh
  <2>7. k \in 0 .. Len(nh)
    BY <1>4, <1>6
  <2> QED
    BY <2>6, <2>7
<1>9. multi[c]
  BY <1>2 DEF QueueInvariant, CommandInv, CommandOK
<1> QED
  BY <1>2, <1>8, <1>9 DEF HoldOK

\* What the client itself holds after its command.
LEMMA ConsumeHolds ==
  ASSUME QueueInvariant, NEW c \in Client, Sure(c), Consume(c)
  PROVE  HoldOK(c)'
<1> DEFINE w == working[NameOf[c]]
<1>1. /\ NameOf[c] \in Name /\ Unacked(c) = w /\ w \in Seq(Package) /\ failed \in Seq(Package) /\ multi[c] \in BOOLEAN
  BY ClientKnown
<1>2. /\ DOMAIN working = Name /\ DOMAIN have = Client /\ DOMAIN multi = Client /\ DOMAIN pc = Client
      /\ DOMAIN left = Client
  BY DEF QueueInvariant, QueueTypeOK, RedisTypeOK, ClientTypeOK
<1>3. CommandOK(c) /\ HoldOK(c)
  BY DEF QueueInvariant, CommandInv, HoldInv
<1> HIDE DEF w
<1>4. ASSUME have'[c] = <<>>, multi'[c] = FALSE, pc'[c] \notin {"get", "nowait"}
      PROVE  HoldOK(c)'
  BY <1>4 DEF HoldOK
<1>5. CASE AddConsumer(c) \/ CheckActive(c) \/ StartHeartbeat(c)
  <2>1. conn[c] # "active" /\ pc' = pc /\ have' = have /\ multi' = multi
    BY <1>5 DEF AddConsumer, CheckActive, StartHeartbeat
  <2>2. pc[c] = "idle" /\ have[c] = <<>> /\ multi[c] = FALSE
    BY <1>1, <1>3, <2>1 DEF CommandOK
  <2> QED
    BY <1>4, <2>1, <2>2
<1>6. CASE Quit(c) \/ Crash(c)
  BY <1>2, <1>4, <1>6 DEF Quit, Crash, Forget
<1>7. ASSUME NEW command, NEW rounds, Get(c, command, rounds)
      PROVE  HoldOK(c)'
  <2>1. w = <<>> /\ working' = working /\ have'[c] = <<>>
    BY <1>1, <1>2, <1>7 DEF Get, HasUnacked, Hold, redis
  <2>2. Unacked(c)' = <<>> /\ ~ HasUnacked(c)'
    BY <2>1 DEF Unacked, HasUnacked, w
  <2>3. RestFrom(c, 0)' /\ 0 \in 0 .. Len(have'[c])
    <3>1. DOMAIN <<>> = {} /\ Len(<<>>) = 0 /\ <<>> = [i \in {} |-> have'[c][0 + i].pack] /\ 1 .. 0 = {}
      OBVIOUS
    <3>2. 0 - 0 = 0 /\ 0 \in 0 .. 0
      OBVIOUS
    <3> QED
      BY <2>1, <2>2, <3>1, <3>2 DEF RestFrom
  <2> QED
    BY <2>1, <2>2, <2>3 DEF HoldOK
<1>8. CASE PopNothing(c) \/ RequeueFailed(c) \/ RequeueFailedOne(c) \/ \E k \in DOMAIN have[c] : MultiAck(c, k)
  <2>1. UNCHANGED <<working, have, multi>>
    BY <1>8 DEF PopNothing, RequeueFailed, RequeueFailedOne, MultiAck, redis
  <2>2. pc'[c] \in {pc[c], "idle", "requeueFailed", "multiAck"}
    BY <1>2, <1>8 DEF PopNothing, RequeueFailed, RequeueFailedOne, MultiAck, Round, Call
  <2> QED
    BY <1>3, <2>1, <2>2, SameList
<1>9. CASE GetUnacked(c)
  <2>1. /\ pc[c] = "idle" /\ pc' = pc /\ working' = working
        /\ have'[c] = <<Given(Head(Unacked(c)), FALSE)>> /\ multi'[c] = FALSE
    BY <1>2, <1>9 DEF GetUnacked, Ready, Hold, redis
  <2>2. Unacked(c)' = Unacked(c) /\ <<Given(Head(Unacked(c)), FALSE)>>[1].pack = Head(Unacked(c))
    BY <2>1 DEF Unacked, Given
  <2>3. Head(Unacked(c))' = Head(Unacked(c))
    BY <2>2
  <2> QED
    BY <2>1, <2>2, <2>3 DEF HoldOK
<1>10. CASE GetFailed(c)
  <2>1. /\ pc[c] = "idle" /\ pc' = pc /\ failed # <<>>
        /\ working'[NameOf[c]] = Append(w, Head(failed))
        /\ have'[c] = <<Given(Head(failed), HasUnacked(c))>> /\ multi'[c] = FALSE
    BY <1>1, <1>2, <1>10 DEF GetFailed, Ready, Hold, TakeFrom, w
  <2>2. /\ <<Given(Head(failed), HasUnacked(c))>>[1].pack = Head(failed)
        /\ <<Given(Head(failed), HasUnacked(c))>>[1].astray = HasUnacked(c)
    BY DEF Given
  <2>3. Head(failed) \in Package
    BY <1>1, <2>1, Shifted
  <2>4. CASE HasUnacked(c)
    BY <2>1, <2>2, <2>4 DEF HoldOK
  <2>5. CASE ~ HasUnacked(c)
    <3>1. w = <<>>
      BY <1>1, <2>5 DEF HasUnacked
    <3>2. Head(Append(w, Head(failed))) = Head(failed)
      BY <2>3, <3>1
    <3>3. Head(Unacked(c)') = have'[c][1].pack
      BY <2>1, <2>2, <3>2 DEF Unacked
    <3> QED
      BY <2>1, <3>3 DEF HoldOK
  <2> QED
    BY <2>4, <2>5
<1>11. CASE Ack(c) \/ ResetWorking(c)
  BY <1>2, <1>4, <1>11 DEF Ack, ResetWorking, Ready, Hold
<1>12. CASE MultiAckEnds(c)
  <2>1. pc'[c] = "idle" /\ working' = working
    BY <1>2, <1>12 DEF MultiAckEnds, Call, redis
  <2>2. (have'[c] = <<>> /\ multi'[c] = FALSE) \/ (have' = have /\ multi' = multi)
    BY <1>2, <1>12 DEF MultiAckEnds, Hold
  <2> QED
    BY <1>3, <1>4, <2>1, <2>2, SameList
<1>13. ASSUME NEW k \in DOMAIN have[c], NEW r, Reject(c, k, r)
       PROVE  HoldOK(c)'
  <2>1. /\ pc'[c] = "idle" /\ multi' = multi
        /\ have'[c] = IF multi[c] THEN [have[c] EXCEPT ![k].astray = TRUE] ELSE <<>>
    BY <1>2, <1>13 DEF Reject, Ready
  <2>2. CASE ~ multi[c]
    BY <1>1, <1>4, <2>1, <2>2
  <2>3. CASE multi[c]
    <3>1. have[c] \in Seq(Entry)
      BY ClientKnown
    <3>2. have[c] \in [DOMAIN have[c] -> Entry]
      BY <3>1, ListIsFunction
    <3>3. have'[c][k].astray /\ k \in DOMAIN have'[c]
      BY <2>1, <2>3, <3>2 DEF Entry
    <3> QED
      BY <2>1, <2>3, <3>3 DEF HoldOK, Straight
  <2> QED
    BY <2>2, <2>3
<1>14. CASE RequeueWorking(c)
  BY <1>2, <1>4, <1>14 DEF RequeueWorking, Hold, Call
<1>15. CASE RequeueOne(c)
  <2>1. have' = have /\ multi' = multi /\ pc[c] = "requeueWorking" /\ pc'[c] \in {"requeueWorking", "idle"}
    BY <1>2, <1>15 DEF RequeueOne
  <2>2. have[c] = <<>> /\ multi[c] = FALSE
    BY <1>1, <1>3, <2>1 DEF CommandOK
  <2> QED
    BY <1>4, <2>1, <2>2
<1> QED
  BY <1>5, <1>6, <1>7, <1>8, <1>9, <1>10, <1>11, <1>12, <1>13, <1>14, <1>15, PopHolds, MultiAckHolds DEF Consume

\* Delete and the commands on the whole queue take nothing from a client that runs.
LEMMA AdministerHolds ==
  ASSUME QueueInvariant, Administer, NEW d \in Client
  PROVE  CommandOK(d)' /\ (Sure(d)' => HoldOK(d)')
<1>1. UNCHANGED <<conn, pc, left, have, multi, confirmed>> /\ CommandOK(d)
  BY AdministerLists DEF QueueInvariant, CommandInv
<1>2. CommandOK(d)'
  BY <1>1, SameCommand
<1>3. raced \subseteq raced'
  BY DEF Administer, DeleteOne, Expire, Beat, DeleteNext, DeleteAdds, DeleteChecks, DeleteBeats, DeleteResets,
     DeleteRemoves, Refuse, ResetInput, ResetFailed, DelInput, DelFailed, DeleteStart, DeleteInput, DeleteFailed,
     DeleteWorkers, DeleterEnds, client, deletion
<1>4. ASSUME Sure(d) PROVE HoldOK(d)'
  <2>1. HoldOK(d) /\ NameOf[d] \in Name /\ DOMAIN working = Name
    BY <1>4, QueueAssumption DEF QueueInvariant, HoldInv, QueueTypeOK, RedisTypeOK
  <2>2. CASE working'[NameOf[d]] = working[NameOf[d]]
    BY <1>1, <2>1, <2>2, SameList
  <2>3. CASE working'[NameOf[d]] # working[NameOf[d]]
    <3>1. PICK n \in Name : /\ deleter = "reset" /\ n \in current
                            /\ working' = [working EXCEPT ![n] = <<>>]
      BY <2>3, AdministerLists
    <3>2. n = NameOf[d]
      BY <2>1, <2>3, <3>1
    <3>3. conn[d] # "active"
      BY <1>4, <3>1, <3>2 DEF QueueInvariant, NamesInv, NameOK
    <3>4. pc[d] = "idle" /\ have[d] = <<>> /\ ~ multi[d]
      BY <1>1, <3>3 DEF CommandOK
    <3> QED
      BY <1>1, <3>4 DEF HoldOK
  <2> QED
    BY <2>2, <2>3
<1> QED
  BY <1>2, <1>3, <1>4 DEF Sure

\* Every step keeps what is known of the clients.
LEMMA HoldStep ==
  ASSUME QueueInvariant, Next
  PROVE  CommandInv' /\ HoldInv'
<1>1. CASE Buffered \/ \E p \in Package : Put(p)
  <2>1. UNCHANGED working /\ UNCHANGED client /\ UNCHANGED removed
    BY <1>1, ProducerLeaves
  <2>2. UNCHANGED <<conn, pc, left, have, multi, raced, confirmed>>
    BY <2>1 DEF client, removed
  <2>3. ASSUME NEW d \in Client PROVE CommandOK(d)' /\ (Sure(d)' => HoldOK(d)')
    <3>1. CommandOK(d) /\ (Sure(d) => HoldOK(d))
      BY DEF QueueInvariant, CommandInv, HoldInv
    <3>2. Sure(d)' = Sure(d)
      BY <2>2 DEF Sure
    <3> QED
      BY <2>1, <2>2, <3>1, <3>2, SameCommand, SameList
  <2> QED
    BY <2>3 DEF CommandInv, HoldInv
<1>2. ASSUME NEW c \in Client, Consume(c)
      PROVE  CommandInv' /\ HoldInv'
  <2>1. Sure(c)' => Sure(c)
    BY <1>2, ConsumeHistory DEF Sure
  <2> QED
    BY <1>2, <2>1, ConsumeOthers, ConsumeCommand, ConsumeHolds DEF CommandInv, HoldInv
<1>3. CASE Administer
  BY <1>3, AdministerHolds DEF CommandInv, HoldInv
<1> QED
  BY <1>1, <1>2, <1>3, StepKinds

\* What a client that is not misled removes was acknowledged.
LEMMA AckStep ==
  ASSUME QueueInvariant, Next
  PROVE  AckRemovesItsPackage'
<1>1. popped \ excused \subseteq confirmed
  BY DEF QueueInvariant, AckRemovesItsPackage
<1>2. ASSUME NEW c \in Client, Ack(c)
      PROVE  AckRemovesItsPackage'
  <2>1. /\ popped' = popped \cup {Head(Unacked(c))} /\ confirmed' = confirmed \cup {have[c][1].pack}
        /\ excused' = IF Misled(c, 1) THEN excused \cup {Head(Unacked(c))} ELSE excused
    BY <1>2 DEF Ack, PopFirst
  <2>2. CASE Misled(c, 1)
    BY <1>1, <2>1, <2>2 DEF AckRemovesItsPackage
  <2>3. CASE ~ Misled(c, 1)
    <3>1. Sure(c) /\ ~ have[c][1].astray
      BY <2>3 DEF Misled, Sure
    <3>2. HoldOK(c)
      BY <3>1 DEF QueueInvariant, HoldInv
    <3>3. Head(Unacked(c)) = have[c][1].pack
      BY <1>2, <3>1, <3>2 DEF Ack, HoldOK, PopFirst
    <3> QED
      BY <1>1, <2>1, <2>3, <3>3 DEF AckRemovesItsPackage
  <2> QED
    BY <2>2, <2>3
<1>3. ASSUME NEW c \in Client, MultiAckOne(c)
      PROVE  AckRemovesItsPackage'
  <2>1. /\ popped' = popped \cup {Head(Unacked(c))} /\ confirmed' = confirmed /\ pc[c] = "multiAck"
        /\ excused' = IF Misled(c, left[c]) THEN excused \cup {Head(Unacked(c))} ELSE excused
    BY <1>3 DEF MultiAckOne, PopFirst
  <2>2. CASE Misled(c, left[c])
    BY <1>1, <2>1, <2>2 DEF AckRemovesItsPackage
  <2>3. CASE ~ Misled(c, left[c])
    <3>1. Sure(c) /\ \A i \in 1 .. left[c] : ~ have[c][i].astray
      BY <2>3 DEF Misled, Sure
    <3>2. PICK k \in DOMAIN have[c] :
            k \in 1 .. left[c] /\ ~ have[c][k].acked /\ \A j \in 1 .. k - 1 : have[c][j].acked
      BY <1>3, NextMarked
    <3>3. multi[c] /\ CommandOK(c)
      BY <2>1 DEF QueueInvariant, CommandInv, CommandOK
    <3>4. Straight(c)
      <4>1. left[c] \in Nat /\ DOMAIN have[c] = 1 .. Len(have[c]) /\ Len(have[c]) \in Nat
        BY ClientKnown, ListIsFunction
      <4>2. ASSUME NEW i \in DOMAIN have[c], have[c][i].astray PROVE FALSE
        <5>1. k < i
          BY <3>1, <3>2, <4>1, <4>2
        <5> QED
          BY <3>2, <3>3, <4>2, <5>1 DEF CommandOK
      <4> QED
        BY <4>2 DEF Straight
    <3>5. Head(Unacked(c)) = have[c][k].pack
      BY <1>3, <3>1, <3>2, <3>4, OldestMarked
    <3>6. have[c][k].pack \in confirmed
      BY <2>1, <3>2, <3>3 DEF CommandOK
    <3> QED
      BY <1>1, <2>1, <2>3, <3>5, <3>6 DEF AckRemovesItsPackage
  <2> QED
    BY <2>2, <2>3
<1>4. ASSUME UNCHANGED <<popped, excused>>, confirmed \subseteq confirmed'
      PROVE  AckRemovesItsPackage'
  BY <1>1, <1>4 DEF AckRemovesItsPackage
<1>5. ASSUME NEW c \in Client, Consume(c), ~ Ack(c), ~ MultiAckOne(c)
      PROVE  UNCHANGED <<popped, excused>>
  BY <1>5 DEF Consume, AddConsumer, CheckActive, StartHeartbeat, Quit, Crash, Get, Pop, Forget,
     PopNothing, GetUnacked, GetFailed, MultiAck, MultiAckEnds, Reject, RequeueWorking, RequeueOne,
     RequeueFailed, RequeueFailedOne, ResetWorking, removed
<1>6. ASSUME NEW c \in Client, Consume(c)
      PROVE  AckRemovesItsPackage'
  BY <1>2, <1>3, <1>4, <1>5, <1>6, ConsumeHistory
<1>7. CASE Buffered \/ \E p \in Package : Put(p)
  <2>1. UNCHANGED <<popped, excused, confirmed>>
    BY <1>7, ProducerLeaves DEF removed
  <2> QED
    BY <1>4, <2>1
<1>8. CASE Administer
  BY <1>4, <1>8, AdministerLists
<1> QED
  BY <1>6, <1>7, <1>8, StepKinds

\* The writer answers a flush with an empty channel and an empty batch.
LEMMA FlushStep ==
  ASSUME QueueInvariant, Next
  PROVE  FlushInv'
<1>1. FlushInv /\ (writer # "push" => batch = <<>>)
  BY DEF QueueInvariant, ListsInv
<1> USE DEF FlushInv, Flushing
<1>2. CASE UNCHANGED <<buffer, batch, flushed, producer, writer, early>>
  BY <1>1, <1>2
<1>3. ASSUME NEW p, BufferedPut(p) PROVE FlushInv'
  BY <1>3 DEF BufferedPut
<1>4. CASE FlushBuffer
  BY <1>1, <1>4 DEF FlushBuffer
<1>5. CASE SendCommand \/ FlushReturns
  BY <1>1, <1>5 DEF SendCommand, FlushReturns
<1>6. CASE WriterTakes
  BY <1>1, <1>6 DEF WriterTakes
<1>7. CASE WriterPushes
  BY <1>1, <1>7 DEF WriterPushes
<1>8. CASE WriterAnswers \/ WriterWakes
  BY <1>1, <1>8 DEF WriterAnswers, WriterWakes
<1>9. CASE Buffered
  BY <1>2, <1>3, <1>4, <1>5, <1>6, <1>7, <1>8, <1>9 DEF Buffered, Write, Pacemaker, Tick
<1>10. ASSUME NEW p \in Package, Put(p) PROVE FlushInv'
  BY <1>2, <1>10 DEF Put
<1>11. CASE (\E c \in Client : Consume(c)) \/ Administer
  <2>1. UNCHANGED buffered
    BY <1>11, ConsumeLeaves, AdministerLists
  <2> QED
    BY <1>2, <2>1 DEF buffered
<1> QED
  BY <1>9, <1>10, <1>11, StepKinds

(***************************************************************************)
(* Where the packages are                                                  *)
(***************************************************************************)

\* What ListsInv says of the working lists.
WorkingInv ==
  /\ \A n \in Name : NoRepeat(working[n])
  /\ \A n, m \in Name : n # m => ToSet(working[n]) \cap ToSet(working[m]) = {}

\* One working list is replaced by one that has nothing of the others.
LEMMA ListChanged ==
  ASSUME QueueInvariant, NEW n \in Name, NEW list, working' = [working EXCEPT ![n] = list],
         NoRepeat(list), ToSet(list) \cap (InWorking \ ToSet(working[n])) = {}
  PROVE  /\ WorkingInv' /\ InWorking' = (InWorking \ ToSet(working[n])) \cup ToSet(list)
         /\ ToSet(working[n]) \subseteq InWorking
<1>1. DOMAIN working = Name /\ WorkingInv
  BY DEF QueueInvariant, QueueTypeOK, RedisTypeOK, ListsInv, WorkingInv
<1>2. working'[n] = list /\ \A m \in Name : m # n => working'[m] = working[m]
  BY <1>1
<1>3. \A m \in Name : m # n => ToSet(working[m]) \cap ToSet(working[n]) = {}
  BY <1>1 DEF WorkingInv
<1>4. \A m \in Name : ToSet(working[m]) \subseteq InWorking
  BY DEF InWorking
<1>5. \A m \in Name : m # n => ToSet(working[m]) \cap ToSet(list) = {}
  BY <1>3, <1>4
<1>6. \A m \in Name : NoRepeat(working'[m])
  BY <1>1, <1>2 DEF WorkingInv
<1>7. \A l, m \in Name : l # m => ToSet(working'[l]) \cap ToSet(working'[m]) = {}
  BY <1>1, <1>2, <1>5 DEF WorkingInv
<1>8. InWorking' = (InWorking \ ToSet(working[n])) \cup ToSet(list)
  <2>1. InWorking' = UNION {ToSet(working'[m]) : m \in Name}
    BY DEF InWorking
  <2>2. ASSUME NEW x \in InWorking' PROVE x \in (InWorking \ ToSet(working[n])) \cup ToSet(list)
    <3>1. PICK m \in Name : x \in ToSet(working'[m])
      BY <2>1, <2>2
    <3> QED
      BY <1>2, <1>3, <1>4, <3>1
  <2>3. ASSUME NEW x \in ToSet(list) PROVE x \in InWorking'
    BY <1>2, <2>1, <2>3
  <2>4. ASSUME NEW x \in InWorking, x \notin ToSet(working[n]) PROVE x \in InWorking'
    <3>1. PICK m \in Name : x \in ToSet(working[m])
      BY <2>4 DEF InWorking
    <3> QED
      BY <1>2, <2>1, <2>4, <3>1
  <2> QED
    BY <2>2, <2>3, <2>4
<1> QED
  BY <1>4, <1>6, <1>7, <1>8 DEF WorkingInv

\* A working list gets a package that is in none.
LEMMA WorkingGains ==
  ASSUME QueueInvariant, NEW n \in Name, NEW x \in Package, x \notin InWorking,
         working' = [working EXCEPT ![n] = Append(working[n], x)]
  PROVE  WorkingInv' /\ InWorking' = InWorking \cup {x}
<1> DEFINE w == working[n]
           list == Append(w, x)
<1>1. w \in Seq(Package) /\ NoRepeat(w) /\ ToSet(w) \subseteq InWorking
  BY DEF QueueInvariant, QueueTypeOK, RedisTypeOK, ListsInv, InWorking
<1> HIDE DEF w
<1>2. ToSet(list) = ToSet(w) \cup {x} /\ NoRepeat(list)
  BY <1>1, Pushed
<1> HIDE DEF list
<1>3. ToSet(list) \cap (InWorking \ ToSet(w)) = {}
  BY <1>2
<1>4. working' = [working EXCEPT ![n] = list]
  BY DEF list, w
<1>5. WorkingInv' /\ InWorking' = (InWorking \ ToSet(w)) \cup ToSet(list)
  BY <1>2, <1>3, <1>4, ListChanged DEF w
<1> QED
  BY <1>1, <1>2, <1>5

\* A working list loses the packages in gone.
LEMMA WorkingLoses ==
  ASSUME QueueInvariant, NEW n \in Name, NEW gone, NEW list, working' = [working EXCEPT ![n] = list],
         NoRepeat(list), ToSet(working[n]) = gone \cup ToSet(list), gone \cap ToSet(list) = {}
  PROVE  /\ WorkingInv' /\ InWorking = InWorking' \cup gone /\ InWorking' \cap gone = {}
<1>1. ToSet(list) \cap (InWorking \ ToSet(working[n])) = {}
  OBVIOUS
<1>2. /\ WorkingInv' /\ InWorking' = (InWorking \ ToSet(working[n])) \cup ToSet(list)
      /\ ToSet(working[n]) \subseteq InWorking
  BY <1>1, ListChanged
<1> QED
  BY <1>2

\* The oldest package leaves a working list.
LEMMA WorkingShifts ==
  ASSUME QueueInvariant, NEW n \in Name, working[n] # <<>>,
         working' = [working EXCEPT ![n] = Tail(working[n])]
  PROVE  LET x == Head(working[n])
         IN  /\ WorkingInv' /\ x \in Package
             /\ InWorking = InWorking' \cup {x} /\ x \notin InWorking'
<1> DEFINE w == working[n]
           x == Head(w)
           list == Tail(w)
<1>1. w \in Seq(Package) /\ NoRepeat(w) /\ w # <<>>
  BY DEF QueueInvariant, QueueTypeOK, RedisTypeOK, ListsInv
<1>2. working' = [working EXCEPT ![n] = list]
  OBVIOUS
<1> HIDE DEF w
<1>3. x \in Package /\ ToSet(w) = {x} \cup ToSet(list) /\ NoRepeat(list) /\ x \notin ToSet(list)
  BY <1>1, Shifted
<1> HIDE DEF x, list
<1>4. {x} \cap ToSet(list) = {}
  BY <1>3
<1>5. WorkingInv' /\ InWorking = InWorking' \cup {x} /\ InWorking' \cap {x} = {}
  <2> DEFINE gone == {x}
  <2>1. NoRepeat(list) /\ ToSet(working[n]) = gone \cup ToSet(list) /\ gone \cap ToSet(list) = {}
    BY <1>3, <1>4 DEF w
  <2> HIDE DEF gone
  <2>2. WorkingInv' /\ InWorking = InWorking' \cup gone /\ InWorking' \cap gone = {}
    BY <1>2, <2>1, WorkingLoses
  <2> QED
    BY <2>2 DEF gone
<1> QED
  BY <1>3, <1>5 DEF x, w

\* What the invariant says of the lists, in one place.
LEMMA Located ==
  ASSUME QueueInvariant
  PROVE  /\ input \in Seq(Package) /\ failed \in Seq(Package) /\ buffer \in Seq(Package) /\ batch \in Seq(Package)
         /\ NoRepeat(input) /\ NoRepeat(failed) /\ NoRepeat(buffer) /\ NoRepeat(batch)
         /\ WorkingInv /\ (writer # "push" => batch = <<>>)
         /\ Apart(ToSet(input), ToSet(failed), ToSet(buffer), ToSet(batch), InWorking, popped, reset, put)
BY DEF QueueInvariant, QueueTypeOK, RedisTypeOK, BufferTypeOK, ListsInv, PlacesInv, WorkingInv

\* A producer puts a package in a list, the writing goroutine moves a batch.
LEMMA PutPlaces ==
  ASSUME QueueInvariant, Buffered \/ \E p \in Package : Put(p)
  PROVE  ListsInv' /\ PlacesInv'
<1>1. UNCHANGED <<failed, working, popped, reset>>
  BY DEF Buffered, Write, BufferedPut, FlushBuffer, SendCommand, FlushReturns, WriterTakes, WriterPushes,
         WriterAnswers, WriterWakes, Pacemaker, Tick, Put, redis, removed
<1>2. /\ NoRepeat(failed') /\ WorkingInv' /\ InWorking' = InWorking
      /\ \A n \in Name : working'[n] = working[n]
  BY <1>1, Located DEF WorkingInv, InWorking
<1>3. ASSUME NoRepeat(input'), NoRepeat(buffer'), NoRepeat(batch'), writer' # "push" => batch' = <<>>,
             Apart(ToSet(input'), ToSet(failed), ToSet(buffer'), ToSet(batch'), InWorking, popped, reset, put')
      PROVE  ListsInv' /\ PlacesInv'
  BY <1>1, <1>2, <1>3 DEF ListsInv, PlacesInv, WorkingInv
<1> USE Located
<1>4. ASSUME NEW p \in Package, Put(p)
      PROVE  ListsInv' /\ PlacesInv'
  <2>1. p \notin put /\ input' = Append(input, p) /\ put' = put \cup {p} /\ UNCHANGED <<buffer, batch, writer>>
    BY <1>4 DEF Put
  <2>2. p \notin ToSet(input)
    BY <2>1 DEF Apart
  <2>3. ToSet(input') = ToSet(input) \cup {p} /\ NoRepeat(input')
    BY <2>1, <2>2, Pushed
  <2>4. Apart(ToSet(input'), ToSet(failed), ToSet(buffer'), ToSet(batch'), InWorking, popped, reset, put')
    BY <2>1, <2>3 DEF Apart
  <2> QED
    BY <1>3, <2>1, <2>3, <2>4
<1>5. ASSUME NEW p \in Package, BufferedPut(p)
      PROVE  ListsInv' /\ PlacesInv'
  <2>1. p \notin put /\ buffer' = Append(buffer, p) /\ put' = put \cup {p} /\ UNCHANGED <<input, batch, writer>>
    BY <1>5 DEF BufferedPut, redis
  <2>2. p \notin ToSet(buffer)
    BY <2>1 DEF Apart
  <2>3. ToSet(buffer') = ToSet(buffer) \cup {p} /\ NoRepeat(buffer')
    BY <2>1, <2>2, Pushed
  <2>4. Apart(ToSet(input'), ToSet(failed), ToSet(buffer'), ToSet(batch'), InWorking, popped, reset, put')
    BY <2>1, <2>3 DEF Apart
  <2> QED
    BY <1>3, <2>1, <2>3, <2>4
<1>6. CASE UNCHANGED <<input, buffer, batch, put>> /\ (writer' = "push" => writer = "push")
           /\ (writer = "push" => writer' = "push")
  BY <1>3, <1>6
<1>7. CASE WriterTakes /\ (Len(buffer) >= BufferSize \/ due)
  <2>1. batch' = buffer /\ buffer' = <<>> /\ writer' = "push" /\ batch = <<>> /\ UNCHANGED <<input, put>>
    BY <1>7 DEF WriterTakes, redis
  <2>2. ToSet(buffer') = {} /\ NoRepeat(buffer') /\ ToSet(batch) = {}
    BY <2>1, Nothing
  <2>3. Apart(ToSet(input'), ToSet(failed), ToSet(buffer'), ToSet(batch'), InWorking, popped, reset, put')
    BY <2>1, <2>2 DEF Apart
  <2> QED
    BY <1>3, <2>1, <2>2, <2>3
<1>8. CASE WriterPushes
  <2>1. input' = input \o batch /\ batch' = <<>> /\ UNCHANGED <<buffer, put>>
    BY <1>8 DEF WriterPushes
  <2>2. ToSet(input) \cap ToSet(batch) = {}
    BY DEF Apart
  <2>3. ToSet(input') = ToSet(input) \cup ToSet(batch) /\ NoRepeat(input')
    BY <2>1, <2>2, Joined
  <2>4. ToSet(batch') = {} /\ NoRepeat(batch')
    BY <2>1, Nothing
  <2>5. Apart(ToSet(input'), ToSet(failed), ToSet(buffer'), ToSet(batch'), InWorking, popped, reset, put')
    BY <2>1, <2>3, <2>4 DEF Apart
  <2> QED
    BY <1>3, <2>1, <2>3, <2>4, <2>5
<1>9. CASE FlushBuffer \/ SendCommand \/ FlushReturns \/ WriterAnswers \/ WriterWakes \/ Pacemaker \/ Tick
           \/ (WriterTakes /\ ~ (Len(buffer) >= BufferSize \/ due))
  BY <1>6, <1>9 DEF FlushBuffer, SendCommand, FlushReturns, WriterAnswers, WriterWakes, Pacemaker, Tick, WriterTakes, redis
<1>10. mix.packages \subseteq Package
  BY QueueAssumption DEF QueueInvariant, QueueTypeOK
<1> QED
  BY <1>4, <1>5, <1>7, <1>8, <1>9, <1>10 DEF Buffered, Write

\* A consumer moves a package from one list to another, or removes some.
LEMMA ConsumePlaces ==
  ASSUME QueueInvariant, NEW c \in Client, Consume(c)
  PROVE  ListsInv' /\ PlacesInv'
<1> DEFINE n == NameOf[c]
           w == working[n]
<1>1. n \in Name /\ Unacked(c) = w /\ w \in Seq(Package) /\ NoRepeat(w)
  BY ClientKnown, Located DEF WorkingInv
<1>2. UNCHANGED <<buffer, batch, writer, put>>
  BY ConsumeLeaves DEF buffered
<1>3. ASSUME NoRepeat(input'), NoRepeat(failed'), WorkingInv',
             Apart(ToSet(input'), ToSet(failed'), ToSet(buffer), ToSet(batch), InWorking', popped', reset', put)
      PROVE  ListsInv' /\ PlacesInv'
  BY <1>2, <1>3, Located DEF ListsInv, PlacesInv, WorkingInv
<1>4. ASSUME UNCHANGED working
      PROVE  WorkingInv' /\ InWorking' = InWorking
  BY <1>4, Located DEF WorkingInv, InWorking
<1> HIDE DEF n, w
<1> USE Located
<1>5. CASE UNCHANGED <<input, failed, working, popped, reset>>
  BY <1>3, <1>4, <1>5
<1>6. CASE Pop(c)
  <2> DEFINE x == Head(input)
  <2>1. /\ input # <<>> /\ input' = Tail(input) /\ UNCHANGED <<failed, popped, reset>>
        /\ working' = [working EXCEPT ![n] = Append(working[n], x)]
    BY <1>6 DEF Pop, TakeFrom, removed, n
  <2>2. /\ x \in Package /\ ToSet(input) = {x} \cup ToSet(input') /\ NoRepeat(input')
        /\ x \notin ToSet(input')
    BY <2>1, Shifted
  <2> HIDE DEF x
  <2>3. x \notin InWorking
    BY <2>2 DEF Apart
  <2>4. WorkingInv' /\ InWorking' = InWorking \cup {x}
    BY <1>1, <2>1, <2>2, <2>3, WorkingGains
  <2>5. Apart(ToSet(input'), ToSet(failed'), ToSet(buffer), ToSet(batch), InWorking', popped', reset', put)
    BY <2>1, <2>2, <2>4 DEF Apart
  <2> QED
    BY <1>3, <2>1, <2>2, <2>4, <2>5
<1>7. CASE GetFailed(c)
  <2> DEFINE x == Head(failed)
  <2>1. /\ failed # <<>> /\ failed' = Tail(failed) /\ UNCHANGED <<input, popped, reset>>
        /\ working' = [working EXCEPT ![n] = Append(working[n], x)]
    BY <1>7 DEF GetFailed, TakeFrom, removed, n
  <2>2. /\ x \in Package /\ ToSet(failed) = {x} \cup ToSet(failed') /\ NoRepeat(failed')
        /\ x \notin ToSet(failed')
    BY <2>1, Shifted
  <2> HIDE DEF x
  <2>3. x \notin InWorking
    BY <2>2 DEF Apart
  <2>4. WorkingInv' /\ InWorking' = InWorking \cup {x}
    BY <1>1, <2>1, <2>2, <2>3, WorkingGains
  <2>5. Apart(ToSet(input'), ToSet(failed'), ToSet(buffer), ToSet(batch), InWorking', popped', reset', put)
    BY <2>1, <2>2, <2>4 DEF Apart
  <2> QED
    BY <1>3, <2>1, <2>2, <2>4, <2>5
<1>8. CASE Ack(c) \/ MultiAckOne(c)
  <2> DEFINE x == Head(working[n])
  <2>1. /\ working[n] # <<>> /\ popped' = popped \cup {x} /\ UNCHANGED <<input, failed, reset>>
        /\ working' = [working EXCEPT ![n] = Tail(working[n])]
    BY <1>1, <1>8 DEF Ack, MultiAckOne, PopFirst, DropFirst, HasUnacked, n, w
  <2>2. WorkingInv' /\ InWorking = InWorking' \cup {x} /\ x \notin InWorking'
    BY <1>1, <2>1, WorkingShifts
  <2> HIDE DEF x
  <2>3. Apart(ToSet(input'), ToSet(failed'), ToSet(buffer), ToSet(batch), InWorking', popped', reset', put)
    BY <2>1, <2>2 DEF Apart
  <2> QED
    BY <1>3, <2>1, <2>2, <2>3
<1>9. CASE MultiAckEnds(c) \/ \E k \in DOMAIN have[c] : MultiAck(c, k)
  BY <1>5, <1>9 DEF MultiAckEnds, MultiAck, redis, removed
<1>10. ASSUME working[n] # <<>>, working' = [working EXCEPT ![n] = Tail(working[n])],
              UNCHANGED <<popped, reset>>,
              \/ input' = Append(input, Head(working[n])) /\ failed' = failed
              \/ failed' = Append(failed, Head(working[n])) /\ input' = input
       PROVE  ListsInv' /\ PlacesInv'
  <2> DEFINE x == Head(working[n])
  <2>1. WorkingInv' /\ x \in Package /\ InWorking = InWorking' \cup {x} /\ x \notin InWorking'
    BY <1>1, <1>10, WorkingShifts
  <2>2. \/ input' = Append(input, x) /\ failed' = failed
        \/ failed' = Append(failed, x) /\ input' = input
    BY <1>10
  <2> HIDE DEF x
  <2>3. x \notin ToSet(input) /\ x \notin ToSet(failed)
    BY <2>1 DEF Apart
  <2>4. CASE input' = Append(input, x) /\ failed' = failed
    <3>1. ToSet(input') = ToSet(input) \cup {x} /\ NoRepeat(input')
      BY <2>1, <2>3, <2>4, Pushed
    <3>2. Apart(ToSet(input'), ToSet(failed'), ToSet(buffer), ToSet(batch), InWorking', popped', reset', put)
      BY <1>10, <2>1, <2>4, <3>1 DEF Apart
    <3> QED
      BY <1>3, <2>1, <2>4, <3>1, <3>2
  <2>5. CASE failed' = Append(failed, x) /\ input' = input
    <3>1. ToSet(failed') = ToSet(failed) \cup {x} /\ NoRepeat(failed')
      BY <2>1, <2>3, <2>5, Pushed
    <3>2. Apart(ToSet(input'), ToSet(failed'), ToSet(buffer), ToSet(batch), InWorking', popped', reset', put)
      BY <1>10, <2>1, <2>5, <3>1 DEF Apart
    <3> QED
      BY <1>3, <2>1, <2>5, <3>1, <3>2
  <2> QED
    BY <2>2, <2>4, <2>5
<1>11. ASSUME NEW k \in DOMAIN have[c], NEW r \in BOOLEAN, Reject(c, k, r)
       PROVE  ListsInv' /\ PlacesInv'
  <2>1. /\ working[n] # <<>> /\ working' = [working EXCEPT ![n] = Tail(working[n])]
        /\ UNCHANGED <<popped, reset>>
        /\ \/ input' = Append(input, Head(working[n])) /\ failed' = failed
           \/ failed' = Append(failed, Head(working[n])) /\ input' = input
    BY <1>1, <1>11 DEF Reject, DropFirst, HasUnacked, Unacked, removed, n
  <2> QED
    BY <1>10, <2>1
<1>12. CASE RequeueOne(c)
  <2>1. CASE w # <<>>
    <3>1. /\ working[n] # <<>> /\ working' = [working EXCEPT ![n] = Tail(working[n])]
          /\ UNCHANGED <<popped, reset>>
          /\ input' = Append(input, Head(working[n])) /\ failed' = failed
      BY <1>1, <1>12, <2>1 DEF RequeueOne, DropFirst, HasUnacked, removed, n, w
    <3> QED
      BY <1>10, <3>1
  <2>2. CASE w = <<>>
    BY <1>1, <1>5, <1>12, <2>2 DEF RequeueOne, HasUnacked, removed
  <2> QED
    BY <2>1, <2>2
<1>13. CASE RequeueFailedOne(c) /\ failed # <<>>
  <2> DEFINE x == Head(failed)
  <2>1. failed' = Tail(failed) /\ input' = Append(input, x) /\ UNCHANGED <<working, popped, reset>>
    BY <1>13 DEF RequeueFailedOne, removed
  <2>2. /\ x \in Package /\ ToSet(failed) = {x} \cup ToSet(failed') /\ NoRepeat(failed')
        /\ x \notin ToSet(failed')
    BY <1>13, <2>1, Shifted
  <2> HIDE DEF x
  <2>3. x \notin ToSet(input)
    BY <2>2 DEF Apart
  <2>4. ToSet(input') = ToSet(input) \cup {x} /\ NoRepeat(input')
    BY <2>1, <2>2, <2>3, Pushed
  <2>5. WorkingInv' /\ InWorking' = InWorking
    BY <1>4, <2>1
  <2>6. Apart(ToSet(input'), ToSet(failed'), ToSet(buffer), ToSet(batch), InWorking', popped', reset', put)
    BY <2>1, <2>2, <2>4, <2>5 DEF Apart
  <2> QED
    BY <1>3, <2>2, <2>4, <2>5, <2>6
<1>14. CASE ResetWorking(c)
  <2> DEFINE gone == ToSet(w)
             list == <<>>
  <2>1. /\ reset' = reset \cup gone /\ UNCHANGED <<input, failed, popped>>
        /\ working' = [working EXCEPT ![n] = list]
    BY <1>1, <1>14 DEF ResetWorking, n
  <2>2. NoRepeat(list) /\ ToSet(w) = gone \cup ToSet(list) /\ gone \cap ToSet(list) = {}
    BY Nothing
  <2> HIDE DEF gone, list
  <2>3. WorkingInv' /\ InWorking = InWorking' \cup gone /\ InWorking' \cap gone = {}
    BY <1>1, <2>1, <2>2, WorkingLoses DEF w
  <2>4. Apart(ToSet(input'), ToSet(failed'), ToSet(buffer), ToSet(batch), InWorking', popped', reset', put)
    BY <2>1, <2>3 DEF Apart
  <2> QED
    BY <1>3, <2>1, <2>3, <2>4
<1>15. CASE AddConsumer(c) \/ CheckActive(c) \/ StartHeartbeat(c) \/ Quit(c) \/ Crash(c) \/ PopNothing(c)
            \/ GetUnacked(c) \/ RequeueWorking(c) \/ RequeueFailed(c) \/ (RequeueFailedOne(c) /\ failed = <<>>)
            \/ Get(c, "get", 1) \/ Get(c, "nowait", 1) \/ \E m \in 2 .. MaxGet : Get(c, "multi", m)
  BY <1>5, <1>15 DEF AddConsumer, CheckActive, StartHeartbeat, Quit, Crash, PopNothing, GetUnacked, RequeueWorking,
     RequeueFailed, RequeueFailedOne, Get, redis, removed
<1> QED
  BY <1>6, <1>7, <1>8, <1>9, <1>11, <1>12, <1>13, <1>14, <1>15 DEF Consume

\* A list that is deleted is counted as reset.
LEMMA AdministerPlaces ==
  ASSUME QueueInvariant, Administer
  PROVE  ListsInv' /\ PlacesInv'
<1>1. UNCHANGED <<buffer, batch, writer, put, popped>>
  BY AdministerLists DEF buffered
<1>2. ASSUME NoRepeat(input'), NoRepeat(failed'), WorkingInv',
             Apart(ToSet(input'), ToSet(failed'), ToSet(buffer), ToSet(batch), InWorking', popped, reset', put)
      PROVE  ListsInv' /\ PlacesInv'
  BY <1>1, <1>2, Located DEF ListsInv, PlacesInv, WorkingInv
<1>3. ASSUME UNCHANGED working
      PROVE  WorkingInv' /\ InWorking' = InWorking
  BY <1>3, Located DEF WorkingInv, InWorking
<1> USE Located
<1>4. CASE UNCHANGED <<input, failed, working, reset>>
  BY <1>2, <1>3, <1>4
<1>5. CASE reset' = reset \cup ToSet(input) /\ input' = <<>> /\ UNCHANGED <<failed, working>>
  <2>1. ToSet(input') = {} /\ NoRepeat(input') /\ WorkingInv' /\ InWorking' = InWorking
    BY <1>3, <1>5, Nothing
  <2>2. Apart(ToSet(input'), ToSet(failed'), ToSet(buffer), ToSet(batch), InWorking', popped, reset', put)
    BY <1>5, <2>1 DEF Apart
  <2> QED
    BY <1>2, <1>5, <2>1, <2>2
<1>6. CASE reset' = reset \cup ToSet(failed) /\ failed' = <<>> /\ UNCHANGED <<input, working>>
  <2>1. ToSet(failed') = {} /\ NoRepeat(failed') /\ WorkingInv' /\ InWorking' = InWorking
    BY <1>3, <1>6, Nothing
  <2>2. Apart(ToSet(input'), ToSet(failed'), ToSet(buffer), ToSet(batch), InWorking', popped, reset', put)
    BY <1>6, <2>1 DEF Apart
  <2> QED
    BY <1>2, <1>6, <2>1, <2>2
<1>7. ASSUME NEW n \in Name, reset' = reset \cup ToSet(working[n]),
             working' = [working EXCEPT ![n] = <<>>], UNCHANGED <<input, failed>>
      PROVE  ListsInv' /\ PlacesInv'
  <2> DEFINE gone == ToSet(working[n])
             list == <<>>
  <2>1. reset' = reset \cup gone /\ working' = [working EXCEPT ![n] = list]
    BY <1>7
  <2>2. NoRepeat(list) /\ ToSet(working[n]) = gone \cup ToSet(list) /\ gone \cap ToSet(list) = {}
    BY Nothing
  <2> HIDE DEF gone, list
  <2>3. WorkingInv' /\ InWorking = InWorking' \cup gone /\ InWorking' \cap gone = {}
    BY <2>1, <2>2, WorkingLoses
  <2>4. Apart(ToSet(input'), ToSet(failed'), ToSet(buffer), ToSet(batch), InWorking', popped, reset', put)
    BY <1>7, <2>1, <2>3 DEF Apart
  <2> QED
    BY <1>2, <1>7, <2>3, <2>4
<1> QED
  BY <1>4, <1>5, <1>6, <1>7, AdministerLists

(***************************************************************************)
(* Theorems                                                                *)
(***************************************************************************)

\* The empty queue, with nobody connected.
LEMMA QueueStart ==
  ASSUME Init
  PROVE  QueueInvariant
<1>1. QueueTypeOK
  <2>1. RedisTypeOK
    BY Nothing DEF Init, RedisTypeOK
  <2>2. ClientTypeOK
    BY Nothing DEF Init, ClientTypeOK
  <2>3. BufferTypeOK
    <3>1. Len(<<>>) = 0 /\ 2 * BufferSize \in Nat
      BY QueueAssumption
    <3>2. commands \in 0 .. 2 * BufferSize /\ Len(buffer) <= 2 * BufferSize
      BY <3>1 DEF Init
    <3>3. buffer \in Seq(Package) /\ batch \in Seq(Package)
      BY Nothing DEF Init
    <3> QED
      BY <3>2, <3>3 DEF Init, BufferTypeOK
  <2> QED
    BY <2>1, <2>2, <2>3 DEF Init, QueueTypeOK
<1>2. NamesInv
  BY DEF Init, NamesInv, NameOK, Sure, Starting, OneConsumerPerName
<1>3. CommandInv
  BY DEF Init, CommandInv, CommandOK
<1>4. HoldInv
  BY DEF Init, HoldInv, HoldOK
<1>5. /\ ToSet(input) = {} /\ ToSet(failed) = {} /\ ToSet(buffer) = {} /\ ToSet(batch) = {}
      /\ \A n \in Name : ToSet(working[n]) = {} /\ NoRepeat(working[n])
      /\ NoRepeat(input) /\ NoRepeat(failed) /\ NoRepeat(buffer) /\ NoRepeat(batch)
  BY Nothing DEF Init
<1>6. ListsInv
  BY <1>5 DEF Init, ListsInv
<1>7. PlacesInv
  <2>1. InWorking = {}
    BY <1>5 DEF InWorking
  <2>2. popped = {} /\ reset = {} /\ put = {}
    BY DEF Init
  <2> QED
    BY <1>5, <2>1, <2>2 DEF PlacesInv, Apart
<1>8. AckRemovesItsPackage
  BY DEF Init, AckRemovesItsPackage
<1>9. FlushInv
  BY DEF Init, FlushInv, Flushing
<1> QED
  BY <1>1, <1>2, <1>3, <1>4, <1>6, <1>7, <1>8, <1>9 DEF QueueInvariant

\* Every step keeps all of it.
LEMMA QueueStep ==
  ASSUME QueueInvariant, Next
  PROVE  QueueInvariant'
<1>1. ListsInv' /\ PlacesInv'
  BY StepKinds, PutPlaces, ConsumePlaces, AdministerPlaces
<1> QED
  BY <1>1, TypesStep, NamesStep, HoldStep, AckStep, FlushStep DEF QueueInvariant

\* A step that changes nothing.
LEMMA QueueStutter ==
  ASSUME QueueInvariant, UNCHANGED vars
  PROVE  QueueInvariant'
<1>1. /\ UNCHANGED mix /\ UNCHANGED <<input, failed, working, workers, beating>>
      /\ UNCHANGED <<conn, pc, left, have, multi, deleter, todo, current, kept, raced>>
      /\ UNCHANGED <<buffer, commands, flushStatus, flushed, producer, writer, batch, due, put, early>>
      /\ UNCHANGED <<confirmed, popped, reset, excused>>
  BY DEF vars, redis, client, deletion, buffered, removed
<1>2. QueueTypeOK'
  BY <1>1 DEF QueueInvariant, QueueTypeOK, RedisTypeOK, ClientTypeOK, BufferTypeOK
<1>3. NamesInv'
  BY <1>1 DEF QueueInvariant, NamesInv, NameOK, Sure, Starting, OneConsumerPerName
<1>4. CommandInv' /\ HoldInv'
  BY <1>1, SameCommand, SameList DEF QueueInvariant, CommandInv, HoldInv, Sure
<1>5. ListsInv' /\ PlacesInv' /\ FlushInv' /\ AckRemovesItsPackage'
  BY <1>1 DEF QueueInvariant, ListsInv, PlacesInv, InWorking, FlushInv, Flushing, AckRemovesItsPackage
<1> QED
  BY <1>2, <1>3, <1>4, <1>5 DEF QueueInvariant

(***************************************************************************)
(* The inductive invariant holds in every reachable state, whatever        *)
(* commands are used: consumers that start, crash and take over a name,    *)
(* also at the same time, collections that are acknowledged and rejected   *)
(* in parts, lists that are requeued, reset and deleted, in any order.     *)
(***************************************************************************)
THEOREM QueueInvariance == Spec => []QueueInvariant
<1>1. Init => QueueInvariant
  BY QueueStart
<1>2. QueueInvariant /\ [Next]_vars => QueueInvariant'
  BY QueueStep, QueueStutter
<1> QED
  BY <1>1, <1>2, PTL DEF Spec

\* Lists hold packages, and the channels of the buffered queue stay within their capacity.
THEOREM QueueTypes == Spec => []QueueTypeOK
<1>1. QueueInvariant => QueueTypeOK
  BY DEF QueueInvariant
<1> QED
  BY <1>1, QueueInvariance, PTL

(***************************************************************************)
(* Two processes run the consumer of one name only if two AddConsumer of   *)
(* it, or one and Delete, ran at the same time; crashes, expiring          *)
(* heartbeats and a Delete that is refused or cut off never lead there.    *)
(***************************************************************************)
THEOREM OneConsumer == Spec => []OneConsumerPerName
<1>1. QueueInvariant => OneConsumerPerName
  BY DEF QueueInvariant, NamesInv
<1> QED
  BY <1>1, QueueInvariance, PTL

(***************************************************************************)
(* Ack and MultiAck, which pop whatever is at the end of the list, remove  *)
(* only packages that were acknowledged, unless the client is Misled: one  *)
(* of the packages it acknowledges was rejected before or came from        *)
(* GetFailed behind others, or its name was added twice at the same time.  *)
(***************************************************************************)
THEOREM AckExact == Spec => []AckRemovesItsPackage
<1>1. QueueInvariant => AckRemovesItsPackage
  BY DEF QueueInvariant
<1> QED
  BY <1>1, QueueInvariance, PTL

\* FlushBuffer leaves nothing in the process, unless it meets the writer behind its look at Buffer.
THEOREM FlushLeavesNothing == Spec => []FlushedIsWritten
<1>1. QueueInvariant => FlushedIsWritten
  BY DEF QueueInvariant, FlushInv, Flushing, FlushedIsWritten
<1> QED
  BY <1>1, QueueInvariance, PTL

\* A package is at one position of a list that has it, and at none of a list that has it not.
LEMMA OncePerList ==
  ASSUME NEW s, NoRepeat(s), NEW p
  PROVE  Cardinality(Occurrences(s, p)) = IF p \in ToSet(s) THEN 1 ELSE 0
<1>1. CASE p \in ToSet(s)
  <2>1. PICK i \in DOMAIN s : s[i] = p
    BY <1>1 DEF ToSet
  <2>2. Occurrences(s, p) = {i}
    BY <2>1 DEF Occurrences, NoRepeat
  <2> QED
    BY <1>1, <2>2, FS_Singleton
<1>2. CASE p \notin ToSet(s)
  <2>1. Occurrences(s, p) = {}
    BY <1>2 DEF Occurrences, ToSet
  <2> QED
    BY <1>2, <2>1, FS_EmptySet
<1> QED
  BY <1>1, <1>2

\* The same for all the working lists together.
LEMMA OnceInWorking ==
  ASSUME QueueInvariant, NEW p
  PROVE  Cardinality(UNION {{n} \X Occurrences(working[n], p) : n \in Name})
           = IF p \in InWorking THEN 1 ELSE 0
<1> DEFINE all == UNION {{n} \X Occurrences(working[n], p) : n \in Name}
<1>1. WorkingInv
  BY Located
<1>2. CASE p \in InWorking
  <2>1. PICK n \in Name : p \in ToSet(working[n])
    BY <1>2 DEF InWorking
  <2>2. PICK i \in DOMAIN working[n] : working[n][i] = p
    BY <2>1 DEF ToSet
  <2>3. Occurrences(working[n], p) = {i}
    BY <1>1, <2>2 DEF Occurrences, NoRepeat, WorkingInv
  <2>4. ASSUME NEW m \in Name, m # n PROVE Occurrences(working[m], p) = {}
    <3>1. p \notin ToSet(working[m])
      BY <1>1, <2>1, <2>4 DEF WorkingInv
    <3> QED
      BY <3>1 DEF Occurrences, ToSet
  <2>5. all = {<<n, i>>}
    <3>1. ASSUME NEW z \in all PROVE z = <<n, i>>
      <4>1. PICK m \in Name : z \in {m} \X Occurrences(working[m], p)
        BY <3>1
      <4>2. m = n
        BY <2>4, <4>1
      <4>3. z \in {n} \X {i}
        BY <2>3, <4>1, <4>2
      <4> QED
        BY <4>3
    <3>2. <<n, i>> \in {n} \X Occurrences(working[n], p)
      BY <2>3
    <3>3. <<n, i>> \in all
      BY <3>2
    <3> HIDE DEF all
    <3> QED
      BY <3>1, <3>3
  <2> HIDE DEF all
  <2>6. Cardinality(all) = 1
    BY <2>5, FS_Singleton
  <2> QED
    BY <1>2, <2>6 DEF all
<1>3. CASE p \notin InWorking
  <2>1. ASSUME NEW m \in Name PROVE Occurrences(working[m], p) = {}
    <3>1. p \notin ToSet(working[m])
      BY <1>3 DEF InWorking
    <3> QED
      BY <3>1 DEF Occurrences, ToSet
  <2>2. all = {}
    BY <2>1
  <2> HIDE DEF all
  <2>3. Cardinality(all) = 0
    BY <2>2, FS_EmptySet
  <2> QED
    BY <1>3, <2>3 DEF all
<1> QED
  BY <1>2, <1>3

(***************************************************************************)
(* No package is lost and none is there twice: what was put is at one      *)
(* place of one list, or was removed by Ack or by a deletion, once.        *)
(***************************************************************************)
THEOREM OnePlace == Spec => []PackageIsInOnePlace
<1>1. ASSUME QueueInvariant PROVE PackageIsInOnePlace
  <2> SUFFICES ASSUME NEW p \in Package PROVE Places(p) = IF p \in put THEN 1 ELSE 0
    BY DEF PackageIsInOnePlace
  <2> USE <1>1
  <2>1. /\ Cardinality(Occurrences(input, p)) = IF p \in ToSet(input) THEN 1 ELSE 0
        /\ Cardinality(Occurrences(failed, p)) = IF p \in ToSet(failed) THEN 1 ELSE 0
        /\ Cardinality(Occurrences(buffer, p)) = IF p \in ToSet(buffer) THEN 1 ELSE 0
        /\ Cardinality(Occurrences(batch, p)) = IF p \in ToSet(batch) THEN 1 ELSE 0
    BY Located, OncePerList
  <2>2. Cardinality(UNION {{n} \X Occurrences(working[n], p) : n \in Name})
          = IF p \in InWorking THEN 1 ELSE 0
    BY OnceInWorking
  <2> DEFINE in == ToSet(input)
             fail == ToSet(failed)
             buff == ToSet(buffer)
             bat == ToSet(batch)
  <2>3. Apart(in, fail, buff, bat, InWorking, popped, reset, put)
    BY Located
  <2>4. Places(p) = (IF p \in in THEN 1 ELSE 0) + (IF p \in fail THEN 1 ELSE 0)
                    + (IF p \in buff THEN 1 ELSE 0) + (IF p \in bat THEN 1 ELSE 0)
                    + (IF p \in InWorking THEN 1 ELSE 0)
                    + (IF p \in popped THEN 1 ELSE 0) + (IF p \in reset THEN 1 ELSE 0)
    BY <2>1, <2>2 DEF Places
  <2> HIDE DEF in, fail, buff, bat
  <2>5. CASE p \in put
    <3>1. \/ p \in in \/ p \in fail \/ p \in buff \/ p \in bat \/ p \in InWorking \/ p \in popped \/ p \in reset
      BY <2>3, <2>5 DEF Apart
    <3>2. /\ p \in in => p \notin fail /\ p \notin buff /\ p \notin bat /\ p \notin InWorking /\ p \notin popped /\ p \notin reset
          /\ p \in fail => p \notin buff /\ p \notin bat /\ p \notin InWorking /\ p \notin popped /\ p \notin reset
          /\ p \in buff => p \notin bat /\ p \notin InWorking /\ p \notin popped /\ p \notin reset
          /\ p \in bat => p \notin InWorking /\ p \notin popped /\ p \notin reset
          /\ p \in InWorking => p \notin popped /\ p \notin reset
          /\ p \in popped => p \notin reset
      BY <2>3 DEF Apart
    <3> QED
      BY <2>4, <2>5, <3>1, <3>2
  <2>6. CASE p \notin put
    <3>1. p \notin in /\ p \notin fail /\ p \notin buff /\ p \notin bat /\ p \notin InWorking /\ p \notin popped /\ p \notin reset
      BY <2>3, <2>6 DEF Apart
    <3> QED
      BY <2>4, <2>6, <3>1
  <2> QED
    BY <2>5, <2>6
<1> QED
  BY <1>1, QueueInvariance, PTL
=============================================================================
