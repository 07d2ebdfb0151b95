----------------------------- MODULE ChainIndex -----------------------------
(***************************************************************************)
(* The "blockchain" bucket of the node's database                          *)
(* (node/database/blockchain.go): a doubly linked list of the hashes of    *)
(* the main branch.  The bucket maps a hash to the hashes before and after *)
(* it; an all-zero half of the record stands for no hash.  Each operator   *)
(* that changes the bucket is one bolt transaction: it yields the new      *)
(* bucket, and when an error is returned the transaction is rolled back.   *)
(***************************************************************************)
EXTENDS BlockTree

\* A record of the bucket: the previous and the next hash, 2 * length bytes.
Location == [prev : Hash \cup {NoHash}, next : Hash \cup {NoHash}]

\* What is stored before anything is put in the bucket.
EmptyBucket == [h \in {} |-> [prev |-> NoHash, next |-> NoHash]]

\* bolt's Bucket.Put and Bucket.Delete.
Put(b, k, v) == [x \in DOMAIN b \cup {k} |-> IF x = k THEN v ELSE b[x]]
Delete(b, k) == [x \in DOMAIN b \ {k} |-> b[x]]

BlockInChain(c, hash) == hash \in DOMAIN c

(***************************************************************************)
(* GetLocationInChain: for a hash that is not in the chain it returns no   *)
(* error and two nil hashes.                                               *)
(***************************************************************************)
GetLocationInChain(c, hash) ==
  IF hash \in DOMAIN c THEN c[hash] ELSE [prev |-> NoHash, next |-> NoHash]

CanAddToChain_inTheMiddle(c, hash, prevHash) ==
  /\ hash # NoHash
  /\ prevHash # NoHash => prevHash \in DOMAIN c

(***************************************************************************)
(* AddToChain(hash, prevHash).  prevHash is empty for the genesis block.   *)
(***************************************************************************)
CanAddToChain(c, hash, prevHash) ==
  /\ hash # NoHash
  /\ prevHash # NoHash => /\ prevHash \in DOMAIN c
                          /\ c[prevHash].next = NoHash

AddToChain(c, hash, prevHash) ==
  IF ~ CanAddToChain(c, hash, prevHash)
  THEN c
  ELSE LET linked == IF prevHash = NoHash
                     THEN c
                     ELSE Put(c, prevHash, [prev |-> c[prevHash].prev, next |-> hash])
       IN  Put(linked, hash, [prev |-> prevHash, next |-> NoHash])

(***************************************************************************)
(* RemoveFromChain(hash): only the last hash of the chain can be removed.  *)
(***************************************************************************)
CanRemoveFromChain(c, hash) ==
  /\ hash # NoHash
  /\ hash \in DOMAIN c
  /\ c[hash].next = NoHash
  /\ c[hash].prev # NoHash => c[hash].prev \in DOMAIN c

RemoveFromChain(c, hash) ==
  IF ~ CanRemoveFromChain(c, hash)
  THEN c
  ELSE LET p == c[hash].prev
           unlinked == IF p = NoHash
                       THEN c
                       ELSE Put(c, p, [prev |-> c[p].prev, next |-> NoHash])
       IN  Delete(unlinked, hash)

(***************************************************************************)
(* What the bucket is meant to hold: exactly the branch that ends in t,    *)
(* linked in both directions.                                              *)
(***************************************************************************)
IndexOf(c, t) ==
  /\ DOMAIN c = Branch[t]
  /\ \A h \in Branch[t] : c[h].prev = Prev[h]
  /\ \A h \in Branch[t] \ {Genesis} : c[Prev[h]].next = h
  /\ c[t].next = NoHash
=============================================================================
