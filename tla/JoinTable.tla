------------------------------ MODULE JoinTable ------------------------------
(***************************************************************************)
(* RuntimeHashTable (src/operators/hash_join_translator.cpp), the chained  *)
(* hash table behind a hash join, and the order in which the compiled join *)
(* calls it: every insert of the build loop, then for each probe row one   *)
(* lookupAll and a loop of matchAt over 0 .. matchCount - 1.               *)
(*                                                                         *)
(* lookupAll keeps POINTERS to the entries it found, in the one            *)
(* matchBuffer of the table: they must stay valid, and the buffer          *)
(* untouched, until the match loop has read them all.                      *)
(***************************************************************************)
EXTENDS Integers, Sequences

CONSTANTS
    NumBuckets,   \* NUM_BUCKETS (1024)
    NumKeys,      \* numKeyFields
    Fields,       \* the values a key field takes
    Payloads,     \* the payloads of build rows
    Hash,         \* hash of a key tuple
    MaxEntries    \* bound: build rows

Keys == [1..NumKeys -> Fields]

ASSUME JoinTableAssumption ==
    /\ NumBuckets \in Nat \ {0} /\ NumKeys \in Nat /\ MaxEntries \in Nat
    /\ Hash \in [Keys -> Nat]

VARIABLES
    buckets,      \* the entries of each bucket, in insertion order
    matchBuffer,  \* positions, in the probed bucket, of the matching entries
    pc,           \* where the compiled join is
    probe,        \* the key being looked up
    pos,          \* lookupAll's loop: the next entry to compare
    idx           \* the match loop's index

vars == <<buckets, matchBuffer, pc, probe, pos, idx>>

Entry == [keyData : Keys, payloadData : Payloads]
BucketOf(k) == Hash[k] % NumBuckets
Bucket == buckets[BucketOf(probe)]

Size == LET upTo[n \in 0..NumBuckets] ==
                IF n = 0 THEN 0 ELSE upTo[n - 1] + Len(buckets[n - 1])
        IN  upTo[NumBuckets]

Init ==
    /\ buckets = [b \in 0..NumBuckets-1 |-> <<>>]
    /\ matchBuffer = <<>>
    /\ pc = "build"
    /\ probe \in Keys
    /\ pos = 1
    /\ idx = 0

(* (fault: the newest entry is put first) *)
InsertFirst(k, p) ==
    /\ pc = "build"
    /\ Size < MaxEntries
    /\ buckets' = [buckets EXCEPT ![BucketOf(k)] =
                      <<[keyData |-> k, payloadData |-> p]>> \o @]
    /\ UNCHANGED <<matchBuffer, pc, probe, pos, idx>>

Insert(k, p) ==
    /\ pc = "build"
    /\ Size < MaxEntries
    /\ buckets' = [buckets EXCEPT ![BucketOf(k)] =
                      Append(@, [keyData |-> k, payloadData |-> p])]
    /\ UNCHANGED <<matchBuffer, pc, probe, pos, idx>>

(* (fault: the loop starts one entry early) *)
LookupEarly(k) ==
    /\ pc \in {"build", "ready"}
    /\ pc' = "scan"
    /\ matchBuffer' = <<>>
    /\ probe' = k
    /\ pos' = 0
    /\ UNCHANGED <<buckets, idx>>

(* lookupAll, up to its loop *)
LookupAll(k) ==
    /\ pc \in {"build", "ready"}
    /\ pc' = "scan"
    /\ matchBuffer' = <<>>
    /\ probe' = k
    /\ pos' = 1
    /\ UNCHANGED <<buckets, idx>>

(* (fault: the last key field is not compared) *)
MatchesPrefix(entry) == \A i \in 1..(NumKeys - 1) : entry.keyData[i] = probe[i]

Matches(entry) == \A i \in 1..NumKeys : entry.keyData[i] = probe[i]

(* one iteration of its loop *)
CompareEntry ==
    /\ pc = "scan" /\ pos <= Len(Bucket)
    /\ matchBuffer' = IF Matches(Bucket[pos]) THEN Append(matchBuffer, pos) ELSE matchBuffer
    /\ pos' = pos + 1
    /\ UNCHANGED <<buckets, pc, probe, idx>>

LookupReturns ==
    /\ pc = "scan" /\ pos > Len(Bucket)
    /\ pc' = "matches"
    /\ idx' = 0
    /\ UNCHANGED <<buckets, matchBuffer, probe, pos>>

MatchCount == Len(matchBuffer)

(* (fault: the index is not advanced) *)
MatchAtSame ==
    /\ pc = "matches" /\ idx < MatchCount
    /\ UNCHANGED <<buckets, matchBuffer, pc, probe, pos, idx>>

(* One iteration of the match loop: matchAt(idx), getKey and getPayload of *)
(* the entry, the parent's code, idx + 1.                                  *)
MatchAt ==
    /\ pc = "matches" /\ idx < MatchCount
    /\ idx' = idx + 1
    /\ UNCHANGED <<buckets, matchBuffer, pc, probe, pos>>

MatchLoopExit ==
    /\ pc = "matches" /\ ~(idx < MatchCount)
    /\ pc' = "ready"
    /\ UNCHANGED <<buckets, matchBuffer, probe, pos, idx>>

Step == CompareEntry \/ LookupReturns \/ MatchAt \/ MatchLoopExit

Next ==
    \/ \E k \in Keys, p \in Payloads : Insert(k, p)
    \/ \E k \in Keys : LookupAll(k)
    \/ Step

(* The compiled join is one thread that runs on once it is in a loop.      *)
Spec == Init /\ [][Next]_vars /\ WF_vars(Step)

-----------------------------------------------------------------------------
(* Type invariant of the table and of the two loops over it. *)
TypeOK ==
    /\ buckets \in [0..NumBuckets-1 -> Seq(Entry)]
    /\ matchBuffer \in Seq(Nat)
    /\ pc \in {"build", "scan", "matches", "ready"}
    /\ probe \in Keys
    /\ pos \in Nat \ {0}
    /\ idx \in Nat

(* The match loop sees exactly the build rows with the probed key, each    *)
(* once and in insertion order, wherever in the table they are, and every  *)
(* pointer of matchBuffer is to a live entry.                              *)
Increasing == \A i, j \in DOMAIN matchBuffer : i < j => matchBuffer[i] < matchBuffer[j]
MatchesExact ==
    pc = "matches" =>
        /\ Increasing
        /\ \A i \in DOMAIN matchBuffer :
              matchBuffer[i] \in DOMAIN Bucket /\ Bucket[matchBuffer[i]].keyData = probe
        /\ \A b \in 0..NumBuckets-1 : \A n \in DOMAIN buckets[b] :
              buckets[b][n].keyData = probe =>
                 b = BucketOf(probe) /\ \E i \in DOMAIN matchBuffer : matchBuffer[i] = n

(* A lookup that has started is answered completely. *)
ProbesEnd == (pc = "scan") ~> (pc = "ready")

-----------------------------------------------------------------------------
(* The multimap the table implements. *)
PayloadsUnder(entries, k) ==   \* in the first 0, 1, ... entries
    LET upTo[n \in 0..Len(entries)] ==
            IF n = 0 THEN <<>>
            ELSE IF entries[n].keyData = k THEN Append(upTo[n - 1], entries[n].payloadData)
                 ELSE upTo[n - 1]
    IN  upTo
StoredUnder(k) ==
    LET entries == buckets[BucketOf(k)] IN PayloadsUnder(entries, k)[Len(entries)]
Stored == [k \in Keys |-> StoredUnder(k)]
ToDeliver ==
    CASE pc = "scan"    -> StoredUnder(probe)
      [] pc = "matches" ->
            [i \in 1..(MatchCount - idx) |-> Bucket[matchBuffer[idx + i]].payloadData]
      [] OTHER          -> <<>>

Abstract == INSTANCE Multimap WITH
    store    <- Stored,
    building <- pc = "build",
    pending  <- ToDeliver
Implements == Abstract!Spec
=============================================================================
