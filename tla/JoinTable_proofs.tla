--------------------------- MODULE JoinTable_proofs ---------------------------
(***************************************************************************)
(* The hash table finds every match exactly once, for every number of      *)
(* buckets, every hash function, every key width and any build rows.  The  *)
(* inductive invariant adds to MatchesExact where the entries of a bucket  *)
(* come from and what lookupAll's loop has established so far.             *)
(***************************************************************************)
EXTENDS JoinTable, Induction

(* Every entry is in the bucket of its key. *)
Placed ==
    \A b \in 0..NumBuckets-1 : \A n \in DOMAIN buckets[b] :
        BucketOf(buckets[b][n].keyData) = b

(* The buffer holds the matches among the first limit - 1 entries.         *)
MatchesBelow(limit) ==
    /\ Increasing
    /\ \A i \in DOMAIN matchBuffer :
          /\ matchBuffer[i] \in DOMAIN Bucket /\ matchBuffer[i] < limit
          /\ Bucket[matchBuffer[i]].keyData = probe
    /\ \A n \in DOMAIN Bucket :
          n < limit /\ Bucket[n].keyData = probe => \E i \in DOMAIN matchBuffer : matchBuffer[i] = n

IInv ==
    /\ TypeOK
    /\ Placed
    /\ pc = "scan" => MatchesBelow(pos)
    /\ pc = "matches" => MatchesBelow(Len(Bucket) + 1)

LEMMA BucketInRange ==
    ASSUME NEW k \in Keys
    PROVE  BucketOf(k) \in 0..NumBuckets-1
BY JoinTableAssumption DEF BucketOf

LEMMA MatchesIsEqual ==
    ASSUME NEW entry \in Entry, probe \in Keys
    PROVE  Matches(entry) <=> entry.keyData = probe
<1> DEFINE k == entry.keyData
<1>1. k \in [1..NumKeys -> Fields] /\ probe \in [1..NumKeys -> Fields]
  BY DEF Entry, Keys
<1> HIDE DEF k
<1>2. (\A i \in 1..NumKeys : k[i] = probe[i]) => k = probe
  <2>1. k = [i \in 1..NumKeys |-> k[i]] /\ probe = [i \in 1..NumKeys |-> probe[i]]
    BY <1>1
  <2> QED BY <2>1
<1> QED BY <1>2 DEF Matches, k

(* Looking further at entries with other keys changes nothing. *)
LEMMA MatchesBelowFurther ==
    ASSUME TypeOK, Bucket \in Seq(Entry), NEW m \in Nat, NEW l \in Nat, m <= l, MatchesBelow(m),
           \A n \in DOMAIN Bucket : n < l /\ ~(n < m) => Bucket[n].keyData # probe
    PROVE  MatchesBelow(l)
<1>1. ASSUME NEW i \in DOMAIN matchBuffer
      PROVE  /\ matchBuffer[i] \in DOMAIN Bucket /\ matchBuffer[i] < l
             /\ Bucket[matchBuffer[i]].keyData = probe
  <2>1. matchBuffer[i] \in Nat
    BY DEF TypeOK
  <2>2. /\ matchBuffer[i] \in DOMAIN Bucket /\ matchBuffer[i] < m
        /\ Bucket[matchBuffer[i]].keyData = probe
    BY DEF MatchesBelow
  <2> QED BY <2>1, <2>2
<1>2. ASSUME NEW n \in DOMAIN Bucket, n < l, Bucket[n].keyData = probe
      PROVE  \E i \in DOMAIN matchBuffer : matchBuffer[i] = n
  BY <1>2 DEF MatchesBelow
<1> QED BY <1>1, <1>2 DEF MatchesBelow

LEMMA IInvExact == IInv => MatchesExact
<1> SUFFICES ASSUME IInv, pc = "matches"
             PROVE  /\ Increasing
                    /\ \A i \in DOMAIN matchBuffer :
                          matchBuffer[i] \in DOMAIN Bucket /\ Bucket[matchBuffer[i]].keyData = probe
                    /\ \A b \in 0..NumBuckets-1 : \A n \in DOMAIN buckets[b] :
                          buckets[b][n].keyData = probe =>
                             b = BucketOf(probe) /\ \E i \in DOMAIN matchBuffer : matchBuffer[i] = n
  BY DEF MatchesExact
<1>1. MatchesBelow(Len(Bucket) + 1)
  BY DEF IInv
<1>2. ASSUME NEW b \in 0..NumBuckets-1, NEW n \in DOMAIN buckets[b],
             buckets[b][n].keyData = probe
      PROVE  b = BucketOf(probe) /\ \E i \in DOMAIN matchBuffer : matchBuffer[i] = n
  <2>1. b = BucketOf(probe)
    BY <1>2 DEF IInv, Placed
  <2>2. n \in DOMAIN Bucket /\ Bucket[n].keyData = probe
    BY <1>2, <2>1 DEF Bucket
  <2>3. Bucket \in Seq(Entry)
    BY BucketInRange DEF IInv, TypeOK, Bucket
  <2>4. n < Len(Bucket) + 1
    BY <2>2, <2>3
  <2> QED BY <1>1, <2>1, <2>2, <2>4 DEF MatchesBelow
<1> QED BY <1>1, <1>2 DEF MatchesBelow

LEMMA IInvInit == Init => IInv
<1> SUFFICES ASSUME Init PROVE IInv
  OBVIOUS
<1>1. TypeOK
  BY JoinTableAssumption DEF Init, TypeOK
<1>2. Placed
  BY DEF Init, Placed
<1> QED BY <1>1, <1>2 DEF IInv, Init

LEMMA IInvStep == IInv /\ [Next]_vars => IInv'
<1> SUFFICES ASSUME IInv, [Next]_vars PROVE IInv'
  OBVIOUS
<1> USE DEF IInv
<1>0. Bucket \in Seq(Entry) /\ BucketOf(probe) \in 0..NumBuckets-1
  BY BucketInRange DEF TypeOK, Bucket
<1>1. ASSUME NEW k \in Keys, NEW p \in Payloads, Insert(k, p)
      PROVE  IInv'
  <2> DEFINE b == BucketOf(k)
             entry == [keyData |-> k, payloadData |-> p]
  <2>1. b \in 0..NumBuckets-1 /\ entry \in Entry /\ entry.keyData = k
    BY BucketInRange DEF Entry
  <2> HIDE DEF entry
  <2>2. buckets' = [buckets EXCEPT ![b] = Append(buckets[b], entry)]
    BY <1>1 DEF Insert, entry
  <2>3. buckets[b] \in Seq(Entry)
    BY <2>1 DEF TypeOK
  <2>4. Append(buckets[b], entry) \in Seq(Entry)
    BY <2>1, <2>3
  <2>5. TypeOK'
    BY <1>1, <2>1, <2>2, <2>4 DEF TypeOK, Insert
  <2>6. Placed'
    <3> SUFFICES ASSUME NEW c \in 0..NumBuckets-1, NEW n \in DOMAIN buckets'[c]
                 PROVE  BucketOf(buckets'[c][n].keyData) = c
      BY DEF Placed, BucketOf
    <3>1. CASE c # b
      BY <2>1, <2>2, <3>1 DEF Placed, TypeOK
    <3>2. CASE c = b /\ n \in DOMAIN buckets[b]
      BY <2>1, <2>2, <2>3, <3>2 DEF Placed, TypeOK
    <3>3. CASE c = b /\ n \notin DOMAIN buckets[b]
      <4>1. buckets'[c] = Append(buckets[b], entry)
        BY <2>1, <2>2, <3>3 DEF TypeOK
      <4>2. n = Len(buckets[b]) + 1
        BY <2>3, <3>3, <4>1
      <4> QED BY <2>1, <2>3, <3>3, <4>1, <4>2
    <3> QED BY <3>1, <3>2, <3>3
  <2> QED BY <1>1, <2>5, <2>6 DEF Insert
<1>2. ASSUME NEW k \in Keys, LookupAll(k)
      PROVE  IInv'
  <2>1. TypeOK' /\ Placed'
    BY <1>2 DEF LookupAll, TypeOK, Placed, BucketOf
  <2>2. MatchesBelow(pos)'
    <3>1. \A n \in DOMAIN Bucket' : ~(n < pos')
      <4>1. Bucket' \in Seq(Entry) /\ pos' = 1
        BY <1>2, <2>1, BucketInRange DEF LookupAll, TypeOK, Bucket, BucketOf
      <4> QED BY <4>1
    <3> QED BY <1>2, <3>1 DEF LookupAll, MatchesBelow, Increasing
  <2> QED BY <1>2, <2>1, <2>2 DEF LookupAll
<1>3. CASE CompareEntry
  <2>1. /\ pc = "scan" /\ pc' = "scan" /\ pos' = pos + 1 /\ pos \in DOMAIN Bucket
        /\ UNCHANGED <<buckets, probe, idx>> /\ Bucket' = Bucket
    BY <1>0, <1>3 DEF CompareEntry, TypeOK, Bucket, BucketOf
  <2>2. Bucket[pos] \in Entry /\ probe \in Keys
    BY <1>0, <2>1 DEF TypeOK
  <2>3. CASE Bucket[pos].keyData = probe
    <3>1. matchBuffer' = Append(matchBuffer, pos)
      BY <1>3, <2>2, <2>3, MatchesIsEqual DEF CompareEntry
    <3>2. matchBuffer \in Seq(Nat) /\ pos \in Nat
      BY DEF TypeOK
    <3>3. TypeOK' /\ Placed'
      BY <2>1, <3>1, <3>2 DEF TypeOK, Placed, BucketOf
    <3>4. /\ DOMAIN matchBuffer' = 1..Len(matchBuffer) + 1
          /\ matchBuffer'[Len(matchBuffer) + 1] = pos
          /\ \A i \in DOMAIN matchBuffer : matchBuffer'[i] = matchBuffer[i] /\ i \in DOMAIN matchBuffer'
          /\ \A i \in DOMAIN matchBuffer' : i \in DOMAIN matchBuffer \/ i = Len(matchBuffer) + 1
          /\ DOMAIN matchBuffer = 1..Len(matchBuffer) /\ Len(matchBuffer) \in Nat
      BY <3>1, <3>2
    <3>5. MatchesBelow(pos)
      BY <2>1
    <3>6. Increasing'
      BY <3>2, <3>4, <3>5 DEF MatchesBelow, Increasing
    <3>7. \A i \in DOMAIN matchBuffer' :
             /\ matchBuffer'[i] \in DOMAIN Bucket /\ matchBuffer'[i] < pos + 1
             /\ Bucket[matchBuffer'[i]].keyData = probe
      <4> TAKE i \in DOMAIN matchBuffer'
      <4>1. CASE i \in DOMAIN matchBuffer
        <5>1. /\ matchBuffer'[i] = matchBuffer[i] /\ matchBuffer[i] \in DOMAIN Bucket
              /\ matchBuffer[i] < pos /\ Bucket[matchBuffer[i]].keyData = probe
          BY <3>4, <3>5, <4>1 DEF MatchesBelow
        <5>2. matchBuffer[i] \in Nat
          BY <3>2, <4>1
        <5> QED BY <3>2, <5>1, <5>2
      <4>2. CASE i = Len(matchBuffer) + 1
        BY <2>1, <2>3, <3>2, <3>4, <4>2
      <4> QED BY <3>4, <4>1, <4>2
    <3>8. \A n \in DOMAIN Bucket :
             n < pos + 1 /\ Bucket[n].keyData = probe =>
                \E i \in DOMAIN matchBuffer' : matchBuffer'[i] = n
      <4> SUFFICES ASSUME NEW n \in DOMAIN Bucket, n < pos + 1, Bucket[n].keyData = probe
                   PROVE  \E i \in DOMAIN matchBuffer' : matchBuffer'[i] = n
        OBVIOUS
      <4>1. n \in Nat
        BY <1>0
      <4>2. CASE n = pos
        BY <3>2, <3>4, <4>2
      <4>3. CASE n < pos
        BY <3>4, <3>5, <4>3 DEF MatchesBelow
      <4> QED BY <3>2, <4>1, <4>2, <4>3
    <3>9. MatchesBelow(pos)'
      BY <2>1, <3>6, <3>7, <3>8 DEF MatchesBelow
    <3> QED BY <2>1, <3>3, <3>9
  <2>4. CASE Bucket[pos].keyData # probe
    <3>1. matchBuffer' = matchBuffer
      BY <1>3, <2>2, <2>4, MatchesIsEqual DEF CompareEntry
    <3>2. TypeOK' /\ Placed'
      BY <2>1, <3>1 DEF TypeOK, Placed, BucketOf
    <3>3. MatchesBelow(pos + 1)
      <4>1. MatchesBelow(pos) /\ pos \in Nat /\ pos + 1 \in Nat /\ pos <= pos + 1
        BY <2>1 DEF TypeOK
      <4>2. \A n \in DOMAIN Bucket : n < pos + 1 /\ ~(n < pos) => Bucket[n].keyData # probe
        BY <1>0, <2>4, <4>1
      <4> QED BY <1>0, <4>1, <4>2, MatchesBelowFurther
    <3>4. MatchesBelow(pos)'
      BY <2>1, <3>1, <3>3 DEF MatchesBelow, Increasing
    <3> QED BY <2>1, <3>2, <3>4
  <2> QED BY <2>3, <2>4
<1>4. CASE LookupReturns
  <2>1. /\ pc = "scan" /\ pc' = "matches" /\ pos > Len(Bucket) /\ idx' = 0
        /\ UNCHANGED <<buckets, matchBuffer, probe, pos>> /\ Bucket' = Bucket
    BY <1>4 DEF LookupReturns, Bucket, BucketOf
  <2>2. TypeOK' /\ Placed'
    BY <2>1 DEF TypeOK, Placed, BucketOf
  <2>3. MatchesBelow(Len(Bucket) + 1)
    <3>1. /\ MatchesBelow(pos) /\ pos \in Nat
          /\ Len(Bucket) + 1 \in Nat /\ DOMAIN Bucket = 1..Len(Bucket)
      BY <1>0, <2>1 DEF TypeOK
    <3>2. MatchesBelow(Len(Bucket) + 1)
      <4>1. ASSUME NEW i \in DOMAIN matchBuffer
            PROVE  /\ matchBuffer[i] \in DOMAIN Bucket /\ matchBuffer[i] < Len(Bucket) + 1
                   /\ Bucket[matchBuffer[i]].keyData = probe
        BY <1>0, <3>1 DEF MatchesBelow
      <4>2. ASSUME NEW n \in DOMAIN Bucket, Bucket[n].keyData = probe
            PROVE  \E i \in DOMAIN matchBuffer : matchBuffer[i] = n
        BY <1>0, <2>1, <3>1, <4>2 DEF MatchesBelow
      <4> QED BY <3>1, <4>1, <4>2 DEF MatchesBelow
    <3> QED BY <3>2
  <2>4. MatchesBelow(Len(Bucket) + 1)'
    BY <2>1, <2>3 DEF MatchesBelow, Increasing
  <2> QED BY <2>1, <2>2, <2>4
<1>5. CASE MatchAt \/ MatchLoopExit \/ UNCHANGED vars
  <2>1. /\ UNCHANGED <<buckets, matchBuffer, probe, pos>> /\ Bucket' = Bucket
        /\ pc' \in {pc, "ready"} /\ idx' \in Nat
    <3>1. CASE MatchAt
      BY <3>1 DEF MatchAt, Bucket, BucketOf, TypeOK
    <3>2. CASE MatchLoopExit
      BY <3>2 DEF MatchLoopExit, Bucket, BucketOf, TypeOK
    <3>3. CASE UNCHANGED vars
      BY <3>3 DEF vars, Bucket, BucketOf, TypeOK
    <3> QED BY <1>5, <3>1, <3>2, <3>3
  <2>2. TypeOK' /\ Placed'
    BY <2>1 DEF TypeOK, Placed, BucketOf
  <2> QED BY <2>1, <2>2 DEF MatchesBelow, Increasing
<1> QED BY <1>1, <1>2, <1>3, <1>4, <1>5 DEF Next, Step

(* The table and the loops over it keep their types. *)
THEOREM TypeCorrect == Spec => []TypeOK
<1>1. IInv => TypeOK
  BY DEF IInv
<1> QED BY <1>1, IInvInit, IInvStep, PTL DEF Spec

(* When the match loop runs, matchBuffer points to exactly the build rows  *)
(* with the probed key, each once, in insertion order.                     *)
THEOREM LookupExact == Spec => []MatchesExact
BY IInvInit, IInvStep, IInvExact, PTL DEF Spec

-----------------------------------------------------------------------------
(* The table implements the multimap.  What is stored under a key is       *)
(* defined by recursion over its bucket.                                   *)
PayloadFold(w, entries, k) ==
    /\ w \in [0..Len(entries) -> Seq(Payloads)]
    /\ w[0] = <<>>
    /\ \A n \in 1..Len(entries) :
          w[n] = IF entries[n].keyData = k THEN Append(w[n - 1], entries[n].payloadData)
                 ELSE w[n - 1]

LEMMA PayloadsUnderFolds ==
    ASSUME NEW entries \in Seq(Entry), NEW k
    PROVE  PayloadFold(PayloadsUnder(entries, k), entries, k)
<1> DEFINE m == Len(entries)
           S == Seq(Payloads)
           Grow(n, s) == IF entries[n].keyData = k THEN Append(s, entries[n].payloadData) ELSE s
           step == [n \in 1..m |-> [s \in S |-> Grow(n, s)]]
           Is(w) == w = [n \in 0..m |->
                           IF n = 0 THEN <<>>
                           ELSE IF entries[n].keyData = k
                                THEN Append(w[n - 1], entries[n].payloadData) ELSE w[n - 1]]
<1>1. m \in Nat /\ \A n \in 1..m : entries[n] \in Entry
  OBVIOUS
<1>2. \A n \in 1..m : \A s \in S : Grow(n, s) \in S
  <2> SUFFICES ASSUME NEW n \in 1..m, NEW s \in S PROVE Grow(n, s) \in S
    OBVIOUS
  <2>1. entries[n].payloadData \in Payloads
    BY <1>1 DEF Entry
  <2> QED BY <2>1
<1>3. step \in [1..m -> [S -> S]] /\ <<>> \in S
  <2>1. <<>> \in S
    OBVIOUS
  <2> HIDE DEF S, Grow
  <2> QED BY <1>2, <2>1
<1>4. PICK f : Recursive(f, m, S, <<>>, step)
  <2> HIDE DEF S, step, m
  <2> QED BY <1>1, <1>3, RecursionExists
<1>5. /\ f \in [0..m -> S]
      /\ f[0] = <<>>
      /\ \A n \in 1..m : f[n] = step[n][f[n - 1]]
  BY <1>4, Zenon DEF Recursive
<1>6. \A n \in 1..m : f[n] = Grow(n, f[n - 1])
  <2> TAKE n \in 1..m
  <2>1. n - 1 \in 0..m
    BY <1>1
  <2>2. f[n - 1] \in S
    <3> HIDE DEF S
    <3> QED BY <1>5, <2>1
  <2> HIDE DEF S, Grow
  <2> QED BY <1>5, <2>2
<1>7. Is(f)
  <2>1. f = [n \in 0..m |-> f[n]]
    <3> HIDE DEF S
    <3> QED BY <1>5
  <2>2. \A n \in 0..m : f[n] = IF n = 0 THEN <<>> ELSE Grow(n, f[n - 1])
    <3> HIDE DEF S, Grow
    <3> QED BY <1>1, <1>5, <1>6
  <2> QED BY <2>1, <2>2, Zenon
<1>8. PayloadsUnder(entries, k) = CHOOSE w : Is(w)
  BY Zenon DEF PayloadsUnder
<1>9. Is(PayloadsUnder(entries, k))
  <2> HIDE DEF Is
  <2> QED BY <1>7, <1>8, Zenon
<1> DEFINE w == PayloadsUnder(entries, k)
<1> HIDE DEF w
<1>10. w = [n \in 0..m |-> IF n = 0 THEN <<>> ELSE Grow(n, w[n - 1])]
  BY <1>9, Zenon DEF w
<1>11. w[0] = <<>> /\ \A n \in 1..m : w[n] = Grow(n, w[n - 1])
  <2> DEFINE value(n) == IF n = 0 THEN <<>> ELSE Grow(n, w[n - 1])
  <2>1. w = [n \in 0..m |-> value(n)]
    BY <1>10, Zenon
  <2> HIDE DEF value
  <2>2. \A n \in 0..m : w[n] = value(n)
    BY <2>1
  <2>3. 0 \in 0..m /\ \A n \in 1..m : n \in 0..m /\ n # 0
    BY <1>1
  <2> HIDE DEF Grow
  <2> QED BY <2>2, <2>3 DEF value
<1>12. w = [n \in 0..m |-> w[n]]
  <2> HIDE DEF Grow
  <2> QED BY <1>10
<1>13. w \in [0..m -> S]
  <2> DEFINE T == {n \in 0..m : w[n] \in S}
  <2> HIDE DEF S, Grow
  <2>1. 0 \in T
    BY <1>1, <1>3, <1>11
  <2>2. \A n \in 0..m : n < m /\ n \in T => n + 1 \in T
    <3> SUFFICES ASSUME NEW n \in 0..m, n < m, w[n] \in S PROVE w[n + 1] \in S
      BY <1>1
    <3>1. n + 1 \in 1..m /\ (n + 1) - 1 = n
      BY <1>1
    <3>2. w[n + 1] = Grow(n + 1, w[n])
      BY <1>11, <3>1
    <3> QED BY <1>2, <3>1, <3>2
  <2>3. 0..m \subseteq T
    <3> HIDE DEF T
    <3> QED BY <1>1, <2>1, <2>2, UpTo
  <2> QED BY <1>12, <2>3
<1> QED BY <1>11, <1>13 DEF PayloadFold, w

(* One more entry: the payloads of its key grow, those of others do not.   *)
LEMMA OneMoreEntry ==
    ASSUME NEW entries \in Seq(Entry), NEW entry \in Entry, NEW k
    PROVE  LET n   == Len(entries)
               new == Append(entries, entry)
               old == PayloadsUnder(entries, k)[n]
           IN  PayloadsUnder(new, k)[Len(new)] =
                  IF entry.keyData = k THEN Append(old, entry.payloadData) ELSE old
<1> DEFINE m == Len(entries)
           new == Append(entries, entry)
           v == PayloadsUnder(entries, k)
           w == PayloadsUnder(new, k)
           T == {n \in 0..m : w[n] = v[n]}
<1>1. /\ m \in Nat /\ new \in Seq(Entry) /\ Len(new) = m + 1
      /\ \A n \in 1..m : new[n] = entries[n]
      /\ new[m + 1] = entry
  OBVIOUS
<1> HIDE DEF new
<1>2. /\ v[0] = <<>>
      /\ \A n \in 1..m : v[n] = IF entries[n].keyData = k
                              THEN Append(v[n - 1], entries[n].payloadData) ELSE v[n - 1]
  BY PayloadsUnderFolds DEF PayloadFold
<1>3. /\ w[0] = <<>>
      /\ \A n \in 1..m+1 : w[n] = IF new[n].keyData = k
                                THEN Append(w[n - 1], new[n].payloadData) ELSE w[n - 1]
  BY <1>1, PayloadsUnderFolds DEF PayloadFold
<1> HIDE DEF v, w, m
<1>4. 0 \in T
  <2>1. w[0] = v[0]
    BY <1>2, <1>3, Zenon
  <2> QED BY <1>1, <2>1
<1>5. ASSUME NEW n \in 0..m, n < m, n \in T
      PROVE  n + 1 \in T
  <2>1. n + 1 \in 1..m /\ n + 1 \in 1..m+1 /\ (n + 1) - 1 = n /\ n + 1 \in 0..m
    BY <1>1, <1>5
  <2>2. w[n] = v[n] /\ new[n + 1] = entries[n + 1]
    BY <1>1, <1>5, <2>1
  <2>3. w[n + 1] = v[n + 1]
    BY <1>2, <1>3, <2>1, <2>2
  <2> QED BY <2>1, <2>3
<1>6. 0..m \subseteq T
  <2> HIDE DEF T
  <2> QED BY <1>1, <1>4, <1>5, UpTo
<1>7. w[m] = v[m]
  BY <1>1, <1>6
<1>8. m + 1 \in 1..m+1 /\ (m + 1) - 1 = m
  BY <1>1
<1>9. w[m + 1] = IF entry.keyData = k THEN Append(v[m], entry.payloadData) ELSE v[m]
  BY <1>1, <1>3, <1>7, <1>8
<1> QED BY <1>1, <1>9 DEF v, w, m, new

(* The payloads of the entries in the buffer.                              *)
Gathered == [i \in DOMAIN matchBuffer |-> Bucket[matchBuffer[i]].payloadData]

(* lookupAll has gathered the payloads under the probed key among the      *)
(* entries it has passed, and the match loop stays within the buffer.      *)
RInv ==
    /\ IInv
    /\ pc = "scan" => /\ pos - 1 <= Len(Bucket)
                      /\ Gathered = PayloadsUnder(Bucket, probe)[pos - 1]
    /\ pc = "matches" => idx <= MatchCount

LEMMA SameSequence ==
    ASSUME NEW S, NEW s \in Seq(S), NEW t \in Seq(S), Len(s) = Len(t),
           \A i \in 1..Len(s) : s[i] = t[i]
    PROVE  s = t
OBVIOUS

GatheredOK ==
    /\ Bucket \in Seq(Entry) /\ matchBuffer \in Seq(Nat)
    /\ \A i \in DOMAIN matchBuffer : Bucket[matchBuffer[i]].payloadData \in Payloads
    /\ Gathered \in Seq(Payloads) /\ Len(Gathered) = MatchCount
    /\ \A i \in DOMAIN matchBuffer : Gathered[i] = Bucket[matchBuffer[i]].payloadData

LEMMA GatheredType == IInv /\ pc \in {"scan", "matches"} => GatheredOK
<1> SUFFICES ASSUME IInv, pc \in {"scan", "matches"} PROVE GatheredOK
  OBVIOUS
<1>1. Bucket \in Seq(Entry) /\ matchBuffer \in Seq(Nat)
  BY BucketInRange DEF IInv, TypeOK, Bucket
<1>2. \A i \in DOMAIN matchBuffer : matchBuffer[i] \in DOMAIN Bucket
  BY DEF IInv, MatchesBelow
<1>3. \A i \in DOMAIN matchBuffer : Bucket[matchBuffer[i]].payloadData \in Payloads
  <2> TAKE i \in DOMAIN matchBuffer
  <2>1. Bucket[matchBuffer[i]] \in Entry
    BY <1>1, <1>2
  <2> QED BY <2>1 DEF Entry
<1>4. DOMAIN matchBuffer = 1..MatchCount /\ MatchCount \in Nat
  BY <1>1 DEF MatchCount
<1> DEFINE value(i) == Bucket[matchBuffer[i]].payloadData
<1>5. Gathered = [i \in 1..MatchCount |-> value(i)]
  BY <1>4 DEF Gathered
<1>6. \A i \in 1..MatchCount : value(i) \in Payloads
  BY <1>3, <1>4
<1> HIDE DEF value
<1>7. Gathered \in Seq(Payloads) /\ Len(Gathered) = MatchCount
      /\ \A i \in 1..MatchCount : Gathered[i] = value(i)
  BY <1>4, <1>5, <1>6
<1> QED BY <1>1, <1>3, <1>4, <1>7 DEF value, GatheredOK

LEMMA RInvInit == Init => RInv
BY IInvInit DEF RInv, Init

LEMMA RInvStep == RInv /\ [Next]_vars => RInv'
<1> SUFFICES ASSUME RInv, [Next]_vars PROVE RInv'
  OBVIOUS
<1>0. IInv /\ IInv'
  BY IInvStep DEF RInv
<1>1. ASSUME NEW k \in Keys, NEW p \in Payloads, Insert(k, p)
      PROVE  RInv'
  BY <1>0, <1>1 DEF Insert, RInv
<1>2. ASSUME NEW k \in Keys, LookupAll(k)
      PROVE  RInv'
  <2>1. pc' = "scan" /\ pos' = 1 /\ matchBuffer' = <<>> /\ pos' - 1 = 0
    BY <1>2 DEF LookupAll
  <2>2. Bucket' \in Seq(Entry)
    BY <1>0, BucketInRange DEF IInv, TypeOK, Bucket, BucketOf
  <2>3. PayloadsUnder(Bucket', probe')[0] = <<>>
    BY <2>2, PayloadsUnderFolds DEF PayloadFold
  <2>4. Gathered' = <<>>
    BY <2>1 DEF Gathered
  <2>5. 0 <= Len(Bucket')
    BY <2>2
  <2> QED BY <1>0, <2>1, <2>3, <2>4, <2>5 DEF RInv
<1>3. CASE CompareEntry
  <2> DEFINE fold == PayloadsUnder(Bucket, probe)
  <2>1. /\ pc = "scan" /\ pc' = "scan" /\ pos' = pos + 1 /\ pos <= Len(Bucket)
        /\ UNCHANGED <<buckets, probe, idx>> /\ Bucket' = Bucket
    BY <1>3 DEF CompareEntry, Bucket, BucketOf
  <2>2. /\ Bucket \in Seq(Entry) /\ matchBuffer \in Seq(Nat)
        /\ Gathered \in Seq(Payloads) /\ Len(Gathered) = MatchCount
        /\ \A i \in DOMAIN matchBuffer : Gathered[i] = Bucket[matchBuffer[i]].payloadData
    BY <1>0, <2>1, GatheredType DEF GatheredOK
  <2>3. /\ matchBuffer' \in Seq(Nat)
        /\ Gathered' \in Seq(Payloads) /\ Len(Gathered') = MatchCount'
        /\ \A i \in DOMAIN matchBuffer' : Gathered'[i] = Bucket[matchBuffer'[i]].payloadData
    <3>1. IInv' /\ pc' \in {"scan", "matches"}
      BY <1>0, <2>1
    <3>2. (IInv /\ pc \in {"scan", "matches"})' => GatheredOK'
      BY GatheredType, PTL
    <3> QED BY <2>1, <3>1, <3>2 DEF GatheredOK
  <2>4. pos \in Nat \ {0} /\ pos \in 1..Len(Bucket) /\ pos' - 1 = pos
    BY <1>0, <2>1, <2>2 DEF IInv, TypeOK
  <2>5. Bucket[pos] \in Entry /\ probe \in Keys
    BY <1>0, <2>2, <2>4 DEF IInv, TypeOK
  <2>6. fold[pos] = IF Bucket[pos].keyData = probe
                    THEN Append(fold[pos - 1], Bucket[pos].payloadData) ELSE fold[pos - 1]
    BY <2>2, <2>4, PayloadsUnderFolds DEF PayloadFold
  <2>7. Gathered = fold[pos - 1]
    BY <2>1 DEF RInv
  <2> HIDE DEF fold
  <2>8. Gathered' = fold[pos]
    <3>1. CASE Bucket[pos].keyData = probe
      <4> DEFINE x == Bucket[pos].payloadData
      <4>1. matchBuffer' = Append(matchBuffer, pos)
        BY <1>3, <2>5, <3>1, MatchesIsEqual DEF CompareEntry
      <4>2. x \in Payloads
        BY <2>5 DEF Entry
      <4>3. /\ MatchCount \in Nat /\ MatchCount' = MatchCount + 1
            /\ DOMAIN matchBuffer = 1..MatchCount /\ DOMAIN matchBuffer' = 1..MatchCount+1
            /\ \A i \in 1..MatchCount : matchBuffer'[i] = matchBuffer[i]
            /\ matchBuffer'[MatchCount + 1] = pos
        BY <2>2, <2>4, <4>1 DEF MatchCount
      <4>4. /\ Append(Gathered, x) \in Seq(Payloads) /\ Len(Append(Gathered, x)) = MatchCount + 1
            /\ \A i \in 1..MatchCount : Append(Gathered, x)[i] = Gathered[i]
            /\ Append(Gathered, x)[MatchCount + 1] = x
        BY <2>2, <4>2, <4>3
      <4>5. \A i \in 1..MatchCount+1 : Gathered'[i] = Append(Gathered, x)[i]
        <5> TAKE i \in 1..MatchCount+1
        <5>1. CASE i \in 1..MatchCount
          <6>1. i \in DOMAIN matchBuffer /\ i \in DOMAIN matchBuffer'
            BY <4>3, <5>1
          <6>2. Gathered'[i] = Bucket[matchBuffer[i]].payloadData
            BY <2>3, <4>3, <5>1, <6>1
          <6> HIDE DEF x
          <6> QED BY <2>2, <4>4, <5>1, <6>1, <6>2
        <5>2. CASE i = MatchCount + 1
          BY <2>3, <4>3, <4>4, <5>2
        <5>3. i \in 1..MatchCount \/ i = MatchCount + 1
          <6>1. MatchCount \in Nat
            BY <4>3
          <6> QED BY <6>1
        <5> QED BY <5>1, <5>2, <5>3, Zenon
      <4>6. Gathered' = Append(Gathered, x)
        BY <2>3, <4>3, <4>4, <4>5, SameSequence
      <4> QED BY <2>6, <2>7, <3>1, <4>6
    <3>2. CASE Bucket[pos].keyData # probe
      <4>1. matchBuffer' = matchBuffer
        BY <1>3, <2>5, <3>2, MatchesIsEqual DEF CompareEntry
      <4>2. Gathered' = Gathered
        BY <2>1, <4>1 DEF Gathered
      <4> QED BY <2>6, <2>7, <3>2, <4>2
    <3> QED BY <3>1, <3>2
  <2>9. Gathered' = PayloadsUnder(Bucket', probe')[pos' - 1] /\ pos' - 1 <= Len(Bucket')
    BY <2>1, <2>4, <2>8 DEF fold
  <2> QED BY <1>0, <2>1, <2>9 DEF RInv
<1>4. CASE LookupReturns
  <2>1. pc' = "matches" /\ idx' = 0 /\ matchBuffer' \in Seq(Nat)
    BY <1>0, <1>4 DEF LookupReturns, IInv, TypeOK
  <2>2. idx' <= MatchCount'
    BY <2>1 DEF MatchCount
  <2> QED BY <1>0, <2>1, <2>2 DEF RInv
<1>5. CASE MatchAt
  <2>1. pc' = "matches" /\ idx' = idx + 1 /\ matchBuffer' = matchBuffer
    BY <1>5 DEF MatchAt
  <2>2. idx' <= MatchCount'
    BY <1>0, <1>5, <2>1 DEF MatchAt, MatchCount, IInv, TypeOK
  <2> QED BY <1>0, <2>1, <2>2 DEF RInv
<1>6. CASE MatchLoopExit
  BY <1>0, <1>6 DEF MatchLoopExit, RInv
<1>7. CASE UNCHANGED vars
  <2>1. RInv' <=> RInv
    BY <1>0, <1>7 DEF vars, RInv, Gathered, Bucket, BucketOf, MatchCount
  <2> QED BY <2>1
<1> QED BY <1>1, <1>2, <1>3, <1>4, <1>5, <1>6, <1>7 DEF Next, Step

(* A build row is stored under its key; other keys keep what they have.    *)
LEMMA InsertStores ==
    ASSUME TypeOK, NEW k \in Keys, NEW p \in Payloads, Insert(k, p)
    PROVE  \A key \in Keys :
              StoredUnder(key)' = IF key = k THEN Append(StoredUnder(key), p) ELSE StoredUnder(key)
<1> TAKE key \in Keys
<1> DEFINE b == BucketOf(key)
           entry == [keyData |-> k, payloadData |-> p]
<1>1. BucketOf(k) \in DOMAIN buckets /\ b \in DOMAIN buckets /\ buckets[b] \in Seq(Entry)
  BY BucketInRange DEF TypeOK
<1>2. entry \in Entry /\ entry.keyData = k /\ entry.payloadData = p
  BY DEF Entry
<1> HIDE DEF entry
<1>3. buckets' = [buckets EXCEPT ![BucketOf(k)] = Append(buckets[BucketOf(k)], entry)]
  BY DEF Insert, entry
<1>4. /\ StoredUnder(key) = PayloadsUnder(buckets[b], key)[Len(buckets[b])]
      /\ StoredUnder(key)' = PayloadsUnder(buckets'[b], key)[Len(buckets'[b])]
  BY DEF StoredUnder, BucketOf
<1>5. CASE b = BucketOf(k)
  <2>1. buckets'[b] = Append(buckets[b], entry)
    BY <1>1, <1>3, <1>5
  <2>2. StoredUnder(key)' = IF k = key THEN Append(StoredUnder(key), p) ELSE StoredUnder(key)
    BY <1>1, <1>2, <1>4, <2>1, OneMoreEntry
  <2> QED BY <2>2
<1>6. CASE b # BucketOf(k)
  <2>1. buckets'[b] = buckets[b] /\ key # k
    BY <1>1, <1>3, <1>6
  <2> QED BY <1>4, <2>1
<1> QED BY <1>5, <1>6

LEMMA TailOfRange ==
    ASSUME NEW S, NEW s \in Seq(S), NEW m \in Nat, m < Len(s)
    PROVE  LET after(n) == [i \in 1..(Len(s) - n) |-> s[n + i]]
           IN  after(m) # <<>> /\ after(m + 1) = Tail(after(m))
<1> DEFINE n == Len(s) - m
           u == [i \in 1..n |-> s[m + i]]
           v == [i \in 1..(Len(s) - (m + 1)) |-> s[(m + 1) + i]]
<1>1. n \in Nat \ {0} /\ Len(s) - (m + 1) = n - 1
  OBVIOUS
<1>2. \A i \in 1..n : m + i \in 1..Len(s) /\ s[m + i] \in S
  OBVIOUS
<1> HIDE DEF n
<1>3. \A i \in 1..(n - 1) : i + 1 \in 1..n /\ (m + 1) + i = m + (i + 1)
  BY <1>1
<1>4. u \in Seq(S) /\ Len(u) = n /\ \A i \in 1..n : u[i] = s[m + i]
  BY <1>1, <1>2
<1>5. v = [i \in 1..(n - 1) |-> s[(m + 1) + i]]
  BY <1>1
<1>6. v \in Seq(S) /\ Len(v) = n - 1 /\ \A i \in 1..(n - 1) : v[i] = u[i + 1]
  <2>1. \A i \in 1..(n - 1) : s[(m + 1) + i] = u[i + 1] /\ u[i + 1] \in S
    BY <1>2, <1>3, <1>4
  <2> DEFINE value(i) == s[(m + 1) + i]
  <2> HIDE DEF value, v, u
  <2>2. v = [i \in 1..(n - 1) |-> value(i)]
    BY <1>5 DEF value
  <2>3. \A i \in 1..(n - 1) : value(i) = u[i + 1] /\ value(i) \in S
    BY <2>1 DEF value
  <2> QED BY <1>1, <2>2, <2>3
<1> HIDE DEF u, v
<1>7. u # <<>> /\ Tail(u) \in Seq(S) /\ Len(Tail(u)) = n - 1
      /\ \A i \in 1..(n - 1) : Tail(u)[i] = u[i + 1]
  BY <1>1, <1>4
<1>8. \A i \in 1..Len(v) : v[i] = Tail(u)[i]
  BY <1>6, <1>7
<1>9. v = Tail(u)
  BY <1>6, <1>7, <1>8, SameSequence
<1> QED BY <1>7, <1>9 DEF u, v, n

LEMMA InitRefines == Init => Abstract!Init
<1> SUFFICES ASSUME Init PROVE Abstract!Init
  OBVIOUS
<1>1. \A k \in Keys : StoredUnder(k) = <<>>
  <2> TAKE k \in Keys
  <2>1. buckets[BucketOf(k)] = <<>> /\ Len(<<>>) = 0 /\ <<>> \in Seq(Entry)
    BY BucketInRange DEF Init
  <2>2. PayloadsUnder(<<>>, k)[0] = <<>>
    BY <2>1, PayloadsUnderFolds DEF PayloadFold
  <2> QED BY <2>1, <2>2 DEF StoredUnder
<1>2. Stored = [k \in Keys |-> <<>>]
  BY <1>1 DEF Stored
<1>3. pc = "build" /\ ToDeliver = <<>>
  BY DEF Init, ToDeliver
<1> QED BY <1>2, <1>3 DEF Abstract!Init

(* What the abstract variables do when the buckets stay as they are.       *)
LEMMA SameStored == UNCHANGED buckets => Stored' = Stored
BY DEF Stored, StoredUnder, BucketOf

LEMMA StepRefines == RInv /\ [Next]_vars => [Abstract!Next]_(Abstract!vars)
<1> SUFFICES ASSUME RInv, [Next]_vars PROVE [Abstract!Next]_(Abstract!vars)
  OBVIOUS
<1>0. IInv /\ TypeOK
  BY DEF RInv, IInv
<1>1. ASSUME NEW k \in Keys, NEW p \in Payloads, Insert(k, p)
      PROVE  Abstract!Insert(k, p)
  <2>1. \A key \in Keys :
           StoredUnder(key)' = IF key = k THEN Append(StoredUnder(key), p) ELSE StoredUnder(key)
    BY <1>0, <1>1, InsertStores
  <2>2. Stored' = [Stored EXCEPT ![k] = Append(Stored[k], p)]
    BY <2>1 DEF Stored
  <2>3. pc = "build" /\ pc' = "build" /\ ToDeliver = <<>> /\ ToDeliver' = <<>>
    BY <1>1 DEF Insert, ToDeliver
  <2> QED BY <2>2, <2>3 DEF Abstract!Insert
<1>2. ASSUME NEW k \in Keys, LookupAll(k)
      PROVE  Abstract!Probe(k)
  <2>1. /\ pc \in {"build", "ready"} /\ pc' = "scan" /\ probe' = k /\ UNCHANGED buckets
    BY <1>2 DEF LookupAll
  <2>2. Stored' = Stored
    BY <2>1, SameStored
  <2>3. ToDeliver = <<>>
    BY <2>1 DEF ToDeliver
  <2>4. ToDeliver' = Stored[k]
    BY <2>1 DEF ToDeliver, Stored, StoredUnder, BucketOf
  <2> QED BY <2>1, <2>2, <2>3, <2>4 DEF Abstract!Probe
<1>3. CASE CompareEntry
  <2>1. pc = "scan" /\ pc' = "scan" /\ UNCHANGED <<buckets, probe>>
    BY <1>3 DEF CompareEntry
  <2>2. Stored' = Stored
    BY <2>1, SameStored
  <2>3. ToDeliver' = ToDeliver
    BY <2>1 DEF ToDeliver, StoredUnder, BucketOf
  <2> QED BY <2>1, <2>2, <2>3 DEF Abstract!vars
<1>4. CASE LookupReturns
  <2>1. /\ pc = "scan" /\ pc' = "matches" /\ idx' = 0 /\ pos > Len(Bucket)
        /\ UNCHANGED <<buckets, matchBuffer, probe, pos>> /\ Bucket' = Bucket
    BY <1>4 DEF LookupReturns, Bucket, BucketOf
  <2>2. Stored' = Stored
    BY <2>1, SameStored
  <2>3. /\ Bucket \in Seq(Entry) /\ matchBuffer \in Seq(Nat)
        /\ pos \in Nat \ {0} /\ pos - 1 <= Len(Bucket)
        /\ Gathered = PayloadsUnder(Bucket, probe)[pos - 1]
    BY <1>0, <2>1, BucketInRange DEF RInv, TypeOK, Bucket
  <2>4. pos - 1 = Len(Bucket)
    BY <2>1, <2>3
  <2>5. ToDeliver = Gathered
    BY <2>1, <2>3, <2>4 DEF ToDeliver, StoredUnder, Bucket
  <2>6. ToDeliver' = [i \in 1..(Len(matchBuffer) - 0) |-> Bucket[matchBuffer[0 + i]].payloadData]
    BY <2>1 DEF ToDeliver, MatchCount
  <2>7. DOMAIN matchBuffer = 1..(Len(matchBuffer) - 0) /\ \A i \in DOMAIN matchBuffer : 0 + i = i
    BY <2>3
  <2>8. ToDeliver' = Gathered
    BY <2>6, <2>7 DEF Gathered
  <2> QED BY <2>1, <2>2, <2>5, <2>8 DEF Abstract!vars
<1>5. CASE MatchAt
  <2>1. /\ pc = "matches" /\ pc' = "matches" /\ idx < MatchCount /\ idx' = idx + 1
        /\ UNCHANGED <<buckets, matchBuffer, probe>> /\ Bucket' = Bucket
        /\ MatchCount' = MatchCount
    BY <1>5 DEF MatchAt, Bucket, BucketOf, MatchCount
  <2>2. Stored' = Stored
    BY <2>1, SameStored
  <2>3. /\ Gathered \in Seq(Payloads) /\ Len(Gathered) = MatchCount /\ idx \in Nat
        /\ matchBuffer \in Seq(Nat)
        /\ \A i \in DOMAIN matchBuffer : Gathered[i] = Bucket[matchBuffer[i]].payloadData
    BY <1>0, <2>1, GatheredType DEF GatheredOK, TypeOK
  <2> DEFINE after(n) == [i \in 1..(Len(Gathered) - n) |-> Gathered[n + i]]
  <2>4. after(idx) # <<>> /\ after(idx + 1) = Tail(after(idx))
    BY <2>1, <2>3, TailOfRange
  <2>5. \A n \in Nat : \A i \in 1..(MatchCount - n) :
           Gathered[n + i] = Bucket[matchBuffer[n + i]].payloadData
    BY <2>3 DEF MatchCount
  <2>6. \A n \in Nat : after(n) = [i \in 1..(MatchCount - n) |->
                                     Bucket[matchBuffer[n + i]].payloadData]
    BY <2>3, <2>5
  <2> HIDE DEF after
  <2>7. ToDeliver = after(idx)
    BY <2>1, <2>3, <2>6 DEF ToDeliver
  <2>8. ToDeliver' = after(idx + 1)
    <3>1. ToDeliver' = [i \in 1..(MatchCount - (idx + 1)) |->
                          Bucket[matchBuffer[(idx + 1) + i]].payloadData]
      BY <2>1 DEF ToDeliver
    <3>2. idx + 1 \in Nat
      BY <2>3
    <3>3. after(idx + 1) = [i \in 1..(MatchCount - (idx + 1)) |->
                              Bucket[matchBuffer[(idx + 1) + i]].payloadData]
      BY <2>6, <3>2, Zenon
    <3> QED BY <3>1, <3>3, Zenon
  <2>9. Abstract!Deliver
    BY <2>1, <2>2, <2>4, <2>7, <2>8 DEF Abstract!Deliver
  <2> QED BY <2>9 DEF Abstract!Next
<1>6. CASE MatchLoopExit
  <2>1. /\ pc = "matches" /\ pc' = "ready" /\ ~(idx < MatchCount)
        /\ UNCHANGED <<buckets, matchBuffer>>
    BY <1>6 DEF MatchLoopExit
  <2>2. Stored' = Stored
    BY <2>1, SameStored
  <2>3. idx = MatchCount /\ MatchCount - idx = 0
    BY <1>0, <2>1 DEF RInv, TypeOK, MatchCount
  <2>4. ToDeliver = <<>>
    BY <2>1, <2>3 DEF ToDeliver
  <2>5. ToDeliver' = <<>>
    BY <2>1 DEF ToDeliver
  <2> QED BY <2>1, <2>2, <2>4, <2>5 DEF Abstract!vars
<1>7. CASE UNCHANGED vars
  <2>1. Stored' = Stored
    BY <1>7, SameStored DEF vars
  <2>2. ToDeliver' = ToDeliver /\ pc' = pc
    BY <1>7 DEF vars, ToDeliver, StoredUnder, BucketOf, MatchCount, Bucket
  <2> QED BY <2>1, <2>2 DEF Abstract!vars
<1> QED BY <1>1, <1>2, <1>3, <1>4, <1>5, <1>6, <1>7 DEF Next, Step, Abstract!Next

(* The hash table and the loops over it implement the multimap: whatever   *)
(* the hash function, a probe of the join delivers every payload stored    *)
(* under the probed key, once each, oldest first.  (The fairness of        *)
(* Multimap, that it goes on to deliver, is left to the model checker.)    *)
THEOREM TableIsMultimap == Spec => Abstract!Steps
BY RInvInit, RInvStep, InitRefines, StepRefines, PTL DEF Spec, Abstract!Steps
=============================================================================
