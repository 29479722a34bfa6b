-------------------------- MODULE TokenCacheProofs -------------------------
(***************************************************************************)
(* Theorems about TokenCache: for every number of workers, every token,    *)
(* every capacity and every clock, the cache keeps its bound and changes   *)
(* no verdict.                                                             *)
(*                                                                         *)
(* IInv adds to the two invariants what makes them inductive: a token past *)
(* the look at its parts has three of them, and a token past the check of  *)
(* its signature, or in the cache, is genuine.                             *)
(***************************************************************************)
EXTENDS TokenCache, FiniteSetTheorems, TLAPS

Verified(t) == Facts[t].parts /\ Facts[t].genuine

VerifiedInv ==
    /\ \A t \in entries : Verified(t)
    /\ \A w \in Workers : pc[w] \in {"get", "verify"} => Facts[token[w]].parts
    /\ \A w \in Workers : pc[w] \in {"put", "check"} => Verified(token[w])

IInv == TypeOK /\ CacheBounded /\ VerifiedInv /\ CacheTransparent

-----------------------------------------------------------------------------
(* The cache: how many tokens an eviction drops.                           *)

\* The cache holds as many tokens as its order lists.
LEMMA HeldAsListed ==
    ASSUME TypeOK, CacheBounded
    PROVE  IsFiniteSet(entries) /\ Cardinality(entries) = Len(order)
<1> DEFINE n == Len(order)
<1>1. n \in Nat /\ order \in [1..n -> entries]
    BY DEF TypeOK, CacheBounded
<1>2. order \in Surjection(1..n, entries) /\ order \in Injection(1..n, entries)
    BY <1>1 DEF CacheBounded, Surjection, Injection, IsInjective
<1>3. IsFiniteSet(1..n) /\ Cardinality(1..n) = n
    BY <1>1, FS_Interval
<1> QED BY <1>2, <1>3, FS_Surjection

\* A cache with room drops nothing, a full one its oldest token alone.
LEMMA OneEvictionIsEnough ==
    ASSUME TypeOK, CacheBounded, Max # 0
    PROVE  Evictions = IF Len(order) < Max THEN 0 ELSE 1
<1> DEFINE n == Len(order)
<1>1. n \in Nat /\ n <= Max /\ Max \in Nat
    BY MaxAssumption DEF TypeOK, CacheBounded
<1>2. IsFiniteSet(entries) /\ Cardinality(entries) = n
    BY HeldAsListed
<1>3. Without(0) = entries
    BY DEF Without
<1>4. CASE n < Max
    <2>1. Roomy(0)
        BY <1>2, <1>3, <1>4 DEF Roomy
    <2>2. \A i \in 0..n : (\A j \in 0..n : Roomy(j) => i <= j) => i = 0
        BY <1>1, <2>1
    <2>3. 0 \in 0..n /\ \A j \in 0..n : 0 <= j
        BY <1>1
    <2> QED BY <1>4, <2>1, <2>2, <2>3 DEF Evictions
<1>5. CASE ~(n < Max)
    <2>1. n = Max /\ n >= 1
        BY <1>1, <1>5
    <2>2. ~Roomy(0)
        BY <1>2, <1>3, <2>1 DEF Roomy
    <2>3. Without(1) = entries \ {order[1]} /\ order[1] \in entries
        BY <2>1 DEF Without, CacheBounded
    <2>4. Cardinality(Without(1)) = n - 1
        BY <1>2, <2>3, FS_RemoveElement
    <2>5. Roomy(1)
        BY <2>1, <2>4, <1>1 DEF Roomy
    <2>6. \A j \in 0..n : Roomy(j) => 1 <= j
        BY <2>2, <1>1
    <2>7. \A i \in 0..n : Roomy(i) /\ (\A j \in 0..n : Roomy(j) => i <= j) => i = 1
        BY <2>1, <2>2, <2>5, <1>1
    <2> QED BY <1>5, <2>1, <2>5, <2>6, <2>7 DEF Evictions
<1> QED BY <1>4, <1>5

\* Putting a token in keeps the bound and the order, and adds that token only.
LEMMA PutKeepsOrder ==
    ASSUME IInv, NEW w \in Workers, Put(w)
    PROVE  /\ CacheBounded'
           /\ order' \in Seq(Tokens)
           /\ entries' \subseteq entries \cup {token[w]}
<1>0. TypeOK /\ CacheBounded /\ token[w] \in Tokens
    BY DEF IInv, TypeOK
<1>1. CASE Max = 0 \/ token[w] \in entries
    BY <1>0, <1>1 DEF Put, cacheVars, CacheBounded, TypeOK
<1>2. CASE Max # 0 /\ token[w] \notin entries
    <2> DEFINE n == Len(order)
               k == Evictions
               kept == SubSeq(order, k + 1, n)
    <2>1. n \in Nat /\ Max \in Nat /\ n <= Max
        BY <1>0, MaxAssumption DEF TypeOK, CacheBounded
    <2>2. k = IF n < Max THEN 0 ELSE 1
        BY <1>0, <1>2, OneEvictionIsEnough
    <2>3. k \in 0..n /\ n - k < Max
        BY <1>2, <2>1, <2>2
    <2>4. /\ entries' = Without(k) \cup {token[w]}
          /\ order' = Append(kept, token[w])
        BY <1>2 DEF Put
    <2> HIDE DEF k
    <2>5. /\ kept \in Seq(Tokens) /\ Len(kept) = n - k
          /\ \A i \in 1..(n - k) : kept[i] = order[k + i]
        BY <1>0, <2>1, <2>3 DEF TypeOK
    <2> HIDE DEF kept
    <2>6. /\ order' \in Seq(Tokens) /\ Len(order') = n - k + 1
          /\ \A i \in 1..(n - k) : order'[i] = order[k + i]
          /\ order'[n - k + 1] = token[w]
        BY <1>0, <2>1, <2>3, <2>4, <2>5
    <2>7. /\ entries = {order[i] : i \in 1..n}
          /\ \A i, j \in 1..n : order[i] = order[j] => i = j
        BY <1>0 DEF CacheBounded
    <2>8. Without(k) = {order[k + i] : i \in 1..(n - k)}
        <3>1. ASSUME NEW t \in Without(k) PROVE t \in {order[k + i] : i \in 1..(n - k)}
            <4>1. PICK m \in 1..n : t = order[m] /\ m \notin 1..k
                BY <2>3, <2>7 DEF Without
            <4>2. m - k \in 1..(n - k) /\ k + (m - k) = m
                BY <2>1, <2>3, <4>1
            <4> QED BY <4>1, <4>2
        <3>2. ASSUME NEW i \in 1..(n - k) PROVE order[k + i] \in Without(k)
            <4>1. k + i \in 1..n /\ \A j \in 1..k : j \in 1..n /\ j # k + i
                BY <2>1, <2>3
            <4> QED BY <2>7, <4>1 DEF Without
        <3> QED BY <3>1, <3>2
    <2>9. 1..(n - k + 1) = 1..(n - k) \cup {n - k + 1}
        BY <2>1, <2>3
    <2>10. entries' = {order'[i] : i \in 1..Len(order')}
        <3>1. {order'[i] : i \in 1..(n - k + 1)}
                = {order'[i] : i \in 1..(n - k)} \cup {order'[n - k + 1]}
            BY <2>9
        <3>2. {order'[i] : i \in 1..(n - k)} = {order[k + i] : i \in 1..(n - k)}
            BY <2>6
        <3> QED BY <2>4, <2>6, <2>8, <3>1, <3>2
    <2>11. \A i, j \in 1..Len(order') : order'[i] = order'[j] => i = j
        <3>1. \A i \in 1..(n - k) : order'[i] # token[w]
            <4> TAKE i \in 1..(n - k)
            <4>1. k + i \in 1..n
                BY <2>1, <2>3
            <4> QED BY <1>2, <2>6, <2>7, <4>1
        <3>2. \A i, j \in 1..(n - k) : order'[i] = order'[j] => i = j
            <4> TAKE i, j \in 1..(n - k)
            <4>1. k + i \in 1..n /\ k + j \in 1..n /\ (k + i = k + j => i = j)
                BY <2>1, <2>3
            <4> QED BY <2>6, <2>7, <4>1
        <3> QED BY <2>6, <2>9, <3>1, <3>2
    <2>12. Len(order') <= Max
        BY <2>1, <2>3, <2>6
    <2>13. entries' \subseteq entries \cup {token[w]}
        BY <2>4 DEF Without
    <2> QED BY <2>6, <2>10, <2>11, <2>12, <2>13 DEF CacheBounded
<1> QED BY <1>1, <1>2

-----------------------------------------------------------------------------
(* The verdicts.                                                           *)

\* A token whose signature is verified gets the verdict its claims give it.
LEMMA VerifiedJudgement ==
    ASSUME NEW t \in Tokens, NEW now, Verified(t)
    PROVE  Judgement(t, now) = IF ClaimsHold(t, now) THEN Facts[t].role ELSE Refused
BY DEF Verified, Judgement

\* A token that is not genuine, or has not three parts, is refused at any time.
LEMMA UnverifiedJudgement ==
    ASSUME NEW t \in Tokens, NEW now, ~Facts[t].parts \/ ~Facts[t].genuine
    PROVE  Judgement(t, now) = Refused
BY DEF Judgement

\* No verdict a worker can say is Pending.
LEMMA VerdictsAreNotPending ==
    /\ Pending \notin Verdicts
    /\ \A t \in Tokens : Facts[t].role \in Verdicts
BY FactAssumption, VerdictAssumption DEF Verdicts

-----------------------------------------------------------------------------
(* The invariant.                                                          *)

LEMMA InitIInv == Init => IInv
<1> SUFFICES ASSUME Init PROVE IInv
    OBVIOUS
<1>1. 0 \in Times
    BY TimeAssumption DEF Times
<1>2. TypeOK
    BY <1>1 DEF Init, TypeOK
<1>3. CacheBounded
    BY MaxAssumption DEF Init, CacheBounded
<1>4. VerifiedInv /\ CacheTransparent
    BY DEF Init, VerifiedInv, CacheTransparent
<1> QED BY <1>2, <1>3, <1>4 DEF IInv

\* A step that leaves the cache alone keeps what is said of the cache alone.
LEMMA CacheUnchanged ==
    ASSUME IInv, UNCHANGED cacheVars
    PROVE  CacheBounded' /\ \A t \in entries' : Verified(t)
BY DEF IInv, cacheVars, CacheBounded, VerifiedInv

LEMMA NextKeepsIInv == IInv /\ [Next]_vars => IInv'
<1> SUFFICES ASSUME IInv, [Next]_vars PROVE IInv'
    OBVIOUS
<1> USE VerdictsAreNotPending
<1>0. TypeOK /\ VerifiedInv /\ CacheTransparent
    BY DEF IInv
<1>1. ASSUME NEW w \in Workers, NEW t \in Tokens, Ask(w, t) PROVE IInv'
    <2>1. TypeOK'
        BY <1>0, <1>1 DEF Ask, Step, Say, TypeOK, cacheVars, Verdicts
    <2>2. CacheBounded' /\ \A s \in entries' : Verified(s)
        BY <1>1, CacheUnchanged DEF Ask
    <2>3. VerifiedInv'
        BY <1>0, <1>1, <2>2 DEF Ask, Step, TypeOK, VerifiedInv
    <2>4. CacheTransparent'
        BY <1>0, <1>1, UnverifiedJudgement DEF Ask, Step, Say, TypeOK, CacheTransparent
    <2> QED BY <2>1, <2>2, <2>3, <2>4 DEF IInv
<1>2. ASSUME NEW w \in Workers, Get(w) PROVE IInv'
    <2>1. TypeOK'
        BY <1>0, <1>2 DEF Get, Step, TypeOK, cacheVars
    <2>2. CacheBounded' /\ \A s \in entries' : Verified(s)
        BY <1>2, CacheUnchanged DEF Get
    <2>3. VerifiedInv'
        BY <1>0, <1>2, <2>2 DEF Get, Step, TypeOK, VerifiedInv
    <2>4. CacheTransparent'
        BY <1>0, <1>2 DEF Get, Step, TypeOK, CacheTransparent
    <2> QED BY <2>1, <2>2, <2>3, <2>4 DEF IInv
<1>3. ASSUME NEW w \in Workers, Verify(w) PROVE IInv'
    <2>1. TypeOK'
        BY <1>0, <1>3 DEF Verify, Step, Say, TypeOK, cacheVars, Verdicts
    <2>2. CacheBounded' /\ \A s \in entries' : Verified(s)
        BY <1>3, CacheUnchanged DEF Verify
    <2>3. VerifiedInv'
        BY <1>0, <1>3, <2>2 DEF Verify, Step, TypeOK, VerifiedInv, Verified
    <2>4. CacheTransparent'
        BY <1>0, <1>3, UnverifiedJudgement DEF Verify, Step, Say, TypeOK, CacheTransparent
    <2> QED BY <2>1, <2>2, <2>3, <2>4 DEF IInv
<1>4. ASSUME NEW w \in Workers, Put(w) PROVE IInv'
    <2>1. CacheBounded' /\ order' \in Seq(Tokens) /\ entries' \subseteq entries \cup {token[w]}
        BY <1>4, PutKeepsOrder
    <2>2. pc[w] = "put" /\ pc' = [pc EXCEPT ![w] = "check"]
          /\ UNCHANGED <<clock, token, verdict, checked>>
        BY <1>4 DEF Put, Step
    <2>3. TypeOK'
        BY <1>0, <2>1, <2>2 DEF TypeOK
    <2>4. VerifiedInv'
        BY <1>0, <2>1, <2>2 DEF TypeOK, VerifiedInv
    <2>5. CacheTransparent'
        BY <1>0, <2>2 DEF TypeOK, CacheTransparent
    <2> QED BY <2>1, <2>3, <2>4, <2>5 DEF IInv
<1>5. ASSUME NEW w \in Workers, CheckClaims(w) PROVE IInv'
    <2>1. TypeOK'
        BY <1>0, <1>5 DEF CheckClaims, Step, Say, TypeOK, cacheVars, Verdicts
    <2>2. CacheBounded' /\ \A s \in entries' : Verified(s)
        BY <1>5, CacheUnchanged DEF CheckClaims
    <2>3. VerifiedInv'
        BY <1>0, <1>5, <2>2 DEF CheckClaims, Step, TypeOK, VerifiedInv
    <2>4. Judgement(token[w], clock)
            = IF ClaimsHold(token[w], clock) THEN Facts[token[w]].role ELSE Refused
        BY <1>0, <1>5, VerifiedJudgement DEF CheckClaims, TypeOK, VerifiedInv
    <2>5. CacheTransparent'
        BY <1>0, <1>5, <2>4 DEF CheckClaims, Step, Say, TypeOK, CacheTransparent
    <2> QED BY <2>1, <2>2, <2>3, <2>5 DEF IInv
<1>6. ASSUME NEW w \in Workers, Return(w) PROVE IInv'
    <2>1. TypeOK'
        BY <1>0, <1>6 DEF Return, Step, Say, TypeOK, cacheVars
    <2>2. CacheBounded' /\ \A s \in entries' : Verified(s)
        BY <1>6, CacheUnchanged DEF Return
    <2>3. VerifiedInv'
        BY <1>0, <1>6, <2>2 DEF Return, Step, TypeOK, VerifiedInv
    <2>4. CacheTransparent'
        BY <1>0, <1>6 DEF Return, Step, Say, TypeOK, CacheTransparent
    <2> QED BY <2>1, <2>2, <2>3, <2>4 DEF IInv
<1>7. CASE Tick
    BY <1>0, <1>7, CacheUnchanged
    DEF Tick, IInv, TypeOK, VerifiedInv, CacheTransparent, cacheVars, workerVars
<1>8. CASE UNCHANGED vars
    BY <1>0, <1>8, CacheUnchanged
    DEF vars, IInv, TypeOK, VerifiedInv, CacheTransparent, cacheVars
<1> QED BY <1>1, <1>2, <1>3, <1>4, <1>5, <1>6, <1>7, <1>8 DEF Next, Verifying

LEMMA Invariance == Spec => []IInv
BY InitIInv, NextKeepsIInv, PTL DEF Spec

-----------------------------------------------------------------------------
\* The types of the cache and of its workers hold in every state.
THEOREM TypeCorrect == Spec => []TypeOK
BY Invariance, PTL DEF IInv

\* The cache never holds more tokens than jwt-cache-max-entries, and its order
\* lists what it holds, each token once: eviction always drops the oldest one.
THEOREM CacheKeepsItsBound == Spec => []CacheBounded
BY Invariance, PTL DEF IInv

\* With the cache, and with any number of goroutines in it, every token gets
\* the verdict it would get without.
THEOREM CacheChangesNoVerdict == Spec => []CacheTransparent
BY Invariance, PTL DEF IInv

=============================================================================
