----------------------------- MODULE TokenCache ----------------------------
(***************************************************************************)
(* The Bearer tokens of internal/jwt/token.go: Verifier.Role and the cache *)
(* of verified signatures that the handler goroutines share.  Each lock of *)
(* the cache is one step; signatures are verified and the clock is read    *)
(* outside it.                                                             *)
(*                                                                         *)
(* A token is abstracted to what the verifier can learn of it: whether it  *)
(* has three parts, whether its HS256 signature verifies, its time claims, *)
(* whether its audience is accepted and the role its role claim names.     *)
(*                                                                         *)
(* An operator named Bug... is a faulty variant of the definition below    *)
(* it, which the specification does not use.                               *)
(***************************************************************************)
EXTENDS Integers, Sequences, FiniteSets

CONSTANTS
    Workers,      \* the goroutines that verify tokens
    Tokens,       \* the tokens clients send
    Facts,        \* Facts[t]: what the verifier learns of token t
    NoTime,       \* a time claim the token does not hold
    NoRole,       \* the token names no role: ErrNoRole
    Refused,      \* the verdict of every other error
    Pending,      \* no verdict yet
    RoleNames,    \* the roles tokens name
    Skew,         \* the clock skew that is allowed, 30 seconds
    Max,          \* jwt-cache-max-entries; 0 turns the cache off
    MaxTime       \* bound on the clock

Times == 0..MaxTime
ASSUME MaxAssumption  == Max \in Nat
ASSUME TimeAssumption == MaxTime \in Nat /\ Skew \in Nat
ASSUME FactAssumption ==
    Facts \in [Tokens -> [parts : BOOLEAN, genuine : BOOLEAN, aud : BOOLEAN,
                          exp : Int \cup {NoTime}, nbf : Int \cup {NoTime},
                          iat : Int \cup {NoTime}, role : RoleNames \cup {NoRole}]]
ASSUME VerdictAssumption == Pending # Refused /\ Pending # NoRole /\ Pending \notin RoleNames

VARIABLES
    clock,        \* the wall clock, in seconds
    order,        \* tokenCache.order: the tokens held, oldest first
    entries,      \* the keys of tokenCache.entries
    pc,           \* pc[w]: what worker w does next
    token,        \* token[w]: the token it verifies
    verdict,      \* verdict[w]: the role, NoRole or Refused
    checked       \* checked[w]: the clock when it looked at the claims

cacheVars  == <<order, entries>>
workerVars == <<pc, token, verdict, checked>>
vars       == <<clock, order, entries, pc, token, verdict, checked>>

Verdicts == RoleNames \cup {NoRole, Refused}

TypeOK ==
    /\ clock \in Times
    /\ order \in Seq(Tokens)
    /\ entries \subseteq Tokens
    /\ pc \in [Workers -> {"idle", "get", "verify", "put", "check", "done"}]
    /\ token \in [Workers -> Tokens]
    /\ verdict \in [Workers -> Verdicts \cup {Pending}]
    /\ checked \in [Workers -> Times]
    /\ \A w \in Workers : pc[w] = "done" <=> verdict[w] # Pending

Init ==
    /\ clock \in Times
    /\ order = <<>> /\ entries = {}
    /\ pc = [w \in Workers |-> "idle"]
    /\ token \in [Workers -> Tokens]
    /\ verdict = [w \in Workers |-> Pending]
    /\ checked = [w \in Workers |-> 0]

-----------------------------------------------------------------------------
(* checkClaims at second `now'.                                            *)

Expired(t, now)     == Facts[t].exp # NoTime /\ now - Skew > Facts[t].exp
NotYet(claim, now)  == claim # NoTime /\ now + Skew < claim

ClaimsHold(t, now) ==
    /\ ~Expired(t, now)
    /\ ~NotYet(Facts[t].nbf, now) /\ ~NotYet(Facts[t].iat, now)
    /\ Facts[t].aud

\* What a verifier without a cache says of token t at second now.
Judgement(t, now) ==
    IF Facts[t].parts /\ Facts[t].genuine /\ ClaimsHold(t, now) THEN Facts[t].role ELSE Refused

-----------------------------------------------------------------------------
(* Verifier.parse, step by step.                                           *)

Step(w, next) == pc' = [pc EXCEPT ![w] = next]
Say(w, v)     == verdict' = [verdict EXCEPT ![w] = v]

\* A token without three parts is refused before the cache is asked.
Ask(w, t) ==
    /\ pc[w] = "idle"
    /\ token' = [token EXCEPT ![w] = t]
    /\ Step(w, IF Facts[t].parts THEN "get" ELSE "done")
    /\ Say(w, IF Facts[t].parts THEN Pending ELSE Refused)
    /\ UNCHANGED <<clock, cacheVars, checked>>

\* A cached token is taken for valid without a look at its claims.
BugTrustCached(w) ==
    /\ pc[w] = "get"
    /\ Step(w, IF token[w] \in entries THEN "done" ELSE "verify")
    /\ Say(w, IF token[w] \in entries THEN Facts[token[w]].role ELSE Pending)
    /\ checked' = [checked EXCEPT ![w] = clock]
    /\ UNCHANGED <<clock, cacheVars, token>>

\* tokenCache.get; with max = 0 the cache stays empty.
Get(w) ==
    /\ pc[w] = "get"
    /\ Step(w, IF token[w] \in entries THEN "check" ELSE "verify")
    /\ UNCHANGED <<clock, cacheVars, token, verdict, checked>>

\* The error of a token that does not verify is lost.
BugLoseError(w) ==
    /\ pc[w] = "verify"
    /\ Step(w, IF Facts[token[w]].genuine THEN "put" ELSE "done")
    /\ UNCHANGED <<clock, cacheVars, token, verdict, checked>>

\* verifySignature, outside the lock.
Verify(w) ==
    /\ pc[w] = "verify"
    /\ Step(w, IF Facts[token[w]].genuine THEN "put" ELSE "done")
    /\ Say(w, IF Facts[token[w]].genuine THEN Pending ELSE Refused)
    /\ UNCHANGED <<clock, cacheVars, token, checked>>

\* evictToMakeRoom drops the oldest while the cache is full.
Without(i) == entries \ {order[j] : j \in 1..i}
Roomy(i)   == Cardinality(Without(i)) < Max \/ i = Len(order)
Evictions  == CHOOSE i \in 0..Len(order) :
                  Roomy(i) /\ \A j \in 0..Len(order) : Roomy(j) => i <= j

\* The token is not looked up again before it is put in.
BugPutTwice(w) ==
    /\ pc[w] = "put"
    /\ Step(w, "check")
    /\ IF Max = 0 THEN UNCHANGED cacheVars
       ELSE /\ entries' = Without(Evictions) \cup {token[w]}
            /\ order' = Append(SubSeq(order, Evictions + 1, Len(order)), token[w])
    /\ UNCHANGED <<clock, token, verdict, checked>>

\* tokenCache.put: another worker may have put the token in meanwhile.
Put(w) ==
    /\ pc[w] = "put"
    /\ Step(w, "check")
    /\ IF Max = 0 \/ token[w] \in entries THEN UNCHANGED cacheVars
       ELSE /\ entries' = Without(Evictions) \cup {token[w]}
            /\ order' = Append(SubSeq(order, Evictions + 1, Len(order)), token[w])
    /\ UNCHANGED <<clock, token, verdict, checked>>

\* checkClaims, and the role claim.
CheckClaims(w) ==
    /\ pc[w] = "check"
    /\ Step(w, "done")
    /\ Say(w, IF ClaimsHold(token[w], clock) THEN Facts[token[w]].role ELSE Refused)
    /\ checked' = [checked EXCEPT ![w] = clock]
    /\ UNCHANGED <<clock, cacheVars, token>>

\* The handler has used the verdict.
Return(w) ==
    /\ pc[w] = "done"
    /\ Step(w, "idle")
    /\ Say(w, Pending)
    /\ UNCHANGED <<clock, cacheVars, token, checked>>

\* The wall clock moves, and an adjustment may set it back.
Tick ==
    /\ clock' \in Times
    /\ UNCHANGED <<cacheVars, workerVars>>

Verifying(w) ==
    \/ \E t \in Tokens : Ask(w, t)
    \/ Get(w) \/ Verify(w) \/ Put(w) \/ CheckClaims(w) \/ Return(w)

Next == Tick \/ \E w \in Workers : Verifying(w)

Spec == Init /\ [][Next]_vars

-----------------------------------------------------------------------------
\* The cache holds no more tokens than jwt-cache-max-entries, and its order
\* lists each token it holds exactly once, or eviction would drop the wrong
\* tokens and the list would grow without end.  Two workers may verify and put
\* in the same token at the same time.
CacheBounded ==
    /\ Len(order) <= Max
    /\ entries = {order[i] : i \in 1..Len(order)}
    /\ \A i, j \in 1..Len(order) : order[i] = order[j] => i = j

\* The cache changes no verdict: whatever it holds and whoever else uses it,
\* each token gets the verdict that its signature and the clock at the moment
\* its claims were checked give it, so a token that expires in the cache is
\* refused and a forged one never profits from it.
CacheTransparent ==
    \A w \in Workers : pc[w] = "done" => verdict[w] = Judgement(token[w], checked[w])

=============================================================================
