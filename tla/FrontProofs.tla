---------------------------- MODULE FrontProofs ----------------------------
(* Proofs about Front, for every catalog, every set of accounts and roles, and *)
(* every first request: what runs is granted and asked for, what is advertised *)
(* is served, and a proposed hint finds its path.                              *)
EXTENDS Front, PrivilegesProofs, FiniteSetTheorems, WellFoundedInduction, SequenceTheorems, TLAPS

-----------------------------------------------------------------------------
(* The orders of the checks.                                                   *)

\* In the order o, every b comes after an a.
Before(o, a, b) == \A i \in DOMAIN o : o[i] = b => \E j \in 1 .. i - 1 : o[j] = a

\* What every order keeps to: the role and admission come first.
SoundOrder(o) ==
    /\ Len(o) \in Nat \ {0} /\ DOMAIN o = 1 .. Len(o)
    /\ \A i, j \in DOMAIN o : o[i] = o[j] => i = j
    /\ \A b \in {"admit", "allow", "document"} : Before(o, "role", b)
    /\ \A b \in {"plan", "represent", "key", "run"} : Before(o, "admit", b)
    /\ \A i, j \in DOMAIN o : (o[i] = "run" /\ i < j) => o[j] = "plan"

\* What the order of a request keeps to.
OrderFits(o, surface, method) ==
    /\ (\E i \in DOMAIN o : o[i] \in {"admit", "run", "allow"}) => surface # "root"
    /\ (\E i \in DOMAIN o : o[i] \in {"admit", "run"}) => method # "OPTIONS"
    /\ method # "PUT" => Before(o, "query", "run")
    /\ ~(surface = "table" /\ method \in {"GET", "HEAD"}) => Before(o, "prefer", "run")
    /\ (surface = "table" /\ method \in WriteMethods) => Before(o, "represent", "run")
    /\ surface = "routine" => Before(o, "run", "plan")
    /\ o[Len(o)] \in {"allow", "document", IF surface = "routine" THEN "plan" ELSE "run"}

LEMMA ReadOrderSound ==
    ASSUME NEW method \in {"GET", "HEAD"}
    PROVE  SoundOrder(ReadOrder) /\ OrderFits(ReadOrder, "table", method)
BY DEF SoundOrder, OrderFits, Before, WriteMethods, ReadOrder

LEMMA InsertOrderSound == SoundOrder(InsertOrder) /\ OrderFits(InsertOrder, "table", "POST")
BY DEF SoundOrder, OrderFits, Before, WriteMethods, InsertOrder

LEMMA PatchOrderSound == SoundOrder(PatchOrder) /\ OrderFits(PatchOrder, "table", "PATCH")
BY DEF SoundOrder, OrderFits, Before, WriteMethods, PatchOrder

LEMMA DeleteOrderSound == SoundOrder(DeleteOrder) /\ OrderFits(DeleteOrder, "table", "DELETE")
BY DEF SoundOrder, OrderFits, Before, WriteMethods, DeleteOrder

LEMMA PutOrderSound == SoundOrder(PutOrder) /\ OrderFits(PutOrder, "table", "PUT")
BY DEF SoundOrder, OrderFits, Before, WriteMethods, PutOrder

LEMMA RoutineOrderSound ==
    /\ SoundOrder(PostRoutineOrder) /\ OrderFits(PostRoutineOrder, "routine", "POST")
    /\ SoundOrder(GetRoutineOrder)
    /\ \A method \in {"GET", "HEAD"} : OrderFits(GetRoutineOrder, "routine", method)
<1>1. GetRoutineOrder = <<"role", "resource", "admit", "query", "prefer", "media", "run", "plan">>
  BY DEF GetRoutineOrder, PostRoutineOrder
<1> QED
  BY <1>1 DEF SoundOrder, OrderFits, Before, WriteMethods, PostRoutineOrder

LEMMA OtherOrderSound ==
    /\ SoundOrder(OptionsOrder) /\ SoundOrder(RootOrder)
    /\ \A surface \in {"table", "routine"} : OrderFits(OptionsOrder, surface, "OPTIONS")
    /\ \A method \in {"GET", "HEAD"} : OrderFits(RootOrder, "root", method)
BY DEF SoundOrder, OrderFits, Before, WriteMethods, OptionsOrder, RootOrder

LEMMA Orders ==
    ASSUME NEW r, r.surface \in {"root", "table", "routine"}, r.method \in MethodsOn(r.surface)
    PROVE  SoundOrder(OrderOf(r)) /\ OrderFits(OrderOf(r), r.surface, r.method)
<1>1. CASE r.surface = "root"
  BY <1>1, OtherOrderSound DEF MethodsOn, OrderOf
<1>2. CASE r.surface = "routine"
  BY <1>2, OtherOrderSound, RoutineOrderSound DEF MethodsOn, OrderOf
<1>3. CASE r.surface = "table"
  BY <1>3, OtherOrderSound, ReadOrderSound, InsertOrderSound, PatchOrderSound, DeleteOrderSound,
     PutOrderSound DEF MethodsOn, OrderOf, WriteMethods
<1> QED
  BY <1>1, <1>2, <1>3

-----------------------------------------------------------------------------
(* The invariant of a request.                                                 *)

\* A path of asks: a sequence of records.
PathOK(path) ==
    \E n \in Nat : /\ DOMAIN path = 1 .. n
                   /\ \A i \in 1 .. n : DOMAIN path[i] = {"target", "hint", "spread"}

Formed(r) ==
    /\ DOMAIN r = {"surface", "method", "target", "who", "header", "path", "expects"}
    /\ r.surface \in {"root", "table", "routine"} /\ r.method \in MethodsOn(r.surface)
    /\ r.who \in Credentials /\ r.header \in Seq(PreferTokens) /\ PathOK(r.path)

RequestInv == settings \in Settings /\ Formed(req)

\* The checks the request has passed.
Passed == {OrderOf(req)[i] : i \in 1 .. stage - 1}
\* The queries its surface takes.
GoodQueries == {q \in Queries \cup {"none"} : QueryRefusal(q) = "none"}

\* What admission has found out, and what it is good for.
Admitted ==
    /\ verdict = "admitted" /\ AuthRefusal = "none" /\ using.version > 0
    /\ Admission(using, Account, req) = "ok"
    /\ req.surface # "root" /\ req.method # "OPTIONS"

PassedInv ==
    stage # 0 =>
        /\ answer = "none"
        /\ "role" \in Passed => AuthRefusal = "none"
        /\ IF "admit" \in Passed THEN Admitted
           ELSE verdict = "pending" /\ planned = NotPlanned /\ ~ran
        /\ "prefer" \in Passed => ~StrictRefusal(Prefers, PreferSurface)
        /\ IF "query" \in Passed THEN query \in GoodQueries ELSE query = "none"
        /\ "represent" \in Passed => ~(Represents /\ RepresentationProblem)
        /\ ran <=> "run" \in Passed

\* What is true of every request that runs.
RanInv ==
    ran => /\ Admitted
           /\ ~StrictRefusal(Prefers, PreferSurface) /\ query \in GoodQueries
           /\ Writes => ~(Represents /\ RepresentationProblem)
           /\ (req.surface = "routine" /\ req.method # "POST") => ReadSafe(using, req.target)

\* Why admission has refused.
RefusedInv ==
    verdict = "refused" =>
        /\ stage = 0 /\ ~ran /\ AuthRefusal = "none" /\ using.version > 0
        /\ req.surface # "root" /\ req.method # "OPTIONS"
        /\ \/ Admission(using, Account, req) # "ok" /\ answer = Admission(using, Account, req)
           \/ /\ answer = "not read-safe" /\ req.surface = "routine" /\ req.method # "POST"
              /\ ~ReadSafe(using, req.target)

StageInv ==
    /\ stage \in 0 .. Len(OrderOf(req)) /\ asks \in 0 .. 2
    /\ verdict \in {"pending", "admitted", "refused"}
    /\ query \in Queries \cup {"none"}
    /\ planned.answer \in {"none", "found", "missing", "computed", "ambiguous", "spread"}
    /\ ran \in BOOLEAN /\ answer \in Codes \cup {"none"}
    /\ PassedInv /\ RanInv /\ RefusedInv

-----------------------------------------------------------------------------
(* How a check moves the request.                                              *)

\* What a check reads of the request and of the snapshot that admitted it.
LEMMA SameRequest ==
    ASSUME UNCHANGED <<settings, req>>
    PROVE  /\ AuthRefusal' = AuthRefusal /\ Account' = Account
           /\ Prefers' = Prefers /\ PreferSurface' = PreferSurface
           /\ Writes' = Writes /\ Represents' = Represents
           /\ GoodQueries' = GoodQueries
           /\ UNCHANGED using => RepresentationProblem' = RepresentationProblem
BY DEF AuthRefusal, Account, UsesAnonymous, Prefers, PreferSurface, Writes, Represents,
       QueryRefusal, GoodQueries, RepresentationProblem

LEMMA AtCheck ==
    ASSUME RequestInv, StageInv, NEW check, At(check)
    PROVE  /\ stage \in 1 .. Len(OrderOf(req)) /\ Len(OrderOf(req)) \in Nat
           /\ OrderOf(req)[stage] = check /\ check \notin Passed
           /\ SoundOrder(OrderOf(req)) /\ OrderFits(OrderOf(req), req.surface, req.method)
           /\ \A a : Before(OrderOf(req), a, check) => a \in Passed
           /\ \A b : Before(OrderOf(req), check, b) => b \notin Passed
           /\ "run" \in Passed => check = "plan"
<1> DEFINE o == OrderOf(req)
<1>1. SoundOrder(o) /\ OrderFits(o, req.surface, req.method)
  BY Orders DEF RequestInv, Formed
<1>2. stage \in 1 .. Len(o) /\ o[stage] = check /\ Len(o) \in Nat /\ DOMAIN o = 1 .. Len(o)
  BY <1>1 DEF At, StageInv, SoundOrder
<1>3. check \notin Passed
  BY <1>1, <1>2 DEF Passed, SoundOrder
<1>4. \A a : Before(o, a, check) => a \in Passed
  BY <1>2 DEF Before, Passed
<1>5. "run" \in Passed => check = "plan"
  BY <1>1, <1>2 DEF SoundOrder, Passed
<1>6. \A b : Before(o, check, b) => b \notin Passed
  BY <1>1, <1>2 DEF Before, Passed, SoundOrder
<1> QED
  BY <1>1, <1>2, <1>3, <1>4, <1>5, <1>6

\* To pass a check that is not the last one is to have passed it.
LEMMA PassMoves ==
    ASSUME RequestInv, StageInv, req' = req, NEW check, At(check), Pass,
           check \notin {"run", "allow", "document"}, check = "plan" => req.surface = "table"
    PROVE  /\ stage' \in 1 .. Len(OrderOf(req)) /\ UNCHANGED <<answer, ran>>
           /\ Passed' = Passed \cup {check}
<1> DEFINE o == OrderOf(req)
<1>1. /\ stage \in 1 .. Len(o) /\ o[stage] = check /\ Len(o) \in Nat
      /\ OrderFits(o, req.surface, req.method)
  BY AtCheck
<1>2. stage < Len(o)
  BY <1>1 DEF OrderFits
<1>3. stage' = stage + 1 /\ UNCHANGED <<answer, ran>>
  BY <1>2 DEF Pass
<1>4. Passed' = Passed \cup {check}
  BY <1>1, <1>3 DEF Passed
<1> QED
  BY <1>1, <1>2, <1>3, <1>4

\* A check that lets the request go on.
LEMMA PassKeeps ==
    ASSUME RequestInv, StageInv, NEW check, Check(check), Pass,
           check \notin {"run", "allow", "document", "admit"},
           check = "plan" => req.surface = "table",
           UNCHANGED <<using, verdict>>,
           IF check = "query" THEN query' \in Queries \cap GoodQueries
           ELSE UNCHANGED query,
           IF check = "plan"
             THEN planned'.answer \in {"none", "found", "missing", "computed", "ambiguous", "spread"}
             ELSE UNCHANGED planned,
           check = "role" => AuthRefusal = "none",
           check = "prefer" => ~StrictRefusal(Prefers, PreferSurface),
           check = "represent" => ~(Represents /\ RepresentationProblem)
    PROVE  StageInv'
<1>1. At(check) /\ UNCHANGED <<settings, req, asks>>
  BY DEF Check
<1>2. /\ stage' \in 1 .. Len(OrderOf(req)) /\ UNCHANGED <<answer, ran>>
      /\ Passed' = Passed \cup {check}
  BY <1>1, PassMoves
<1>3. /\ AuthRefusal' = AuthRefusal /\ Account' = Account
      /\ Prefers' = Prefers /\ PreferSurface' = PreferSurface
      /\ Writes' = Writes /\ Represents' = Represents
      /\ GoodQueries' = GoodQueries
      /\ RepresentationProblem' = RepresentationProblem
  BY <1>1, SameRequest
<1>4. stage # 0 /\ ("run" \in Passed => check = "plan")
  BY <1>1, AtCheck DEF At
<1>5. PassedInv'
  <2>1. check = "plan" => "admit" \in Passed
    BY <1>1, AtCheck DEF SoundOrder
  <2>2. Admitted' <=> Admitted
    BY <1>1, <1>3 DEF Admitted
  <2> QED
    BY <1>1, <1>2, <1>3, <1>4, <2>1, <2>2 DEF PassedInv, StageInv
<1>6. RanInv'
  <2>1. ran => check = "plan"
    BY <1>4 DEF StageInv, PassedInv
  <2> QED
    BY <1>1, <1>2, <1>3, <2>1 DEF RanInv, Admitted, StageInv
<1>7. RefusedInv'
  BY <1>4 DEF StageInv, RefusedInv
<1> QED
  BY <1>1, <1>2, <1>5, <1>6, <1>7 DEF StageInv

\* A check that refuses the request.
LEMMA RefuseKeeps ==
    ASSUME RequestInv, StageInv, NEW check, Check(check), NEW code \in Codes, Refuse(code),
           UNCHANGED <<using, verdict>>,
           IF check = "query" THEN query' \in Queries ELSE UNCHANGED query,
           planned'.answer \in {"none", "found", "missing", "computed", "ambiguous", "spread"}
    PROVE  StageInv'
<1>1. At(check) /\ UNCHANGED <<settings, req, asks>>
  BY DEF Check
<1>2. stage' = 0 /\ answer' = code /\ UNCHANGED ran
  BY DEF Refuse
<1>3. /\ AuthRefusal' = AuthRefusal /\ Account' = Account
      /\ Prefers' = Prefers /\ PreferSurface' = PreferSurface
      /\ Writes' = Writes /\ Represents' = Represents
      /\ GoodQueries' = GoodQueries
      /\ RepresentationProblem' = RepresentationProblem
  BY <1>1, SameRequest
<1>4. stage # 0 /\ ("run" \in Passed => check = "plan")
  BY <1>1, AtCheck DEF At
<1>5. RanInv'
  <2>1. ran => check = "plan"
    BY <1>4 DEF StageInv, PassedInv
  <2> QED
    BY <1>1, <1>2, <1>3, <2>1 DEF RanInv, Admitted, StageInv
<1>6. PassedInv' /\ RefusedInv'
  BY <1>2, <1>4 DEF StageInv, PassedInv, RefusedInv
<1>7. Len(OrderOf(req)) \in Nat
  BY <1>1, AtCheck
<1> QED
  BY <1>1, <1>2, <1>5, <1>6, <1>7 DEF StageInv

\* Before its statements run, a request has passed every check of its order.
LEMMA ReadyToRun ==
    ASSUME RequestInv, StageInv, At("run")
    PROVE  /\ Admitted /\ ~StrictRefusal(Prefers, PreferSurface) /\ query \in GoodQueries
           /\ Writes => ~(Represents /\ RepresentationProblem)
<1> DEFINE o == OrderOf(req)
<1>1. /\ stage # 0 /\ SoundOrder(o) /\ OrderFits(o, req.surface, req.method)
      /\ \A a : Before(o, a, "run") => a \in Passed
  BY AtCheck DEF At
<1>2. Admitted
  BY <1>1 DEF SoundOrder, StageInv, PassedInv
<1>3. req.surface \in {"table", "routine"} /\ req.method \in {"GET", "HEAD"} \cup WriteMethods
  BY <1>2 DEF Admitted, RequestInv, Formed, MethodsOn, WriteMethods
<1>4. query \in GoodQueries
  <2>1. CASE req.method = "PUT" /\ "query" \notin Passed
    <3>1. query = "none"
      BY <1>1, <2>1 DEF StageInv, PassedInv
    <3>2. PreferSurface # "read"
      BY <1>3, <2>1 DEF PreferSurface, Writes
    <3> QED
      BY <3>1, <3>2 DEF GoodQueries, QueryRefusal
  <2>2. CASE "query" \in Passed
    BY <1>1, <2>2 DEF StageInv, PassedInv
  <2> QED
    BY <1>1, <2>1, <2>2 DEF OrderFits
<1>5. ~StrictRefusal(Prefers, PreferSurface)
  <2>1. CASE "prefer" \in Passed
    BY <1>1, <2>1 DEF StageInv, PassedInv
  <2>2. CASE "prefer" \notin Passed
    <3>1. PreferSurface = "read" /\ ~Writes
      BY <1>1, <1>3, <2>2 DEF OrderFits, PreferSurface, Writes
    <3> QED
      BY <1>4, <3>1 DEF GoodQueries, QueryRefusal
  <2> QED
    BY <2>1, <2>2
<1>6. Writes => ~(Represents /\ RepresentationProblem)
  BY <1>1 DEF OrderFits, Writes, WriteMethods, StageInv, PassedInv
<1> QED
  BY <1>2, <1>4, <1>5, <1>6

-----------------------------------------------------------------------------
(* Every check keeps the invariant of the request.                             *)

\* A check that looks at one thing only.
LEMMA CheckKeeps ==
    ASSUME RequestInv, StageInv, NEW check, Check(check),
           check \in {"role", "resource", "prefer", "represent", "resolution", "body", "key", "media"},
           UNCHANGED <<using, verdict, query, planned>>,
           \/ /\ Pass
              /\ check = "role" => AuthRefusal = "none"
              /\ check = "prefer" => ~StrictRefusal(Prefers, PreferSurface)
              /\ check = "represent" => ~(Represents /\ RepresentationProblem)
           \/ \E code \in Codes : Refuse(code)
    PROVE  StageInv'
<1>1. planned'.answer \in {"none", "found", "missing", "computed", "ambiguous", "spread"}
  BY DEF StageInv
<1>2. CASE \E code \in Codes : Refuse(code)
  BY <1>1, <1>2, RefuseKeeps
<1> QED
  BY <1>2, PassKeeps

LEMMA AuthAnswers == AuthRefusal \in Codes \cup {"none"}
BY DEF AuthRefusal, Codes

LEMMA RoleKeeps == ASSUME RequestInv, StageInv, CheckRole PROVE StageInv'
<1>1. Check("role") /\ UNCHANGED <<using, verdict, query, planned>>
  BY DEF CheckRole
<1>2. (Pass /\ AuthRefusal = "none") \/ \E code \in Codes : Refuse(code)
  BY AuthAnswers DEF CheckRole
<1> QED
  BY <1>1, <1>2, CheckKeeps

LEMMA ResourceKeeps == ASSUME RequestInv, StageInv, CheckResource PROVE StageInv'
<1>1. Check("resource") /\ UNCHANGED <<using, verdict, query, planned>>
  BY DEF CheckResource
<1>2. Pass \/ \E code \in Codes : Refuse(code)
  BY DEF CheckResource, Codes
<1> QED
  BY <1>1, <1>2, CheckKeeps

LEMMA PreferKeeps == ASSUME RequestInv, StageInv, CheckPrefer PROVE StageInv'
<1>1. Check("prefer") /\ UNCHANGED <<using, verdict, query, planned>>
  BY DEF CheckPrefer
<1>2. \/ Pass /\ ~StrictRefusal(Prefers, PreferSurface)
      \/ \E code \in Codes : Refuse(code)
  BY DEF CheckPrefer, Codes
<1> QED
  BY <1>1, <1>2, CheckKeeps

LEMMA RepresentationKeeps == ASSUME RequestInv, StageInv, CheckRepresentation PROVE StageInv'
<1>1. Check("represent") /\ UNCHANGED <<using, verdict, query, planned>>
  BY DEF CheckRepresentation
<1>2. \/ Pass /\ ~(Represents /\ RepresentationProblem)
      \/ \E code \in Codes : Refuse(code)
  BY DEF CheckRepresentation, Codes
<1> QED
  BY <1>1, <1>2, CheckKeeps

LEMMA ResolutionKeeps == ASSUME RequestInv, StageInv, CheckResolution PROVE StageInv'
<1>1. Check("resolution") /\ UNCHANGED <<using, verdict, query, planned>>
  BY DEF CheckResolution
<1>2. Pass \/ \E code \in Codes : Refuse(code)
  BY DEF CheckResolution, Codes
<1> QED
  BY <1>1, <1>2, CheckKeeps

LEMMA BodyKeeps == ASSUME RequestInv, StageInv, CheckBody PROVE StageInv'
<1>1. Check("body") /\ UNCHANGED <<using, verdict, query, planned>>
  BY DEF CheckBody
<1>2. Pass \/ \E code \in Codes : Refuse(code)
  BY DEF CheckBody, Codes
<1> QED
  BY <1>1, <1>2, CheckKeeps

LEMMA KeyKeeps == ASSUME RequestInv, StageInv, CheckKey PROVE StageInv'
<1>1. Check("key") /\ UNCHANGED <<using, verdict, query, planned>>
  BY DEF CheckKey
<1>2. Pass \/ \E code \in Codes : Refuse(code)
  BY DEF CheckKey, Codes
<1> QED
  BY <1>1, <1>2, CheckKeeps

LEMMA MediaKeeps == ASSUME RequestInv, StageInv, CheckMedia PROVE StageInv'
<1>1. Check("media") /\ UNCHANGED <<using, verdict, query, planned>>
  BY DEF CheckMedia
<1>2. Pass \/ \E code \in Codes : Refuse(code)
  BY DEF CheckMedia, Codes
<1> QED
  BY <1>1, <1>2, CheckKeeps

LEMMA AdvertiseKeeps == ASSUME RequestInv, StageInv, Allow \/ Describe PROVE StageInv'
<1>1. \E check \in {"allow", "document"} : Check(check)
  BY DEF Allow, Describe
<1>2. \E code \in Codes : Refuse(code)
  BY DEF Allow, Describe, Served, Refuse, Codes
<1>3. UNCHANGED <<using, verdict, query, planned>>
  BY DEF Allow, Describe
<1>4. planned'.answer \in {"none", "found", "missing", "computed", "ambiguous", "spread"}
  BY <1>3 DEF StageInv
<1> QED
  BY <1>1, <1>2, <1>3, <1>4, RefuseKeeps

LEMMA QueryAnswers == \A q : QueryRefusal(q) \in Codes \cup {"none"}
BY DEF QueryRefusal, Codes

LEMMA QueryKeeps == ASSUME RequestInv, StageInv, CheckQuery PROVE StageInv'
<1>1. Check("query") /\ UNCHANGED <<using, verdict, planned>>
  BY DEF CheckQuery
<1>2. PICK q \in Queries :
          query' = q /\ IF QueryRefusal(q) = "none" THEN Pass ELSE Refuse(QueryRefusal(q))
  BY DEF CheckQuery
<1>3. CASE QueryRefusal(q) = "none"
  <2>1. query' \in Queries \cap GoodQueries
    BY <1>2, <1>3 DEF GoodQueries
  <2> QED
    BY <1>1, <1>2, <1>3, <2>1, PassKeeps
<1>4. CASE QueryRefusal(q) # "none"
  <2>1. planned'.answer \in {"none", "found", "missing", "computed", "ambiguous", "spread"}
    BY <1>1 DEF StageInv
  <2>2. QueryRefusal(q) \in Codes
    BY <1>4, QueryAnswers
  <2> QED
    BY <1>1, <1>2, <1>4, <2>1, <2>2, RefuseKeeps
<1> QED
  BY <1>3, <1>4

LEMMA PlanAnswers ==
    ASSUME NEW c, NEW readable, NEW from, NEW path
    PROVE  PlanEmbeds(c, readable, from, path).answer
               \in {"found", "missing", "computed", "ambiguous", "spread"}
<1>1. \A i : StepAnswer(c, readable, from, path, i).answer
                \in {"found", "missing", "computed", "ambiguous", "spread"}
  BY DEF StepAnswer, Resolve
<1> QED
  BY <1>1 DEF PlanEmbeds

LEMMA PlanKeeps == ASSUME RequestInv, StageInv, Plan PROVE StageInv'
<1>1. Check("plan") /\ req.surface = "table" /\ UNCHANGED <<using, verdict, query>>
  BY DEF Plan
<1>2. CASE Pass /\ UNCHANGED planned
  <2>1. planned'.answer \in {"none", "found", "missing", "computed", "ambiguous", "spread"}
    BY <1>2 DEF StageInv
  <2> QED
    BY <1>1, <1>2, <2>1, PassKeeps
<1>3. CASE \E c, readable : Planned(PlanEmbeds(c, readable, req.target, req.path))
  <2>1. PICK c, readable : Planned(PlanEmbeds(c, readable, req.target, req.path))
    BY <1>3
  <2> DEFINE plan == PlanEmbeds(c, readable, req.target, req.path)
  <2>2. plan.answer \in {"found", "missing", "computed", "ambiguous", "spread"}
    BY PlanAnswers
  <2>3. planned' = plan /\ IF plan.answer = "found" THEN Pass ELSE Refuse(plan.answer)
    BY <2>1 DEF Planned
  <2>4. plan.answer # "found" => plan.answer \in Codes
    BY <2>2 DEF Codes
  <2> HIDE DEF plan
  <2>5. CASE plan.answer = "found"
    BY <1>1, <2>2, <2>3, <2>5, PassKeeps
  <2>6. CASE plan.answer # "found"
    BY <1>1, <2>2, <2>3, <2>4, <2>6, RefuseKeeps
  <2> QED
    BY <2>5, <2>6
<1> QED
  BY <1>2, <1>3 DEF Plan

\* The embeds of a routine's rows are planned last.
LEMMA PlanRowsKeeps == ASSUME RequestInv, StageInv, PlanRows PROVE StageInv'
<1> DEFINE o == OrderOf(req)
<1>1. /\ At("plan") /\ Check("plan") /\ req.surface = "routine"
      /\ UNCHANGED <<settings, req, asks, using, verdict, query>>
  BY DEF PlanRows, Check
<1>2. /\ stage \in 1 .. Len(o) /\ Len(o) \in Nat /\ o[stage] = "plan"
      /\ SoundOrder(o) /\ OrderFits(o, req.surface, req.method)
      /\ \A a : Before(o, a, "plan") => a \in Passed
  BY <1>1, AtCheck
<1>3. "run" \in Passed
  BY <1>1, <1>2 DEF OrderFits
<1>4. ran = TRUE
  BY <1>2, <1>3 DEF StageInv, PassedInv
<1>5. planned'.answer \in {"none", "found", "missing", "computed", "ambiguous", "spread"}
  <2>1. planned' = planned \/ \E c, readable, origin : planned' = PlanEmbeds(c, readable, origin, req.path)
    BY DEF PlanRows
  <2> QED
    BY <2>1, PlanAnswers DEF StageInv
<1>6. CASE \E code \in Codes : Refuse(code)
  BY <1>1, <1>5, <1>6, RefuseKeeps
<1>7. CASE Pass
  <2>1. PICK i \in 1 .. stage - 1 : o[i] = "run"
    BY <1>3 DEF Passed
  <2>2. \A j \in 1 .. Len(o) : i < j => o[j] = "plan"
    BY <1>2, <2>1 DEF SoundOrder
  <2>3. stage = Len(o)
    <3>1. Len(o) \in 1 .. Len(o) /\ i < Len(o)
      BY <1>2, <2>1
    <3>2. o[Len(o)] = "plan"
      BY <2>2, <3>1
    <3> QED
      BY <1>2, <3>1, <3>2 DEF SoundOrder
  <2>4. stage' = 0 /\ answer' = "served" /\ ran' = ran
    <3>1. ~(stage < Len(o))
      BY <1>2, <2>3
    <3> QED
      BY <1>4, <1>7, <3>1 DEF Pass
  <2>5. Refuse("served") /\ "served" \in Codes
    BY <2>4 DEF Refuse, Codes
  <2> QED
    BY <1>1, <1>5, <2>5, RefuseKeeps
<1>8. ASSUME NEW plan, Finish(plan) PROVE StageInv'
  <2>1. stage' = 0 /\ answer' \in {"served", "empty", "missing"} /\ ran' = ran
    BY <1>4, <1>8 DEF Finish
  <2>2. Refuse(answer') /\ answer' \in Codes
    BY <2>1 DEF Refuse, Codes
  <2> QED
    BY <1>1, <1>5, <2>2, RefuseKeeps
<1>9. \A c, readable, columns :
          RowSetFailures(c, readable, columns, req.path) \subseteq Codes
  <2> SUFFICES ASSUME NEW c, NEW readable, NEW columns,
                      NEW code \in RowSetFailures(c, readable, columns, req.path)
               PROVE  code \in Codes
    OBVIOUS
  <2>1. code = "missing" \/ \E t : code = PlanEmbeds(c, readable, t, req.path).answer /\ code # "found"
    BY DEF RowSetFailures
  <2> QED
    BY <2>1, PlanAnswers DEF Codes
<1> QED
  BY <1>6, <1>7, <1>8, <1>9 DEF PlanRows

LEMMA AdmissionAnswers ==
    \A s, account, r : Admission(s, account, r) \in
        {"ok", "no routine", "no table", "view not updatable"}
BY DEF Admission

LEMMA AdmitKeeps == ASSUME RequestInv, StageInv, snapshot.version > 0, Admit PROVE StageInv'
<1> DEFINE admission == Admission(snapshot, Account, req)
<1>1. /\ At("admit") /\ UNCHANGED <<settings, req, asks, query, planned>> /\ using' = snapshot
      /\ IF admission = "ok" THEN verdict' = "admitted" /\ Pass
         ELSE verdict' = "refused" /\ Refuse(admission)
  BY DEF Admit, Check
<1>2. /\ stage \in 1 .. Len(OrderOf(req)) /\ Len(OrderOf(req)) \in Nat /\ stage # 0
      /\ OrderOf(req)[stage] = "admit"
      /\ SoundOrder(OrderOf(req)) /\ OrderFits(OrderOf(req), req.surface, req.method)
      /\ "role" \in Passed /\ "admit" \notin Passed /\ "run" \notin Passed
  BY <1>1, AtCheck DEF SoundOrder, At
<1>3. AuthRefusal = "none" /\ ~ran /\ planned = NotPlanned /\ answer = "none"
  BY <1>2 DEF StageInv, PassedInv
<1>4. req.surface # "root" /\ req.method # "OPTIONS"
  BY <1>2 DEF OrderFits, SoundOrder
<1>5. AuthRefusal' = AuthRefusal /\ Account' = Account /\ GoodQueries' = GoodQueries
      /\ Prefers' = Prefers /\ PreferSurface' = PreferSurface
  BY <1>1, SameRequest
<1>6. "represent" \notin Passed
  BY <1>1, <1>2, AtCheck DEF SoundOrder
<1>7. CASE admission = "ok"
  <2>1. /\ stage' \in 1 .. Len(OrderOf(req)) /\ UNCHANGED <<answer, ran>>
        /\ Passed' = Passed \cup {"admit"}
    BY <1>1, <1>7, PassMoves
  <2>2. Admitted'
    BY <1>1, <1>3, <1>4, <1>5, <1>7 DEF Admitted
  <2>3. PassedInv'
    BY <1>1, <1>2, <1>3, <1>5, <1>6, <2>1, <2>2 DEF StageInv, PassedInv
  <2>4. RanInv' /\ RefusedInv'
    BY <1>1, <1>3, <1>7, <2>1 DEF RanInv, RefusedInv
  <2> QED
    BY <1>1, <1>7, <2>1, <2>3, <2>4 DEF StageInv
<1>8. CASE admission # "ok"
  <2>1. verdict' = "refused" /\ stage' = 0 /\ answer' = admission /\ UNCHANGED ran
    BY <1>1, <1>8 DEF Refuse
  <2>2. admission \in Codes
    BY <1>8, AdmissionAnswers DEF Codes
  <2>3. admission = Admission(using, Account, req)'
    BY <1>1, <1>5
  <2>4. PassedInv' /\ RanInv'
    BY <1>3, <2>1 DEF PassedInv, RanInv
  <2>5. RefusedInv'
    BY <1>1, <1>3, <1>4, <1>5, <1>8, <2>1, <2>3 DEF RefusedInv
  <2> QED
    BY <1>1, <1>2, <2>1, <2>2, <2>4, <2>5 DEF StageInv
<1> QED
  BY <1>7, <1>8

\* Statements that run leave the request answered, or at the plan of its rows.
LEMMA RunKeeps ==
    ASSUME RequestInv, StageInv, Check("run"), UNCHANGED <<using, verdict, query, planned>>,
           (req.surface = "routine" /\ req.method # "POST") => ReadSafe(using, req.target),
           ran' = TRUE,
           \/ stage' = 0 /\ answer' \in {"served", "empty", "missing", "database"}
           \/ stage' = stage + 1 /\ UNCHANGED answer /\ req.surface = "routine"
    PROVE  StageInv'
<1> DEFINE o == OrderOf(req)
<1>1. At("run") /\ UNCHANGED <<settings, req, asks>>
  BY DEF Check
<1>2. /\ stage \in 1 .. Len(o) /\ Len(o) \in Nat /\ stage # 0 /\ o[stage] = "run"
      /\ SoundOrder(o) /\ OrderFits(o, req.surface, req.method)
  BY <1>1, AtCheck DEF At
<1>3. /\ Admitted /\ ~StrictRefusal(Prefers, PreferSurface) /\ query \in GoodQueries
      /\ Writes => ~(Represents /\ RepresentationProblem)
  BY <1>1, ReadyToRun
<1>4. /\ AuthRefusal' = AuthRefusal /\ Account' = Account
      /\ Prefers' = Prefers /\ PreferSurface' = PreferSurface
      /\ Writes' = Writes /\ Represents' = Represents
      /\ GoodQueries' = GoodQueries
      /\ RepresentationProblem' = RepresentationProblem
  BY <1>1, SameRequest
<1>5. Admitted'
  BY <1>1, <1>3, <1>4 DEF Admitted
<1>6. RanInv' /\ RefusedInv'
  BY <1>1, <1>3, <1>4, <1>5 DEF RanInv, Admitted, RefusedInv
<1>7. CASE stage' = 0 /\ answer' \in {"served", "empty", "missing", "database"}
  <2>1. PassedInv' /\ answer' \in Codes
    BY <1>7 DEF PassedInv, Codes
  <2> QED
    BY <1>1, <1>2, <1>6, <1>7, <2>1 DEF StageInv
<1>8. CASE stage' = stage + 1 /\ UNCHANGED answer /\ req.surface = "routine"
  <2>1. stage < Len(o)
    BY <1>2, <1>8 DEF OrderFits
  <2>2. Passed' = Passed \cup {"run"}
    BY <1>1, <1>2, <1>8 DEF Passed
  <2>3. /\ answer = "none" /\ ("query" \notin Passed => query = "none")
        /\ "represent" \in Passed => ~(Represents /\ RepresentationProblem)
        /\ "admit" \in Passed
    BY <1>1, <1>2, AtCheck DEF StageInv, PassedInv, SoundOrder
  <2>4. AuthRefusal' = "none"
    BY <1>3, <1>4 DEF Admitted
  <2>5. PassedInv'
    BY <1>3, <1>4, <1>5, <1>8, <2>2, <2>3, <2>4 DEF PassedInv
  <2> QED
    BY <1>1, <1>2, <1>6, <1>8, <2>1, <2>5 DEF StageInv
<1> QED
  BY <1>7, <1>8

LEMMA RunTableKeeps == ASSUME RequestInv, StageInv, RunTable PROVE StageInv'
<1>1. /\ Check("run") /\ req.surface = "table"
      /\ UNCHANGED <<using, verdict, query, planned>>
  BY DEF RunTable
<1>2. ran' = TRUE /\ stage' = 0 /\ answer' \in {"served", "empty", "missing", "database"}
  BY DEF RunTable, Finish
<1> QED
  BY <1>1, <1>2, RunKeeps

LEMMA RunRoutineKeeps == ASSUME RequestInv, StageInv, RunRoutine PROVE StageInv'
<1>1. /\ Check("run") /\ At("run") /\ req.surface = "routine"
      /\ UNCHANGED <<settings, req, asks, using, query, planned>>
  BY DEF RunRoutine, Check
<1>2. CASE req.method # "POST" /\ ~ReadSafe(using, req.target)
  <2>1. verdict' = "refused" /\ stage' = 0 /\ answer' = "not read-safe" /\ UNCHANGED ran
    BY <1>2 DEF RunRoutine, Refuse
  <2>2. Admitted
    BY <1>1, ReadyToRun
  <2>3. ~ran
    BY <1>1, AtCheck DEF StageInv, PassedInv, At
  <2>4. AuthRefusal' = AuthRefusal
    BY <1>1, SameRequest
  <2>5. PassedInv' /\ RanInv' /\ RefusedInv'
    BY <1>1, <1>2, <2>1, <2>2, <2>3, <2>4 DEF PassedInv, RanInv, RefusedInv, Admitted
  <2>6. 0 \in 0 .. Len(OrderOf(req))
    BY <1>1, AtCheck
  <2>7. answer' \in Codes
    BY <2>1 DEF Codes
  <2> QED
    BY <1>1, <2>1, <2>5, <2>6, <2>7 DEF StageInv
<1>3. CASE ~(req.method # "POST" /\ ~ReadSafe(using, req.target))
  <2>1. UNCHANGED verdict
    BY <1>3 DEF RunRoutine
  <2>2. CASE \E code \in Codes : Refuse(code)
    <3>1. planned'.answer \in {"none", "found", "missing", "computed", "ambiguous", "spread"}
      BY <1>1 DEF StageInv
    <3> QED
      BY <1>1, <2>1, <2>2, <3>1, RefuseKeeps
  <2>3. CASE stage' = stage + 1 /\ ran' = TRUE /\ UNCHANGED answer
    BY <1>1, <1>3, <2>1, <2>3, RunKeeps
  <2>4. CASE stage' = 0 /\ ran' = TRUE /\ answer' = "database"
    BY <1>1, <1>3, <2>1, <2>4, RunKeeps
  <2> QED
    BY <1>3, <2>2, <2>3, <2>4 DEF RunRoutine, Codes
<1> QED
  BY <1>2, <1>3

LEMMA HandleKeeps ==
    ASSUME RequestInv, StageInv, snapshot.version > 0, Handle
    PROVE  RequestInv' /\ StageInv'
<1>1. UNCHANGED <<settings, req>>
  BY DEF Handle, CheckRole, CheckResource, Admit, Allow, Describe, CheckPrefer, CheckQuery, Plan,
         PlanRows, CheckRepresentation, CheckResolution, CheckBody, CheckKey, CheckMedia,
         RunRoutine, RunTable, Check
<1> QED
  BY <1>1, RoleKeeps, ResourceKeeps, AdmitKeeps, AdvertiseKeeps, PreferKeeps, QueryKeeps, PlanKeeps,
     PlanRowsKeeps, RepresentationKeeps, ResolutionKeeps, BodyKeeps, KeyKeeps, MediaKeeps,
     RunRoutineKeeps, RunTableKeeps DEF Handle, RequestInv

\* A request that is sent starts anew.
LEMMA SendKeeps ==
    ASSUME RequestInv, StageInv, NEW r, Formed(r), Send(r), asks \in {0, 1}
    PROVE  RequestInv' /\ StageInv'
<1>1. /\ stage' = 1 /\ asks' = asks + 1 /\ req' = r /\ UNCHANGED settings
      /\ verdict' = "pending" /\ query' = "none" /\ planned' = NotPlanned
      /\ ran' = FALSE /\ answer' = "none"
  BY DEF Send
<1>2. RequestInv'
  BY <1>1 DEF RequestInv
<1>3. Len(OrderOf(r)) \in Nat \ {0}
  BY Orders DEF Formed, SoundOrder
<1>4. stage' \in 0 .. Len(OrderOf(req)') /\ asks' \in 0 .. 2
  BY <1>1, <1>3
<1>5. Passed' = {}
  BY <1>1 DEF Passed
<1>6. PassedInv' /\ RanInv' /\ RefusedInv'
  BY <1>1, <1>5 DEF PassedInv, RanInv, RefusedInv
<1>7. planned'.answer = "none"
  BY <1>1 DEF NotPlanned
<1> QED
  BY <1>1, <1>2, <1>4, <1>6, <1>7 DEF StageInv

LEMMA ClientSends ==
    ASSUME RequestInv, StageInv, Client
    PROVE  \E r : Formed(r) /\ Send(r) /\ asks \in {0, 1}
<1>1. CASE Ask
  <2>1. PICK case \in Cases : Send(case.req)
    BY <1>1 DEF Ask
  <2>2. case.req \in Requests
    BY CaseAssumption
  <2>3. PathOK(case.req.path)
    <3>1. case.req.path \in Seq(Asked)
      BY <2>2 DEF Requests
    <3>2. Len(case.req.path) \in Nat /\ case.req.path \in [1 .. Len(case.req.path) -> Asked]
      BY <3>1, LenProperties
    <3>3. \A ask \in Asked : DOMAIN ask = {"target", "hint", "spread"}
      BY DEF Asked
    <3> QED
      BY <3>2, <3>3 DEF PathOK
  <2>4. Formed(case.req)
    BY <2>2, <2>3 DEF Requests, Formed
  <2> QED
    BY <1>1, <2>1, <2>4 DEF Ask
<1>2. CASE UseMethod
  <2>1. PICK surface \in {"table", "routine"} :
          \E resource \in Resources(snapshot, surface), m \in {"GET", "HEAD"} \cup WriteMethods,
             h \in {<<>>, req.header} :
             /\ surface = "routine" => m \in {"GET", "HEAD", "POST"}
             /\ Send([req EXCEPT !.surface = surface, !.target = resource, !.method = m,
                                 !.header = h])
    BY <1>2 DEF UseMethod
  <2>2. PICK resource \in Resources(snapshot, surface), m \in {"GET", "HEAD"} \cup WriteMethods,
             h \in {<<>>, req.header} :
          /\ surface = "routine" => m \in {"GET", "HEAD", "POST"}
          /\ Send([req EXCEPT !.surface = surface, !.target = resource, !.method = m,
                              !.header = h])
    BY <2>1
  <2> DEFINE r == [req EXCEPT !.surface = surface, !.target = resource, !.method = m, !.header = h]
  <2>3. /\ DOMAIN r = DOMAIN req /\ r.surface = surface /\ r.method = m /\ r.header = h
        /\ r.who = req.who /\ r.path = req.path
    BY DEF RequestInv, Formed
  <2>4. r.header \in Seq(PreferTokens)
    BY <2>3, EmptySeq DEF RequestInv, Formed
  <2>5. m \in MethodsOn(surface)
    BY <2>2 DEF MethodsOn
  <2>6. Formed(r)
    BY <2>3, <2>4, <2>5 DEF RequestInv, Formed
  <2> QED
    BY <1>2, <2>2, <2>6 DEF UseMethod
<1>3. CASE UseHint
  <2>1. PICK hint : Send([req EXCEPT !.path[advice.at].hint = hint.hint, !.expects = hint.rel])
    BY <1>3 DEF UseHint
  <2> DEFINE r == [req EXCEPT !.path[advice.at].hint = hint.hint, !.expects = hint.rel]
  <2>2. /\ DOMAIN r = DOMAIN req /\ r.surface = req.surface /\ r.method = req.method
        /\ r.header = req.header /\ r.who = req.who
        /\ r.path = [req.path EXCEPT ![advice.at].hint = hint.hint]
    BY DEF RequestInv, Formed
  <2>3. PathOK(r.path)
    BY <2>2 DEF RequestInv, Formed, PathOK
  <2>4. Formed(r)
    BY <2>2, <2>3 DEF RequestInv, Formed
  <2> QED
    BY <1>3, <2>1, <2>4 DEF UseHint
<1> QED
  BY <1>1, <1>2, <1>3 DEF Client

-----------------------------------------------------------------------------
(* The snapshot that admitted the request, and the plan made from it.          *)

\* A snapshot lacks nothing that is granted on a Resource or its columns, and
\* gives no account with a name of its own what MySQL gives it on no column.
Agrees(s) ==
    /\ s.catalog \in Catalogs
    /\ \A a \in Accounts :
           /\ OnResource[s.catalog][a] \subseteq s.held[Bare[a]]
           /\ OneHost(s.catalog, a) => s.held[Bare[a]] \subseteq InPart[s.catalog][a]

\* A request uses a snapshot that was in the cache; versions tell them apart.
UsingInv ==
    /\ using.version \in Nat /\ using.version <= snapshot.version
    /\ using.version = snapshot.version => using = snapshot
    /\ using.version > 0 => Agrees(using)
    /\ asks > 0 => snapshot.version > 0
    /\ asks = 0 => stage = 0

\* A plan embeds what its role can read; the one of a table is that of its path.
PlanInv ==
    /\ \A rel \in planned.options : rel.target \in Readable(using, Account)
    /\ (planned # NotPlanned /\ req.surface = "table") =>
           /\ Admission(using, Account, req) = "ok" /\ using.version > 0
           /\ planned = PlanEmbeds(Data[using.catalog], Readable(using, Account), req.target, req.path)

\* An answer whose embeds are read has read no join table its role cannot; the
\* embeds of a routine's rows are planned in its last check.
LinkInv ==
    /\ (ran /\ answer = "served") => LinksReadable(planned)
    /\ (stage > 0 /\ req.surface = "routine") => planned = NotPlanned

LEMMA CacheAgrees == ASSUME IInv, snapshot.version > 0 PROVE Agrees(snapshot)
<1> SUFFICES ASSUME NEW a \in Accounts
             PROVE  /\ snapshot.catalog \in Catalogs
                    /\ OnResource[snapshot.catalog][a] \subseteq snapshot.held[Bare[a]]
                    /\ OneHost(snapshot.catalog, a) =>
                          snapshot.held[Bare[a]] \subseteq InPart[snapshot.catalog][a]
  BY DEF Agrees, IInv, BuildTypeOK
<1>1. Least(snapshot.catalog, Bare[a], snapshot.held[Bare[a]]) /\ snapshot.catalog \in Catalogs
  BY BareAssumption DEF IInv, SnapshotInv, BuildTypeOK
<1> QED
  BY <1>1, NeverTooFew, NeverTooMany

\* A reload changes the snapshot by giving it the next version.
LEMMA NextVersion ==
    ASSUME [BuildNext]_buildVars
    PROVE  UNCHANGED snapshot \/ snapshot'.version = snapshot.version + 1
BY DEF BuildNext, buildVars, Load, Walk, StartWalk, Leave, Enter, EndWalk, Replace

\* Whoever is asked for, an embed is a table the role can read.
LEMMA EmbedsAreReadable ==
    ASSUME NEW c, NEW readable, NEW from, NEW path,
           NEW rel \in PlanEmbeds(c, readable, from, path).options
    PROVE  rel.target \in c.tables \cap readable
<1>1. PICK origin, ask : rel \in Candidates(c, readable, origin, ask)
  BY DEF PlanEmbeds, StepAnswer, Resolve
<1>2. ask.target \in c.tables \cap readable /\ rel \in RelationshipsOf(c, origin, ask.target)
  BY <1>1 DEF Candidates, FilterByHint
<1>3. rel.target = ask.target
  BY <1>2 DEF RelationshipsOf, ToOne, ToMany, ManyToMany
<1> QED
  BY <1>2, <1>3

\* The account of a request whose role is known.
LEMMA AccountIs == ASSUME RequestInv, AuthRefusal = "none" PROVE Account \in Accounts
<1>1. /\ req.who.scheme \in {"none", "basic", "bearer"} /\ req.who.scheme # "basic"
      /\ req.who.token \in Accounts \cup {"no role", "bad claims", "bad token"}
      /\ settings.anon \in Accounts \cup {None}
  BY DEF RequestInv, Formed, Credentials, Settings, AuthRefusal
<1>2. UsesAnonymous(req.who) => settings.anon # None
  BY DEF AuthRefusal
<1>3. req.who.scheme = "bearer" => req.who.token \notin {"bad claims", "bad token"}
  BY DEF AuthRefusal
<1> QED
  BY <1>1, <1>2, <1>3 DEF Account, UsesAnonymous

\* A step of the reload, or none at all.
BuildStep == [BuildNext]_buildVars /\ UNCHANGED frontVars
Step == BuildStep \/ Client \/ Handle

\* What each kind of step leaves alone.
LEMMA HandleFrame ==
    ASSUME Handle
    PROVE  /\ UNCHANGED <<settings, req, asks, snapshot>> /\ stage # 0
           /\ using' = using \/ Admit
           /\ planned' = planned \/ Plan \/ PlanRows
           /\ advice' = advice \/ Allow \/ Describe \/ Plan
<1>1. UNCHANGED <<settings, req, asks, snapshot>> /\ stage # 0
  <2>1. PICK check : Check(check)
    BY DEF Handle, CheckRole, CheckResource, Admit, Allow, Describe, CheckPrefer, CheckQuery, Plan,
           PlanRows, CheckRepresentation, CheckResolution, CheckBody, CheckKey, CheckMedia,
           RunRoutine, RunTable
  <2>2. stage > 0
    BY <2>1 DEF Check, At
  <2> QED
    BY <2>1, <2>2 DEF Check, buildVars
<1>2. using' = using \/ Admit
  BY DEF Handle, CheckRole, CheckResource, Allow, Describe, CheckPrefer, CheckQuery, Plan,
         PlanRows, CheckRepresentation, CheckResolution, CheckBody, CheckKey, CheckMedia,
         RunRoutine, RunTable
<1>3. planned' = planned \/ Plan \/ PlanRows
  BY DEF Handle, CheckRole, CheckResource, Admit, Allow, Describe, CheckPrefer, CheckQuery,
         CheckRepresentation, CheckResolution, CheckBody, CheckKey, CheckMedia,
         RunRoutine, RunTable
<1>4. advice' = advice \/ Allow \/ Describe \/ Plan
  BY DEF Handle, CheckRole, CheckResource, Admit, CheckPrefer, CheckQuery,
         PlanRows, CheckRepresentation, CheckResolution, CheckBody, CheckKey, CheckMedia,
         RunRoutine, RunTable
<1> QED
  BY <1>1, <1>2, <1>3, <1>4

LEMMA ClientFrame ==
    ASSUME Client
    PROVE  /\ UNCHANGED <<settings, using, advice, snapshot>> /\ asks' = asks + 1
           /\ planned' = NotPlanned
           /\ asks = 0 => snapshot.version > 0
<1>1. PICK r : Send(r)
  <2>1. CASE Ask
    BY <2>1 DEF Ask
  <2>2. CASE UseMethod
    BY <2>2 DEF UseMethod
  <2>3. CASE UseHint
    BY <2>3 DEF UseHint
  <2> QED
    BY <2>1, <2>2, <2>3 DEF Client
<1>2. asks = 0 => snapshot.version > 0
  BY DEF Client, Ask, UseMethod, UseHint
<1> QED
  BY <1>1, <1>2 DEF Send, buildVars

LEMMA UsingKeeps ==
    ASSUME IInv, RequestInv, StageInv, UsingInv, Step
    PROVE  UsingInv'
<1>0. snapshot.version \in Nat
  BY DEF IInv, BuildTypeOK
<1>1. CASE BuildStep
  <2>1. UNCHANGED <<using, asks, stage>> /\ [BuildNext]_buildVars
    BY <1>1 DEF BuildStep, frontVars
  <2>2. UNCHANGED snapshot \/ snapshot'.version = snapshot.version + 1
    BY <2>1, NextVersion
  <2> QED
    BY <1>0, <2>1, <2>2 DEF UsingInv, Agrees
<1>2. CASE Client
  <2>1. /\ UNCHANGED <<using, snapshot>> /\ asks' = asks + 1
        /\ asks = 0 => snapshot.version > 0
    BY <1>2, ClientFrame
  <2> QED
    BY <2>1 DEF UsingInv, StageInv, Agrees
<1>3. CASE Handle
  <2>1. UNCHANGED <<asks, snapshot>> /\ asks # 0
    BY <1>3, HandleFrame DEF UsingInv
  <2>2. CASE using' = using
    BY <2>1, <2>2 DEF UsingInv, Agrees
  <2>3. CASE Admit
    <3>1. using' = snapshot
      BY <2>3 DEF Admit
    <3>2. snapshot.version > 0 => Agrees(snapshot)
      BY CacheAgrees
    <3> QED
      BY <1>0, <2>1, <3>1, <3>2 DEF UsingInv, Agrees
  <2> QED
    BY <1>3, <2>2, <2>3, HandleFrame
<1> QED
  BY <1>1, <1>2, <1>3 DEF Step

LEMMA PlanInvKeeps ==
    ASSUME RequestInv, StageInv, PlanInv, Step
    PROVE  PlanInv'
<1>1. CASE BuildStep
  BY <1>1 DEF BuildStep, frontVars, PlanInv, Account, UsesAnonymous
<1>2. CASE Client
  <2>1. planned' = NotPlanned
    BY <1>2, ClientFrame
  <2> QED
    BY <2>1 DEF PlanInv, NotPlanned
<1>3. CASE Handle
  <2>1. UNCHANGED <<settings, req>>
    BY <1>3, HandleFrame
  <2>2. Account' = Account
    BY <2>1, SameRequest
  <2>3. CASE Admit
    <3>1. planned' = NotPlanned
      BY <2>3, AtCheck DEF Admit, Check, At, StageInv, PassedInv
    <3> QED
      BY <3>1 DEF PlanInv, NotPlanned
  <2>4. CASE Plan
    <3>1. UNCHANGED using
      BY <2>4 DEF Plan
    <3>2. At("plan")
      BY <2>4 DEF Plan, Check
    <3>3. "admit" \in Passed /\ stage # 0
      BY <3>2, AtCheck DEF SoundOrder, At
    <3>4. Admission(using, Account, req) = "ok" /\ using.version > 0
      BY <3>3 DEF StageInv, PassedInv, Admitted
    <3>5. \/ UNCHANGED planned
          \/ planned' = PlanEmbeds(Data[using.catalog], Readable(using, Account), req.target, req.path)
      BY <2>4 DEF Plan, Planned, PlanFrom
    <3>6. CASE UNCHANGED planned
      BY <2>1, <2>2, <3>1, <3>6 DEF PlanInv
    <3>7. CASE planned' = PlanEmbeds(Data[using.catalog], Readable(using, Account), req.target, req.path)
      <4>1. \A rel \in planned'.options : rel.target \in Readable(using, Account)
        BY <3>7, EmbedsAreReadable
      <4> QED
        BY <2>1, <2>2, <3>1, <3>4, <3>7, <4>1 DEF PlanInv
    <3> QED
      BY <3>5, <3>6, <3>7
  <2>5. CASE PlanRows
    <3>1. UNCHANGED using /\ req.surface = "routine"
      BY <2>5 DEF PlanRows
    <3>2. \/ UNCHANGED planned
          \/ \E origin : planned' = PlanEmbeds(Data[using.catalog], Readable(using, Account), origin, req.path)
      BY <2>5 DEF PlanRows
    <3>3. \A rel \in planned'.options : rel.target \in Readable(using, Account)
      BY <3>2, EmbedsAreReadable DEF PlanInv
    <3> QED
      BY <2>1, <2>2, <3>1, <3>3 DEF PlanInv
  <2>6. CASE planned' = planned /\ using' = using
    BY <2>1, <2>2, <2>6 DEF PlanInv
  <2> QED
    BY <1>3, <2>3, <2>4, <2>5, <2>6, HandleFrame
<1> QED
  BY <1>1, <1>2, <1>3 DEF Step

\* Only the last step of a read of rows serves what has run.
LEMMA ServedLast ==
    ASSUME RequestInv, StageInv, Handle, ~RunTable, ~PlanRows
    PROVE  ~(ran' /\ answer' = "served")
<1>1. CASE Allow \/ Describe
  <2>1. PICK check \in {"allow", "document"} : At(check)
    BY <1>1 DEF Allow, Describe, Check
  <2>2. ~ran
    BY <2>1, AtCheck DEF StageInv, PassedInv, At
  <2> QED
    BY <1>1, <2>2 DEF Allow, Describe, Served, Refuse
<1>2. CASE RunRoutine
  <2>1. answer = "none"
    BY <1>2, HandleFrame DEF StageInv, PassedInv
  <2> QED
    BY <1>2, <2>1 DEF RunRoutine, Refuse
<1>3. CASE ~(Allow \/ Describe \/ RunRoutine)
  <2> DEFINE Goes == Pass \/ \E code : code # "served" /\ Refuse(code)
  <2>1. CASE Plan
    <3>1. At("plan") /\ req.surface = "table" /\ req' = req
      BY <2>1 DEF Plan, Check
    <3>2. Goes
      BY <2>1, PlanAnswers DEF Plan, Planned
    <3> QED
      BY <3>1, <3>2, PassMoves, HandleFrame DEF Refuse, StageInv, PassedInv
  <2>2. CASE ~Plan
    <3>1. \A q : QueryRefusal(q) # "served"
      BY DEF QueryRefusal
    <3>2. AuthRefusal # "served" /\ Admission(snapshot, Account, req) # "served"
      BY AdmissionAnswers DEF AuthRefusal
    <3>3. \E check \in {"role", "resource", "admit", "prefer", "query", "represent", "resolution",
                        "body", "key", "media"} : At(check) /\ Goes
      BY <1>3, <2>2, <3>1, <3>2
         DEF Handle, CheckRole, CheckResource, Admit, CheckPrefer, CheckQuery,
             CheckRepresentation, CheckResolution, CheckBody, CheckKey, CheckMedia, Check
    <3>4. req' = req
      BY HandleFrame
    <3> QED
      BY <3>3, <3>4, PassMoves, HandleFrame DEF Refuse, StageInv, PassedInv
  <2> QED
    BY <2>1, <2>2
<1> QED
  BY <1>1, <1>2, <1>3

LEMMA LinkInvKeeps ==
    ASSUME RequestInv, StageInv, LinkInv, Step
    PROVE  LinkInv'
<1>1. CASE BuildStep
  BY <1>1 DEF BuildStep, frontVars, LinkInv, LinksReadable, Readable, HasRight, Account,
              UsesAnonymous
<1>2. CASE Client
  <2>1. planned' = NotPlanned
    BY <1>2, ClientFrame
  <2> QED
    BY <2>1 DEF LinkInv, LinksReadable, NotPlanned
<1>3. CASE Handle
  <2>1. UNCHANGED <<settings, req>> /\ stage > 0
    BY <1>3, HandleFrame DEF StageInv
  <2>2. Account' = Account
    BY <2>1, SameRequest
  <2>3. CASE RunTable
    <3>1. UNCHANGED <<using, planned>> /\ req.surface = "table"
      BY <2>3 DEF RunTable
    <3>2. answer' = "served" => LinksReadable(planned)
      BY <2>3 DEF RunTable, Finish
    <3> QED
      BY <2>1, <2>2, <3>1, <3>2 DEF LinkInv, LinksReadable, Readable, HasRight
  <2>4. CASE PlanRows
    <3>1. UNCHANGED using /\ req.surface = "routine" /\ planned = NotPlanned
      BY <2>1, <2>4 DEF PlanRows, LinkInv
    <3>2. \/ planned' = NotPlanned
          \/ stage' = 0 /\ (answer' = "served" => LinksReadable(planned'))
      BY <2>4, <3>1 DEF PlanRows, Finish
    <3> QED
      BY <2>1, <2>2, <3>1, <3>2 DEF LinkInv, LinksReadable, Readable, HasRight, NotPlanned
  <2>5. CASE ~RunTable /\ ~PlanRows
    <3>1. ~(ran' /\ answer' = "served")
      BY <1>3, <2>5, ServedLast
    <3>2. planned' = planned \/ req.surface = "table"
      BY <1>3, <2>5, HandleFrame DEF Plan
    <3> QED
      BY <2>1, <3>1, <3>2 DEF LinkInv
  <2> QED
    BY <2>3, <2>4, <2>5
<1> QED
  BY <1>1, <1>2, <1>3 DEF Step

-----------------------------------------------------------------------------
(* What the client was told.                                                   *)

\* From s, the path old to the embeds of target is ambiguous in the way told says.
Told(s, account, target, old, told) ==
    LET plan == PlanEmbeds(Data[s.catalog], Readable(s, account), target, old)
    IN  plan.answer = "ambiguous" /\ plan.at = told.at /\ told.hints = Proposals(plan)

\* The path old with another hint.
Hinted(old, at, hint) == [old EXCEPT ![at].hint = hint]

\* Request r, the n-th, has the path old, or the hint the client chose in its place.
Follows(r, n, old, told) ==
    \/ n = 1 /\ r.path = old
    \/ n = 2 /\ \E hint \in told.hints :
           /\ r.path = Hinted(old, told.at, hint.hint)
           /\ r.expects = hint.rel

\* What was told is what the snapshot of its version says.
AdviceInv ==
    /\ advice.kind \in {"none", "allow", "document", "hints"}
    /\ asks = 0 => advice.kind = "none"
    /\ advice.version \in Nat /\ advice.version <= snapshot.version
    /\ advice.kind = "allow" =>
           /\ req.surface \in {"table", "routine"}
           /\ \A s \in {snapshot, using} :
                  s.version = advice.version => advice.methods = Allowed(s, Account, req)
    /\ advice.kind = "document" =>
           \A s \in {snapshot, using} :
               s.version = advice.version => advice.methods = Document(s, Account, settings.mode)
    /\ advice.kind = "hints" =>
           /\ req.surface = "table"
           /\ \E old :
                  /\ PathOK(old) /\ Follows(req, asks, old, advice)
                  /\ \A s \in {snapshot, using} :
                         s.version = advice.version => Told(s, Account, req.target, old, advice)

FrontInv == IInv /\ RequestInv /\ StageInv /\ UsingInv /\ PlanInv /\ LinkInv /\ AdviceInv

LEMMA AdviceSurvivesBuild == ASSUME FrontInv, BuildStep PROVE AdviceInv'
<1>1. UNCHANGED <<settings, req, asks, using, advice>> /\ [BuildNext]_buildVars
  BY DEF BuildStep, frontVars
<1>2. snapshot' = snapshot \/ snapshot'.version = snapshot.version + 1
  BY <1>1, NextVersion
<1>3. Account' = Account
  BY <1>1, SameRequest
<1>4. /\ snapshot.version \in Nat /\ advice.version \in Nat /\ advice.version <= snapshot.version
  BY DEF FrontInv, IInv, BuildTypeOK, AdviceInv
<1>5. /\ advice.version <= snapshot'.version
      /\ snapshot'.version = advice.version => snapshot' = snapshot
  BY <1>2, <1>4
<1> QED
  BY <1>1, <1>3, <1>4, <1>5 DEF AdviceInv, FrontInv

LEMMA AdviceSurvivesHandle == ASSUME FrontInv, Handle PROVE AdviceInv'
<1>1. UNCHANGED <<settings, req, asks, snapshot>>
  BY HandleFrame
<1>2. Account' = Account
  BY <1>1, SameRequest
<1>3. /\ snapshot.version \in Nat /\ using.version \in Nat /\ using.version <= snapshot.version
      /\ using.version = snapshot.version => using = snapshot
  BY DEF FrontInv, IInv, BuildTypeOK, UsingInv
<1>4. CASE advice' = advice
  <2>1. using' = using \/ using' = snapshot
    BY HandleFrame DEF Admit
  <2> QED
    BY <1>1, <1>2, <1>4, <2>1 DEF AdviceInv, FrontInv
<1>5. asks # 0
  BY HandleFrame DEF FrontInv, UsingInv
<1>6. CASE Allow /\ advice' # advice
  <2>1. /\ At("allow") /\ UNCHANGED using
        /\ advice' = [NoAdvice EXCEPT !.kind = "allow", !.version = snapshot.version,
                                      !.methods = Allowed(snapshot, Account, req)]
    BY <1>6 DEF Allow, Check
  <2>2. req.surface \in {"table", "routine"}
    BY <2>1, AtCheck DEF FrontInv, RequestInv, Formed, SoundOrder, OrderFits
  <2>3. /\ advice'.kind = "allow" /\ advice'.version = snapshot.version
        /\ advice'.methods = Allowed(snapshot, Account, req)
    BY <2>1 DEF NoAdvice
  <2> QED
    BY <1>1, <1>2, <1>3, <1>5, <2>1, <2>2, <2>3 DEF AdviceInv
<1>7. CASE Describe /\ advice' # advice
  <2>1. /\ UNCHANGED using
        /\ advice'.kind = "document" /\ advice'.version = snapshot.version
        /\ advice'.methods = Document(snapshot, Account, settings.mode)
    BY <1>7 DEF Describe, NoAdvice
  <2> QED
    BY <1>1, <1>2, <1>3, <1>5, <2>1 DEF AdviceInv
<1>8. CASE Plan /\ advice' # advice
  <2> DEFINE plan == PlanEmbeds(Data[using.catalog], Readable(using, Account), req.target, req.path)
  <2>1. /\ UNCHANGED using /\ req.surface = "table" /\ asks = 1 /\ plan.answer = "ambiguous"
        /\ advice' = [NoAdvice EXCEPT !.kind = "hints", !.version = using.version,
                                      !.at = plan.at, !.hints = Proposals(plan)]
    BY <1>8 DEF Plan, Planned, PlanFrom
  <2> HIDE DEF plan
  <2>2. /\ advice'.kind = "hints" /\ advice'.version = using.version
        /\ advice'.at = plan.at /\ advice'.hints = Proposals(plan)
    BY <2>1 DEF NoAdvice
  <2>3. Told(using, Account, req.target, req.path, advice')
    BY <2>1, <2>2 DEF Told, plan
  <2>4. PathOK(req.path) /\ Follows(req, asks, req.path, advice')
    BY <2>1 DEF FrontInv, RequestInv, Formed, Follows
  <2>5. \A s \in {snapshot, using} :
            s.version = advice'.version => Told(s, Account, req.target, req.path, advice')
    BY <1>3, <2>2, <2>3
  <2> QED
    BY <1>1, <1>2, <1>3, <1>5, <2>1, <2>2, <2>4, <2>5 DEF AdviceInv
<1> QED
  BY <1>4, <1>6, <1>7, <1>8, HandleFrame

LEMMA AdviceSurvivesClient == ASSUME FrontInv, Client PROVE AdviceInv'
<1>1. UNCHANGED <<settings, using, advice, snapshot>> /\ asks' = asks + 1
  BY ClientFrame
<1>2. CASE Ask
  <2>1. advice.kind = "none" /\ asks' # 0
    BY <1>1, <1>2 DEF Ask, FrontInv, AdviceInv
  <2> QED
    BY <1>1, <2>1 DEF AdviceInv, FrontInv
<1>3. CASE UseMethod
  <2>1. /\ asks' # 0 /\ advice.kind \in {"allow", "document"}
        /\ req'.who = req.who
        /\ advice.kind = "allow" => req'.surface = req.surface /\ req'.target = req.target
    BY <1>1, <1>3 DEF UseMethod, Send, FrontInv, RequestInv, Formed
  <2>2. Account' = Account
    BY <1>1, <2>1 DEF Account, UsesAnonymous
  <2>3. advice.kind = "allow" => \A s : Allowed(s, Account, req') = Allowed(s, Account, req)
    BY <2>1 DEF Allowed, Admission, FrontInv, AdviceInv
  <2> QED
    BY <1>1, <2>1, <2>2, <2>3 DEF AdviceInv, FrontInv
<1>4. CASE UseHint
  <2>1. PICK hint \in advice.hints :
          req' = [req EXCEPT !.path[advice.at].hint = hint.hint, !.expects = hint.rel]
    BY <1>4 DEF UseHint, Send
  <2>2. /\ asks = 1 /\ asks' = 2 /\ advice.kind = "hints"
        /\ req'.who = req.who /\ req'.surface = req.surface /\ req'.target = req.target
        /\ req'.path = [req.path EXCEPT ![advice.at].hint = hint.hint] /\ req'.expects = hint.rel
    BY <1>1, <1>4, <2>1 DEF UseHint, FrontInv, RequestInv, Formed
  <2>3. Account' = Account
    BY <1>1, <2>2 DEF Account, UsesAnonymous
  <2>4. PICK old :
          /\ PathOK(old) /\ Follows(req, asks, old, advice)
          /\ \A s \in {snapshot, using} :
                 s.version = advice.version => Told(s, Account, req.target, old, advice)
    BY <2>2 DEF FrontInv, AdviceInv
  <2>5. Follows(req', asks', old, advice)
    <3>1. req.path = old
      BY <2>2, <2>4 DEF Follows
    <3>2. /\ req'.path = [old EXCEPT ![advice.at].hint = hint.hint]
          /\ req'.expects = hint.rel /\ asks' = 2
      BY <2>2, <3>1
    <3> QED
      BY <3>2 DEF Follows, Hinted
  <2> QED
    BY <1>1, <2>2, <2>3, <2>4, <2>5 DEF AdviceInv, FrontInv
<1> QED
  BY <1>2, <1>3, <1>4 DEF Client

-----------------------------------------------------------------------------
LEMMA FrontInitHolds == Init => FrontInv
<1> SUFFICES ASSUME Init PROVE FrontInv
  OBVIOUS
<1>1. PICK case \in Cases :
        /\ BuildInit /\ settings = case.settings /\ req = NoRequest
        /\ stage = 0 /\ asks = 0 /\ using = snapshot /\ verdict = "pending"
        /\ query = "none" /\ planned = NotPlanned
        /\ ran = FALSE /\ answer = "none" /\ advice = NoAdvice
  BY DEF Init
<1>2. IInv /\ snapshot.version = 0
  BY <1>1, InitHolds DEF BuildInit
<1>3. RequestInv
  <2>1. PathOK(<<>>)
    BY DEF PathOK
  <2>2. <<>> \in Seq(PreferTokens)
    BY EmptySeq
  <2> QED
    BY <1>1, <2>1, <2>2, CaseAssumption DEF RequestInv, Formed, NoRequest, MethodsOn, Credentials
<1>4. StageInv
  <2>1. 0 \in 0 .. Len(OrderOf(req))
    BY <1>3, Orders DEF RequestInv, Formed, SoundOrder
  <2>2. PassedInv /\ RanInv /\ RefusedInv
    BY <1>1 DEF PassedInv, RanInv, RefusedInv
  <2>3. planned.answer = "none" /\ stage \in 0 .. Len(OrderOf(req)) /\ asks \in 0 .. 2
    BY <1>1, <2>1 DEF NotPlanned
  <2> QED
    BY <1>1, <2>2, <2>3 DEF StageInv
<1>5. UsingInv /\ PlanInv /\ LinkInv
  BY <1>1, <1>2 DEF UsingInv, PlanInv, LinkInv, NotPlanned
<1>6. AdviceInv
  BY <1>1, <1>2 DEF AdviceInv, NoAdvice
<1> QED
  BY <1>2, <1>3, <1>4, <1>5, <1>6 DEF FrontInv

LEMMA FrontStepKeeps == FrontInv /\ [Next]_vars => FrontInv'
<1> SUFFICES ASSUME FrontInv, [Next]_vars PROVE FrontInv'
  OBVIOUS
<1>1. Step
  BY DEF Step, BuildStep, Next, Build, vars
<1>2. CASE BuildStep
  <2>1. IInv'
    BY <1>2, StepKeeps DEF BuildStep, FrontInv
  <2>2. RequestInv' /\ StageInv'
    <3>1. /\ UNCHANGED <<settings, req, stage, using, verdict, query, planned, ran, answer, asks>>
          /\ Passed' = Passed
      BY <1>2 DEF BuildStep, frontVars, Passed
    <3>2. /\ AuthRefusal' = AuthRefusal /\ Account' = Account
          /\ Prefers' = Prefers /\ PreferSurface' = PreferSurface
          /\ Writes' = Writes /\ Represents' = Represents
          /\ GoodQueries' = GoodQueries
          /\ RepresentationProblem' = RepresentationProblem
      BY <3>1, SameRequest
    <3>3. Admitted' <=> Admitted
      BY <3>1, <3>2 DEF Admitted
    <3>4. PassedInv' /\ RanInv' /\ RefusedInv'
      BY <3>1, <3>2, <3>3 DEF FrontInv, StageInv, PassedInv, RanInv, RefusedInv
    <3> QED
      BY <3>1, <3>4 DEF FrontInv, RequestInv, StageInv
  <2> QED
    BY <1>1, <1>2, <2>1, <2>2, UsingKeeps, PlanInvKeeps, LinkInvKeeps, AdviceSurvivesBuild DEF FrontInv
<1>3. CASE Client
  <2>1. UNCHANGED buildVars
    BY <1>3 DEF Client, Ask, UseMethod, UseHint, Send
  <2>2. IInv'
    BY <2>1, StepKeeps DEF FrontInv
  <2>3. RequestInv' /\ StageInv'
    BY <1>3, ClientSends, SendKeeps DEF FrontInv
  <2> QED
    BY <1>3, <2>2, <2>3, UsingKeeps, PlanInvKeeps, LinkInvKeeps, AdviceSurvivesClient DEF FrontInv, Step
<1>4. CASE Handle
  <2>1. UNCHANGED buildVars
    <3>1. PICK check : Check(check)
      BY <1>4 DEF Handle, CheckRole, CheckResource, Admit, Allow, Describe, CheckPrefer, CheckQuery,
             Plan, PlanRows, CheckRepresentation, CheckResolution, CheckBody, CheckKey, CheckMedia,
             RunRoutine, RunTable
    <3> QED
      BY <3>1 DEF Check
  <2>2. IInv'
    BY <2>1, StepKeeps DEF FrontInv
  <2>3. snapshot.version > 0
    BY <1>4, HandleFrame DEF FrontInv, UsingInv, StageInv
  <2>4. RequestInv' /\ StageInv'
    BY <1>4, <2>3, HandleKeeps DEF FrontInv
  <2> QED
    BY <1>4, <2>2, <2>4, UsingKeeps, PlanInvKeeps, LinkInvKeeps, AdviceSurvivesHandle DEF FrontInv, Step
<1> QED
  BY <1>1, <1>2, <1>3, <1>4 DEF Step

\* Types, and that nothing runs before admission (httpapi).
THEOREM FrontTypeCorrect == Spec => []FrontTypeOK
<1>1. FrontInv => FrontTypeOK
  BY DEF FrontInv, StageInv, PassedInv, RanInv, Admitted, AdviceInv, FrontTypeOK
<1> QED
  BY FrontInitHolds, FrontStepKeeps, <1>1, PTL DEF Spec

-----------------------------------------------------------------------------
(* Grants decide.                                                              *)

\* What runs needs only rights that the snapshot it was admitted from holds.
LEMMA NeededIsHeld ==
    ASSUME FrontInv, ran, NEW right \in Needed \ LeftToMySQL
    PROVE  right \in using.held[Bare[Account]]
<1>1. /\ Admission(using, Account, req) = "ok" /\ req.surface \in {"table", "routine"}
      /\ Writes => ~(Represents /\ RepresentationProblem)
  BY DEF FrontInv, StageInv, RanInv, Admitted, RequestInv, Formed
<1>2. CASE right \in {<<t, "SELECT">> : t \in Embedded}
  <2>1. PICK rel \in planned.options : right = <<rel.target, "SELECT">>
    BY <1>2 DEF Embedded
  <2> QED
    BY <2>1 DEF FrontInv, PlanInv, Readable, HasRight
<1>7. CASE right \in {<<t, "SELECT">> : t \in Linked}
  <2>1. PICK t \in Linked : right = <<t, "SELECT">>
    BY <1>7
  <2>2. answer = "served" /\ planned.answer = "found" /\ t \in JoinTables(planned.options)
    BY <2>1 DEF Linked
  <2>3. t \in Readable(using, Account)
    BY <2>2 DEF FrontInv, LinkInv, LinksReadable
  <2> QED
    BY <2>1, <2>3 DEF Readable, HasRight
<1>3. CASE req.surface = "routine" /\ right = <<req.target, "EXECUTE">>
  BY <1>1, <1>3 DEF Admission, HasRight
<1>4. CASE req.surface # "routine" /\ right = <<req.target, RightOf(req.method)>>
  BY <1>1, <1>4 DEF Admission, HasTablePrivilege, HasRight
<1>5. CASE req.surface = "table" /\ Merges /\ right = <<req.target, "UPDATE">>
  <2>1. NeedsUpdate(req)
    BY <1>5 DEF Merges, NeedsUpdate, Prefers, LeftToMySQL, OnTarget
  <2> QED
    BY <1>1, <1>5, <2>1 DEF Admission, HasRight
<1>6. CASE Writes /\ Represents /\ right = <<req.target, "SELECT">>
  BY <1>1, <1>6 DEF RepresentationProblem, HasRight
<1>8. CASE req.surface = "table" /\ Filters /\ right = <<req.target, "SELECT">>
  <2>1. Writes /\ Represents
    BY <1>8 DEF Filters, Writes, LeftToMySQL, OnTarget
  <2> QED
    BY <1>6, <1>8, <2>1
<1> QED
  BY <1>1, <1>2, <1>3, <1>4, <1>5, <1>6, <1>7, <1>8 DEF Needed, OnTarget

\* What is hidden lacks, in the snapshot, a right it needs.
LEMMA RefusalIsGrounded ==
    ASSUME FrontInv, verdict = "refused", answer \in {"no table", "no routine"},
           req.target \in Resources(using, req.surface)
    PROVE  \E right \in OfMethod : right \notin using.held[Bare[Account]]
<1>1. /\ req.surface \in {"table", "routine"}
      /\ answer = Admission(using, Account, req)
  BY DEF FrontInv, StageInv, RefusedInv, RequestInv, Formed
<1>2. CASE req.surface = "routine"
  <2>1. ~HasRight(using, Account, req.target, "EXECUTE")
    BY <1>1, <1>2 DEF Admission, Resources
  <2>2. <<req.target, "EXECUTE">> \in OfMethod
    BY <1>2 DEF OfMethod
  <2> QED
    BY <2>1, <2>2 DEF HasRight
<1>3. CASE req.surface = "table"
  <2>1. \/ ~HasTablePrivilege(using, Account, req.target, RightOf(req.method))
        \/ NeedsUpdate(req) /\ ~HasRight(using, Account, req.target, "UPDATE")
    BY <1>1, <1>3 DEF Admission
  <2>2. req.target \in Data[using.catalog].tables
    BY <1>3 DEF Resources
  <2>3. CASE ~HasTablePrivilege(using, Account, req.target, RightOf(req.method))
    <3>1. <<req.target, RightOf(req.method)>> \in OfMethod
      BY <1>3 DEF OfMethod
    <3> QED
      BY <2>2, <2>3, <3>1 DEF HasTablePrivilege, HasRight
  <2>4. CASE NeedsUpdate(req) /\ ~HasRight(using, Account, req.target, "UPDATE")
    <3>1. <<req.target, "UPDATE">> \in OfMethod
      BY <1>3, <2>4 DEF OfMethod, OnTarget, Merges, NeedsUpdate, Prefers
    <3> QED
      BY <2>4, <3>1 DEF HasRight
  <2> QED
    BY <2>1, <2>3, <2>4
<1> QED
  BY <1>1, <1>2, <1>3

\* Grants decide what is served, whatever is reloaded meanwhile: a request uses
\* one snapshot, and that one agrees with MySQL (admission.go, write.go, embed.go).
THEOREM GrantsDecideHolds == Spec => []GrantsDecide
<1>1. FrontInv => GrantsDecide
  <2> SUFFICES ASSUME FrontInv PROVE GrantsDecide
    OBVIOUS
  <2>1. ASSUME ran PROVE Account \in Accounts /\ Agrees(using)
    BY <2>1, AccountIs DEF FrontInv, StageInv, RanInv, Admitted, UsingInv
  <2>2. ASSUME ran, NEW right \in Needed \ LeftToMySQL, OneHost(using.catalog, Account)
        PROVE  right \in InPart[using.catalog][Account]
    BY <2>1, <2>2, NeededIsHeld DEF Agrees
  <2>3. ASSUME verdict = "refused", answer \in {"no table", "no routine"},
               req.target \in Resources(using, req.surface)
        PROVE  \E right \in OfMethod : right \notin OnResource[using.catalog][Account]
    <3>1. Account \in Accounts /\ Agrees(using)
      BY <2>3, AccountIs DEF FrontInv, StageInv, RefusedInv, UsingInv
    <3>2. OnResource[using.catalog][Account] \subseteq using.held[Bare[Account]]
      BY <3>1 DEF Agrees
    <3> QED
      BY <2>3, <3>2, RefusalIsGrounded
  <2> QED
    BY <2>2, <2>3 DEF GrantsDecide
<1> QED
  BY FrontInitHolds, FrontStepKeeps, <1>1, PTL DEF Spec

-----------------------------------------------------------------------------
(* The header and the query allow what runs.                                   *)

\* A request that runs was asked for by its header (prefer.go, write.go).
THEOREM RanAsAskedHolds == Spec => []RanAsAsked
<1>1. FrontInv => RanAsAsked
  <2> SUFFICES ASSUME FrontInv, ran PROVE RanAsAsked
    BY DEF RanAsAsked
  <2>1. /\ AuthRefusal = "none" /\ ~StrictRefusal(Prefers, PreferSurface) /\ query \in GoodQueries
        /\ req.header \in Seq(PreferTokens)
    BY DEF FrontInv, StageInv, RanInv, Admitted, RequestInv, Formed
  <2>2. LastValue(req.header, "handling") = "strict" =>
            BadTokens(req.header) = {} /\ BadNames(req.header, PreferSurface) = {}
    <3>1. LastValue(req.header, "handling") = "strict" => Prefers.strict
      BY DEF Prefers, Parse, Parsed, Takes
    <3>2. PreferSurface \in Surfaces
      BY DEF PreferSurface, Surfaces
    <3>3. Prefers.invalid[PreferSurface] <=>
              (BadTokens(req.header) # {} \/ BadNames(req.header, PreferSurface) # {})
      BY <3>2 DEF Prefers, Parse
    <3> QED
      BY <2>1, <3>1, <3>3 DEF StrictRefusal
  <2>3. ASSUME Writes, query = "whole", req.method # "POST"
        PROVE  \E i \in DOMAIN req.header : req.header[i] = [name |-> "all-rows", value |-> "bare"]
    <3>1. Prefers.allRows
      BY <2>1, <2>3 DEF GoodQueries, QueryRefusal
    <3>2. PICK i \in DOMAIN req.header : req.header[i].name = "all-rows" /\ req.header[i].value = "bare"
      BY <3>1 DEF Prefers, Parse, AllRows
    <3>3. req.header[i] \in PreferTokens
      BY <2>1, <3>2, ElementOfSeq
    <3> QED
      BY <3>2, <3>3 DEF PreferTokens
  <2>4. \A i \in DOMAIN req.header : req.header[i].name \notin AuthNames
    <3>1. ~Prefers.auth
      BY <2>1 DEF AuthRefusal
    <3> QED
      BY <3>1 DEF Prefers, Parse
  <2> QED
    BY <2>2, <2>3, <2>4 DEF RanAsAsked
<1> QED
  BY FrontInitHolds, FrontStepKeeps, <1>1, PTL DEF Spec

-----------------------------------------------------------------------------
(* A token that a later one overrides.                                         *)

\* Every set of naturals that holds one holds a least one.
LEMMA LeastNatural ==
    ASSUME NEW T \in SUBSET Nat, T # {}
    PROVE  \E x \in T : \A y \in T : x <= y
<1>1. PICK x \in T : \A y \in T : <<y, x>> \notin OpToRel(<, Nat)
  BY NatLessThanWellFounded, WFMin
<1>2. \A y \in T : ~(y < x)
  BY <1>1 DEF OpToRel
<1> QED
  BY <1>2

LEMMA MaxIs ==
    ASSUME NEW n \in Nat, NEW S \in SUBSET (1 .. n), S # {}
    PROVE  Max(S) \in S /\ \A y \in S : y <= Max(S)
<1> DEFINE T == {n - x : x \in S}
<1>1. T \in SUBSET Nat /\ T # {}
  <2>1. \A x \in S : n - x \in Nat
    OBVIOUS
  <2> QED
    BY <2>1
<1>2. PICK least \in T : \A y \in T : least <= y
  BY <1>1, LeastNatural
<1>3. PICK x \in S : least = n - x
  BY <1>2
<1>4. \A y \in S : x >= y
  <2> SUFFICES ASSUME NEW y \in S PROVE x >= y
    OBVIOUS
  <2>1. n - x <= n - y
    BY <1>2, <1>3
  <2> QED
    BY <2>1
<1> QED
  BY <1>4 DEF Max

\* Of a set with a greatest element, Max is that one.
LEMMA MaxOf ==
    ASSUME NEW S \in SUBSET Nat, NEW m \in S, \A y \in S : y <= m
    PROVE  Max(S) = m
<1>1. \A x \in S : (\A y \in S : x >= y) <=> x = m
  OBVIOUS
<1> QED
  BY <1>1 DEF Max

\* What RemoveAt leaves.
LEMMA Removed ==
    ASSUME NEW S, NEW h \in Seq(S), NEW i \in DOMAIN h
    PROVE  /\ i \in 1 .. Len(h) /\ Len(h) \in Nat /\ DOMAIN h = 1 .. Len(h)
           /\ DOMAIN RemoveAt(h, i) = 1 .. Len(h) - 1
           /\ \A k \in 1 .. Len(h) - 1 : RemoveAt(h, i)[k] = h[IF k < i THEN k ELSE k + 1]
<1> DEFINE before == SubSeq(h, 1, i - 1)
           after == SubSeq(h, i + 1, Len(h))
           g == RemoveAt(h, i)
<1>1. Len(h) \in Nat /\ DOMAIN h = 1 .. Len(h) /\ \A k \in 1 .. Len(h) : h[k] \in S
  BY LenProperties, ElementOfSeq
<1>2. i \in 1 .. Len(h) /\ i - 1 \in Int /\ i + 1 \in Int /\ 1 \in Int /\ Len(h) \in Int
  BY <1>1
<1>3. \A k \in 1 .. i - 1 : h[k] \in S
  BY <1>1, <1>2
<1>4. \A k \in i + 1 .. Len(h) : h[k] \in S
  BY <1>1, <1>2
<1>5. /\ before \in Seq(S) /\ Len(before) = i - 1
      /\ \A k \in 1 .. i - 1 : before[k] = h[k]
  BY <1>2, <1>3, SubSeqProperties
<1>6. /\ after \in Seq(S) /\ Len(after) = Len(h) - i
      /\ \A k \in 1 .. Len(h) - i : after[k] = h[i + k]
  BY <1>2, <1>4, SubSeqProperties
<1> HIDE DEF before, after
<1>7. /\ before \o after \in Seq(S) /\ Len(before \o after) = Len(h) - 1
      /\ \A k \in 1 .. Len(h) - 1 :
             (before \o after)[k] = IF k <= i - 1 THEN before[k] ELSE after[k - (i - 1)]
  <2>1. Len(before) + Len(after) = Len(h) - 1
    BY <1>1, <1>2, <1>5, <1>6
  <2>2. /\ before \o after \in Seq(S) /\ Len(before \o after) = Len(before) + Len(after)
        /\ \A k \in 1 .. Len(before) + Len(after) :
               (before \o after)[k] = IF k <= Len(before) THEN before[k] ELSE after[k - Len(before)]
    BY <1>5, <1>6, ConcatProperties
  <2> QED
    BY <1>5, <2>1, <2>2
<1>8. g = before \o after
  BY DEF RemoveAt, before, after
<1>9. DOMAIN g = 1 .. Len(h) - 1
  BY <1>7, <1>8, LenProperties
<1>10. ASSUME NEW k \in 1 .. Len(h) - 1 PROVE g[k] = h[IF k < i THEN k ELSE k + 1]
  <2>1. CASE k < i
    BY <1>2, <1>5, <1>7, <1>8, <2>1
  <2>2. CASE ~(k < i)
    <3>1. g[k] = after[k - (i - 1)] /\ k - (i - 1) \in 1 .. Len(h) - i
      BY <1>2, <1>7, <1>8, <2>2
    <3>2. after[k - (i - 1)] = h[i + (k - (i - 1))]
      BY <1>6, <3>1
    <3>3. i + (k - (i - 1)) = k + 1
      BY <1>1, <1>2
    <3> QED
      BY <2>2, <3>1, <3>2, <3>3
  <2> QED
    BY <2>1, <2>2
<1> QED
  BY <1>1, <1>2, <1>9, <1>10

\* No name loses its last value with a token that is overridden.
LEMMA LastValueStays ==
    ASSUME NEW h \in Seq(PreferTokens), NEW i \in DOMAIN h, Overridden(h, i), NEW name
    PROVE  LastValue(RemoveAt(h, i), name) = LastValue(h, name)
<1> DEFINE g == RemoveAt(h, i)
           n == Len(h)
           Up(k) == IF k < i THEN k ELSE k + 1
<1>1. /\ i \in 1 .. n /\ n \in Nat /\ DOMAIN h = 1 .. n /\ DOMAIN g = 1 .. n - 1
      /\ \A k \in 1 .. n - 1 : g[k] = h[Up(k)]
  BY Removed
<1> HIDE DEF g, n
<1>2. \A k \in 1 .. n - 1 : k \in Valued(g, name) <=> Up(k) \in Valued(h, name)
  BY <1>1 DEF Valued
<1>3. Valued(h, name) \in SUBSET (1 .. n) /\ Valued(g, name) \in SUBSET (1 .. n - 1)
  BY <1>1 DEF Valued
<1>4. CASE Valued(h, name) = {}
  <2>1. Valued(g, name) = {}
    BY <1>2, <1>3, <1>4
  <2> QED
    BY <1>4, <2>1 DEF LastValue, g
<1>5. CASE Valued(h, name) # {}
  <2> DEFINE m == Max(Valued(h, name))
             k == IF m < i THEN m ELSE m - 1
  <2>1. m \in Valued(h, name) /\ \A y \in Valued(h, name) : y <= m
    BY <1>1, <1>3, <1>5, MaxIs
  <2> HIDE DEF m
  <2>2. m # i
    <3>1. ASSUME m = i PROVE FALSE
      <4>1. PICK j \in i + 1 .. n : h[j].name = h[i].name /\ h[j].value \notin Valueless
        BY DEF Overridden, n
      <4>2. j \in Valued(h, name) /\ j > m
        BY <1>1, <2>1, <3>1, <4>1 DEF Valued
      <4> QED
        BY <1>1, <1>3, <2>1, <4>2
    <3> QED
      BY <3>1
  <2>3. k \in 1 .. n - 1 /\ Up(k) = m /\ m \in 1 .. n
    BY <1>1, <1>3, <2>1, <2>2
  <2> HIDE DEF k
  <2>4. k \in Valued(g, name)
    BY <1>2, <2>1, <2>3
  <2>5. ASSUME NEW y \in Valued(g, name) PROVE y <= k
    <3>1. Up(y) \in Valued(h, name) /\ y \in 1 .. n - 1
      BY <1>2, <1>3
    <3>2. Up(y) <= Up(k)
      BY <2>1, <2>3, <3>1
    <3> QED
      BY <1>1, <2>3, <3>1, <3>2
  <2>6. Max(Valued(g, name)) = k
    <3>1. Valued(g, name) \in SUBSET Nat
      BY <1>1, <1>3
    <3> QED
      BY <2>4, <2>5, <3>1, MaxOf
  <2>7. g[k].value = h[m].value
    BY <1>1, <2>3
  <2> QED
    BY <1>5, <2>4, <2>6, <2>7 DEF LastValue, m, g
<1> QED
  BY <1>4, <1>5

\* Nor is anything else of the header told by it.
LEMMA OverriddenTellsNothing ==
    ASSUME NEW h \in Seq(PreferTokens), NEW i \in DOMAIN h, Overridden(h, i)
    PROVE  Parse(RemoveAt(h, i)) = Parse(h)
<1> DEFINE g == RemoveAt(h, i)
           Up(k) == IF k < i THEN k ELSE k + 1
<1>1. /\ i \in 1 .. Len(h) /\ Len(h) \in Nat /\ DOMAIN h = 1 .. Len(h)
      /\ DOMAIN g = 1 .. Len(h) - 1
      /\ \A k \in 1 .. Len(h) - 1 : g[k] = h[Up(k)]
  BY Removed
<1>2. \A name : LastValue(g, name) = LastValue(h, name)
  BY LastValueStays
<1> HIDE DEF g
<1>3. \A k \in DOMAIN g : Up(k) \in DOMAIN h /\ Up(k) # i /\ h[Up(k)] = g[k]
  BY <1>1
<1>4. \A m \in DOMAIN h : m = i \/ \E k \in DOMAIN g : g[k] = h[m]
  <2> SUFFICES ASSUME NEW m \in DOMAIN h, m # i PROVE \E k \in DOMAIN g : g[k] = h[m]
    OBVIOUS
  <2>1. CASE m < i
    BY <1>1, <2>1
  <2>2. CASE m > i
    <3>1. m - 1 \in DOMAIN g /\ Up(m - 1) = m
      BY <1>1, <2>2
    <3> QED
      BY <1>1, <3>1
  <2> QED
    BY <1>1, <2>1, <2>2
<1>5. /\ h[i].name \in RuleNames /\ h[i].value \notin Valueless
      /\ h[i].name \notin AuthNames \cup {"all-rows"}
  BY DEF Overridden, RuleNames, Takes, AuthNames
<1>6. AllRows(g) <=> AllRows(h)
  BY <1>3, <1>4, <1>5 DEF AllRows
<1>7. BadTokens(g) # {} <=> BadTokens(h) # {}
  <2> DEFINE Bad(token) == \/ token.name \notin KnownNames
                           \/ token.name = "all-rows" /\ token.value # "bare"
                           \/ token.name \in RuleNames /\ token.value \in Valueless
  <2>1. ~Bad(h[i])
    BY <1>5 DEF KnownNames
  <2>2. /\ BadTokens(g) # {} <=> \E k \in DOMAIN g : Bad(g[k])
        /\ BadTokens(h) # {} <=> \E k \in DOMAIN h : Bad(h[k])
    BY DEF BadTokens
  <2> HIDE DEF Bad
  <2> QED
    BY <1>3, <1>4, <2>1, <2>2
<1>8. (\E k \in DOMAIN g : g[k].name \in AuthNames) <=> (\E k \in DOMAIN h : h[k].name \in AuthNames)
  BY <1>3, <1>4, <1>5
<1>9. \A surface : BadNames(g, surface) = BadNames(h, surface)
  BY <1>2 DEF BadNames
<1>10. \A name, default : Parsed(g, name, default) = Parsed(h, name, default)
  BY <1>2 DEF Parsed
<1>11. \A surface : (BadTokens(g) # {} \/ BadNames(g, surface) # {})
                      <=> (BadTokens(h) # {} \/ BadNames(h, surface) # {})
  BY <1>7, <1>9
<1>12. [surface \in Surfaces |-> BadTokens(g) # {} \/ BadNames(g, surface) # {}]
       = [surface \in Surfaces |-> BadTokens(h) # {} \/ BadNames(h, surface) # {}]
  BY <1>11, Zenon
<1> DEFINE Auth(x) == \E k \in DOMAIN x : x[k].name \in AuthNames
           Invalid(x) == [surface \in Surfaces |-> BadTokens(x) # {} \/ BadNames(x, surface) # {}]
           \* Parse, from the values of the names.
           Made(handling, count, return, missing, max, tx, resolution, last, all, auth, invalid) ==
               [strict |-> handling = "strict", count |-> count, return |-> return,
                missing |-> missing = "default", maxAffected |-> max # "", tx |-> tx,
                resolution |-> resolution,
                badResolution |-> last \notin Takes.resolution \cup {"absent"},
                allRows |-> all, auth |-> auth, invalid |-> invalid]
           Again(x) == Made(Parsed(x, "handling", "lenient"), Parsed(x, "count", "none"),
                            Parsed(x, "return", "minimal"), Parsed(x, "missing", ""),
                            Parsed(x, "max_affected", ""), Parsed(x, "tx", ""),
                            Parsed(x, "resolution", ""), LastValue(x, "resolution"),
                            AllRows(x), Auth(x), Invalid(x))
<1>13. AllRows(g) = AllRows(h) /\ Auth(g) = Auth(h) /\ Invalid(g) = Invalid(h)
  BY <1>6, <1>8, <1>12, Zenon DEF AllRows
<1>14. Parse(g) = Again(g) /\ Parse(h) = Again(h)
  BY Zenon DEF Parse
<1> HIDE DEF Made, Auth, Invalid
<1>15. Again(g) = Again(h)
  BY <1>2, <1>10, <1>13
<1> QED
  BY <1>14, <1>15 DEF g

\* An overridden token is inert: neither what a header applies nor what it is
\* refused for depends on it (prefer.go collectToken and Parse).
THEOREM OverriddenTokensChangeNothing == Spec => []OverriddenTokensAreInert
<1>1. FrontInv => OverriddenTokensAreInert
  BY OverriddenTellsNothing DEF FrontInv, RequestInv, Formed, OverriddenTokensAreInert
<1> QED
  BY FrontInitHolds, FrontStepKeeps, <1>1, PTL DEF Spec

-----------------------------------------------------------------------------
(* What is advertised is what is served.                                       *)

\* The methods of a table are the ones admission takes, but for UPDATE.
LEMMA MethodsAreAdmitted ==
    ASSUME NEW s, NEW account, NEW r, r.surface = "table",
           r.method \in {"GET", "HEAD"} \cup WriteMethods
    PROVE  /\ Admission(s, account, r) = "ok" => r.method \in TableMethods(s, account, r.target)
           /\ r.method \in TableMethods(s, account, r.target) =>
                  \/ Admission(s, account, r) = "ok"
                  \/ NeedsUpdate(r) /\ ~HasRight(s, account, r.target, "UPDATE")
<1>1. RightOf("GET") = "SELECT" /\ RightOf("HEAD") = "SELECT"
  BY DEF RightOf
<1>2. Admission(s, account, r) = "ok" <=>
          /\ HasTablePrivilege(s, account, r.target, RightOf(r.method))
          /\ r.method \notin {"GET", "HEAD"} => IsWritable(s, r.target)
          /\ NeedsUpdate(r) => HasRight(s, account, r.target, "UPDATE")
  BY DEF Admission
<1>3. r.method \in TableMethods(s, account, r.target) <=>
          /\ HasTablePrivilege(s, account, r.target, RightOf(r.method))
          /\ r.method \notin {"GET", "HEAD"} => IsWritable(s, r.target)
  BY <1>1 DEF TableMethods, WriteMethods
<1> QED
  BY <1>2, <1>3

LEMMA InDocument ==
    ASSUME NEW s, NEW account, NEW mode, NEW surface, NEW target, NEW method
    PROVE  [surface |-> surface, target |-> target, method |-> method] \in Document(s, account, mode)
           <=> \/ /\ surface = "table" /\ target \in Data[s.catalog].tables
                  /\ method \in DocumentedTable(s, account, target, mode)
               \/ /\ surface = "routine" /\ target \in Data[s.catalog].routines
                  /\ method \in DocumentedRoutine(s, account, target, mode)
<1>1. \A m \in DocumentedTable(s, account, target, mode) : m \in {"GET"} \cup WriteMethods
  BY DEF DocumentedTable, TableMethods
<1>2. \A m \in DocumentedRoutine(s, account, target, mode) : m \in {"GET"} \cup WriteMethods
  BY DEF DocumentedRoutine, RoutineMethods, WriteMethods
<1> QED
  BY <1>1, <1>2 DEF Document, Resources

LEMMA InAllowed ==
    ASSUME NEW s, NEW account, NEW r, r.surface \in {"table", "routine"}
    PROVE  [surface |-> r.surface, target |-> r.target, method |-> r.method] \in Allowed(s, account, r)
           <=> IF r.surface = "table" THEN r.method \in TableMethods(s, account, r.target)
               ELSE Admission(s, account, r) = "ok" /\ r.method \in RoutineMethods(s, r.target)
BY DEF Allowed

\* The method under which the document lists method.
Shown(method) == IF method = "HEAD" THEN "GET" ELSE method

\* What the document lists of a table is what OPTIONS does; without privileges it lists more.
LEMMA DocumentOfTable ==
    ASSUME NEW s, NEW account, NEW table, NEW method \in {"GET", "HEAD"} \cup WriteMethods
    PROVE  /\ Shown(method) \in DocumentedTable(s, account, table, "follow")
                  <=> method \in TableMethods(s, account, table)
           /\ method \in TableMethods(s, account, table) =>
                  Shown(method) \in DocumentedTable(s, account, table, "ignore")
BY DEF Shown, DocumentedTable, TableMethods, WriteMethods, RightOf

LEMMA DocumentOfRoutine ==
    ASSUME NEW s, NEW account, NEW routine, NEW mode, NEW method \in {"GET", "HEAD", "POST"}
    PROVE  Shown(method) \in DocumentedRoutine(s, account, routine, mode)
           <=> /\ method \in RoutineMethods(s, routine)
               /\ mode = "follow" => HasRight(s, account, routine, "EXECUTE")
BY DEF Shown, DocumentedRoutine, RoutineMethods

\* A method that is listed is admitted while the snapshot stays, and one that is
\* not never runs (options.go, openapi.go).
THEOREM AllowIsHonestHolds == Spec => []AllowIsHonest
<1>1. FrontInv => AllowIsHonest
  <2> DEFINE told == [surface |-> req.surface, target |-> req.target,
                      method |-> IF advice.kind = "document" /\ req.method = "HEAD" THEN "GET"
                                 ELSE req.method]
             listed == told \in advice.methods
             lacking == NeedsUpdate(req) /\ ~HasRight(using, Account, req.target, "UPDATE")
             admission == Admission(using, Account, req)
  <2> SUFFICES ASSUME FrontInv, advice.kind \in {"allow", "document"},
                      verdict # "pending", using.version = advice.version
               PROVE  /\ (listed /\ (advice.kind = "allow" \/ settings.mode = "follow")) =>
                              verdict = "admitted" \/ lacking
                      /\ ~listed => ~ran
    BY DEF AllowIsHonest
  <2>1. verdict # "admitted" =>
            /\ req.surface # "root" /\ req.method # "OPTIONS"
            /\ \/ admission # "ok"
               \/ req.surface = "routine" /\ req.method # "POST" /\ ~ReadSafe(using, req.target)
    BY DEF FrontInv, StageInv, RefusedInv
  <2>2. ran =>
            /\ req.surface # "root" /\ req.method # "OPTIONS" /\ admission = "ok"
            /\ (req.surface = "routine" /\ req.method # "POST") => ReadSafe(using, req.target)
    BY DEF FrontInv, StageInv, RanInv, Admitted
  <2>3. settings.mode \in {"follow", "ignore"} /\ req.method \in MethodsOn(req.surface)
        /\ req.surface \in {"root", "table", "routine"}
    BY DEF FrontInv, RequestInv, Formed, Settings
  <2>4. CASE req.surface = "root" \/ req.method = "OPTIONS"
    BY <2>1, <2>2, <2>4
  <2>5. CASE req.surface = "table" /\ req.method # "OPTIONS"
    <3>1. req.method \in {"GET", "HEAD"} \cup WriteMethods
      BY <2>3, <2>5 DEF MethodsOn
    <3>2. /\ admission = "ok" => req.method \in TableMethods(using, Account, req.target)
          /\ req.method \in TableMethods(using, Account, req.target) => admission = "ok" \/ lacking
      BY <2>5, <3>1, MethodsAreAdmitted
    <3>3. admission = "ok" => req.target \in Data[using.catalog].tables
      BY <2>5 DEF Admission, HasTablePrivilege
    <3>4. CASE advice.kind = "allow"
      <4>1. listed <=> req.method \in TableMethods(using, Account, req.target)
        <5>1. advice.methods = Allowed(using, Account, req)
          BY <3>4 DEF FrontInv, AdviceInv
        <5> QED
          BY <2>5, <3>4, <5>1, InAllowed
      <4> QED
        BY <2>1, <2>2, <2>5, <3>2, <4>1
    <3>5. CASE advice.kind = "document"
      <4>1. listed <=> /\ req.target \in Data[using.catalog].tables
                       /\ Shown(req.method) \in DocumentedTable(using, Account, req.target, settings.mode)
        <5>1. advice.methods = Document(using, Account, settings.mode)
          BY <3>5 DEF FrontInv, AdviceInv
        <5>2. told = [surface |-> req.surface, target |-> req.target, method |-> Shown(req.method)]
          BY <3>5 DEF Shown
        <5> QED
          BY <2>5, <5>1, <5>2, InDocument
      <4>2. /\ settings.mode = "follow" =>
                  (Shown(req.method) \in DocumentedTable(using, Account, req.target, settings.mode)
                   <=> req.method \in TableMethods(using, Account, req.target))
            /\ req.method \in TableMethods(using, Account, req.target) =>
                  Shown(req.method) \in DocumentedTable(using, Account, req.target, settings.mode)
        BY <2>3, <3>1, DocumentOfTable
      <4> QED
        BY <2>1, <2>2, <2>5, <3>2, <3>3, <3>5, <4>1, <4>2
    <3> QED
      BY <3>4, <3>5
  <2>6. CASE req.surface = "routine" /\ req.method # "OPTIONS"
    <3>1. req.method \in {"GET", "HEAD", "POST"}
      BY <2>3, <2>6 DEF MethodsOn
    <3>2. req.method \in RoutineMethods(using, req.target) <=>
              (req.method = "POST" \/ ReadSafe(using, req.target))
      BY <3>1 DEF RoutineMethods
    <3>3. admission = "ok" <=> /\ req.target \in Data[using.catalog].routines
                               /\ HasRight(using, Account, req.target, "EXECUTE")
      BY <2>6 DEF Admission
    <3>4. CASE advice.kind = "allow"
      <4>1. listed <=> admission = "ok" /\ req.method \in RoutineMethods(using, req.target)
        <5>1. advice.methods = Allowed(using, Account, req)
          BY <3>4 DEF FrontInv, AdviceInv
        <5> QED
          BY <2>6, <3>4, <5>1, InAllowed
      <4> QED
        BY <2>1, <2>2, <2>6, <3>2, <4>1
    <3>5. CASE advice.kind = "document"
      <4>1. listed <=> /\ req.target \in Data[using.catalog].routines
                       /\ Shown(req.method) \in DocumentedRoutine(using, Account, req.target, settings.mode)
        <5>1. advice.methods = Document(using, Account, settings.mode)
          BY <3>5 DEF FrontInv, AdviceInv
        <5>2. told = [surface |-> req.surface, target |-> req.target, method |-> Shown(req.method)]
          BY <3>5 DEF Shown
        <5> QED
          BY <2>6, <5>1, <5>2, InDocument
      <4>2. Shown(req.method) \in DocumentedRoutine(using, Account, req.target, settings.mode)
            <=> /\ req.method \in RoutineMethods(using, req.target)
                /\ settings.mode = "follow" => HasRight(using, Account, req.target, "EXECUTE")
        BY <3>1, DocumentOfRoutine
      <4> QED
        BY <2>1, <2>2, <2>6, <3>2, <3>3, <3>5, <4>1, <4>2
    <3> QED
      BY <3>4, <3>5
  <2> QED
    BY <2>3, <2>4, <2>5, <2>6
<1> QED
  BY FrontInitHolds, FrontStepKeeps, <1>1, PTL DEF Spec

-----------------------------------------------------------------------------
(* The hints a PGRST201 answer proposes.                                       *)

\* A plan that does not find its way stops at the first embed that fails.
LEMMA FirstFailure ==
    ASSUME NEW c, NEW readable, NEW from, NEW path, PathOK(path)
    PROVE  LET plan == PlanEmbeds(c, readable, from, path)
               Finds(i) == StepAnswer(c, readable, from, path, i).answer = "found"
           IN  \/ /\ plan.answer = "found" /\ plan.at = 0 /\ \A i \in DOMAIN path : Finds(i)
                  /\ plan.options = UNION {StepAnswer(c, readable, from, path, i).options :
                                              i \in DOMAIN path}
               \/ /\ plan.answer # "found" /\ plan.at \in DOMAIN path
                  /\ ~Finds(plan.at) /\ \A j \in 1 .. plan.at - 1 : Finds(j)
                  /\ plan.answer = StepAnswer(c, readable, from, path, plan.at).answer
                  /\ plan.options = StepAnswer(c, readable, from, path, plan.at).options
<1> DEFINE plan == PlanEmbeds(c, readable, from, path)
           Answer(i) == StepAnswer(c, readable, from, path, i)
           Finds(i) == Answer(i).answer = "found"
           First(i) == ~Finds(i) /\ \A j \in 1 .. i - 1 : Finds(j)
           first == CHOOSE i \in DOMAIN path : First(i)
<1>1. PICK n \in Nat : DOMAIN path = 1 .. n
  BY DEF PathOK
<1>2. CASE \A i \in DOMAIN path : Finds(i)
  BY <1>2 DEF PlanEmbeds
<1>3. CASE ~\A i \in DOMAIN path : Finds(i)
  <2> DEFINE failing == {i \in 1 .. n : ~Finds(i)}
  <2>1. failing \in SUBSET Nat /\ failing # {}
    BY <1>1, <1>3
  <2>2. PICK least \in failing : \A y \in failing : least <= y
    BY <2>1, LeastNatural
  <2>3. least \in DOMAIN path /\ First(least)
    BY <1>1, <2>2
  <2>4. first \in DOMAIN path /\ First(first)
    <3> HIDE DEF First
    <3> QED
      BY <2>3
  <2>5. plan = [answer |-> Answer(first).answer, at |-> first, options |-> Answer(first).options]
    BY <1>3, Zenon DEF PlanEmbeds
  <2> HIDE DEF first
  <2>6. plan.answer = Answer(first).answer /\ plan.at = first /\ plan.options = Answer(first).options
    BY <2>5
  <2> HIDE DEF plan
  <2>7. /\ plan.answer # "found" /\ plan.at \in DOMAIN path
        /\ ~Finds(plan.at) /\ \A j \in 1 .. plan.at - 1 : Finds(j)
        /\ plan.answer = Answer(plan.at).answer /\ plan.options = Answer(plan.at).options
    BY <2>4, <2>6
  <2> QED
    BY <2>7 DEF plan
<1> QED
  BY <1>2, <1>3

\* The relationships from origin to target: keys either way, and join tables.
LEMMA RelationIs ==
    ASSUME NEW c, NEW origin, NEW target, NEW rel \in RelationshipsOf(c, origin, target)
    PROVE  \/ \E i \in DOMAIN c.fks :
                 rel = ToOne(c.fks[i]) /\ c.fks[i].table = origin /\ c.fks[i].ref = target
           \/ \E i \in DOMAIN c.fks :
                 rel = ToMany(c.fks[i]) /\ c.fks[i].table = target /\ c.fks[i].ref = origin
           \/ rel \in ManyToMany(c, origin, target)
BY DEF RelationshipsOf

LEMMA JoinIs ==
    ASSUME NEW c, NEW origin, NEW target, NEW rel \in ManyToMany(c, origin, target)
    PROVE  /\ rel.card = "many-to-many" /\ rel.origin = origin /\ rel.target = target
           /\ rel.name \in c.tables
           /\ rel.ocols = c.pk[origin] /\ rel.tcols = c.pk[target]
           /\ rel.jo \cup rel.jt \subseteq c.pk[rel.name]
           /\ \A other \in ManyToMany(c, origin, target) : other.name = rel.name => other = rel
<1> DEFINE Via(join) ==
      [card |-> "many-to-many", name |-> join, origin |-> origin, target |-> target,
       ocols |-> c.pk[origin], tcols |-> c.pk[target], join |-> join,
       jo |-> LastTo(c, join, origin).cols, jt |-> LastTo(c, join, target).cols]
<1>1. \A other \in ManyToMany(c, origin, target) :
          \E join \in c.tables : other = Via(join) /\ PkCoversFKs(c, join, origin, target)
  BY DEF ManyToMany
<1>2. PICK join \in c.tables : rel = Via(join) /\ PkCoversFKs(c, join, origin, target)
  BY <1>1
<1>3. rel.jo \cup rel.jt \subseteq c.pk[join]
  BY <1>2 DEF PkCoversFKs
<1>4. \A other \in ManyToMany(c, origin, target) : other = Via(other.name)
  BY <1>1
<1>5. rel = Via(rel.name)
  BY <1>4
<1> QED
  BY <1>2, <1>3, <1>4, <1>5

LEMMA EndsAre ==
    ASSUME NEW c, NEW origin, NEW target, NEW rel \in RelationshipsOf(c, origin, target)
    PROVE  rel.origin = origin /\ rel.target = target
           /\ rel.card \in {"many-to-one", "one-to-many", "many-to-many"}
BY RelationIs, JoinIs DEF ToOne, ToMany

\* Its columns are columns of keys.
LEMMA ColumnsAre ==
    ASSUME NEW c, NEW origin \in c.tables, NEW target \in c.tables,
           NEW rel \in RelationshipsOf(c, origin, target)
    PROVE  rel.ocols \cup rel.tcols \cup rel.jo \cup rel.jt \subseteq KeyColumns(c)
<1>1. \A i \in DOMAIN c.fks : c.fks[i].cols \cup c.fks[i].refcols \subseteq KeyColumns(c)
  BY DEF KeyColumns
<1>2. \A t \in c.tables : c.pk[t] \subseteq KeyColumns(c)
  BY DEF KeyColumns
<1>3. CASE \E i \in DOMAIN c.fks : rel \in {ToOne(c.fks[i]), ToMany(c.fks[i])}
  BY <1>1, <1>3 DEF ToOne, ToMany
<1>4. CASE rel \in ManyToMany(c, origin, target)
  BY <1>2, <1>4, JoinIs
<1> QED
  BY <1>3, <1>4, RelationIs

LEMMA SizeIsOne == \A x : Cardinality({x}) = 1 /\ Cardinality({}) = 0
BY FS_EmptySet, FS_Singleton

LEMMA FilledHasSize ==
    ASSUME NEW S, IsFiniteSet(S), S # {}
    PROVE  Cardinality(S) \in Nat \ {0}
BY FS_CardinalityType, FS_EmptySet

\* Every foreign key of the catalog has columns.
KeysHaveColumns(c) ==
    \A i \in DOMAIN c.fks : IsFiniteSet(c.fks[i].cols) /\ c.fks[i].cols # {}

\* The hint that is proposed for a path matches it.
LEMMA HintFitsItsPath ==
    ASSUME NEW c, KeysHaveColumns(c), NEW origin, NEW target,
           NEW rel \in RelationshipsOf(c, origin, target), ~Unproposable(rel),
           NEW hint \in OptionHint(rel.origin, rel)
    PROVE  /\ rel \in FilterByHint(RelationshipsOf(c, origin, target), hint)
           /\ (origin # target \/ rel.card = "many-to-one") => hint = rel.name
           /\ (origin = target /\ rel.card # "many-to-one") =>
                  rel.card = "one-to-many" /\ hint \in rel.tcols
<1>1. rel.origin = origin /\ rel.target = target
      /\ rel.card \in {"many-to-one", "one-to-many", "many-to-many"}
  BY EndsAre
<1>2. CASE origin # target
  <2>1. hint = rel.name
    BY <1>1, <1>2 DEF OptionHint
  <2> QED
    BY <1>1, <1>2, <2>1 DEF FilterByHint, HintMatches
<1>3. CASE origin = target /\ rel.card = "many-to-one"
  <2>1. hint = rel.name
    BY <1>3 DEF OptionHint
  <2> QED
    BY <1>1, <1>3, <2>1 DEF FilterByHint, SelfHintMatches
<1>4. CASE origin = target /\ rel.card # "many-to-one"
  <2>1. rel.card = "one-to-many" /\ ~(Cardinality(rel.tcols) > 1)
    BY <1>1, <1>4 DEF Unproposable
  <2>2. Cardinality(rel.tcols) \in Nat \ {0}
    <3>1. PICK i \in DOMAIN c.fks : rel = ToMany(c.fks[i])
      BY <2>1, RelationIs, JoinIs DEF ToOne
    <3>2. rel.tcols = c.fks[i].cols
      BY <3>1 DEF ToMany
    <3> QED
      BY <3>2, FilledHasSize DEF KeysHaveColumns
  <2>3. hint \in rel.tcols
    BY <1>1, <1>4, <2>1, <2>2 DEF OptionHint
  <2> QED
    BY <1>1, <1>4, <2>1, <2>3 DEF FilterByHint, SelfHintMatches
<1> QED
  BY <1>2, <1>3, <1>4

\* Where names tell paths apart it matches no other, between two tables...
LEMMA HintTellsApart ==
    ASSUME NEW c, NamesTellApart(c), NEW origin \in c.tables, NEW target \in c.tables,
           origin # target, NEW rel \in RelationshipsOf(c, origin, target),
           NEW other \in RelationshipsOf(c, origin, target), HintMatches(other, rel.name)
    PROVE  other = rel
<1>1. \A i \in DOMAIN c.fks : c.fks[i].name \notin c.tables \cup KeyColumns(c)
  BY DEF NamesTellApart
<1>2. \A i, j \in DOMAIN c.fks : c.fks[i].name = c.fks[j].name => i = j
  BY DEF NamesTellApart
<1>3. c.tables \cap KeyColumns(c) = {}
  BY DEF NamesTellApart
<1>4. \A r \in RelationshipsOf(c, origin, target) :
          \/ \E i \in DOMAIN c.fks :
                 /\ r.name = c.fks[i].name
                 /\ r = IF c.fks[i].table = origin THEN ToOne(c.fks[i]) ELSE ToMany(c.fks[i])
          \/ r \in ManyToMany(c, origin, target) /\ r.name \in c.tables
  <2> SUFFICES ASSUME NEW r \in RelationshipsOf(c, origin, target),
                      r \notin ManyToMany(c, origin, target)
               PROVE  \E i \in DOMAIN c.fks :
                          /\ r.name = c.fks[i].name
                          /\ r = IF c.fks[i].table = origin THEN ToOne(c.fks[i]) ELSE ToMany(c.fks[i])
    BY JoinIs
  <2>1. PICK i \in DOMAIN c.fks :
            \/ r = ToOne(c.fks[i]) /\ c.fks[i].table = origin
            \/ r = ToMany(c.fks[i]) /\ c.fks[i].table = target
    BY RelationIs
  <2>2. ToOne(c.fks[i]).name = c.fks[i].name /\ ToMany(c.fks[i]).name = c.fks[i].name
    BY DEF ToOne, ToMany
  <2> QED
    BY <2>1, <2>2
<1>5. rel.name \notin KeyColumns(c)
  BY <1>1, <1>3, <1>4
<1>6. other.name = rel.name
  BY <1>5, ColumnsAre DEF HintMatches
<1> QED
  BY <1>1, <1>2, <1>4, <1>6, JoinIs

\* ... and from a table to itself.
LEMMA SelfHintTellsApart ==
    ASSUME NEW c, NamesTellApart(c), NEW table \in c.tables,
           NEW rel \in RelationshipsOf(c, table, table), NEW other \in RelationshipsOf(c, table, table),
           NEW hint, SelfHintMatches(other, hint),
           IF rel.card = "many-to-one" THEN hint = rel.name
           ELSE rel.card = "one-to-many" /\ hint \in rel.tcols
    PROVE  other = rel
<1>1. \A i \in DOMAIN c.fks :
          /\ c.fks[i].name \notin c.tables \cup KeyColumns(c)
          /\ c.fks[i].table = c.fks[i].ref => c.fks[i].cols \cap c.pk[c.fks[i].ref] = {}
  BY DEF NamesTellApart
<1>2. \A i, j \in DOMAIN c.fks : c.fks[i].name = c.fks[j].name => i = j
  BY DEF NamesTellApart
<1>3. ASSUME NEW i \in DOMAIN c.fks, NEW j \in DOMAIN c.fks, i # j,
             c.fks[i].table = table, c.fks[i].ref = table,
             c.fks[j].table = table, c.fks[j].ref = table
      PROVE  c.fks[i].cols \cap c.fks[j].cols = {}
  BY <1>3 DEF NamesTellApart
<1>4. CASE rel.card = "many-to-one"
  <2>1. PICK i \in DOMAIN c.fks : rel = ToOne(c.fks[i])
    BY <1>4, RelationIs, JoinIs DEF ToMany
  <2>2. hint = c.fks[i].name /\ hint \notin KeyColumns(c)
    BY <1>1, <1>4, <2>1 DEF ToOne
  <2>3. other.tcols \subseteq KeyColumns(c)
    BY ColumnsAre
  <2>4. other.card = "many-to-one" /\ other.name = hint
    BY <2>2, <2>3 DEF SelfHintMatches
  <2>5. PICK j \in DOMAIN c.fks : other = ToOne(c.fks[j])
    BY <2>4, RelationIs, JoinIs DEF ToMany
  <2>6. c.fks[j].name = c.fks[i].name
    BY <2>2, <2>4, <2>5 DEF ToOne
  <2> QED
    BY <1>2, <2>1, <2>5, <2>6
<1>5. CASE rel.card = "one-to-many"
  <2>1. PICK i \in DOMAIN c.fks : rel = ToMany(c.fks[i]) /\ c.fks[i].table = table /\ c.fks[i].ref = table
    BY <1>5, RelationIs, JoinIs DEF ToOne
  <2>2. hint \in c.fks[i].cols /\ hint \in KeyColumns(c)
    BY <1>5, <2>1, ColumnsAre DEF ToMany
  <2>3. CASE \E j \in DOMAIN c.fks : other = ToOne(c.fks[j])
    BY <1>1, <2>2, <2>3 DEF ToOne, SelfHintMatches
  <2>4. CASE other \in ManyToMany(c, table, table)
    <3>1. hint \in c.pk[table]
      BY <2>4, JoinIs DEF SelfHintMatches
    <3> QED
      BY <1>1, <2>1, <2>2, <3>1
  <2>5. ASSUME NEW j \in DOMAIN c.fks, other = ToMany(c.fks[j]),
               c.fks[j].table = table, c.fks[j].ref = table
        PROVE  other = rel
    <3>1. hint \in c.fks[j].cols
      BY <2>5 DEF ToMany, SelfHintMatches
    <3>2. i = j
      BY <1>3, <2>1, <2>2, <2>5, <3>1
    <3> QED
      BY <2>1, <2>5, <3>2
  <2> QED
    BY <2>3, <2>4, <2>5, RelationIs
<1> QED
  BY <1>4, <1>5

LEMMA HintChoosesOne ==
    ASSUME NEW c, KeysHaveColumns(c), NamesTellApart(c), NEW origin \in c.tables,
           NEW target \in c.tables, NEW rel \in RelationshipsOf(c, origin, target),
           ~Unproposable(rel), NEW hint \in OptionHint(rel.origin, rel)
    PROVE  hint # None /\ FilterByHint(RelationshipsOf(c, origin, target), hint) = {rel}
<1>1. /\ rel \in FilterByHint(RelationshipsOf(c, origin, target), hint)
      /\ (origin # target \/ rel.card = "many-to-one") => hint = rel.name
      /\ (origin = target /\ rel.card # "many-to-one") =>
             rel.card = "one-to-many" /\ hint \in rel.tcols
  BY HintFitsItsPath
<1>2. hint # None
  <2>1. rel.tcols \subseteq KeyColumns(c)
    BY ColumnsAre
  <2>2. rel.name \in c.tables \cup {c.fks[i].name : i \in DOMAIN c.fks}
    BY RelationIs, JoinIs DEF ToOne, ToMany
  <2>3. None \notin KeyColumns(c) \cup c.tables \cup {c.fks[i].name : i \in DOMAIN c.fks}
    BY DEF NamesTellApart
  <2> QED
    BY <1>1, <2>1, <2>2, <2>3
<1>3. ASSUME NEW other \in FilterByHint(RelationshipsOf(c, origin, target), hint)
      PROVE  other = rel
  <2>1. other \in RelationshipsOf(c, origin, target)
        /\ IF other.origin = other.target THEN SelfHintMatches(other, hint) ELSE HintMatches(other, hint)
    BY <1>3 DEF FilterByHint
  <2>2. other.origin = origin /\ other.target = target
    BY <2>1, EndsAre
  <2>3. CASE origin # target
    BY <1>1, <2>1, <2>2, <2>3, HintTellsApart
  <2>4. CASE origin = target
    BY <1>1, <2>1, <2>2, <2>4, SelfHintTellsApart
  <2> QED
    BY <2>3, <2>4
<1> QED
  BY <1>1, <1>2, <1>3

\* An ask that means a path that rel is one of means rel under its hint, and
\* only rel where names tell paths apart.
LEMMA HintResolves ==
    ASSUME NEW c, KeysHaveColumns(c), NEW readable, NEW origin, NEW ask, NEW again,
           again.target = ask.target, NEW rel \in Candidates(c, readable, origin, ask),
           ~Unproposable(rel), again.hint \in OptionHint(rel.origin, rel)
    PROVE  LET step == Resolve(c, readable, origin, again)
           IN  /\ rel \in step.options
               /\ step.answer # "found" =>
                      \/ step.answer = "spread"
                      \/ origin \notin c.tables \/ ~NamesTellApart(c)
<1> DEFINE options == Candidates(c, readable, origin, again)
           step == Resolve(c, readable, origin, again)
<1>1. ask.target \in c.tables \cap readable /\ rel \in RelationshipsOf(c, origin, ask.target)
  BY DEF Candidates, FilterByHint
<1>2. rel \in FilterByHint(RelationshipsOf(c, origin, ask.target), again.hint)
  BY <1>1, HintFitsItsPath
<1>3. rel \in options
  BY <1>1, <1>2 DEF Candidates
<1>4. ASSUME origin \in c.tables, NamesTellApart(c) PROVE options = {rel}
  <2>1. again.hint # None
        /\ FilterByHint(RelationshipsOf(c, origin, ask.target), again.hint) = {rel}
    BY <1>1, <1>4, HintChoosesOne
  <2> QED
    BY <1>1, <2>1 DEF Candidates
<1> HIDE DEF options
<1>5. /\ step.options = options
      /\ step.answer = CASE Cardinality(options) = 1 -> IF again.spread THEN "spread" ELSE "found"
                         [] options = {} -> "missing"
                         [] OTHER -> "ambiguous"
  BY <1>1 DEF Resolve, options
<1> HIDE DEF step
<1>6. options = {rel} => step.answer \in {"spread", "found"}
  <2> SUFFICES ASSUME options = {rel} PROVE step.answer \in {"spread", "found"}
    OBVIOUS
  <2>1. Cardinality(options) = 1 /\ options # {}
    BY SizeIsOne
  <2> QED
    BY <1>5, <2>1
<1>7. /\ rel \in step.options
      /\ step.answer # "found" =>
             step.answer = "spread" \/ origin \notin c.tables \/ ~NamesTellApart(c)
  BY <1>3, <1>4, <1>5, <1>6
<1> QED
  BY <1>7 DEF step

\* An embed that is found is one of a table.
LEMMA FoundIsTable ==
    ASSUME NEW c, NEW readable, NEW origin, NEW ask,
           Resolve(c, readable, origin, ask).answer = "found"
    PROVE  ask.target \in c.tables
<1> DEFINE options == Candidates(c, readable, origin, ask)
<1>1. Cardinality(options) = 1
  BY DEF Resolve
<1>2. options # {}
  BY <1>1, SizeIsOne
<1> QED
  BY <1>2 DEF Candidates

\* A plan that is ambiguous is not stopped before there by a proposed hint.
LEMMA HintIsFollowed ==
    ASSUME NEW c, KeysHaveColumns(c), NEW readable, NEW from \in c.tables,
           NEW old, PathOK(old), PlanEmbeds(c, readable, from, old).answer = "ambiguous",
           NEW rel \in PlanEmbeds(c, readable, from, old).options, ~Unproposable(rel),
           NEW hint \in OptionHint(rel.origin, rel),
           NEW at, at = PlanEmbeds(c, readable, from, old).at,
           NEW new, new = Hinted(old, at, hint)
    PROVE  LET plan == PlanEmbeds(c, readable, from, new)
           IN  /\ plan.at = 0 \/ plan.at >= at
               /\ plan.at \in {0, at} => rel \in plan.options
               /\ plan.at = at => plan.answer = "spread" \/ ~NamesTellApart(c)
<1> DEFINE before == PlanEmbeds(c, readable, from, old)
           plan == PlanEmbeds(c, readable, from, new)
           Was(i) == StepAnswer(c, readable, from, old, i)
           Is(i) == StepAnswer(c, readable, from, new, i)
           origin == IF at = 1 THEN from ELSE old[at - 1].target
<1>1. PICK n \in Nat :
        DOMAIN old = 1 .. n /\ \A i \in 1 .. n : DOMAIN old[i] = {"target", "hint", "spread"}
  BY DEF PathOK
<1>2. /\ at \in 1 .. n /\ \A j \in 1 .. at - 1 : Was(j).answer = "found"
      /\ rel \in Was(at).options
  BY <1>1, FirstFailure
<1>3. /\ DOMAIN new = 1 .. n /\ \A i \in 1 .. n : i # at => new[i] = old[i]
      /\ new[at] = [old[at] EXCEPT !.hint = hint]
  BY <1>1, <1>2 DEF Hinted
<1>4. new[at].target = old[at].target /\ new[at].hint = hint /\ DOMAIN new[at] = DOMAIN old[at]
  BY <1>1, <1>2, <1>3
<1>5. \A i \in 1 .. n : new[i].target = old[i].target
  BY <1>3, <1>4
<1>6. \A i \in 1 .. n : i # at => Is(i) = Was(i)
  <2> SUFFICES ASSUME NEW i \in 1 .. n, i # at PROVE Is(i) = Was(i)
    OBVIOUS
  <2>1. i # 1 => i - 1 \in 1 .. n
    BY <1>1
  <2>2. i # 1 => new[i - 1].target = old[i - 1].target
    BY <1>5, <2>1
  <2>3. new[i] = old[i]
    BY <1>3
  <2> QED
    BY <2>2, <2>3 DEF StepAnswer
<1>7. Was(at) = Resolve(c, readable, origin, old[at]) /\ Is(at) = Resolve(c, readable, origin, new[at])
  <2>1. at # 1 => at - 1 \in 1 .. n
    BY <1>1, <1>2
  <2>2. at # 1 => new[at - 1].target = old[at - 1].target
    BY <1>5, <2>1
  <2> QED
    BY <2>2 DEF StepAnswer
<1>8. origin \in c.tables
  <2>1. CASE at = 1
    BY <2>1
  <2>2. CASE at # 1
    <3>1. at - 1 \in 1 .. at - 1
      BY <1>1, <1>2, <2>2
    <3>2. Was(at - 1).answer = "found"
      BY <1>2, <3>1
    <3> QED
      BY <2>2, <3>2, FoundIsTable DEF StepAnswer
  <2> QED
    BY <2>1, <2>2
<1>9. /\ rel \in Is(at).options
      /\ Is(at).answer # "found" => Is(at).answer = "spread" \/ ~NamesTellApart(c)
  <2>1. rel \in Candidates(c, readable, origin, old[at])
    BY <1>2, <1>7 DEF Resolve
  <2> HIDE DEF origin
  <2>2. /\ rel \in Resolve(c, readable, origin, new[at]).options
        /\ Resolve(c, readable, origin, new[at]).answer # "found" =>
               \/ Resolve(c, readable, origin, new[at]).answer = "spread"
               \/ origin \notin c.tables \/ ~NamesTellApart(c)
    BY <1>4, <2>1, HintResolves
  <2> QED
    BY <1>7, <1>8, <2>2
<1>10. PathOK(new)
  BY <1>1, <1>3, <1>4 DEF PathOK
<1> HIDE DEF plan, Is, Was
<1>11. CASE plan.answer = "found"
  <2>1. plan.at = 0 /\ plan.options = UNION {Is(i).options : i \in DOMAIN new}
    BY <1>10, <1>11, FirstFailure DEF plan, Is
  <2>2. rel \in plan.options
    BY <1>2, <1>3, <1>9, <2>1
  <2>3. at # 0
    BY <1>2
  <2> QED
    BY <2>1, <2>2, <2>3 DEF plan
<1>12. CASE plan.answer # "found"
  <2>1. /\ plan.at \in 1 .. n /\ Is(plan.at).answer # "found"
        /\ plan.answer = Is(plan.at).answer /\ plan.options = Is(plan.at).options
    BY <1>3, <1>10, <1>12, FirstFailure DEF plan, Is
  <2>2. plan.at >= at
    <3> SUFFICES ASSUME plan.at < at PROVE FALSE
      BY <1>2, <2>1
    <3>1. plan.at \in 1 .. at - 1 /\ plan.at # at
      BY <1>2, <2>1
    <3>2. Is(plan.at) = Was(plan.at) /\ Was(plan.at).answer = "found"
      BY <1>2, <1>6, <2>1, <3>1
    <3> QED
      BY <2>1, <3>2
  <2>3. plan.at # 0
    BY <2>1
  <2> QED
    BY <1>9, <2>1, <2>2, <2>3 DEF plan
<1> QED
  BY <1>11, <1>12

\* A PGRST201 answer can be acted on: a hint it proposes finds its path (embed.go
\* optionHint, relationship.go filterByHint).
THEOREM ProposedHintsAreGood == Spec => []ProposedHintsResolve
<1>1. FrontInv => ProposedHintsResolve
  <2> SUFFICES ASSUME FrontInv, advice.kind = "hints", asks = 2, using.version = advice.version,
                      planned.answer # "none",
                      \A rel \in req.expects : ~Unproposable(rel)
               PROVE  /\ planned.at = 0 \/ planned.at >= advice.at
                      /\ planned.at \in {0, advice.at} => req.expects \subseteq planned.options
                      /\ planned.at = advice.at =>
                             planned.answer = "spread" \/ ~NamesTellApart(Data[using.catalog])
    BY DEF ProposedHintsResolve
  <2> DEFINE c == Data[using.catalog]
             readable == Readable(using, Account)
             Plans(path) == PlanEmbeds(c, readable, req.target, path)
  <2>1. PICK old :
          /\ PathOK(old) /\ Follows(req, asks, old, advice)
          /\ Told(using, Account, req.target, old, advice)
    BY DEF FrontInv, AdviceInv
  <2>2. Plans(old).answer = "ambiguous" /\ Plans(old).at = advice.at
        /\ advice.hints = Proposals(Plans(old))
    BY <2>1 DEF Told
  <2>3. PICK hint \in advice.hints :
          /\ req.path = Hinted(old, advice.at, hint.hint)
          /\ req.expects = hint.rel
    BY <2>1 DEF Follows
  <2> HIDE DEF Plans
  <2>4. PICK rel \in Plans(old).options : hint.hint \in OptionHint(rel.origin, rel) /\ hint.rel = {rel}
    BY <2>2, <2>3 DEF Proposals
  <2>5. /\ planned = Plans(req.path) /\ using.version > 0
        /\ Admission(using, Account, req) = "ok" /\ req.surface = "table"
    <3>1. planned # NotPlanned /\ req.surface = "table"
      BY DEF NotPlanned, FrontInv, AdviceInv
    <3> QED
      BY <3>1 DEF FrontInv, PlanInv, Plans
  <2>6. req.target \in c.tables
    BY <2>5 DEF Admission, HasTablePrivilege
  <2>7. KeysHaveColumns(c)
    BY <2>5, KeyAssumption DEF FrontInv, UsingInv, Agrees, KeysHaveColumns
  <2>8. ~Unproposable(rel)
    BY <2>3, <2>4
  <2>9. /\ planned.at = 0 \/ planned.at >= advice.at
        /\ planned.at \in {0, advice.at} => rel \in planned.options
        /\ planned.at = advice.at => planned.answer = "spread" \/ ~NamesTellApart(c)
    BY <2>1, <2>2, <2>3, <2>4, <2>5, <2>6, <2>7, <2>8, HintIsFollowed DEF Plans
  <2> QED
    BY <2>3, <2>4, <2>9
<1> QED
  BY FrontInitHolds, FrontStepKeeps, <1>1, PTL DEF Spec

-----------------------------------------------------------------------------
\* The handlers leave the reload alone: what runs beside them is the build of
\* Privileges, step by step (httpapi only reads the cache).
THEOREM BuildIsLeftAlone == Spec => BuildInit /\ [][BuildNext]_buildVars
<1>1. Init => BuildInit
  BY DEF Init
<1>2. [Next]_vars => [BuildNext]_buildVars
  BY DEF Next, vars, Build, Client, Ask, UseMethod, UseHint, Send, Handle, CheckRole,
         CheckResource, Admit, Allow, Describe, CheckPrefer, CheckQuery, Plan, PlanRows,
         CheckRepresentation, CheckResolution, CheckBody, CheckKey, CheckMedia, RunRoutine,
         RunTable, Check
<1> QED
  BY <1>1, <1>2, PTL DEF Spec
============================================================================
