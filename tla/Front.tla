------------------------------- MODULE Front -------------------------------
(* What a request passes before its statements run (src/internal/httpapi):     *)
(* the database role, the Resource, admission from one schema-cache snapshot,  *)
(* the Prefer header, the query, the embed plan and the representation, each   *)
(* handler in its own order, while reloads replace the snapshot. A client      *)
(* acts on what it is told: it uses a method that OPTIONS or the OpenAPI       *)
(* document advertises, or repeats a request with a hint that PGRST201         *)
(* proposed.                                                                   *)
EXTENDS Privileges, Relationships, Preferences

CONSTANTS
    Cases,      \* settings, first catalog and first request of a run, and the
                \* bound on its loads
    RowColumns  \* the columns a routine's rows can have; {} is no rows

WriteMethods == {"POST", "PUT", "PATCH", "DELETE"}
Settings ==
    [anon : Accounts \cup {None}, verifier : BOOLEAN, writer : BOOLEAN, aggregates : BOOLEAN,
     mode : {"follow", "ignore"}]
Credentials ==
    [scheme : {"none", "basic", "bearer"},
     token : Accounts \cup {"no role", "bad claims", "bad token"}]
PreferTokens == [name : STRING, value : STRING]
Asked == [target : STRING, hint : {None} \cup STRING, spread : BOOLEAN]
\* The router gives each surface its methods; the client expects nothing yet.
MethodsOn(surface) ==
    CASE surface = "root" -> {"GET", "HEAD"}
      [] surface = "table" -> {"GET", "HEAD", "OPTIONS"} \cup WriteMethods
      [] surface = "routine" -> {"GET", "HEAD", "OPTIONS", "POST"}
Requests ==
    {r \in [surface : {"root", "table", "routine"},
            method : {"GET", "HEAD", "OPTIONS"} \cup WriteMethods, target : STRING,
            who : Credentials, header : Seq(PreferTokens), path : Seq(Asked), expects : {{}}] :
        r.method \in MethodsOn(r.surface)}

ASSUME CaseAssumption == \A case \in Cases :
    /\ case.settings \in Settings /\ case.loads \in 1 .. MaxLoads
    /\ case.catalog \in Catalogs /\ case.req \in Requests
\* A foreign key has columns.
ASSUME KeyAssumption == \A c \in Catalogs : \A i \in DOMAIN Data[c].fks :
    IsFiniteSet(Data[c].fks[i].cols) /\ Data[c].fks[i].cols # {}

VARIABLES
    settings,   \* anon, verifier, writer, aggregates, mode (openapi-mode)
    maxLoads,   \* bound: loads of the catalog in this run
    req,        \* the request: surface, method, target, who, header, path, expects
    stage,      \* the check it is at, an index into its order; 0 when answered
    using,      \* the snapshot that admitted it
    verdict,    \* "pending", "admitted" or "refused": the answer of admission
    query,      \* what its query string asks for
    planned,    \* the answer of the embed plan
    ran,        \* its statements were run
    answer,     \* what the client got
    advice,     \* what the client was told to do next
    asks        \* requests sent

frontVars == <<settings, maxLoads, req, stage, using, verdict, query, planned, ran, answer, advice, asks>>
vars == <<buildVars, frontVars>>

Codes == {"unsupported", "no secret", "role required", "bad claims", "bad token", "no handler",
          "bad profile", "no routine", "no table", "view not updatable", "no resource",
          "invalid prefer", "bad query", "aggregates disabled", "unbounded", "missing",
          "computed", "ambiguous", "spread", "bad resolution", "bad body", "not a key", "media",
          "not read-safe", "database", "empty", "served"}
NoAdvice == [kind |-> "none", version |-> 0, methods |-> {}, at |-> 0, hints |-> {}]
NotPlanned == [answer |-> "none", at |-> 0, options |-> {}]
NoRequest ==
    [surface |-> "root", method |-> "GET", target |-> None, header |-> <<>>, path |-> <<>>,
     who |-> [scheme |-> "none", token |-> "no role"], expects |-> {}]

-----------------------------------------------------------------------------
(* The order of the checks, by handler.                                        *)
ReadOrder == <<"role", "resource", "query", "admit", "media", "plan", "run">>
InsertOrder == <<"role", "resource", "admit", "prefer", "query", "plan", "represent",
                 "resolution", "body", "media", "run">>
PatchOrder == <<"role", "resource", "admit", "prefer", "query", "plan", "represent",
                "body", "media", "run">>
DeleteOrder == <<"role", "resource", "admit", "prefer", "query", "plan", "represent",
                 "media", "run">>
\* A faulty variant: PUT is not admitted.
BugPutOrder == <<"prefer", "resolution", "role", "resource", "key", "represent", "run">>

PutOrder == <<"prefer", "resolution", "role", "resource", "admit", "key", "represent", "run">>
PostRoutineOrder == <<"body", "role", "resource", "admit", "query", "prefer", "media",
                      "run", "plan">>
GetRoutineOrder == Tail(PostRoutineOrder)
OptionsOrder == <<"role", "resource", "allow">>
RootOrder == <<"role", "resource", "document">>

OrderOf(r) ==
    IF r.surface = "root" THEN RootOrder
    ELSE IF r.method = "OPTIONS" THEN OptionsOrder
    ELSE IF r.surface = "routine" THEN
        IF r.method = "POST" THEN PostRoutineOrder ELSE GetRoutineOrder
    ELSE CASE r.method \in {"GET", "HEAD"} -> ReadOrder
           [] r.method = "POST" -> InsertOrder
           [] r.method = "PATCH" -> PatchOrder
           [] r.method = "DELETE" -> DeleteOrder
           [] r.method = "PUT" -> PutOrder

At(check) == stage > 0 /\ OrderOf(req)[stage] = check

\* The request goes on to its next check, or its last one served it.
Pass ==
    IF stage < Len(OrderOf(req))
      THEN stage' = stage + 1 /\ UNCHANGED <<answer, ran>>
      ELSE stage' = 0 /\ answer' = "served" /\ ran' = TRUE
\* The answer needs no statement.
Served == stage' = 0 /\ answer' = "served" /\ UNCHANGED ran
Refuse(code) == stage' = 0 /\ answer' = code /\ UNCHANGED ran

Prefers == Parse(req.header)
Writes == req.surface = "table" /\ req.method \in {"POST", "PATCH", "DELETE", "PUT"}
\* Prefer return=representation asks for the written rows.
Represents == Prefers.return = "representation"
PreferSurface == IF req.surface = "routine" THEN "rpc" ELSE IF Writes THEN "write" ELSE "read"

-----------------------------------------------------------------------------
(* The database role.                                                          *)
\* bearerToken, roleFromBearer and anonymousRole: who is [scheme, token], where
\* a token that verifies is the account of its role claim.
UsesAnonymous(who) == who.scheme = "none" \/ (who.scheme = "bearer" /\ who.token = "no role")
AuthRefusal ==
    LET who == req.who IN
    CASE Prefers.auth -> "unsupported"
      [] who.scheme = "basic" -> "unsupported"
      [] who.scheme = "bearer" /\ ~settings.verifier -> "no secret"
      [] UsesAnonymous(who) /\ settings.anon = None -> "role required"
      [] who.scheme = "bearer" /\ who.token \in {"bad claims", "bad token"} -> who.token
      [] OTHER -> "none"
Account == IF UsesAnonymous(req.who) THEN settings.anon ELSE req.who.token

-----------------------------------------------------------------------------
(* Admission, from one snapshot.                                               *)
HasRight(s, account, resource, right) == <<resource, right>> \in s.held[Bare[account]]
HasTablePrivilege(s, account, table, right) ==
    table \in Data[s.catalog].tables /\ HasRight(s, account, table, right)

\* IsWritableIn: a base table, or a view MySQL can update.
IsWritable(s, table) ==
    /\ table \in Data[s.catalog].tables
    /\ table \in Data[s.catalog].views => table \in Data[s.catalog].updatable

ReadSafe(s, routine) == routine \in Data[s.catalog].safe

\* The grant a method needs on its table, and the methods a grant allows.
RightOf(method) ==
    CASE method \in {"GET", "HEAD"} -> "SELECT"
      [] method \in {"POST", "PUT"} -> "INSERT"
      [] method = "PATCH" -> "UPDATE"
      [] method = "DELETE" -> "DELETE"

\* lookupPutTable: merging duplicates also updates.
NeedsUpdate(r) == r.method = "PUT" /\ Parse(r.header).resolution # "ignore-duplicates"

Admission(s, account, r) ==
    IF r.surface = "routine"
      THEN IF r.target \in Data[s.catalog].routines /\ HasRight(s, account, r.target, "EXECUTE")
             THEN "ok" ELSE "no routine"
      ELSE CASE ~HasTablePrivilege(s, account, r.target, RightOf(r.method)) -> "no table"
             [] r.method \notin {"GET", "HEAD"} /\ ~IsWritable(s, r.target) -> "view not updatable"
             [] NeedsUpdate(r) /\ ~HasRight(s, account, r.target, "UPDATE") -> "no table"
             [] OTHER -> "ok"

\* A faulty variant: a view that cannot be written through is not looked for.
BugTableMethods(s, account, table) ==
    {m \in {"GET", "HEAD"} \cup WriteMethods : HasTablePrivilege(s, account, table, RightOf(m))}

\* admitTableMethods, appendWriteAllowMethods.
TableMethods(s, account, table) ==
    {m \in {"GET", "HEAD"} : HasTablePrivilege(s, account, table, "SELECT")}
    \cup {m \in WriteMethods :
             IsWritable(s, table) /\ HasTablePrivilege(s, account, table, RightOf(m))}
RoutineMethods(s, routine) == {"POST"} \cup (IF ReadSafe(s, routine) THEN {"GET", "HEAD"} ELSE {})

\* addOpenAPITables, addOpenAPIRoutines: the whole document, under the mode.
\* HEAD and OPTIONS are not in it.
DocumentedTable(s, account, table, mode) ==
    IF mode = "follow" THEN TableMethods(s, account, table) \ {"HEAD"}
    ELSE {"GET"} \cup {m \in WriteMethods : IsWritable(s, table)}
DocumentedRoutine(s, account, routine, mode) ==
    {m \in RoutineMethods(s, routine) \ {"HEAD"} :
        mode = "follow" => HasRight(s, account, routine, "EXECUTE")}
Resources(s, surface) ==
    IF surface = "routine" THEN Data[s.catalog].routines ELSE Data[s.catalog].tables
Document(s, account, mode) ==
    {entry \in [surface : {"table", "routine"}, method : {"GET"} \cup WriteMethods,
                target : Resources(s, "table") \cup Resources(s, "routine")] :
        /\ entry.target \in Resources(s, entry.surface)
        /\ entry.method \in IF entry.surface = "table"
                              THEN DocumentedTable(s, account, entry.target, mode)
                              ELSE DocumentedRoutine(s, account, entry.target, mode)}

\* What OPTIONS lists for one resource.
Allowed(s, account, r) ==
    {[surface |-> r.surface, target |-> r.target, method |-> m] :
        m \in IF r.surface = "table" THEN TableMethods(s, account, r.target)
              ELSE IF Admission(s, account, r) = "ok" THEN RoutineMethods(s, r.target) ELSE {}}

Readable(s, account) == {t \in Data[s.catalog].tables : HasRight(s, account, t, "SELECT")}

-----------------------------------------------------------------------------
(* The actions.                                                                *)
Init ==
    \E case \in Cases :
        /\ BuildInit /\ catalog = case.catalog
        /\ settings = case.settings /\ maxLoads = case.loads
        /\ req = NoRequest
        /\ stage = 0 /\ asks = 0
        /\ using = snapshot /\ verdict = "pending"
        /\ query = "none" /\ planned = NotPlanned
        /\ ran = FALSE /\ answer = "none" /\ advice = NoAdvice

Send(r) ==
    /\ stage' = 1 /\ asks' = asks + 1
    /\ req' = r
    /\ verdict' = "pending" /\ query' = "none" /\ planned' = NotPlanned
    /\ ran' = FALSE /\ answer' = "none"
    /\ UNCHANGED <<settings, maxLoads, using, advice, buildVars>>

\* withPrefer: the header is parsed once, before the handler. The service
\* serves after the first snapshot is built.
Ask ==
    /\ snapshot.version > 0 /\ stage = 0 /\ asks = 0
    /\ \E case \in Cases :
          /\ case.settings = settings /\ case.loads = maxLoads
          /\ case.catalog = snapshot.catalog
          /\ Send(case.req)

\* The client calls a method it was told of on a resource, as the same role,
\* or finds one it was not told of.
UseMethod ==
    /\ stage = 0 /\ asks = 1 /\ advice.kind \in {"allow", "document"}
    /\ \E surface \in {"table", "routine"} : \E resource \in Resources(snapshot, surface),
          m \in {"GET", "HEAD"} \cup WriteMethods, h \in {<<>>, req.header} :
          /\ advice.kind = "allow" => surface = req.surface /\ resource = req.target
          /\ surface = "routine" => m \in {"GET", "HEAD", "POST"}
          /\ Send([req EXCEPT !.surface = surface, !.target = resource, !.method = m,
                              !.header = h])

\* The client repeats the request with a proposed hint.
UseHint ==
    /\ stage = 0 /\ asks = 1 /\ advice.kind = "hints"
    /\ \E hint \in advice.hints :
          Send([req EXCEPT !.path[advice.at].hint = hint.hint, !.expects = hint.rel])

Check(check) == At(check) /\ UNCHANGED <<settings, maxLoads, req, asks, buildVars>>

CheckRole ==
    /\ Check("role")
    /\ IF AuthRefusal = "none" THEN Pass ELSE Refuse(AuthRefusal)
    /\ UNCHANGED <<using, verdict, query, planned, advice>>

\* requestDatabase: a profile outside db-schemas; a service with no writer.
CheckResource ==
    /\ Check("resource")
    /\ \/ IF Writes /\ ~settings.writer THEN Refuse("no handler") ELSE Pass
       \/ asks = 1 /\ Refuse("bad profile")
    /\ UNCHANGED <<using, verdict, query, planned, advice>>

\* admit reads the snapshot once; every later check of the request uses it.
Admit ==
    /\ Check("admit")
    /\ using' = snapshot
    /\ LET admission == Admission(snapshot, Account, req)
       IN  IF admission = "ok"
             THEN verdict' = "admitted" /\ Pass
             ELSE verdict' = "refused" /\ Refuse(admission)
    /\ UNCHANGED <<query, planned, advice>>

\* optionsTable, optionsRoutine: a resource with no method is not there.
Allow ==
    /\ Check("allow")
    /\ LET methods == Allowed(snapshot, Account, req)
       IN  IF methods = {} THEN Refuse("no resource") /\ UNCHANGED advice
           ELSE /\ Served
                /\ advice' = [NoAdvice EXCEPT !.kind = "allow", !.version = snapshot.version,
                                              !.methods = methods]
    /\ UNCHANGED <<using, verdict, query, planned>>

\* writeRoot, openAPIPaths.
Describe ==
    /\ Check("document")
    /\ Served
    /\ advice' = [NoAdvice EXCEPT !.kind = "document", !.version = snapshot.version,
                                  !.methods = Document(snapshot, Account, settings.mode)]
    /\ UNCHANGED <<using, verdict, query, planned>>

\* readWritePrefer.
CheckPrefer ==
    /\ Check("prefer")
    /\ IF StrictRefusal(Prefers, PreferSurface) THEN Refuse("invalid prefer") ELSE Pass
    /\ UNCHANGED <<using, verdict, query, planned, advice>>

\* The query string: one that does not parse; one with aggregates; one with an
\* option the surface refuses (columns, on_conflict, limit, offset, order); one
\* with no filter; one with a filter.
Queries == {"bad", "aggregate", "option", "whole", "filter"}

\* admitReadQuery, parseInsertQuery, parseWriteQuery: the first refusal wins.
QueryRefusal(q) ==
    CASE q = "option" /\ Writes -> "unsupported"
      [] q = "bad" -> "bad query"
      [] PreferSurface = "read" /\ StrictRefusal(Prefers, "read") -> "invalid prefer"
      [] q = "aggregate" /\ ~settings.aggregates -> "aggregates disabled"
      [] q = "whole" /\ Writes /\ req.method # "POST" /\ ~Prefers.allRows -> "unbounded"
      [] OTHER -> "none"

CheckQuery ==
    /\ Check("query")
    /\ \E q \in Queries :
          /\ asks = 2 => q = "filter"
          /\ query' = q
          /\ IF QueryRefusal(q) = "none" THEN Pass ELSE Refuse(QueryRefusal(q))
    /\ UNCHANGED <<using, verdict, planned, advice>>

\* A faulty variant: the plan reads the cache again.
BugPlanFrom == snapshot

\* The snapshot a plan is made from.
PlanFrom == using

\* The client is told a hint for each path there is, and acts on the first
\* such answer.
Proposals(plan) ==
    UNION {{[hint |-> hint, rel |-> {rel}] : hint \in OptionHint(rel.origin, rel)} :
              rel \in plan.options}

Planned(plan) ==
    /\ planned' = plan
    /\ IF plan.answer = "found" THEN Pass ELSE Refuse(plan.answer)
    /\ advice' = IF plan.answer = "ambiguous" /\ asks = 1
                   THEN [NoAdvice EXCEPT !.kind = "hints", !.version = using.version,
                                         !.at = plan.at, !.hints = Proposals(plan)]
                   ELSE advice

\* planEmbeds, planWriteEmbeds: a write plans only the embeds it will answer.
Plan ==
    /\ Check("plan") /\ req.surface = "table"
    /\ IF Writes /\ ~Represents
         THEN Pass /\ UNCHANGED <<planned, advice>>
         ELSE \E c \in {Data[PlanFrom.catalog]}, readable \in {Readable(PlanFrom, Account)} :
              \E plan \in {PlanEmbeds(c, readable, req.target, req.path)} : Planned(plan)
    /\ UNCHANGED <<using, verdict, query>>

JoinTables(embeds) == {rel.join : rel \in {r \in embeds : r.card = "many-to-many"}}

\* A faulty variant: a join table is read whether or not it may be.
BugLinksReadable(plan) == TRUE

\* joinReadable, which planEmbeds notes of each embed through a join table.
LinksReadable(plan) ==
    plan.answer = "found" => JoinTables(plan.options) \subseteq Readable(using, Account)

\* The related rows are read level by level. loadManyToManyLinks refuses before
\* it reads a join table the plan noted as unreadable, unless there is no parent
\* row and nothing of the embed is read ("empty").
Finish(plan) ==
    /\ stage' = 0 /\ ran' = TRUE
    /\ answer' \in IF LinksReadable(plan) THEN {"served"} ELSE {"empty", "missing"}

\* shapeRPCRowSet: the routine has run; its rows choose the table.
PlanRows ==
    /\ Check("plan") /\ req.surface = "routine"
    /\ \/ Pass /\ UNCHANGED planned   \* a scalar, or rows and no embeds
       \/ /\ req.path # <<>>
          /\ \E columns \in RowColumns, c \in {Data[using.catalog]},
                readable \in {Readable(using, Account)} :
             \E origins \in {RowSetOrigins(c, readable, columns, req.path)} :
                IF origins = {}
                  THEN \E code \in RowSetFailures(c, readable, columns, req.path) :
                          Refuse(code) /\ UNCHANGED planned
                  ELSE \E origin \in Tightest(c, origins) :
                       \E plan \in {PlanEmbeds(c, readable, origin, req.path)} :
                          Finish(plan) /\ planned' = plan
    /\ UNCHANGED <<using, verdict, query, advice>>

\* checkWriteRepresentation.
RepresentationProblem ==
    \/ req.method = "PUT"
    \/ Data[using.catalog].pk[req.target] = {} /\ req.method \in {"POST", "PATCH"}
    \/ ~HasRight(using, Account, req.target, "SELECT")
    \/ req.method = "POST" /\ Prefers.resolution = "ignore-duplicates"

CheckRepresentation ==
    /\ Check("represent")
    /\ IF Represents /\ RepresentationProblem THEN Refuse("unsupported") ELSE Pass
    /\ UNCHANGED <<using, verdict, query, planned, advice>>

\* parseUpsertResolution.
CheckResolution ==
    /\ Check("resolution")
    /\ IF Prefers.badResolution THEN Refuse("bad resolution") ELSE Pass
    /\ UNCHANGED <<using, verdict, query, planned, advice>>

\* readInsertRows, readPatchObject, readNamedJSONArgs; any body may be refused.
CheckBody ==
    /\ Check("body")
    /\ Pass \/ (asks = 1 /\ Refuse("bad body"))
    /\ UNCHANGED <<using, verdict, query, planned, advice>>

\* readPutRow: the key of the table, the query, the body, in that order.
CheckKey ==
    /\ Check("key")
    /\ IF Data[using.catalog].pk[req.target] = {} THEN Refuse("not a key") ELSE
         \/ Pass
         \/ \E code \in {"bad query", "not a key", "bad body"} : asks = 1 /\ Refuse(code)
         \/ asks = 1 /\ ~settings.aggregates /\ Refuse("aggregates disabled")
    /\ UNCHANGED <<using, verdict, query, planned, advice>>

\* A faulty variant: a write that answers no rows is left there.
BugCheckMedia ==
    /\ Check("media") /\ (Writes => Represents)
    /\ Pass \/ (asks = 1 /\ Refuse("media"))
    /\ UNCHANGED <<using, verdict, query, planned, advice>>

\* requestRepresentation, writeRepresentationPrecheck.
CheckMedia ==
    /\ Check("media")
    /\ Pass \/ (asks = 1 /\ (Writes => Represents) /\ Refuse("media"))
    /\ UNCHANGED <<using, verdict, query, planned, advice>>

\* A routine called with GET must be read-safe, and its arguments must fit.
RunRoutine ==
    /\ Check("run") /\ req.surface = "routine"
    /\ IF req.method # "POST" /\ ~ReadSafe(using, req.target)
         THEN verdict' = "refused" /\ Refuse("not read-safe")
         ELSE /\ UNCHANGED verdict
              /\ \/ stage' = stage + 1 /\ ran' = TRUE /\ UNCHANGED answer
                 \/ asks = 1 /\ Refuse("no routine")
                 \/ asks = 1 /\ stage' = 0 /\ ran' = TRUE /\ answer' = "database"
    /\ UNCHANGED <<using, query, planned, advice>>

\* Read or Execute: MySQL may refuse what the snapshot allowed, and what was
\* left to it.
RunTable ==
    /\ Check("run") /\ req.surface = "table"
    /\ Finish(planned) \/ (asks = 1 /\ stage' = 0 /\ ran' = TRUE /\ answer' = "database")
    /\ UNCHANGED <<using, verdict, query, planned, advice>>

Handle ==
    \/ CheckRole \/ CheckResource \/ Admit \/ Allow \/ Describe
    \/ CheckPrefer \/ CheckQuery \/ Plan \/ PlanRows
    \/ CheckRepresentation \/ CheckResolution \/ CheckBody \/ CheckKey \/ CheckMedia
    \/ RunRoutine \/ RunTable

Client == Ask \/ UseMethod \/ UseHint
Build == BuildNext /\ loads' <= maxLoads /\ UNCHANGED frontVars

Next == Build \/ Client \/ Handle

\* The goroutine of a request and the one of a reload run on; the client and
\* SIGUSR1 owe nothing.
Spec == Init /\ [][Next]_vars /\ WF_vars(Walk /\ UNCHANGED frontVars) /\ WF_vars(Handle)

-----------------------------------------------------------------------------
FrontTypeOK ==
    /\ stage \in 0 .. Len(OrderOf(req)) /\ asks \in 0 .. 2
    /\ verdict \in {"pending", "admitted", "refused"}
    /\ query \in Queries \cup {"none"}
    /\ planned.answer \in {"none", "found", "missing", "computed", "ambiguous", "spread"}
    /\ ran \in BOOLEAN /\ answer \in Codes \cup {"none"}
    /\ advice.kind \in {"none", "allow", "document", "hints"}
    /\ stage > 0 => answer = "none"
    /\ ran => verdict = "admitted"

\* The tables whose rows the answer embeds, and the join tables it read.
Embedded == {rel.target : rel \in IF planned.answer = "found" THEN planned.options ELSE {}}
Linked ==
    IF planned.answer = "found" /\ answer = "served" THEN JoinTables(planned.options) ELSE {}

\* The write updates the rows that are there: ON DUPLICATE KEY UPDATE.
Merges ==
    \/ req.method = "PUT" /\ Prefers.resolution # "ignore-duplicates"
    \/ req.method = "POST" /\ Prefers.resolution = "merge-duplicates"
\* The write has a WHERE clause over columns of its table.
Filters == req.method \in {"PATCH", "DELETE"} /\ query # "whole"
OnTarget(right, condition) == IF condition THEN {<<req.target, right>>} ELSE {}

\* Every right MySQL asks for the statements of the handler (the hook of
\* db-pre-request and the body of a routine are the operator's).
Needed ==
    (IF req.surface = "routine" THEN {<<req.target, "EXECUTE">>}
     ELSE {<<req.target, RightOf(req.method)>>} \cup OnTarget("UPDATE", Merges)
          \cup OnTarget("SELECT", Filters \/ (Writes /\ Represents)))
    \cup {<<t, "SELECT">> : t \in Embedded \cup Linked}

\* Of these, the rights no check asks of the snapshot, so that MySQL's answer to
\* the statement is the only one.
LeftToMySQL ==
    OnTarget("UPDATE", req.surface = "table" /\ req.method = "POST" /\ Merges)
    \cup OnTarget("SELECT", req.surface = "table" /\ Filters /\ ~Represents)

\* The rights the method is documented to need (docs/write.md 11, rpc-get.md 28).
OfMethod ==
    IF req.surface = "routine" THEN {<<req.target, "EXECUTE">>}
    ELSE {<<req.target, RightOf(req.method)>>} \cup OnTarget("UPDATE", req.method = "PUT" /\ Merges)

(* Grants decide what is served. Every right the statements of a request need  *)
(* - the write, the read of the written rows, the reads of every embedded and  *)
(* every join table - MySQL gives its account, at least on some columns, in    *)
(* one catalog: the one the request was admitted from, whatever is reloaded    *)
(* meanwhile (admission.go, write.go, embed.go planEmbeds and                  *)
(* loadManyToManyLinks). Not asked of the snapshot, and left to MySQL, are the *)
(* UPDATE of a POST that merges duplicates (write.go 38) and the SELECT on the *)
(* columns a PATCH or DELETE filters on. An account that shares its name with  *)
(* another may be served what MySQL refuses it. A Resource is hidden only from *)
(* an account that no grant on it or its columns gives a right its method      *)
(* needs.                                                                      *)
GrantsDecide ==
    /\ ran => \A right \in Needed \ LeftToMySQL :
                  OneHost(using.catalog, Account) =>
                      right \in InPart[using.catalog][Account]
    /\ (verdict = "refused" /\ answer \in {"no table", "no routine"}
        /\ req.target \in Resources(using, req.surface)) =>
           \E right \in OfMethod : right \notin OnResource[using.catalog][Account]

(* What is advertised is what is served. A method OPTIONS or the OpenAPI       *)
(* document lists is admitted while the snapshot stays, and one it does not    *)
(* list never runs; merging with PUT may still need UPDATE, and                *)
(* openapi-mode=ignore-privileges lists more than is granted (options.go,      *)
(* openapi.go, docs/discovery.md).                                             *)
AllowIsHonest ==
    (asks = 2 /\ stage = 0 /\ advice.kind \in {"allow", "document"}
     /\ verdict # "pending" /\ using.version = advice.version) =>
        LET listed == [surface |-> req.surface, target |-> req.target,
                       method |-> IF advice.kind = "document" /\ req.method = "HEAD" THEN "GET"
                                  ELSE req.method] \in advice.methods
        IN  /\ (listed /\ (advice.kind = "allow" \/ settings.mode = "follow")) =>
                   \/ verdict = "admitted"
                   \/ NeedsUpdate(req) /\ ~HasRight(using, Account, req.target, "UPDATE")
            /\ ~listed => ~ran

\* The paths no hint of myrest can pick.
Unproposable(rel) ==
    rel.origin = rel.target
    /\ \/ rel.card = "many-to-many"
       \/ rel.card = "one-to-many" /\ Cardinality(rel.tcols) > 1

\* No two keys share a name, no name is also a column or a table, and a key of
\* a table to itself shares no column with another one or with the primary key.
KeyColumns(c) ==
    (UNION {c.fks[i].cols \cup c.fks[i].refcols : i \in DOMAIN c.fks})
    \cup (UNION {c.pk[t] : t \in c.tables})
NamesTellApart(c) ==
    /\ None \notin KeyColumns(c) \cup c.tables \cup {c.fks[i].name : i \in DOMAIN c.fks}
    /\ c.tables \cap KeyColumns(c) = {}
    /\ \A i \in DOMAIN c.fks :
          /\ c.fks[i].name \notin c.tables \cup KeyColumns(c)
          /\ c.fks[i].table = c.fks[i].ref => c.fks[i].cols \cap c.pk[c.fks[i].ref] = {}
    /\ \A i, j \in DOMAIN c.fks : i # j =>
          /\ c.fks[i].name # c.fks[j].name
          /\ (c.fks[i].table = c.fks[i].ref /\ c.fks[j].table = c.fks[i].table
              /\ c.fks[j].ref = c.fks[i].ref) => c.fks[i].cols \cap c.fks[j].cols = {}

(* A PGRST201 answer can be acted on: while the snapshot stays, a request with *)
(* the hint that is proposed for a path finds that path among those it can     *)
(* mean, and goes past the embed that was ambiguous unless names clash or it   *)
(* is a spread (embed.go optionHint, relationship.go filterByHint). It cannot  *)
(* for a join table from a table to itself, nor for the way down a             *)
(* self-referential key of several columns.                                    *)
ProposedHintsResolve ==
    (advice.kind = "hints" /\ asks = 2 /\ using.version = advice.version
     /\ planned.answer # "none" /\ req.expects # {}
     /\ \A rel \in req.expects : ~Unproposable(rel)) =>
        /\ planned.at = 0 \/ planned.at >= advice.at
        /\ planned.at \in {0, advice.at} => req.expects \subseteq planned.options
        /\ planned.at = advice.at =>
               planned.answer = "spread" \/ ~NamesTellApart(Data[using.catalog])

(* A request that runs was asked for by its header: under handling=strict no   *)
(* token is invalid on its surface, a write of all the rows has the bare       *)
(* all-rows flag, and no Postgres-only preference is there (prefer.go,         *)
(* write.go refuseUnbounded). The order of the checks differs by handler.      *)
RanAsAsked ==
    ran =>
        /\ LastValue(req.header, "handling") = "strict" =>
               BadTokens(req.header) = {} /\ BadNames(req.header, PreferSurface) = {}
        /\ (Writes /\ query = "whole" /\ req.method # "POST") =>
               \E i \in DOMAIN req.header : req.header[i] = [name |-> "all-rows", value |-> "bare"]
        /\ \A i \in DOMAIN req.header : req.header[i].name \notin AuthNames

(* A token that a later one overrides changes nothing: neither what is applied *)
(* nor what is refused (prefer.go collectToken and Parse).                     *)
OverriddenTokensAreInert ==
    \A i \in DOMAIN req.header :
        Overridden(req.header, i) => Parse(RemoveAt(req.header, i)) = Parse(req.header)

\* Every request is answered, whatever it is refused for and whatever reloads.
EveryAskIsAnswered == stage > 0 ~> stage = 0
=============================================================================
