------------------------------ MODULE MCFront ------------------------------
(* Small instances of Front for TLC: a shop before and after a change of       *)
(* grants and keys, and a table with a key to itself.                          *)
EXTENDS Front

\* Two accounts share the name app; the grants close a cycle of names.
MCBare == [a \in Accounts |-> IF a \in {"app1", "app2"} THEN "app" ELSE a]

Fk(name, table, col, ref) ==
    [name |-> name, table |-> table, cols |-> {col}, ref |-> ref, refcols |-> {"id"}]
On(account, table, rights) == {<<account, <<table, right>>>> : right \in rights}

ShopTables == {"orders", "users", "items", "lines", "v_sales", "v_items"}
Shop ==
    [granted |-> {<<"app1", "clerk">>, <<"clerk", "app2">>},
     object |-> On("clerk", "orders", {"SELECT", "INSERT"})
                \cup On("app2", "orders", {"UPDATE"}) \cup On("app1", "items", {"SELECT"})
                \cup On("anon", "v_sales", {"SELECT", "INSERT"})
                \cup On("anon", "v_items", {"INSERT", "DELETE"})
                \cup On("clerk", "list", {"EXECUTE"}) \cup On("clerk", "total", {"EXECUTE"}),
     column |-> On("clerk", "users", {"SELECT"}),
     wide |-> {},
     tables |-> ShopTables, views |-> {"v_sales", "v_items"}, updatable |-> {"v_items"},
     fks |-> <<Fk("o_buyer", "orders", "buyer", "users"), Fk("o_seller", "orders", "seller", "users"),
               Fk("o_gift", "orders", "gift", "items"), Fk("l_order", "lines", "order_id", "orders"),
               Fk("l_item", "lines", "item_id", "items"), Fk("l_sub", "lines", "sub_id", "items")>>,
     pk |-> [t \in ShopTables |-> CASE t \in {"orders", "users", "items"} -> {"id"}
                                    [] t = "lines" -> {"order_id", "sub_id"} [] OTHER -> {}],
     columns |-> [t \in ShopTables |-> CASE t = "orders" -> {"id", "buyer", "seller", "gift"}
                                         [] t = "lines" -> {"order_id", "item_id", "sub_id"}
                                         [] t = "v_sales" -> {"id", "buyer"}
                                         [] OTHER -> {"id"}],
     routines |-> {"list", "total"}, safe |-> {"list"}]

\* The shop after a change: no shared name, other grants, one key fewer.
Changed ==
    [Shop EXCEPT !.granted = {<<"app1", "clerk">>, <<"clerk", "anon">>},
                 !.object = On("anon", "orders", {"SELECT"}) \cup On("clerk", "orders", {"INSERT"})
                            \cup On("clerk", "items", {"SELECT"}) \cup On("app1", "users", {"SELECT"})
                            \cup On("app1", "orders", {"DELETE"}) \cup On("anon", "total", {"EXECUTE"}),
                 !.column = On("clerk", "orders", {"UPDATE"}),
                 !.wide = UNION {On("clerk", t, {"DELETE"}) : t \in ShopTables},
                 !.fks = <<Shop.fks[1], Shop.fks[3], Shop.fks[4], Shop.fks[5]>>,
                 !.pk["lines"] = {"order_id"}]

StaffTables == {"orders", "friends", "items"}
\* orders refers to itself (an order that replaces another).
Staff ==
    [granted |-> {},
     object |-> On("clerk", "orders", {"SELECT", "UPDATE"}) \cup On("clerk", "items", {"SELECT"}),
     column |-> {}, wide |-> {},
     tables |-> StaffTables, views |-> {}, updatable |-> {},
     fks |-> <<Fk("o_old", "orders", "old_id", "orders"), Fk("f_a", "friends", "a", "orders"),
               Fk("f_b", "friends", "b", "orders"), Fk("i_old", "items", "old_id", "orders")>>,
     pk |-> [t \in StaffTables |-> IF t = "friends" THEN {"a", "b"} ELSE {"id"}],
     columns |-> [t \in StaffTables |-> IF t = "friends" THEN {"a", "b"} ELSE {"id", "old_id"}],
     routines |-> {"list"}, safe |-> {"list"}]

\* The shop of two roles of which one can read the join table of orders and items.
Linking ==
    [Shop EXCEPT !.granted = {},
                 !.object = On("clerk", "orders", {"SELECT", "UPDATE"}) \cup On("clerk", "items", {"SELECT"})
                            \cup On("app1", "orders", {"SELECT", "UPDATE"})
                            \cup On("app1", "items", {"SELECT"}),
                 !.column = On("clerk", "lines", {"SELECT"})]

MCCatalogs == {"shop", "changed", "staff", "linking"}
MCData == [c \in MCCatalogs |-> CASE c = "shop" -> Shop [] c = "changed" -> Changed
                                  [] c = "staff" -> Staff [] c = "linking" -> Linking]
MCRights == {<<t, right>> : t \in {"orders", "users", "items", "lines", "v_sales", "v_items"},
                            right \in {"SELECT", "INSERT", "UPDATE", "DELETE"}}
            \cup {<<r, "EXECUTE">> : r \in {"list", "total"}}

\* Each role has one least closed set in each catalog.
ASSUME LeastSetsAssumption ==
    /\ LeastSets \in [MCCatalogs -> [Roles -> SUBSET SUBSET Roles]]
    /\ \A c \in MCCatalogs, role \in Roles : Cardinality(LeastSets[c][role]) = 1
\* The two readings of MySQL's grants differ in some catalog.
ASSUME ReadingsAssumption ==
    /\ \A reading \in {InPart, OnResource} :
           reading \in [MCCatalogs -> [Accounts -> SUBSET MCRights]]
    /\ InPart # OnResource

Whos == [scheme : {"none", "basic"}, token : {"no role"}]
        \cup [scheme : {"bearer"}, token : {"no role", "bad claims", "bad token", "app1", "clerk"}]
Anon == [scheme |-> "none", token |-> "no role"]
As(account) == [scheme |-> "bearer", token |-> account]
Users == {Anon, As("app1"), As("clerk")}

Default == [anon |-> "anon", verifier |-> TRUE, writer |-> TRUE, aggregates |-> FALSE,
            mode |-> "follow"]
Request(surface, method, target, who, header, path) ==
    [surface |-> surface, method |-> method, target |-> target, who |-> who,
     header |-> header, path |-> path, expects |-> {}]
Case(c, s, r) == [catalog |-> c, settings |-> s, loads |-> 1, req |-> r]

Token(name, value) == [name |-> name, value |-> value]
Wanted == <<Token("return", "representation")>>

\* Roles: credentials and settings.
RoleCases ==
    {Case("shop", [Default EXCEPT !.anon = a, !.verifier = v, !.writer = w],
          Request("table", IF w THEN "GET" ELSE "POST", "orders", who, h, <<>>)) :
        a \in {None, "anon"}, v \in BOOLEAN, w \in BOOLEAN, who \in Whos,
        h \in {<<>>, <<Token("row-security", "bare")>>}}

\* Methods: grants, views, representations.
MethodCases ==
    {Case(c, Default, Request("table", m, t, who, h, <<>>)) :
        c \in {"shop", "changed"}, m \in {"HEAD"} \cup WriteMethods, t \in {"orders", "v_sales", "v_items"},
        who \in Users, h \in {<<>>, Wanted} \cup {<<Token("resolution", of)>> :
                                 of \in {"ignore-duplicates", "merge-duplicates"}}}

\* Headers: every token once, and pairs that override each other.
Tokens == {Token("handling", "strict"), Token("handling", "bare"), Token("all-rows", "bare"),
           Token("all-rows", "other"), Token("count", "planned"), Token("resolution", "other"),
           Token("tx", "other"), Token("unknown", "other"), Token("return", "minimal")}
Headers == {<<x, y>> : x \in Tokens, y \in Tokens}
           \cup {<<Token("handling", "strict"), Token("handling", "lenient"), x>> : x \in Tokens}
           \cup {<<Token("handling", "lenient"), x, Token("handling", "strict")>> : x \in Tokens}
HeaderCases ==
    {Case("shop", Default, Request("table", m, "orders", As("app1"), h, <<>>)) :
        m \in {"GET", "PATCH", "PUT"}, h \in Headers}

\* Embeds.
To(target, hint) == [target |-> target, hint |-> hint, spread |-> FALSE]
MCPaths == {<<To("users", None)>>, <<To("items", None)>>, <<To("orders", None)>>,
            <<To("users", "buyer")>>, <<To("list", None)>>, <<To("items", "l_item")>>,
            <<To("users", "o_seller"), To("orders", None)>>,
            <<To("users", None), To("orders", None)>>, <<To("users", None), To("items", None)>>,
            <<[To("items", "o_gift") EXCEPT !.spread = TRUE]>>}
EmbedCases ==
    {Case(c, Default, Request("table", m, "orders", who, Wanted, p)) :
        c \in MCCatalogs, m \in {"GET", "PATCH"}, who \in {As("app1"), As("clerk")}, p \in MCPaths}

\* Routines.
RoutineCases ==
    {Case(c, [Default EXCEPT !.aggregates = a],
          Request("routine", m, r, As("clerk"), h, p)) :
        c \in {"shop", "changed"}, a \in BOOLEAN, m \in {"GET", "POST"}, r \in {"list", "total"},
        h \in {<<>>, <<Token("handling", "strict"), Token("count", "estimated")>>},
        p \in {<<>>, <<To("users", "buyer")>>, <<To("items", None)>>}}
MCRowColumns == {{}, {"id"}, {"id", "buyer"}, {"nothing"}}

\* Discovery.
DiscoveryCases ==
    {Case(c, [Default EXCEPT !.mode = mode], Request("root", "GET", "root", who, h, <<>>)) :
        c \in {"shop", "changed"}, mode \in {"follow", "ignore"}, who \in {Anon, As("app1")},
        h \in {<<>>, <<Token("resolution", "ignore-duplicates")>>}}
    \cup {Case(c, Default, Request(IF t \in {"list", "total"} THEN "routine" ELSE "table", "OPTIONS",
                                   t, who, <<Token("resolution", "ignore-duplicates")>>, <<>>)) :
             c \in {"shop", "changed"}, t \in {"orders", "v_sales", "v_items", "list", "total", "nothing"},
             who \in Users}

\* Reloads: what a request was admitted from, and what it was told, go stale.
Reloaded(c, r) == [Case(c, Default, r) EXCEPT !.loads = 2]
ReloadCases ==
    {Reloaded("changed", Request("table", "GET", "orders", As("clerk"), <<>>, <<To("users", "buyer")>>)),
     Reloaded("changed", Request("table", "PATCH", "orders", As("clerk"), Wanted, <<To("items", None)>>)),
     Reloaded("shop", Request("table", "GET", "orders", As("clerk"), <<>>, <<To("users", None)>>)),
     Reloaded("shop", Request("table", "OPTIONS", "v_sales", Anon, <<>>, <<>>))}

MCCases == ReloadCases \cup RoleCases \cup MethodCases \cup HeaderCases \cup EmbedCases \cup RoutineCases
           \cup DiscoveryCases
=============================================================================
