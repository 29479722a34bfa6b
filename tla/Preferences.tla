---------------------------- MODULE Preferences ----------------------------
(* The Prefer header of a request, parsed once for every surface               *)
(* (src/internal/prefer/prefer.go). A token is a name and a value; "bare" is   *)
(* a token with no "=", "empty" one with nothing after it, "other" a value the *)
(* name does not take.                                                         *)
EXTENDS Naturals, Sequences, FiniteSets, FiniteSetsExt, SequencesExt

\* The values each name takes (rules); the order of the rules only orders the
\* details of a refusal.
Takes ==
    [handling     |-> {"strict", "lenient"},
     return       |-> {"minimal", "headers-only", "representation"},
     missing      |-> {"default"},
     max_affected |-> {"number"},
     tx           |-> {"commit", "rollback"},
     count        |-> {"exact", "planned", "estimated"},
     resolution   |-> {"merge-duplicates", "ignore-duplicates"}]

RuleNames == DOMAIN Takes
\* Names the auth check refuses with a message of its own.
AuthNames == {"row-security", "jwt-claims", "timezone"}
KnownNames == RuleNames \cup AuthNames \cup {"all-rows"}
Surfaces == {"read", "rpc", "write"}
Valueless == {"bare", "empty"}

Valued(header, name) ==
    {i \in DOMAIN header : header[i].name = name /\ header[i].value \notin Valueless}

\* A faulty variant: the first value of a name stays.
BugLastValue(header, name) ==
    LET at == Valued(header, name) IN IF at = {} THEN "absent" ELSE header[Min(at)].value

\* collectToken: the last value of a name is the one that is validated; a
\* token without a value does not replace it.
LastValue(header, name) ==
    LET at == Valued(header, name) IN IF at = {} THEN "absent" ELSE header[Max(at)].value

\* A faulty variant: any form of all-rows sets the flag.
BugAllRows(header) == \E i \in DOMAIN header : header[i].name = "all-rows"

\* Only the bare flag unlocks a write of all the rows.
AllRows(header) ==
    \E i \in DOMAIN header : header[i].name = "all-rows" /\ header[i].value = "bare"

\* Tokens that are invalid as they stand, wherever they occur.
BadTokens(header) ==
    {i \in DOMAIN header :
        \/ header[i].name \notin KnownNames
        \/ header[i].name = "all-rows" /\ header[i].value # "bare"
        \/ header[i].name \in RuleNames /\ header[i].value \in Valueless}

\* Names whose last value is invalid on the surface. A count that MySQL cannot
\* give is kept for reads and RPC, which refuse it another way.
BadNames(header, surface) ==
    {name \in RuleNames :
        LET value == LastValue(header, name)
        IN  \/ value # "absent" /\ value \notin Takes[name]
            \/ surface = "write" /\ name = "count" /\ value \in {"planned", "estimated"}}

Parsed(header, name, default) ==
    LET value == LastValue(header, name)
    IN  IF value \in Takes[name] THEN value ELSE default

\* Parse.
Parse(header) ==
    [strict        |-> Parsed(header, "handling", "lenient") = "strict",
     count         |-> Parsed(header, "count", "none"),
     return        |-> Parsed(header, "return", "minimal"),
     missing       |-> Parsed(header, "missing", "") = "default",
     maxAffected   |-> Parsed(header, "max_affected", "") # "",
     tx            |-> Parsed(header, "tx", ""),
     resolution    |-> Parsed(header, "resolution", ""),
     badResolution |-> LastValue(header, "resolution") \notin Takes.resolution \cup {"absent"},
     allRows       |-> AllRows(header),
     auth          |-> \E i \in DOMAIN header : header[i].name \in AuthNames,
     invalid       |-> [surface \in Surfaces |->
                           BadTokens(header) # {} \/ BadNames(header, surface) # {}]]

\* Refusal: PGRST122 under handling=strict.
StrictRefusal(preferences, surface) == preferences.strict /\ preferences.invalid[surface]

-----------------------------------------------------------------------------
\* Token i is overridden: a later token gives its name a value.
Overridden(header, i) ==
    /\ header[i].name \in RuleNames /\ header[i].value \notin Valueless
    /\ \E j \in i + 1 .. Len(header) :
           header[j].name = header[i].name /\ header[j].value \notin Valueless
=============================================================================
