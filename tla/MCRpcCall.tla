----------------------------- MODULE MCRpcCall -----------------------------
(* Small instances of RpcCall for TLC. *)
EXTENDS RpcCall

Statements == {"write", "select", "raise", "deadlock"}

\* Every routine of at most three statements that ends at its first error.
MCBodies ==
    {body \in UNION {[1..n -> Statements] : n \in 0..3} :
        \A i \in 1..Len(body) : body[i] \in {"raise", "deadlock"} => i = Len(body)}

\* Routines that raise after a result set, or do not raise at all.
MCRaisingBodies == {<<"write", "select", "raise">>, <<"select", "write">>}
=============================================================================
