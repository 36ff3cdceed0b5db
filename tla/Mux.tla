--------------------------------- MODULE Mux ---------------------------------
(***************************************************************************)
(* The route table behind core.Mux: a thin wrapper over net/http.ServeMux  *)
(* with "METHOD /pattern" routing.  ServeMux is a library, modelled from   *)
(* how the code uses it: every route is registered with a method and with  *)
(* a path of literal segments and {name} wildcards, each standing for one  *)
(* non-empty segment.  A request goes to the most specific of the patterns *)
(* that match it, and registering a pattern that overlaps another one      *)
(* without either being the more specific panics.                          *)
(*                                                                         *)
(* Hosts, trailing-slash subtrees, {name...} and {$} are not used by the   *)
(* code and left out; so is the cleaning of paths with empty, "." or ".."  *)
(* segments, which no path of this model has.                              *)
(***************************************************************************)
EXTENDS Naturals, Sequences

CONSTANT Wildcards     \* the segments a pattern writes {name}

Overlap(p, q) ==
    /\ Len(p) = Len(q)
    /\ \A i \in 1 .. Len(p) : p[i] = q[i] \/ p[i] \in Wildcards \/ q[i] \in Wildcards

(* The pattern p matches the path q; when q is a pattern too, p matches    *)
(* every path that q matches.                                              *)
Matches(p, q) ==
    /\ Len(p) = Len(q)
    /\ \A i \in 1 .. Len(p) : p[i] = q[i] \/ p[i] \in Wildcards

(* Two patterns some path matches both of, neither the more specific one.  *)
Conflict(p, q) == Overlap(p, q) /\ (Matches(p, q) <=> Matches(q, p))

(* core.Mux.Handle: false is a panic of the library, for a pattern without *)
(* a path or one that conflicts.                                           *)
CanHandle(table, route) ==
    /\ route.pattern # <<>>
    /\ \A r \in table : r.method = route.method => ~ Conflict(r.pattern, route.pattern)

Candidates(table, method, path) ==
    {r \in table : r.method = method /\ Matches(r.pattern, path)}

(* The routes that serve a request, at most one in a table without         *)
(* conflicts; none is a 404 or, if another method has the path, a 405.     *)
Serving(table, method, path) ==
    {r \in Candidates(table, method, path) :
        \A s \in Candidates(table, method, path) : Matches(s.pattern, r.pattern)}

(* http.Request.PathValue of every wildcard of the pattern.                *)
PathValues(pattern, path) ==
    [w \in {pattern[i] : i \in 1 .. Len(pattern)} \cap Wildcards |->
        path[CHOOSE i \in 1 .. Len(pattern) : pattern[i] = w]]
=============================================================================
