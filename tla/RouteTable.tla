------------------------------ MODULE RouteTable ------------------------------
(***************************************************************************)
(* What a routing tree of fox holds, as a value: the registered routes, the *)
(* name index, the per-method counters and the number of routes.  The tree  *)
(* itself (radix nodes, copy-on-write) is module CowTree; this module is    *)
(* what tree.go's insert, delete and truncate promise about it.             *)
(*                                                                          *)
(* A route is a record with the fields                                      *)
(*   pattern   [str, tokens, optionalCatchAll] as parsed by parsePattern    *)
(*   methods   the set of HTTP methods; empty means any method              *)
(*   matchers  the set of matchers (NewRoute refuses duplicates)            *)
(*   name      the route name, a sequence of characters; <<>> means unnamed *)
(*   priority  the matcher priority                                         *)
(*   tag       tells apart two routes that differ only in handler/options   *)
(***************************************************************************)
EXTENDS Integers, Sequences, FiniteSets

CONSTANTS Routes,     \* the route objects the program may build with NewRoute
          MaxUint     \* the largest value of Go's uint

\* A process cannot hold more routes than a machine word can count.
ASSUME RoutesAssumption ==
    /\ MaxUint \in Nat
    /\ IsFiniteSet(Routes)
    /\ Cardinality(Routes) <= MaxUint

NoName     == <<>>
RouteNames == {r.name : r \in Routes} \ {NoName}
RouteMethods == UNION {r.methods : r \in Routes}

-----------------------------------------------------------------------------
(* The place of a pattern in the tree: tokens without parameter names.      *)

NoRegexp == "none"

\* The key of a param or wildcard node: its expression, else a placeholder.
CanonicalKey(tk) ==
    IF tk.regexp # NoRegexp THEN tk.regexp
    ELSE IF tk.typ = "param" THEN "?" ELSE "*"

CanonicalToken(tk) ==
    IF tk.typ = "static" THEN <<"static", tk.value>>
                         ELSE <<tk.typ, CanonicalKey(tk)>>

\* The node a route hangs on.
Leaf(r) == [i \in DOMAIN r.pattern.tokens |-> CanonicalToken(r.pattern.tokens[i])]

\* The node an optional catch-all also answers for, with an empty capture.
EmptyCapture(r) == SubSeq(Leaf(r), 1, Len(Leaf(r)) - 1)

-----------------------------------------------------------------------------
(* Conflicts *)

Overlap(ms1, ms2) == (ms1 = {} /\ ms2 = {}) \/ ms1 \cap ms2 # {}

LeafConflict(q, r) ==
    /\ Leaf(q) = Leaf(r)
    /\ q.matchers = r.matchers
    /\ Overlap(q.methods, r.methods)

\* e, an exact route, makes the empty capture of the optional catch-all c
\* unreachable.
Shadows(e, c) ==
    /\ c.pattern.optionalCatchAll
    /\ Leaf(e) = EmptyCapture(c)
    /\ e.matchers \subseteq c.matchers
    /\ e.methods = {} \/ Overlap(e.methods, c.methods)

Conflict(q, r) == LeafConflict(q, r) \/ Shadows(q, r) \/ Shadows(r, q)

\* The same registration: what Update and Delete look for.
SameKey(q, r) ==
    /\ q.pattern = r.pattern
    /\ q.methods = r.methods
    /\ q.matchers = r.matchers

-----------------------------------------------------------------------------
(* The counters of iTree.methods: a Go map from method to uint.             *)

UintInc(v) == IF v = MaxUint THEN 0 ELSE v + 1
UintDec(v) == IF v = 0 THEN MaxUint ELSE v - 1

CountOf(c, m) == IF m \in DOMAIN c THEN c[m] ELSE 0

CountUp(c, ms) ==
    [m \in DOMAIN c \cup ms |-> IF m \in ms THEN UintInc(CountOf(c, m)) ELSE c[m]]

CountDown(c, ms) ==
    [m \in {x \in DOMAIN c \cup ms : x \in ms => UintDec(CountOf(c, x)) # 0} |->
        IF m \in ms THEN UintDec(CountOf(c, m)) ELSE c[m]]

-----------------------------------------------------------------------------
(* The name index *)

Unbind(ns, n) == [x \in DOMAIN ns \ {n} |-> ns[x]]

Bind(ns, r) ==
    IF r.name = NoName THEN ns
    ELSE [x \in DOMAIN ns \cup {r.name} |-> IF x = r.name THEN r ELSE ns[x]]

NameFree(T, r) == r.name = NoName \/ r.name \notin DOMAIN T.names

-----------------------------------------------------------------------------
(* Tables and their operations *)

EmptyTable ==
    [routes |-> {}, names |-> [n \in {} |-> n], methods |-> [m \in {} |-> 0], size |-> 0]

CanInsert(T, r) ==
    /\ \A q \in T.routes : ~Conflict(q, r)
    /\ NameFree(T, r)

Inserted(T, r) ==
    [routes  |-> T.routes \cup {r},
     names   |-> Bind(T.names, r),
     methods |-> CountUp(T.methods, r.methods),
     size    |-> T.size + 1]

\* The registered route, if any, that Update(r) replaces and Delete(r) removes.
Registered(T, r) == {q \in T.routes : SameKey(q, r)}

\* A new name must be free unless the route keeps the one it has.
CanUpdate(T, old, r) == r.name = old.name \/ NameFree(T, r)

\* Mutant of Updated: renaming a route forgets the entry of its old name.
UpdatedKeepsName(T, old, r) ==
    [T EXCEPT !.routes = (T.routes \ {old}) \cup {r},
              !.names  = Bind(T.names, r)]

Updated(T, old, r) ==
    [routes  |-> (T.routes \ {old}) \cup {r},
     names   |-> Bind(Unbind(T.names, old.name), r),
     methods |-> T.methods,
     size    |-> T.size]

Deleted(T, old) ==
    [routes  |-> T.routes \ {old},
     names   |-> Unbind(T.names, old.name),
     methods |-> CountDown(T.methods, old.methods),
     size    |-> T.size - 1]

-----------------------------------------------------------------------------
(* What makes a table consistent *)

ConflictFree(T) == \A q, r \in T.routes : q # r => ~Conflict(q, r)

NamesAgree(T) ==
    /\ \A r \in T.routes :
          r.name # NoName => r.name \in DOMAIN T.names /\ T.names[r.name] = r
    /\ \A n \in DOMAIN T.names : T.names[n] \in T.routes /\ T.names[n].name = n

RoutesFor(T, m) == {r \in T.routes : m \in r.methods}

MethodsAgree(T) ==
    /\ DOMAIN T.methods = UNION {r.methods : r \in T.routes}
    /\ \A m \in DOMAIN T.methods : T.methods[m] = Cardinality(RoutesFor(T, m))

SizeAgrees(T) == T.size = Cardinality(T.routes)

TableOK(T) == ConflictFree(T) /\ NamesAgree(T) /\ MethodsAgree(T) /\ SizeAgrees(T)

Tables ==
    [routes  : SUBSET Routes,
     names   : UNION {[D -> Routes] : D \in SUBSET RouteNames},
     methods : UNION {[D -> 1 .. MaxUint] : D \in SUBSET RouteMethods},
     size    : Int]
=============================================================================
