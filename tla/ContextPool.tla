---------------------------- MODULE ContextPool ----------------------------
(***************************************************************************)
(* Pooled contexts (context.go): every tree has a pool; ServeHTTP, Match,   *)
(* Lookup and CloneWith take a context from it, reset or fill it, and give  *)
(* it back.  Contexts are addresses.  Each has a params slice (a cell) and a *)
(* recorder of its own; a middleware may put a recorder of its own around   *)
(* the writer.  sync.Pool is external: Get returns any pooled context or a  *)
(* new one.                                                                 *)
(*                                                                          *)
(* Users keep the contract of the docs: a context is closed once, used no   *)
(* more after that, and not released while another one writes through it.   *)
(***************************************************************************)
EXTENDS Naturals, FiniteSets

CONSTANTS Ctxs,      \* addresses of contexts
          Reqs,      \* requests
          Routes,    \* routes, each with one param
          MaxTree,   \* bound on the trees published
          MaxSteps,  \* bound on the length of a behaviour
          Nil

ASSUME BoundsAssumption == MaxTree \in Nat /\ MaxSteps \in Nat
VARIABLES cur,      \* the published tree
          pool,     \* the contexts in the pool of each tree
          ctx,      \* the fields of each context
          params,   \* the contents of the params slices
          rec,      \* the recorders
          live,     \* who holds a context: "no", "handler", "lookup", "with", "clone"
          served,   \* the requests that reached ServeHTTP
          steps,    \* steps so far
          owed      \* what the holder of a context is to find in it

vars == <<cur, pool, ctx, params, rec, live, served, owed, steps>>

Trees == 0 .. MaxTree
Own(c)  == <<"own", c>>     \* Context.rec
Wrap(c) == <<"wrap", c>>    \* a recorder made for the holder of c
Recorders == {Own(c) : c \in Ctxs} \cup {Wrap(c) : c \in Ctxs}

ASSUME NilAssumption == Nil \notin Ctxs \cup Reqs \cup Routes \cup Nat \cup Recorders

\* resp: whose response it writes to; under: the recorders it writes through.
Recorder(resp, status, under) == [resp |-> resp, status |-> status, under |-> under]
Unwritten(resp) == Recorder(resp, "unwritten", {})

Captures(route, r) == [route |-> route, req |-> r]

Blank(t, cell) == [tree |-> t, req |-> Nil, w |-> Nil, cached |-> Nil, route |-> Nil,
                   scope |-> "route", cell |-> cell]

New == {c \in Ctxs : ctx[c].tree = Nil /\ live[c] = "no"}

Init ==
    /\ cur = 0
    /\ pool = [t \in Trees |-> {}]
    /\ ctx = [c \in Ctxs |-> Blank(Nil, c)]
    /\ params = [c \in Ctxs |-> Nil]
    /\ rec = [x \in Recorders |-> Unwritten(Nil)]
    /\ live = [c \in Ctxs |-> "no"]
    /\ served = {}
    /\ owed = [c \in Ctxs |-> Nil]
    /\ steps = 0

\* pool.Get, allocateContext: what a context of tree t may be.
Got(t, c) ==
    IF c \in pool[t] THEN ctx[c] ELSE Blank(t, c)
Available(t) == pool[t] \cup New

\* The rest of an action that takes c from the pool of t for a holder.
Take(t, c, holder) ==
    /\ pool' = [pool EXCEPT ![t] = @ \ {c}]
    /\ live' = [live EXCEPT ![c] = holder]

\* Bounds the behaviours.
Step == steps < MaxSteps /\ steps' = steps + 1

Publish == /\ cur < MaxTree
           /\ cur' = cur + 1
           /\ UNCHANGED <<pool, ctx, params, rec, live, served, owed>>
           /\ Step

-----------------------------------------------------------------------------
(* Taking a context from the pool of a tree: the published one, or an older  *)
(* one that a request loaded, or a transaction started from, before.        *)

\* Mutant of Reset: the queries of the request before stay.
ResetKeepsQueries(old, r, w) ==
    [old EXCEPT !.req = r, !.w = w, !.route = Nil, !.scope = "route"]

\* reset and resetWithWriter; both empty the params too.
Reset(old, r, w) ==
    [old EXCEPT !.req = r, !.w = w, !.cached = Nil, !.route = Nil, !.scope = "route"]

\* resetWithRequest leaves the scope.
ResetWithRequest(old, r) ==
    [old EXCEPT !.req = r, !.w = Nil, !.cached = Nil, !.route = Nil]

Owe(r, resp, route, scope) ==
    [req |-> r, resp |-> resp, route |-> route, scope |-> scope,
     params |-> IF route = Nil THEN Nil ELSE Captures(route, r)]

\* ServeHTTP up to the handler: with a route and its captures, or, with the
\* captures cleared, one of the router's own handlers.
ServeHTTP(t, r, c, route) ==
    /\ r \notin served /\ c \in Available(t)
    /\ served' = served \cup {r}
    /\ Take(t, c, "handler")
    /\ LET new   == Reset(Got(t, c), r, Own(c))
           scope == IF route = Nil THEN "noRoute" ELSE "route"
       IN  /\ ctx' = [ctx EXCEPT ![c] = [new EXCEPT !.route = route, !.scope = scope]]
           /\ params' = [params EXCEPT ![new.cell] = IF route = Nil THEN Nil ELSE Captures(route, r)]
           /\ owed' = [owed EXCEPT ![c] = Owe(r, r, route, scope)]
    /\ rec' = [rec EXCEPT ![Own(c)] = Unwritten(r)]
    /\ UNCHANGED cur
    /\ Step

\* Router.Match and Txn.Match: the context goes back when it returns.  A matcher may have
\* asked for the query parameters.
Match(t, r, c) ==
    /\ c \in Available(t)
    /\ LET new == ResetWithRequest(Got(t, c), r)
       IN  /\ \E q \in {Nil, r} : ctx' = [ctx EXCEPT ![c] = [new EXCEPT !.cached = q]]
           /\ params' = [params EXCEPT ![new.cell] = Nil]
    /\ pool' = [pool EXCEPT ![t] = @ \cup {c}]
    /\ UNCHANGED <<cur, rec, live, served, owed>>
    /\ Step

\* Router.Lookup and Txn.Lookup with a route: the caller has to close the context.
Lookup(t, r, c, route) ==
    /\ c \in Available(t)
    /\ Take(t, c, "lookup")
    /\ LET new == Reset(Got(t, c), r, Wrap(c))
       IN  /\ ctx' = [ctx EXCEPT ![c] = [new EXCEPT !.route = route]]
           /\ params' = [params EXCEPT ![new.cell] = Captures(route, r)]
    /\ owed' = [owed EXCEPT ![c] = Owe(r, r, route, "route")]
    /\ rec' = [rec EXCEPT ![Wrap(c)] = Unwritten(r)]
    /\ UNCHANGED <<cur, served>>
    /\ Step

\* Without one: it goes back at once, with captures the lookup may have left.
LookupMiss(t, r, c) ==
    /\ c \in Available(t)
    /\ LET new == Reset(Got(t, c), r, Wrap(c))
       IN  /\ ctx' = [ctx EXCEPT ![c] = new]
           /\ \E route \in Routes \cup {Nil} :
                 params' = [params EXCEPT ![new.cell] = IF route = Nil THEN Nil ELSE Captures(route, r)]
    /\ pool' = [pool EXCEPT ![t] = @ \cup {c}]
    /\ UNCHANGED <<cur, rec, live, served, owed>>
    /\ Step

-----------------------------------------------------------------------------
(* What the holder of a context does with it *)

\* getQueries
QueryParams(c) ==
    /\ live[c] # "no" /\ ctx[c].cached = Nil
    /\ ctx' = [ctx EXCEPT ![c].cached = ctx[c].req]
    /\ UNCHANGED <<cur, pool, params, rec, live, served, owed>>
    /\ Step

SetRequest(c, r) ==
    /\ live[c] # "no"
    /\ ctx' = [ctx EXCEPT ![c].cached = Nil, ![c].req = r]
    /\ owed' = [owed EXCEPT ![c].req = r]
    /\ UNCHANGED <<cur, pool, params, rec, live, served>>
    /\ Step

\* A recorder around the one in use.
Around(w) == Recorder(rec[w].resp, "unwritten", {w} \cup rec[w].under)

SetWriter(c) ==
    /\ live[c] \in {"handler", "with"} /\ ctx[c].w # Wrap(c)
    /\ \A d \in Ctxs : live[d] # "no" => ctx[d].w # Wrap(c) /\ Wrap(c) \notin rec[ctx[d].w].under
    /\ rec' = [rec EXCEPT ![Wrap(c)] = Around(ctx[c].w)]
    /\ ctx' = [ctx EXCEPT ![c].w = Wrap(c)]
    /\ UNCHANGED <<cur, pool, params, live, served, owed>>
    /\ Step

\* A write goes through every recorder below.  One that would end in a clone
\* panics (ErrDiscardedResponseWriter).
Write(c) ==
    /\ live[c] # "no" /\ rec[ctx[c].w].resp # Nil
    /\ rec' = [x \in Recorders |-> IF x = ctx[c].w \/ x \in rec[ctx[c].w].under
                                   THEN [rec[x] EXCEPT !.status = "written"] ELSE rec[x]]
    /\ UNCHANGED <<cur, pool, ctx, params, live, served, owed>>
    /\ Step

\* Mutant of ResponseState: the embedded recorder is asked, not the writer.
ResponseStateOfRec(c) == rec[Own(c)].status

ResponseState(c) == rec[ctx[c].w].status

\* Mutant of CloneOf: the clone keeps its tree, so that Close pools it.
CloneOfTree(c, d) == [ctx[c] EXCEPT !.w = Own(d), !.cached = Nil, !.cell = d]

\* A clone has no tree and a params slice of its own.
CloneOf(c, d) == [ctx[c] EXCEPT !.tree = Nil, !.w = Own(d), !.cached = Nil, !.cell = d]

Clone(c, d) ==
    /\ live[c] # "no" /\ d \in New
    /\ ctx' = [ctx EXCEPT ![d] = CloneOf(c, d)]
    /\ params' = [params EXCEPT ![d] = params[ctx[c].cell]]
    /\ rec' = [rec EXCEPT ![Own(d)] = Recorder(Nil, ResponseState(c), {})]
    /\ live' = [live EXCEPT ![d] = "clone"]
    /\ owed' = [owed EXCEPT ![d] = [owed[c] EXCEPT !.resp = rec[ctx[c].w].status]]
    /\ UNCHANGED <<cur, pool, served>>
    /\ Step

\* The pool CloneWith borrows from.
HomeOf(c) == IF ctx[c].tree = Nil THEN cur ELSE ctx[c].tree

\* Mutant of CloneWithOf: the params slice is shared.
CloneWithOfShared(c, d, r, w) ==
    [Got(HomeOf(c), d) EXCEPT !.req = r, !.w = w, !.route = ctx[c].route, !.scope = ctx[c].scope,
                              !.cached = Nil, !.cell = ctx[c].cell]

CloneWithOf(c, d, r, w) ==
    [Got(HomeOf(c), d) EXCEPT !.req = r, !.w = w, !.route = ctx[c].route, !.scope = ctx[c].scope,
                              !.cached = Nil]

\* CloneWith, as WrapM uses it: with the writer of c, or with a new recorder.
CloneWith(c, d, r, wrap) ==
    /\ live[c] # "no" /\ d \in Available(HomeOf(c))
    /\ Take(HomeOf(c), d, "with")
    /\ LET w   == IF wrap THEN Wrap(d) ELSE ctx[c].w
           new == CloneWithOf(c, d, r, w)
       IN  /\ ctx' = [ctx EXCEPT ![d] = new]
           /\ params' = [params EXCEPT ![new.cell] = params[ctx[c].cell]]
           /\ rec' = IF wrap THEN [rec EXCEPT ![w] = Around(ctx[c].w)] ELSE rec
           /\ owed' = [owed EXCEPT ![d] = [owed[c] EXCEPT !.req = r, !.resp = rec[ctx[c].w].resp]]
    /\ UNCHANGED <<cur, served>>
    /\ Step

\* Nobody writes through the recorders of c but its holder.
Unshared(c) ==
    \A d \in Ctxs \ {c} : live[d] # "no" =>
        ({ctx[d].w} \cup rec[ctx[d].w].under) \cap {Own(c), Wrap(c)} = {}

Put(c) == /\ pool' = [pool EXCEPT ![ctx[c].tree] = @ \cup {c}]
          /\ live' = [live EXCEPT ![c] = "no"]
          /\ owed' = [owed EXCEPT ![c] = Nil]

\* The handler returns: the deferred Put of ServeHTTP.
Return(c) ==
    /\ live[c] = "handler" /\ Unshared(c)
    /\ Put(c)
    /\ UNCHANGED <<cur, ctx, params, rec, served>>
    /\ Step

Close(c) ==
    /\ live[c] \in {"lookup", "with"} /\ Unshared(c)
    /\ Put(c)
    /\ UNCHANGED <<cur, ctx, params, rec, served>>
    /\ Step

\* Closing a clone is harmless: it may still be used.
CloseClone(c) ==
    /\ live[c] = "clone"
    /\ pool' = IF ctx[c].tree = Nil THEN pool ELSE [pool EXCEPT ![ctx[c].tree] = @ \cup {c}]
    /\ UNCHANGED <<cur, ctx, params, rec, live, served, owed, steps>>

Next ==
    \/ Publish
    \/ \E t \in 0 .. cur, r \in Reqs, c \in Ctxs :
          \/ \E route \in Routes \cup {Nil} : ServeHTTP(t, r, c, route)
          \/ Match(t, r, c)
          \/ \E route \in Routes : Lookup(t, r, c, route)
          \/ LookupMiss(t, r, c)
    \/ \E r \in Reqs, c \in Ctxs :
          \/ SetRequest(c, r)
          \/ \E d \in Ctxs, wrap \in BOOLEAN : CloneWith(c, d, r, wrap)
    \/ \E c \in Ctxs :
          \/ QueryParams(c) \/ SetWriter(c) \/ Write(c)
          \/ \E d \in Ctxs : Clone(c, d)
          \/ Return(c) \/ Close(c) \/ CloseClone(c)

Spec == Init /\ [][Next]_vars

-----------------------------------------------------------------------------
(* Properties *)

TypeOK ==
    /\ cur \in Trees
    /\ pool \in [Trees -> SUBSET Ctxs]
    /\ ctx \in [Ctxs -> [tree : Trees \cup {Nil}, req : Reqs \cup {Nil}, w : Recorders \cup {Nil},
                         cached : Reqs \cup {Nil}, route : Routes \cup {Nil},
                         scope : {"route", "noRoute"}, cell : Ctxs]]
    /\ params \in [Ctxs -> [route : Routes, req : Reqs] \cup {Nil}]
    /\ live \in [Ctxs -> {"no", "handler", "lookup", "with", "clone"}]
    /\ served \subseteq Reqs /\ steps \in 0 .. MaxSteps
    /\ \A c \in Ctxs : live[c] # "no" => ctx[c].w # Nil /\ ctx[c].req # Nil

\* States are well typed and a context has one owner: a holder or one pool, that
\* of its own tree.  No two contexts share a params slice.
OneOwner ==
    /\ TypeOK
    /\ \A t \in Trees : \A c \in pool[t] : live[c] = "no" /\ ctx[c].tree = t
    /\ \A c, d \in Ctxs : c # d => ctx[c].cell # ctx[d].cell

\* Whoever holds a context finds in it what was put there for it: its request,
\* route and captures, never those of another request that used the context
\* before or uses another one now.
ContextIsMine ==
    \A c \in Ctxs : live[c] # "no" =>
        /\ ctx[c].req = owed[c].req
        /\ ctx[c].route = owed[c].route
        /\ ctx[c].scope = owed[c].scope
        /\ params[ctx[c].cell] = owed[c].params

\* The cached query parameters are those of the request the context shows.
QueriesFit == \A c \in Ctxs : live[c] # "no" => ctx[c].cached \in {Nil, ctx[c].req}

\* A write through a context goes to the response of the request it was taken
\* for; a clone, which writes nowhere, still tells how far the response was
\* when it was made, whatever happened to the context it was made from.
WritesToOwnResponse ==
    \A c \in Ctxs : live[c] # "no" =>
        IF live[c] = "clone" THEN rec[ctx[c].w].status = owed[c].resp /\ rec[ctx[c].w].resp = Nil
        ELSE rec[ctx[c].w].resp = owed[c].resp
=============================================================================
