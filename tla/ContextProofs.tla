---------------------------- MODULE ContextProofs ----------------------------
(***************************************************************************)
(* Proofs about the contexts of requests and the addresses they are asked   *)
(* for, modules ContextPool and ClientIP.                                   *)
(*                                                                          *)
(* For every set of contexts, requests and routes, a pooled context has one *)
(* owner, and whoever holds one finds its own request in it and writes to   *)
(* its own response.  For every header, number of proxies and resolvers, a  *)
(* resolver that suits the deployment returns the address of the client,    *)
(* and one that goes by what the proxies wrote no address a client made up. *)
(***************************************************************************)
EXTENDS ContextPool, ClientIP, SequenceTheorems, NaturalsInduction, WellFoundedInduction, TLAPS

-----------------------------------------------------------------------------
(* Pooled contexts: the inductive invariant *)

ContextRecord == [tree : Trees \cup {Nil}, req : Reqs \cup {Nil}, w : Recorders \cup {Nil},
                  cached : Reqs \cup {Nil}, route : Routes \cup {Nil},
                  scope : {"route", "noRoute"}, cell : Ctxs]

Capture == [route : Routes, req : Reqs] \cup {Nil}

RecorderRecord == [resp : Reqs \cup {Nil}, status : {"unwritten", "written"}, under : SUBSET Recorders]

OwedRecord == [req : Reqs, resp : Reqs \cup {Nil, "unwritten", "written"},
               route : Routes \cup {Nil}, scope : {"route", "noRoute"}, params : Capture]

Live(c) == live[c] # "no"

\* TypeOK says nothing of the recorders and of what holders are owed.
RestTyped ==
    /\ rec \in [Recorders -> RecorderRecord]
    /\ owed \in [Ctxs -> OwedRecord \cup {Nil}]
    /\ \A c \in Ctxs : Live(c) => owed[c] \in OwedRecord

\* A context that is pooled is held by nobody, and its tree is the pool's.
Pooled == \A t \in Trees : \A c \in pool[t] : live[c] = "no" /\ ctx[c].tree = t

\* The params slice of a context is the one it was allocated with.
OwnCells == \A c \in Ctxs : ctx[c].cell = c

\* A held context has the tree whose pool it came from; a clone has none.
Homed == \A c \in Ctxs : Live(c) => (live[c] = "clone" <=> ctx[c].tree = Nil)

\* The recorders a write through c passes.
Chain(c) == {ctx[c].w} \cup rec[ctx[c].w].under

\* A held context writes through the recorders of held contexts only, so that
\* whoever takes a context may make its recorders anew.
ChainsAreHeld ==
    \A c, d \in Ctxs : Live(c) /\ ~Live(d) => Own(d) \notin Chain(c) /\ Wrap(d) \notin Chain(c)

\* The recorders of one chain write to one response.
OneResponse ==
    \A c \in Ctxs : Live(c) => \A x \in Chain(c) : rec[x].resp = rec[ctx[c].w].resp

IInv ==
    /\ TypeOK
    /\ RestTyped
    /\ Pooled
    /\ OwnCells
    /\ Homed
    /\ ChainsAreHeld
    /\ OneResponse
    /\ ContextIsMine
    /\ QueriesFit
    /\ WritesToOwnResponse

-----------------------------------------------------------------------------
(* Facts about the operators *)

\* Every context has two recorders of its own, and shares none.
LEMMA RecorderNames ==
    ASSUME NEW c \in Ctxs, NEW d \in Ctxs
    PROVE  /\ Own(c) \in Recorders /\ Wrap(c) \in Recorders
           /\ Own(c) # Wrap(d)
           /\ Own(c) = Own(d) => c = d
           /\ Wrap(c) = Wrap(d) => c = d
           /\ Own(c) # Nil /\ Wrap(c) # Nil
BY NilAssumption DEF Own, Wrap, Recorders

\* What pool.Get hands out: a context nobody holds, of the tree of the pool,
\* with its own params slice.
LEMMA GotIsFree ==
    ASSUME TypeOK, Pooled, OwnCells, NEW t \in Trees, NEW c \in Available(t)
    PROVE  /\ c \in Ctxs /\ ~Live(c)
           /\ Got(t, c) \in ContextRecord
           /\ Got(t, c).tree = t /\ Got(t, c).cell = c
           /\ \A u \in Trees \ {t} : c \notin pool[u]
<1>1. c \in Ctxs /\ ~Live(c)
  BY DEF Available, New, TypeOK, Pooled, Live
<1>2. \A u \in Trees \ {t} : c \notin pool[u]
  BY NilAssumption DEF Pooled, Available, New, Trees
<1>3. CASE c \in pool[t]
  BY <1>1, <1>2, <1>3 DEF Got, TypeOK, Pooled, OwnCells, ContextRecord
<1>4. CASE c \notin pool[t]
  BY <1>1, <1>2, <1>4 DEF Got, Blank, ContextRecord
<1> QED BY <1>3, <1>4

\* The tree CloneWith borrows from is one of the trees.
LEMMA HomeIsTree ==
    ASSUME TypeOK, NEW c \in Ctxs
    PROVE  HomeOf(c) \in Trees
BY DEF HomeOf, TypeOK

\* A held context writes through recorders.
LEMMA ChainTyped ==
    ASSUME TypeOK, RestTyped, NEW c \in Ctxs, Live(c)
    PROVE  ctx[c].w \in Recorders /\ Chain(c) \subseteq Recorders /\ rec[ctx[c].w] \in RecorderRecord
BY DEF TypeOK, RestTyped, Live, Chain, RecorderRecord

-----------------------------------------------------------------------------
(* The kinds of steps *)

\* What ServeHTTP, Lookup, Clone and CloneWith have in common: a context c that
\* nobody holds gets a holder, and at most its own recorders are made anew.
Acquires(c, new, caps, holder, owe) ==
    /\ c \in Ctxs /\ ~Live(c)
    /\ new \in ContextRecord /\ ctx' = [ctx EXCEPT ![c] = new]
    /\ caps \in Capture /\ params' = [params EXCEPT ![c] = caps]
    /\ holder \in {"handler", "lookup", "with", "clone"} /\ live' = [live EXCEPT ![c] = holder]
    /\ owe \in OwedRecord /\ owed' = [owed EXCEPT ![c] = owe]
    /\ new.cell = c /\ new.w # Nil /\ new.req # Nil /\ new.cached = Nil
    /\ holder = "clone" <=> new.tree = Nil
    /\ new.req = owe.req /\ new.route = owe.route /\ new.scope = owe.scope /\ caps = owe.params
    /\ rec' \in [Recorders -> RecorderRecord]
    /\ \A x \in Recorders \ {Own(c), Wrap(c)} : rec'[x] = rec[x]
    /\ \A d \in Ctxs \ {c} : ~Live(d) =>
           {Own(d), Wrap(d)} \cap ({new.w} \cup rec'[new.w].under) = {}
    /\ \A x \in rec'[new.w].under : rec'[x].resp = rec'[new.w].resp
    /\ IF holder = "clone" THEN rec'[new.w].status = owe.resp /\ rec'[new.w].resp = Nil
       ELSE rec'[new.w].resp = owe.resp
    /\ pool' \in [Trees -> SUBSET Ctxs]
    /\ \A t \in Trees : pool'[t] \subseteq pool[t] \ {c}
    /\ cur' \in Trees /\ served' \subseteq Reqs /\ steps' \in 0 .. MaxSteps

\* Acquiring a context disturbs no other holder.
LEMMA AcquireKeepsIInv ==
    ASSUME IInv, NEW c, NEW new, NEW caps, NEW holder, NEW owe,
           Acquires(c, new, caps, holder, owe)
    PROVE  IInv'
<1> USE DEF IInv, Acquires
<1>1. /\ ctx'[c] = new /\ params'[c] = caps /\ live'[c] = holder /\ owed'[c] = owe
      /\ \A d \in Ctxs \ {c} : /\ ctx'[d] = ctx[d] /\ params'[d] = params[d]
                                /\ live'[d] = live[d] /\ owed'[d] = owed[d]
  BY DEF TypeOK, RestTyped
<1>2. live'[c] # "no" /\ new.w \in Recorders /\ Chain(c)' = {new.w} \cup rec'[new.w].under
  BY <1>1 DEF TypeOK, ContextRecord, Chain
<1>3. \A d \in Ctxs \ {c} : Live(d) => /\ Chain(d)' = Chain(d)
                                        /\ \A x \in Chain(d) : rec'[x] = rec[x]
  <2> SUFFICES ASSUME NEW d \in Ctxs \ {c}, Live(d)
               PROVE  Chain(d)' = Chain(d) /\ \A x \in Chain(d) : rec'[x] = rec[x]
    OBVIOUS
  <2>1. Chain(d) \subseteq Recorders \ {Own(c), Wrap(c)} /\ ctx[d].w \in Chain(d)
    BY ChainTyped DEF ChainsAreHeld, Chain
  <2>2. rec'[ctx[d].w] = rec[ctx[d].w]
    BY <2>1
  <2> QED BY <2>1, <2>2, <1>1 DEF Chain
<1>4. TypeOK'
  <2>1. ctx' \in [Ctxs -> ContextRecord] /\ params' \in [Ctxs -> Capture]
    BY DEF TypeOK, ContextRecord, Capture
  <2>2. live' \in [Ctxs -> {"no", "handler", "lookup", "with", "clone"}]
    BY DEF TypeOK
  <2>3. \A d \in Ctxs : live'[d] # "no" => ctx'[d].w # Nil /\ ctx'[d].req # Nil
    BY <1>1 DEF TypeOK
  <2> QED BY <2>1, <2>2, <2>3 DEF TypeOK, ContextRecord, Capture
<1>5. RestTyped'
  BY <1>1, <1>2 DEF RestTyped, Live
<1>6. Pooled' /\ OwnCells' /\ Homed'
  <2>1. Pooled'
    BY <1>1 DEF Pooled, TypeOK
  <2>2. OwnCells'
    BY <1>1 DEF OwnCells
  <2>3. Homed'
    BY <1>1 DEF Homed, Live
  <2> QED BY <2>1, <2>2, <2>3
<1>7. ChainsAreHeld'
  BY <1>1, <1>2, <1>3 DEF ChainsAreHeld, Live
<1>8. OneResponse'
  <2>1. \A d \in Ctxs \ {c} : Live(d) => \A x \in Chain(d)' : rec'[x].resp = rec'[ctx'[d].w].resp
    BY <1>1, <1>3 DEF OneResponse, Chain
  <2> QED BY <1>1, <1>2, <2>1 DEF OneResponse, Live
<1>9. ContextIsMine' /\ QueriesFit'
  BY <1>1, <1>6 DEF ContextIsMine, QueriesFit, OwnCells
<1>10. WritesToOwnResponse'
  <2>1. \A d \in Ctxs \ {c} : Live(d) => rec'[ctx'[d].w] = rec[ctx[d].w]
    BY <1>1, <1>3 DEF Chain
  <2> QED BY <1>1, <2>1 DEF WritesToOwnResponse, Live
<1> QED BY <1>4, <1>5, <1>6, <1>7, <1>8, <1>9, <1>10

\* What Match and a Lookup that finds nothing have in common: a context that
\* nobody holds is used and goes back to its pool.
Recycles(t, c, new, caps) ==
    /\ t \in Trees /\ c \in Ctxs /\ ~Live(c)
    /\ new \in ContextRecord /\ new.cell = c /\ new.tree = t
    /\ ctx' = [ctx EXCEPT ![c] = new]
    /\ caps \in Capture /\ params' = [params EXCEPT ![c] = caps]
    /\ \A u \in Trees \ {t} : c \notin pool[u]
    /\ pool' = [pool EXCEPT ![t] = @ \cup {c}]
    /\ UNCHANGED <<cur, rec, live, served, owed>> /\ steps' \in 0 .. MaxSteps

\* Using a context nobody holds disturbs no holder.
LEMMA RecycleKeepsIInv ==
    ASSUME IInv, NEW t, NEW c, NEW new, NEW caps, Recycles(t, c, new, caps)
    PROVE  IInv'
<1> USE DEF IInv, Recycles
<1>1. \A d \in Ctxs \ {c} : ctx'[d] = ctx[d] /\ params'[d] = params[d]
  BY DEF TypeOK
<1>2. \A d \in Ctxs : Live(d) => d # c /\ Chain(d)' = Chain(d)
  BY <1>1 DEF Chain
<1>3. TypeOK'
  <2>1. ctx' \in [Ctxs -> ContextRecord] /\ params' \in [Ctxs -> Capture]
    BY DEF TypeOK, ContextRecord, Capture
  <2> QED BY <1>1, <2>1 DEF TypeOK, ContextRecord, Capture, Live
<1>4. RestTyped'
  BY DEF RestTyped, Live
<1>5. Pooled' /\ OwnCells' /\ Homed'
  <2>1. Pooled'
    BY <1>1 DEF Pooled, TypeOK, Live
  <2>2. OwnCells'
    BY <1>1 DEF OwnCells
  <2>3. Homed'
    BY <1>1 DEF Homed, Live
  <2> QED BY <2>1, <2>2, <2>3
<1>6. ChainsAreHeld' /\ OneResponse'
  BY <1>1, <1>2 DEF ChainsAreHeld, OneResponse, Live
<1>7. ContextIsMine' /\ QueriesFit' /\ WritesToOwnResponse'
  BY <1>1, <1>5 DEF ContextIsMine, QueriesFit, WritesToOwnResponse, OwnCells, Live
<1> QED BY <1>3, <1>4, <1>5, <1>6, <1>7

\* What the return of a handler and Close have in common: a context nobody
\* else writes through goes back to the pool of its tree.
LEMMA ReleaseKeepsIInv ==
    ASSUME IInv, NEW c \in Ctxs, Live(c), live[c] # "clone", Unshared(c), Put(c),
           UNCHANGED <<cur, ctx, params, rec, served>>, steps' \in 0 .. MaxSteps
    PROVE  IInv'
<1> USE DEF IInv, Put
<1>1. ctx[c].tree \in Trees
  BY DEF Homed, TypeOK
<1>2. /\ live' \in [Ctxs -> {"no", "handler", "lookup", "with", "clone"}] /\ live'[c] = "no"
      /\ \A d \in Ctxs \ {c} : live'[d] = live[d] /\ owed'[d] = owed[d]
  BY DEF TypeOK, RestTyped
<1>3. TypeOK'
  <2>1. pool' \in [Trees -> SUBSET Ctxs]
    BY <1>1 DEF TypeOK
  <2> QED BY <1>2, <2>1 DEF TypeOK
<1>4. RestTyped'
  BY <1>2 DEF RestTyped, Live
<1>5. Pooled' /\ OwnCells' /\ Homed'
  <2>1. Pooled'
    BY <1>1, <1>2 DEF Pooled, TypeOK
  <2>2. OwnCells' /\ Homed'
    BY <1>2 DEF OwnCells, Homed, Live
  <2> QED BY <2>1, <2>2
<1>6. ChainsAreHeld'
  <2> SUFFICES ASSUME NEW d \in Ctxs, NEW e \in Ctxs, Live(d)', ~Live(e)'
               PROVE  Own(e) \notin Chain(d) /\ Wrap(e) \notin Chain(d)
    BY DEF ChainsAreHeld, Chain
  <2>1. d # c /\ Live(d)
    BY <1>2 DEF Live
  <2>2. CASE e = c
    BY <2>1, <2>2 DEF Unshared, Chain, Live
  <2>3. CASE e # c
    BY <1>2, <2>1, <2>3 DEF ChainsAreHeld, Live
  <2> QED BY <2>2, <2>3
<1>7. OneResponse'
  BY <1>2 DEF OneResponse, Live, Chain
<1>8. ContextIsMine' /\ QueriesFit' /\ WritesToOwnResponse'
  BY <1>2 DEF ContextIsMine, QueriesFit, WritesToOwnResponse
<1> QED BY <1>3, <1>4, <1>5, <1>6, <1>7, <1>8

-----------------------------------------------------------------------------
(* The actions *)

\* Publishing a tree touches no context.
LEMMA PublishKeepsIInv ==
    ASSUME IInv, Publish
    PROVE  IInv'
<1> USE DEF IInv, Publish, Step
<1>1. TypeOK'
  BY BoundsAssumption DEF TypeOK, Trees
<1>2. RestTyped' /\ Pooled' /\ OwnCells' /\ Homed'
  BY DEF RestTyped, Pooled, OwnCells, Homed, Live
<1>3. ChainsAreHeld' /\ OneResponse'
  BY DEF ChainsAreHeld, OneResponse, Chain, Live
<1>4. ContextIsMine' /\ QueriesFit' /\ WritesToOwnResponse'
  BY DEF ContextIsMine, QueriesFit, WritesToOwnResponse
<1> QED BY <1>1, <1>2, <1>3, <1>4

\* The steps left are counted.
LEMMA StepsTyped ==
    ASSUME TypeOK, Step
    PROVE  steps' \in 0 .. MaxSteps
BY BoundsAssumption DEF TypeOK, Step

\* ServeHTTP fills the context it takes before the handler sees it.
LEMMA ServeHTTPKeepsIInv ==
    ASSUME IInv, NEW t \in Trees, NEW r \in Reqs, NEW c \in Ctxs,
           NEW route \in Routes \cup {Nil}, ServeHTTP(t, r, c, route)
    PROVE  IInv'
<1> DEFINE scope == IF route = Nil THEN "noRoute" ELSE "route"
           caps  == IF route = Nil THEN Nil ELSE Captures(route, r)
           reset == Reset(Got(t, c), r, Own(c))
           new   == [reset EXCEPT !.route = route, !.scope = scope]
           owe   == Owe(r, r, route, scope)
<1>1. c \in Available(t) /\ TypeOK /\ Pooled /\ OwnCells /\ RestTyped
  BY DEF IInv, ServeHTTP
<1>2. /\ ~Live(c) /\ Got(t, c) \in ContextRecord /\ Got(t, c).tree = t /\ Got(t, c).cell = c
      /\ \A u \in Trees \ {t} : c \notin pool[u]
  BY <1>1, GotIsFree
<1>3. /\ Own(c) \in Recorders /\ Own(c) # Nil /\ t # Nil /\ r # Nil
      /\ \A d \in Ctxs \ {c} : Own(d) # Own(c) /\ Wrap(d) # Own(c)
  BY RecorderNames, NilAssumption DEF Trees
<1>4. /\ reset \in ContextRecord /\ reset.tree = t /\ reset.req = r /\ reset.w = Own(c)
      /\ reset.cached = Nil /\ reset.cell = c
  BY <1>2, <1>3 DEF Reset, ContextRecord
<1> HIDE DEF reset
<1>5. /\ new \in ContextRecord /\ new.tree = t /\ new.req = r /\ new.w = Own(c)
      /\ new.cached = Nil /\ new.cell = c /\ new.route = route /\ new.scope = scope
  BY <1>4 DEF ContextRecord
<1> HIDE DEF new
<1>6. /\ ctx' = [ctx EXCEPT ![c] = new]
      /\ params' = [params EXCEPT ![c] = caps]
      /\ owed' = [owed EXCEPT ![c] = owe]
      /\ rec' = [rec EXCEPT ![Own(c)] = Unwritten(r)]
      /\ pool' = [pool EXCEPT ![t] = @ \ {c}] /\ live' = [live EXCEPT ![c] = "handler"]
      /\ served' = served \cup {r} /\ cur' = cur /\ Step
  BY <1>4 DEF ServeHTTP, Take, new, reset
<1>7. caps \in Capture
  BY DEF Capture, Captures
<1>8. /\ owe \in OwedRecord /\ owe.req = r /\ owe.resp = r /\ owe.route = route
      /\ owe.scope = scope /\ owe.params = caps
  BY DEF Owe, OwedRecord, Capture, Captures
<1> HIDE DEF caps, scope, owe
<1>9. /\ rec' \in [Recorders -> RecorderRecord]
      /\ rec'[Own(c)].resp = r /\ rec'[Own(c)].under = {}
      /\ \A x \in Recorders \ {Own(c)} : rec'[x] = rec[x]
  BY <1>1, <1>3, <1>6 DEF RestTyped, Unwritten, Recorder, RecorderRecord
<1>10. /\ \A d \in Ctxs \ {c} : ~Live(d) =>
               {Own(d), Wrap(d)} \cap ({new.w} \cup rec'[new.w].under) = {}
       /\ \A x \in rec'[new.w].under : rec'[x].resp = rec'[new.w].resp
       /\ rec'[new.w].resp = owe.resp
  BY <1>3, <1>5, <1>8, <1>9
<1>11. pool' \in [Trees -> SUBSET Ctxs] /\ \A u \in Trees : pool'[u] \subseteq pool[u] \ {c}
  BY <1>1, <1>2, <1>6 DEF TypeOK
<1>12. cur' \in Trees /\ served' \subseteq Reqs /\ steps' \in 0 .. MaxSteps
  BY <1>1, <1>6, StepsTyped DEF TypeOK
<1>13. Acquires(c, new, caps, "handler", owe)
  BY <1>2, <1>3, <1>5, <1>6, <1>7, <1>8, <1>9, <1>10, <1>11, <1>12 DEF Acquires
<1> QED BY <1>13, AcquireKeepsIInv

\* Match fills a context and puts it back.
LEMMA MatchKeepsIInv ==
    ASSUME IInv, NEW t \in Trees, NEW r \in Reqs, NEW c \in Ctxs, Match(t, r, c)
    PROVE  IInv'
<1>1. c \in Available(t) /\ TypeOK /\ Pooled /\ OwnCells
  BY DEF IInv, Match
<1>2. /\ ~Live(c) /\ Got(t, c) \in ContextRecord /\ Got(t, c).tree = t /\ Got(t, c).cell = c
      /\ \A u \in Trees \ {t} : c \notin pool[u]
  BY <1>1, GotIsFree
<1> DEFINE reset == ResetWithRequest(Got(t, c), r)
<1>3. reset \in ContextRecord /\ reset.tree = t /\ reset.cell = c
  BY <1>2 DEF ResetWithRequest, ContextRecord
<1>4. PICK q \in {Nil, r} : ctx' = [ctx EXCEPT ![c] = [reset EXCEPT !.cached = q]]
  BY DEF Match
<1>5. /\ params' = [params EXCEPT ![c] = Nil] /\ Nil \in Capture
      /\ pool' = [pool EXCEPT ![t] = @ \cup {c}]
      /\ UNCHANGED <<cur, rec, live, served, owed>> /\ steps' \in 0 .. MaxSteps
  BY <1>1, <1>3, StepsTyped DEF Match, Capture
<1> DEFINE new == [reset EXCEPT !.cached = q]
<1> HIDE DEF reset
<1>6. new \in ContextRecord /\ new.tree = t /\ new.cell = c
  BY <1>3 DEF ContextRecord
<1>7. Recycles(t, c, new, Nil)
  BY <1>2, <1>4, <1>5, <1>6 DEF Recycles
<1> QED BY <1>7, RecycleKeepsIInv

\* A lookup that finds nothing puts the context back as it is.
LEMMA LookupMissKeepsIInv ==
    ASSUME IInv, NEW t \in Trees, NEW r \in Reqs, NEW c \in Ctxs, LookupMiss(t, r, c)
    PROVE  IInv'
<1>1. c \in Available(t) /\ TypeOK /\ Pooled /\ OwnCells
  BY DEF IInv, LookupMiss
<1>2. /\ ~Live(c) /\ Got(t, c) \in ContextRecord /\ Got(t, c).tree = t /\ Got(t, c).cell = c
      /\ \A u \in Trees \ {t} : c \notin pool[u]
  BY <1>1, GotIsFree
<1> DEFINE new == Reset(Got(t, c), r, Wrap(c))
<1>3. new \in ContextRecord /\ new.tree = t /\ new.cell = c
  BY <1>2, RecorderNames DEF Reset, ContextRecord
<1>4. PICK route \in Routes \cup {Nil} :
          params' = [params EXCEPT ![c] = IF route = Nil THEN Nil ELSE Captures(route, r)]
  BY <1>3 DEF LookupMiss
<1>5. /\ ctx' = [ctx EXCEPT ![c] = new] /\ pool' = [pool EXCEPT ![t] = @ \cup {c}]
      /\ UNCHANGED <<cur, rec, live, served, owed>> /\ steps' \in 0 .. MaxSteps
  BY <1>1, StepsTyped DEF LookupMiss
<1> DEFINE caps == IF route = Nil THEN Nil ELSE Captures(route, r)
<1> HIDE DEF new
<1>6. caps \in Capture
  BY DEF Capture, Captures
<1>7. Recycles(t, c, new, caps)
  BY <1>2, <1>3, <1>4, <1>5, <1>6 DEF Recycles
<1> QED BY <1>7, RecycleKeepsIInv

\* Lookup hands its caller a context with a recorder made for it.
LEMMA LookupKeepsIInv ==
    ASSUME IInv, NEW t \in Trees, NEW r \in Reqs, NEW c \in Ctxs, NEW route \in Routes,
           Lookup(t, r, c, route)
    PROVE  IInv'
<1> DEFINE caps  == Captures(route, r)
           reset == Reset(Got(t, c), r, Wrap(c))
           new   == [reset EXCEPT !.route = route]
           owe   == Owe(r, r, route, "route")
<1>1. c \in Available(t) /\ TypeOK /\ Pooled /\ OwnCells /\ RestTyped
  BY DEF IInv, Lookup
<1>2. /\ ~Live(c) /\ Got(t, c) \in ContextRecord /\ Got(t, c).tree = t /\ Got(t, c).cell = c
      /\ \A u \in Trees \ {t} : c \notin pool[u]
  BY <1>1, GotIsFree
<1>3. /\ Wrap(c) \in Recorders /\ Wrap(c) # Nil /\ t # Nil /\ r # Nil /\ route # Nil
      /\ \A d \in Ctxs \ {c} : Own(d) # Wrap(c) /\ Wrap(d) # Wrap(c)
  BY RecorderNames, NilAssumption DEF Trees
<1>4. /\ reset \in ContextRecord /\ reset.tree = t /\ reset.req = r /\ reset.w = Wrap(c)
      /\ reset.cached = Nil /\ reset.cell = c /\ reset.scope = "route"
  BY <1>2, <1>3 DEF Reset, ContextRecord
<1> HIDE DEF reset
<1>5. /\ new \in ContextRecord /\ new.tree = t /\ new.req = r /\ new.w = Wrap(c)
      /\ new.cached = Nil /\ new.cell = c /\ new.route = route /\ new.scope = "route"
  BY <1>4 DEF ContextRecord
<1> HIDE DEF new
<1>6. /\ ctx' = [ctx EXCEPT ![c] = new]
      /\ params' = [params EXCEPT ![c] = caps]
      /\ owed' = [owed EXCEPT ![c] = owe]
      /\ rec' = [rec EXCEPT ![Wrap(c)] = Unwritten(r)]
      /\ pool' = [pool EXCEPT ![t] = @ \ {c}] /\ live' = [live EXCEPT ![c] = "lookup"]
      /\ UNCHANGED <<cur, served>> /\ Step
  BY <1>4 DEF Lookup, Take, new, reset
<1>7. caps \in Capture
  BY DEF Capture, Captures
<1>8. /\ owe \in OwedRecord /\ owe.req = r /\ owe.resp = r /\ owe.route = route
      /\ owe.scope = "route" /\ owe.params = caps
  BY <1>3 DEF Owe, OwedRecord, Capture, Captures
<1> HIDE DEF caps, owe
<1>9. /\ rec' \in [Recorders -> RecorderRecord]
      /\ rec'[Wrap(c)].resp = r /\ rec'[Wrap(c)].under = {}
      /\ \A x \in Recorders \ {Wrap(c)} : rec'[x] = rec[x]
  BY <1>1, <1>3, <1>6 DEF RestTyped, Unwritten, Recorder, RecorderRecord
<1>10. /\ \A d \in Ctxs \ {c} : ~Live(d) =>
               {Own(d), Wrap(d)} \cap ({new.w} \cup rec'[new.w].under) = {}
       /\ \A x \in rec'[new.w].under : rec'[x].resp = rec'[new.w].resp
       /\ rec'[new.w].resp = owe.resp
  BY <1>3, <1>5, <1>8, <1>9
<1>11. pool' \in [Trees -> SUBSET Ctxs] /\ \A u \in Trees : pool'[u] \subseteq pool[u] \ {c}
  BY <1>1, <1>2, <1>6 DEF TypeOK
<1>12. cur' \in Trees /\ served' \subseteq Reqs /\ steps' \in 0 .. MaxSteps
  BY <1>1, <1>6, StepsTyped DEF TypeOK
<1>13. Acquires(c, new, caps, "lookup", owe)
  BY <1>2, <1>3, <1>5, <1>6, <1>7, <1>8, <1>9, <1>10, <1>11, <1>12 DEF Acquires
<1> QED BY <1>13, AcquireKeepsIInv

\* A clone gets a context that was never used, with no tree and no writer below.
LEMMA CloneKeepsIInv ==
    ASSUME IInv, NEW c \in Ctxs, NEW d \in Ctxs, Clone(c, d)
    PROVE  IInv'
<1> DEFINE new  == CloneOf(c, d)
           caps == params[ctx[c].cell]
           r    == Recorder(Nil, ResponseState(c), {})
           owe  == [owed[c] EXCEPT !.resp = rec[ctx[c].w].status]
<1>1. /\ TypeOK /\ Pooled /\ OwnCells /\ RestTyped /\ ContextIsMine
      /\ Live(c) /\ ~Live(d) /\ ctx[d].tree = Nil
  BY DEF IInv, Clone, New, Live
<1>2. /\ Own(d) \in Recorders /\ Own(d) # Nil
      /\ \A e \in Ctxs \ {d} : Own(e) # Own(d) /\ Wrap(e) # Own(d)
  BY RecorderNames
<1>3. ctx[c] \in ContextRecord /\ ctx[c].req # Nil /\ ctx[c].cell = c
  BY <1>1 DEF TypeOK, ContextRecord, OwnCells, Live
<1>4. rec[ctx[c].w] \in RecorderRecord /\ owed[c] \in OwedRecord /\ caps \in Capture
  BY <1>1, <1>3, ChainTyped DEF RestTyped, TypeOK, Capture
<1>5. /\ new \in ContextRecord /\ new.tree = Nil /\ new.req = ctx[c].req /\ new.w = Own(d)
      /\ new.cached = Nil /\ new.cell = d /\ new.route = ctx[c].route /\ new.scope = ctx[c].scope
  BY <1>2, <1>3 DEF CloneOf, ContextRecord
<1>6. /\ owe \in OwedRecord /\ owe.req = owed[c].req /\ owe.resp = ResponseState(c)
      /\ owe.route = owed[c].route /\ owe.scope = owed[c].scope /\ owe.params = owed[c].params
  BY <1>4 DEF OwedRecord, ResponseState, RecorderRecord
<1>7. /\ r \in RecorderRecord /\ r.resp = Nil /\ r.status = ResponseState(c) /\ r.under = {}
  BY <1>4 DEF Recorder, RecorderRecord, ResponseState
<1>8. /\ ctx' = [ctx EXCEPT ![d] = new] /\ params' = [params EXCEPT ![d] = caps]
      /\ rec' = [rec EXCEPT ![Own(d)] = r] /\ live' = [live EXCEPT ![d] = "clone"]
      /\ owed' = [owed EXCEPT ![d] = owe] /\ UNCHANGED <<cur, pool, served>> /\ Step
  BY DEF Clone
<1>9. /\ owed[c].req = ctx[c].req /\ owed[c].route = ctx[c].route
      /\ owed[c].scope = ctx[c].scope /\ owed[c].params = caps
  BY <1>1 DEF ContextIsMine, Live
<1> HIDE DEF new, caps, r, owe
<1>10. /\ rec' \in [Recorders -> RecorderRecord] /\ rec'[Own(d)] = r
       /\ \A x \in Recorders \ {Own(d)} : rec'[x] = rec[x]
  BY <1>1, <1>2, <1>7, <1>8 DEF RestTyped
<1>11. \A t \in Trees : pool'[t] \subseteq pool[t] \ {d}
  BY <1>1, <1>8, NilAssumption DEF Pooled, Trees
<1>12. pool' \in [Trees -> SUBSET Ctxs] /\ cur' \in Trees /\ served' \subseteq Reqs /\ steps' \in 0 .. MaxSteps
  BY <1>1, <1>8, StepsTyped DEF TypeOK
<1>13. /\ rec'[new.w].under = {} /\ rec'[new.w].status = owe.resp /\ rec'[new.w].resp = Nil
       /\ \A e \in Ctxs \ {d} : {Own(e), Wrap(e)} \cap ({new.w} \cup rec'[new.w].under) = {}
  BY <1>2, <1>5, <1>6, <1>7, <1>10
<1>14. Acquires(d, new, caps, "clone", owe)
  BY <1>1, <1>2, <1>3, <1>4, <1>5, <1>6, <1>8, <1>9, <1>10, <1>11, <1>12, <1>13 DEF Acquires
<1> QED BY <1>14, AcquireKeepsIInv

\* CloneWith borrows a context and gives it the writer of c, or a new one around it.
LEMMA CloneWithKeepsIInv ==
    ASSUME IInv, NEW c \in Ctxs, NEW d \in Ctxs, NEW r \in Reqs, NEW wrap \in BOOLEAN,
           CloneWith(c, d, r, wrap)
    PROVE  IInv'
<1> DEFINE t    == HomeOf(c)
           w    == IF wrap THEN Wrap(d) ELSE ctx[c].w
           new  == CloneWithOf(c, d, r, w)
           caps == params[ctx[c].cell]
           owe  == [owed[c] EXCEPT !.req = r, !.resp = rec[ctx[c].w].resp]
<1>1. /\ TypeOK /\ Pooled /\ OwnCells /\ RestTyped /\ ContextIsMine /\ ChainsAreHeld /\ OneResponse
      /\ Live(c) /\ d \in Available(t) /\ t \in Trees
  BY HomeIsTree DEF IInv, CloneWith, Live
<1> HIDE DEF t
<1>2. /\ ~Live(d) /\ Got(t, d) \in ContextRecord /\ Got(t, d).tree = t /\ Got(t, d).cell = d
      /\ \A u \in Trees \ {t} : d \notin pool[u]
  BY <1>1, GotIsFree
<1>3. /\ Wrap(d) \in Recorders /\ Wrap(d) # Nil /\ Own(d) # Wrap(d) /\ t # Nil /\ r # Nil
      /\ \A e \in Ctxs \ {d} : Own(e) # Wrap(d) /\ Wrap(e) # Wrap(d)
  BY <1>1, RecorderNames, NilAssumption DEF Trees
<1>4. /\ ctx[c] \in ContextRecord /\ ctx[c].cell = c /\ ctx[c].w \in Recorders /\ Chain(c) \subseteq Recorders
      /\ rec[ctx[c].w] \in RecorderRecord /\ owed[c] \in OwedRecord /\ caps \in Capture
  BY <1>1, ChainTyped DEF RestTyped, TypeOK, Capture, ContextRecord, OwnCells
<1>5. w \in Recorders /\ w # Nil
  BY <1>3, <1>4, NilAssumption
<1> HIDE DEF w
<1>6. /\ new \in ContextRecord /\ new.tree = t /\ new.req = r /\ new.w = w
      /\ new.cached = Nil /\ new.cell = d /\ new.route = ctx[c].route /\ new.scope = ctx[c].scope
  BY <1>2, <1>4, <1>5 DEF CloneWithOf, ContextRecord, t
<1>7. /\ owe \in OwedRecord /\ owe.req = r /\ owe.resp = rec[ctx[c].w].resp
      /\ owe.route = owed[c].route /\ owe.scope = owed[c].scope /\ owe.params = owed[c].params
  BY <1>4 DEF OwedRecord, RecorderRecord
<1>8. /\ ctx' = [ctx EXCEPT ![d] = new] /\ params' = [params EXCEPT ![new.cell] = caps]
      /\ rec' = IF wrap THEN [rec EXCEPT ![w] = Around(ctx[c].w)] ELSE rec
      /\ pool' = [pool EXCEPT ![t] = @ \ {d}] /\ live' = [live EXCEPT ![d] = "with"]
      /\ owed' = [owed EXCEPT ![d] = owe] /\ UNCHANGED <<cur, served>> /\ Step
  BY DEF CloneWith, Take, t, w
<1>9. /\ owed[c].route = ctx[c].route /\ owed[c].scope = ctx[c].scope /\ owed[c].params = caps
  BY <1>1 DEF ContextIsMine, Live
<1> HIDE DEF new, caps, owe
<1>10. \A x \in Chain(c) : x # Own(d) /\ x # Wrap(d) /\ rec[x].resp = rec[ctx[c].w].resp
  BY <1>1, <1>2 DEF ChainsAreHeld, OneResponse
<1>11. /\ rec' \in [Recorders -> RecorderRecord]
       /\ \A x \in Recorders \ {Own(d), Wrap(d)} : rec'[x] = rec[x]
       /\ rec'[w].resp = rec[ctx[c].w].resp
       /\ rec'[w].under \subseteq Chain(c) /\ {w} \subseteq {Wrap(d)} \cup Chain(c)
  <2>1. CASE wrap
    <3>1. /\ Around(ctx[c].w) \in RecorderRecord /\ Around(ctx[c].w).under = Chain(c)
          /\ Around(ctx[c].w).resp = rec[ctx[c].w].resp
      BY <1>4 DEF Around, Recorder, Chain, RecorderRecord
    <3>2. w = Wrap(d) /\ rec' = [rec EXCEPT ![Wrap(d)] = Around(ctx[c].w)]
      BY <1>8, <2>1 DEF w
    <3> QED BY <1>1, <1>3, <3>1, <3>2 DEF RestTyped
  <2>2. CASE ~wrap
    <3>1. w = ctx[c].w /\ rec' = rec
      BY <1>8, <2>2 DEF w
    <3> QED BY <1>1, <3>1 DEF RestTyped, Chain
  <2> QED BY <2>1, <2>2
<1>12. \A e \in Ctxs \ {d} : ~Live(e) => Own(e) \notin Chain(c) /\ Wrap(e) \notin Chain(c)
  BY <1>1 DEF ChainsAreHeld
<1>13. /\ \A e \in Ctxs \ {d} : ~Live(e) =>
               {Own(e), Wrap(e)} \cap ({new.w} \cup rec'[new.w].under) = {}
       /\ \A x \in rec'[new.w].under : rec'[x].resp = rec'[new.w].resp
       /\ rec'[new.w].resp = owe.resp
  BY <1>3, <1>4, <1>6, <1>7, <1>10, <1>11, <1>12
<1>14. pool' \in [Trees -> SUBSET Ctxs] /\ \A u \in Trees : pool'[u] \subseteq pool[u] \ {d}
  BY <1>1, <1>2, <1>8 DEF TypeOK
<1>15. cur' \in Trees /\ served' \subseteq Reqs /\ steps' \in 0 .. MaxSteps
  BY <1>1, <1>8, StepsTyped DEF TypeOK
<1>16. Acquires(d, new, caps, "with", owe)
  BY <1>2, <1>3, <1>4, <1>5, <1>6, <1>7, <1>8, <1>9, <1>11, <1>13, <1>14, <1>15 DEF Acquires
<1> QED BY <1>16, AcquireKeepsIInv

\* QueryParams caches the queries of the request the context shows.
LEMMA QueryParamsKeepsIInv ==
    ASSUME IInv, NEW c \in Ctxs, QueryParams(c)
    PROVE  IInv'
<1> USE DEF IInv, QueryParams
<1>1. /\ ctx'[c] = [ctx[c] EXCEPT !.cached = ctx[c].req] /\ \A d \in Ctxs \ {c} : ctx'[d] = ctx[d]
      /\ ctx' \in [Ctxs -> ContextRecord]
  BY DEF TypeOK, ContextRecord
<1>2. /\ \A d \in Ctxs : /\ ctx'[d].tree = ctx[d].tree /\ ctx'[d].req = ctx[d].req
                           /\ ctx'[d].w = ctx[d].w /\ ctx'[d].route = ctx[d].route
                           /\ ctx'[d].scope = ctx[d].scope /\ ctx'[d].cell = ctx[d].cell
      /\ ctx'[c].cached = ctx'[c].req
  BY <1>1 DEF TypeOK
<1>3. \A d \in Ctxs : Chain(d)' = Chain(d)
  BY <1>2 DEF Chain
<1>4. TypeOK'
  BY <1>1, <1>2, StepsTyped DEF TypeOK, ContextRecord
<1>5. RestTyped' /\ Pooled' /\ OwnCells' /\ Homed'
  BY <1>2 DEF RestTyped, Pooled, OwnCells, Homed, Live, TypeOK
<1>6. ChainsAreHeld' /\ OneResponse'
  BY <1>2, <1>3 DEF ChainsAreHeld, OneResponse, Live
<1>7. ContextIsMine' /\ QueriesFit' /\ WritesToOwnResponse'
  BY <1>1, <1>2 DEF ContextIsMine, QueriesFit, WritesToOwnResponse
<1> QED BY <1>4, <1>5, <1>6, <1>7

\* What SetRequest makes of a context.
LEMMA RequestIsSet ==
    ASSUME NEW old \in ContextRecord, NEW r \in Reqs
    PROVE  LET new == [old EXCEPT !.cached = Nil, !.req = r]
           IN  /\ new \in ContextRecord
               /\ new.cached = Nil /\ new.req = r
               /\ new.tree = old.tree /\ new.w = old.w /\ new.route = old.route
               /\ new.scope = old.scope /\ new.cell = old.cell
BY DEF ContextRecord

\* SetRequest drops the cached queries with the request they were read from.
LEMMA SetRequestKeepsIInv ==
    ASSUME IInv, NEW c \in Ctxs, NEW r \in Reqs, SetRequest(c, r)
    PROVE  IInv'
<1> USE DEF IInv
<1>1. /\ Live(c) /\ ctx' = [ctx EXCEPT ![c].cached = Nil, ![c].req = r]
      /\ owed' = [owed EXCEPT ![c].req = r]
      /\ UNCHANGED <<cur, pool, params, rec, live, served>> /\ Step
  BY DEF SetRequest, Live
<1>2. /\ ctx'[c] = [ctx[c] EXCEPT !.cached = Nil, !.req = r] /\ \A d \in Ctxs \ {c} : ctx'[d] = ctx[d]
      /\ ctx' \in [Ctxs -> ContextRecord]
  <2>1. ctx \in [Ctxs -> ContextRecord]
    BY DEF TypeOK, ContextRecord
  <2>2. ctx' = [ctx EXCEPT ![c] = [ctx[c] EXCEPT !.cached = Nil, !.req = r]]
    BY <1>1, <2>1 DEF ContextRecord
  <2>3. [ctx[c] EXCEPT !.cached = Nil, !.req = r] \in ContextRecord
    BY <2>1, RequestIsSet
  <2> QED BY <2>1, <2>2, <2>3
<1>3. /\ \A d \in Ctxs : /\ ctx'[d].tree = ctx[d].tree /\ ctx'[d].w = ctx[d].w
                           /\ ctx'[d].route = ctx[d].route /\ ctx'[d].scope = ctx[d].scope
                           /\ ctx'[d].cell = ctx[d].cell
      /\ ctx'[c].cached = Nil /\ ctx'[c].req = r /\ r # Nil
  <2>1. ctx[c] \in ContextRecord
    BY DEF TypeOK, ContextRecord
  <2> DEFINE old == ctx[c]
             new == [old EXCEPT !.cached = Nil, !.req = r]
  <2>2. ctx'[c] = new /\ \A d \in Ctxs \ {c} : ctx'[d] = ctx[d]
    BY <1>2
  <2> HIDE DEF old
  <2>3. /\ new.cached = Nil /\ new.req = r /\ new.tree = old.tree /\ new.w = old.w
        /\ new.route = old.route /\ new.scope = old.scope /\ new.cell = old.cell
    BY <2>1, RequestIsSet DEF old
  <2> HIDE DEF new
  <2> QED BY <2>2, <2>3, NilAssumption DEF old
<1>4. /\ owed[c] \in OwedRecord /\ owed' \in [Ctxs -> OwedRecord \cup {Nil}]
      /\ owed'[c] = [owed[c] EXCEPT !.req = r] /\ owed'[c] \in OwedRecord
      /\ \A d \in Ctxs \ {c} : owed'[d] = owed[d]
  BY <1>1 DEF RestTyped, OwedRecord
<1>5. /\ owed'[c].req = r
      /\ \A d \in Ctxs : Live(d) => /\ owed'[d].resp = owed[d].resp /\ owed'[d].route = owed[d].route
                                     /\ owed'[d].scope = owed[d].scope /\ owed'[d].params = owed[d].params
  BY <1>4 DEF OwedRecord
<1>6. \A d \in Ctxs : Chain(d)' = Chain(d)
  BY <1>1, <1>3 DEF Chain
<1>7. TypeOK'
  BY <1>1, <1>2, <1>3, StepsTyped DEF TypeOK, ContextRecord
<1>8. RestTyped' /\ Pooled' /\ OwnCells' /\ Homed'
  <2>1. RestTyped'
    BY <1>1, <1>4 DEF RestTyped, Live
  <2> QED BY <1>1, <1>3, <2>1 DEF Pooled, OwnCells, Homed, Live, TypeOK
<1>9. ChainsAreHeld' /\ OneResponse'
  <2>1. ChainsAreHeld'
    BY <1>1, <1>6 DEF ChainsAreHeld, Live
  <2>2. rec' = rec /\ live' = live /\ \A d \in Ctxs : ctx'[d].w = ctx[d].w
    BY <1>1, <1>3
  <2>3. OneResponse'
    BY <1>6, <2>2 DEF OneResponse, Live
  <2> QED BY <2>1, <2>3
<1>10. ContextIsMine' /\ QueriesFit' /\ WritesToOwnResponse'
  BY <1>1, <1>2, <1>3, <1>4, <1>5 DEF ContextIsMine, QueriesFit, WritesToOwnResponse, Live
<1> QED BY <1>7, <1>8, <1>9, <1>10

\* A recorder that SetWriter puts around the writer writes to the same response.
LEMMA SetWriterKeepsIInv ==
    ASSUME IInv, NEW c \in Ctxs, SetWriter(c)
    PROVE  IInv'
<1> USE DEF IInv
<1> DEFINE x == Wrap(c)
<1>1. /\ Live(c) /\ live[c] # "clone" /\ x \in Recorders /\ x # Nil
      /\ rec' = [rec EXCEPT ![x] = Around(ctx[c].w)] /\ ctx' = [ctx EXCEPT ![c].w = x]
      /\ UNCHANGED <<cur, pool, params, live, served, owed>> /\ Step
  BY RecorderNames DEF SetWriter, Live
<1>2. \A d \in Ctxs : Live(d) => x \notin Chain(d)
  BY DEF SetWriter, Live, Chain
<1>3. \A d \in Ctxs : d # c => Own(d) # x /\ Wrap(d) # x
  BY RecorderNames
<1> HIDE DEF x
<1>4. /\ ctx'[c] = [ctx[c] EXCEPT !.w = x] /\ \A d \in Ctxs \ {c} : ctx'[d] = ctx[d]
      /\ ctx' \in [Ctxs -> ContextRecord]
  BY <1>1 DEF TypeOK, ContextRecord
<1>5. /\ \A d \in Ctxs : /\ ctx'[d].tree = ctx[d].tree /\ ctx'[d].req = ctx[d].req
                           /\ ctx'[d].cached = ctx[d].cached /\ ctx'[d].route = ctx[d].route
                           /\ ctx'[d].scope = ctx[d].scope /\ ctx'[d].cell = ctx[d].cell
      /\ ctx'[c].w = x
  BY <1>4 DEF TypeOK
<1>6. Chain(c) \subseteq Recorders /\ rec[ctx[c].w] \in RecorderRecord
  BY <1>1, ChainTyped
<1>7. /\ Around(ctx[c].w) \in RecorderRecord /\ Around(ctx[c].w).under = Chain(c)
      /\ Around(ctx[c].w).resp = rec[ctx[c].w].resp
  BY <1>6 DEF Around, Recorder, Chain, RecorderRecord
<1>8. /\ rec' \in [Recorders -> RecorderRecord] /\ rec'[x] = Around(ctx[c].w)
      /\ \A y \in Recorders \ {x} : rec'[y] = rec[y]
  BY <1>1, <1>7 DEF RestTyped
<1>9. Chain(c)' = {x} \cup Chain(c)
  BY <1>5, <1>7, <1>8 DEF Chain
<1>10. \A d \in Ctxs \ {c} : Live(d) => /\ Chain(d)' = Chain(d) /\ ctx[d].w \in Chain(d)
                                         /\ \A y \in Chain(d) : rec'[y] = rec[y]
  BY <1>2, <1>4, <1>8, ChainTyped DEF Chain
<1>11. TypeOK'
  BY <1>1, <1>4, <1>5, StepsTyped DEF TypeOK, ContextRecord
<1>12. RestTyped' /\ Pooled' /\ OwnCells' /\ Homed'
  BY <1>1, <1>5, <1>8 DEF RestTyped, Pooled, OwnCells, Homed, Live, TypeOK
<1>13. ChainsAreHeld'
  BY <1>1, <1>3, <1>9, <1>10 DEF ChainsAreHeld, Live
<1>14. OneResponse'
  <2>1. \A y \in Chain(c)' : rec'[y].resp = rec'[ctx'[c].w].resp
    BY <1>1, <1>2, <1>5, <1>6, <1>7, <1>8, <1>9 DEF OneResponse
  <2>2. \A d \in Ctxs \ {c} : Live(d) => \A y \in Chain(d)' : rec'[y].resp = rec'[ctx'[d].w].resp
    BY <1>4, <1>10 DEF OneResponse
  <2> QED BY <1>1, <2>1, <2>2 DEF OneResponse, Live
<1>15. ContextIsMine' /\ QueriesFit'
  BY <1>1, <1>5 DEF ContextIsMine, QueriesFit
<1>16. WritesToOwnResponse'
  <2>1. rec'[ctx'[c].w].resp = rec[ctx[c].w].resp
    BY <1>5, <1>7, <1>8
  <2>2. \A d \in Ctxs \ {c} : Live(d) => rec'[ctx'[d].w] = rec[ctx[d].w]
    BY <1>4, <1>10
  <2> QED BY <1>1, <2>1, <2>2 DEF WritesToOwnResponse, Live
<1> QED BY <1>11, <1>12, <1>13, <1>14, <1>15, <1>16

\* A write marks the recorders of the chain, none of which is that of a clone.
LEMMA WriteKeepsIInv ==
    ASSUME IInv, NEW c \in Ctxs, Write(c)
    PROVE  IInv'
<1> USE DEF IInv
<1>1. /\ Live(c) /\ rec[ctx[c].w].resp # Nil
      /\ rec' = [x \in Recorders |-> IF x \in Chain(c) THEN [rec[x] EXCEPT !.status = "written"] ELSE rec[x]]
      /\ UNCHANGED <<cur, pool, ctx, params, live, served, owed>> /\ Step
  BY DEF Write, Live, Chain
<1>2. /\ rec' \in [Recorders -> RecorderRecord]
      /\ \A x \in Recorders : /\ rec'[x].resp = rec[x].resp /\ rec'[x].under = rec[x].under
                               /\ x \notin Chain(c) => rec'[x] = rec[x]
  BY <1>1 DEF RestTyped, RecorderRecord
<1>3. \A d \in Ctxs : Live(d) => ctx[d].w \in Recorders /\ Chain(d) \subseteq Recorders
  BY ChainTyped
<1>4. \A d \in Ctxs : Live(d) => Chain(d)' = Chain(d)
  BY <1>1, <1>2, <1>3 DEF Chain
<1>5. TypeOK'
  BY <1>1, StepsTyped DEF TypeOK
<1>6. RestTyped' /\ Pooled' /\ OwnCells' /\ Homed'
  BY <1>1, <1>2 DEF RestTyped, Pooled, OwnCells, Homed, Live
<1>7. ChainsAreHeld' /\ OneResponse'
  BY <1>1, <1>2, <1>3, <1>4 DEF ChainsAreHeld, OneResponse, Live
<1>8. ContextIsMine' /\ QueriesFit'
  BY <1>1 DEF ContextIsMine, QueriesFit
<1>9. WritesToOwnResponse'
  <2>1. \A d \in Ctxs : live[d] = "clone" => ctx[d].w \notin Chain(c)
    BY <1>1 DEF WritesToOwnResponse, OneResponse, Live
  <2> QED BY <1>1, <1>2, <1>3, <2>1 DEF WritesToOwnResponse, Live
<1> QED BY <1>5, <1>6, <1>7, <1>8, <1>9

\* Closing a clone pools nothing, since it has no tree.
LEMMA CloseCloneKeepsIInv ==
    ASSUME IInv, NEW c \in Ctxs, CloseClone(c)
    PROVE  IInv'
<1> USE DEF IInv
<1>1. UNCHANGED vars
  BY DEF CloseClone, Homed, Live, vars
<1>2. TypeOK' /\ RestTyped' /\ Pooled' /\ OwnCells' /\ Homed'
  BY <1>1 DEF TypeOK, RestTyped, Pooled, OwnCells, Homed, Live, vars
<1>3. ChainsAreHeld' /\ OneResponse'
  BY <1>1 DEF ChainsAreHeld, OneResponse, Chain, Live, vars
<1>4. ContextIsMine' /\ QueriesFit' /\ WritesToOwnResponse'
  BY <1>1 DEF ContextIsMine, QueriesFit, WritesToOwnResponse, vars
<1> QED BY <1>2, <1>3, <1>4

-----------------------------------------------------------------------------
(* The theorems *)

\* A router starts with empty pools and contexts that were never used.
LEMMA InitIInv == Init => IInv
<1> SUFFICES ASSUME Init PROVE IInv
  OBVIOUS
<1> USE DEF Init
<1>1. /\ \A c \in Ctxs : ctx[c] = Blank(Nil, c) /\ ~Live(c)
      /\ \A c \in Ctxs : Blank(Nil, c) \in ContextRecord /\ Blank(Nil, c).cell = c
  BY DEF Live, Blank, ContextRecord
<1>2. TypeOK
  <2>1. ctx \in [Ctxs -> ContextRecord] /\ cur \in Trees
    BY <1>1, BoundsAssumption DEF Trees
  <2> QED BY <1>1, <2>1, BoundsAssumption DEF TypeOK, ContextRecord, Live
<1>3. RestTyped
  BY <1>1 DEF RestTyped, RecorderRecord, Unwritten, Recorder
<1>4. Pooled /\ OwnCells /\ Homed /\ ChainsAreHeld /\ OneResponse
  BY <1>1 DEF Pooled, OwnCells, Homed, ChainsAreHeld, OneResponse
<1>5. ContextIsMine /\ QueriesFit /\ WritesToOwnResponse
  BY <1>1 DEF ContextIsMine, QueriesFit, WritesToOwnResponse, Live
<1> QED BY <1>2, <1>3, <1>4, <1>5 DEF IInv

\* No step of a request, of a holder or of the router breaks the invariant.
LEMMA NextKeepsIInv == IInv /\ [Next]_vars => IInv'
<1> SUFFICES ASSUME IInv, [Next]_vars PROVE IInv'
  OBVIOUS
<1>1. CASE UNCHANGED vars
  <2> USE <1>1 DEF IInv, vars
  <2>1. TypeOK' /\ RestTyped' /\ Pooled' /\ OwnCells' /\ Homed'
    BY DEF TypeOK, RestTyped, Pooled, OwnCells, Homed, Live
  <2>2. ChainsAreHeld' /\ OneResponse'
    BY DEF ChainsAreHeld, OneResponse, Chain, Live
  <2>3. ContextIsMine' /\ QueriesFit' /\ WritesToOwnResponse'
    BY DEF ContextIsMine, QueriesFit, WritesToOwnResponse
  <2> QED BY <2>1, <2>2, <2>3
<1>2. CASE Publish
  BY <1>2, PublishKeepsIInv
<1>3. ASSUME NEW t \in 0 .. cur, NEW r \in Reqs, NEW c \in Ctxs,
             \/ \E route \in Routes \cup {Nil} : ServeHTTP(t, r, c, route)
             \/ Match(t, r, c)
             \/ \E route \in Routes : Lookup(t, r, c, route)
             \/ LookupMiss(t, r, c)
      PROVE  IInv'
  <2>1. t \in Trees
    BY BoundsAssumption DEF IInv, TypeOK, Trees
  <2> QED BY <1>3, <2>1, ServeHTTPKeepsIInv, MatchKeepsIInv, LookupKeepsIInv, LookupMissKeepsIInv
<1>4. ASSUME NEW r \in Reqs, NEW c \in Ctxs,
             \/ SetRequest(c, r)
             \/ \E d \in Ctxs, wrap \in BOOLEAN : CloneWith(c, d, r, wrap)
      PROVE  IInv'
  BY <1>4, SetRequestKeepsIInv, CloneWithKeepsIInv
<1>5. ASSUME NEW c \in Ctxs,
             \/ QueryParams(c) \/ SetWriter(c) \/ Write(c)
             \/ \E d \in Ctxs : Clone(c, d)
      PROVE  IInv'
  BY <1>5, QueryParamsKeepsIInv, SetWriterKeepsIInv, WriteKeepsIInv, CloneKeepsIInv
<1>6. ASSUME NEW c \in Ctxs, Return(c) \/ Close(c)
      PROVE  IInv'
  <2>1. /\ Live(c) /\ live[c] # "clone" /\ Unshared(c) /\ Put(c)
        /\ UNCHANGED <<cur, ctx, params, rec, served>> /\ Step
    BY <1>6 DEF Return, Close, Live
  <2> QED BY <2>1, ReleaseKeepsIInv, StepsTyped DEF IInv
<1>7. ASSUME NEW c \in Ctxs, CloseClone(c)
      PROVE  IInv'
  BY <1>7, CloseCloneKeepsIInv
<1> QED BY <1>1, <1>2, <1>3, <1>4, <1>5, <1>6, <1>7 DEF Next

\* The parts of the invariant hold in every state.
LEMMA IInvHolds == Spec => []IInv
BY InitIInv, NextKeepsIInv, PTL DEF Spec

\* A context is held, or pooled once, in the pool of its own tree, and shares its
\* params slice with no other, whatever holders do.
THEOREM ContextsHaveOneOwner == Spec => []OneOwner
<1>1. IInv => OneOwner
  BY DEF IInv, OneOwner, Pooled, OwnCells
<1> QED BY <1>1, IInvHolds, PTL

\* Whoever holds a context finds its own request, route and captures in it:
\* nothing of an earlier or another user shows.
THEOREM ContextsAreMine == Spec => []ContextIsMine
<1>1. IInv => ContextIsMine
  BY DEF IInv
<1> QED BY <1>1, IInvHolds, PTL

\* Cached query parameters are never those of an earlier request.
THEOREM CachedQueriesFit == Spec => []QueriesFit
<1>1. IInv => QueriesFit
  BY DEF IInv
<1> QED BY <1>1, IInvHolds, PTL

\* However recorders are wrapped, borrowed and made anew, a write goes to the
\* response of the request the context was taken for, and a clone keeps the
\* state of the response it was made in.
THEOREM WritesReachOwnResponse == Spec => []WritesToOwnResponse
<1>1. IInv => WritesToOwnResponse
  BY DEF IInv
<1> QED BY <1>1, IInvHolds, PTL

-----------------------------------------------------------------------------
(* Client addresses: positions and induction over them *)

\* Every set of naturals that is not empty has a least element.
LEMMA LeastNatural ==
    ASSUME NEW T, T \subseteq Nat, T # {}
    PROVE  \E x \in T : \A y \in T : x <= y
<1> DEFINE R == OpToRel(<, Nat)
<1>1. IsWellFoundedOn(R, Nat)
  BY NatLessThanWellFounded, Zenon
<1>2. ASSUME NEW x \in Nat, NEW y \in Nat, ~(<<y, x>> \in R) PROVE x <= y
  BY <1>2 DEF OpToRel
<1> HIDE DEF R
<1>3. \E x \in T : \A y \in T : ~(<<y, x>> \in R)
  BY <1>1, WFMin
<1> QED BY <1>2, <1>3

\* Induction up to a bound, where all smaller numbers may be used.
LEMMA AllUpTo ==
    ASSUME NEW N \in Nat, NEW S, \A i \in 0 .. N : (\A j \in 0 .. i - 1 : j \in S) => i \in S
    PROVE  \A i \in 0 .. N : i \in S
<1> DEFINE T == {i \in 0 .. N : i \notin S}
<1> SUFFICES ASSUME T # {} PROVE FALSE
  OBVIOUS
<1>1. PICK x \in T : \A y \in T : x <= y
  <2>1. T \subseteq Nat
    OBVIOUS
  <2> HIDE DEF T
  <2> QED BY <2>1, LeastNatural
<1>2. \A j \in 0 .. x - 1 : j \in 0 .. N /\ j \notin T
  BY <1>1
<1> QED BY <1>1, <1>2

\* The least and the greatest of a set of positions.
LEMMA EndsOfPositions ==
    ASSUME NEW N \in Nat, NEW T, T \subseteq 0 .. N, T # {}
    PROVE  /\ Min(T) \in T /\ \A y \in T : Min(T) <= y
           /\ Max(T) \in T /\ \A y \in T : y <= Max(T)
<1>1. PICK x \in T : \A y \in T : x <= y
  <2>1. T \subseteq Nat
    OBVIOUS
  <2> QED BY <2>1, LeastNatural
<1>2. Min(T) \in T /\ \A y \in T : Min(T) <= y
  BY <1>1 DEF Min
<1> DEFINE D == {d \in 0 .. N : N - d \in T}
<1>3. D \subseteq Nat
  OBVIOUS
<1>4. ASSUME NEW y \in T PROVE N - y \in D /\ y \in Int
  <2>1. y \in 0 .. N
    OBVIOUS
  <2>2. N - y \in 0 .. N /\ N - (N - y) = y
    BY <2>1
  <2> QED BY <2>1, <2>2
<1>5. PICK d \in D : \A e \in D : d <= e
  <2>1. D # {}
    BY <1>4
  <2> HIDE DEF D
  <2> QED BY <1>3, <2>1, LeastNatural
<1>6. ASSUME NEW y \in T PROVE y <= N - d
  <2>1. d <= N - y /\ y \in Int /\ d \in Int
    BY <1>4, <1>5
  <2> QED BY <2>1
<1>7. N - d \in T /\ \A y \in T : N - d >= y
  <2>1. N - d \in T
    BY <1>5
  <2>2. \A y \in T : y \in Int
    OBVIOUS
  <2>3. N - d \in Int
    BY <1>5
  <2> QED BY <1>6, <2>1, <2>2, <2>3
<1>8. Max(T) \in T /\ \A y \in T : Max(T) >= y
  <2> HIDE DEF D
  <2> QED BY <1>7 DEF Max
<1>9. \A y \in T : y <= Max(T)
  <2>1. \A y \in T : y \in Int
    OBVIOUS
  <2> QED BY <1>8, <2>1
<1> QED BY <1>2, <1>8, <1>9

\* FirstIn and LastIn are 0 for no position.
LEMMA PositionFound ==
    ASSUME NEW N \in Nat, NEW T, T \subseteq 1 .. N
    PROVE  /\ FirstIn(T) = 0 <=> T = {}
           /\ LastIn(T) = 0 <=> T = {}
           /\ T # {} => /\ FirstIn(T) \in T /\ \A y \in T : FirstIn(T) <= y
                        /\ LastIn(T) \in T /\ \A y \in T : y <= LastIn(T)
<1>1. CASE T = {}
  BY <1>1 DEF FirstIn, LastIn
<1>2. CASE T # {}
  <2>1. T \subseteq 0 .. N
    OBVIOUS
  <2>2. /\ Min(T) \in T /\ \A y \in T : Min(T) <= y
        /\ Max(T) \in T /\ \A y \in T : y <= Max(T)
    BY <1>2, <2>1, EndsOfPositions
  <2>3. Min(T) # 0 /\ Max(T) # 0
    BY <2>2
  <2> QED BY <1>2, <2>2, <2>3 DEF FirstIn, LastIn
<1> QED BY <1>1, <1>2

\* A position is the last one if it is there and none is behind it.
LEMMA LastIsIt ==
    ASSUME NEW N \in Nat, NEW T, T \subseteq 1 .. N, NEW m \in T, \A y \in T : y <= m
    PROVE  LastIn(T) = m
<1>1. LastIn(T) \in T /\ m <= LastIn(T)
  BY PositionFound
<1>2. \A y \in T : y \in Int
  OBVIOUS
<1>3. LastIn(T) <= m
  BY <1>1
<1>4. LastIn(T) \in Int /\ m \in Int
  BY <1>1, <1>2
<1> QED BY <1>1, <1>3, <1>4

LEMMA FirstIsIt ==
    ASSUME NEW N \in Nat, NEW T, T \subseteq 1 .. N, NEW m \in T, \A y \in T : m <= y
    PROVE  FirstIn(T) = m
<1>1. FirstIn(T) \in T /\ FirstIn(T) <= m
  BY PositionFound
<1>2. \A y \in T : y \in Int
  OBVIOUS
<1>3. m <= FirstIn(T)
  BY <1>1
<1>4. FirstIn(T) \in Int /\ m \in Int
  BY <1>1, <1>2
<1> QED BY <1>1, <1>3, <1>4

-----------------------------------------------------------------------------
(* An item behind others *)

Chars == STRING \cup {Comma, Space}
Texts == Seq(Chars)

\* What a proxy makes of the text p and its own item t.
Joined(p, t) == p \o <<Comma, Space>> \o t

LEMMA JoinedParts ==
    ASSUME NEW p \in Texts, NEW t \in Texts
    PROVE  /\ Joined(p, t) \in Texts
           /\ Len(Joined(p, t)) = Len(p) + 2 + Len(t)
           /\ \A i \in 1 .. Len(p) : Joined(p, t)[i] = p[i]
           /\ Joined(p, t)[Len(p) + 1] = Comma
           /\ Joined(p, t)[Len(p) + 2] = Space
           /\ \A j \in 1 .. Len(t) : Joined(p, t)[Len(p) + 2 + j] = t[j]
<1>1. <<Comma, Space>> \in Texts /\ Len(<<Comma, Space>>) = 2
      /\ <<Comma, Space>>[1] = Comma /\ <<Comma, Space>>[2] = Space
  BY DEF Texts, Chars
<1> DEFINE c == <<Comma, Space>>
           pc == p \o c
<1> HIDE DEF c
<1>2. /\ pc \in Texts /\ Len(pc) = Len(p) + 2
      /\ \A i \in 1 .. Len(p) : pc[i] = p[i]
      /\ pc[Len(p) + 1] = Comma /\ pc[Len(p) + 2] = Space
  <2>1. c \in Seq(Chars) /\ Len(c) = 2 /\ c[1] = Comma /\ c[2] = Space
    BY <1>1 DEF c, Texts
  <2>2. p \in Seq(Chars) /\ Len(p) \in Nat
    BY DEF Texts
  <2>3. /\ pc \in Seq(Chars) /\ Len(pc) = Len(p) + 2
        /\ \A i \in 1 .. Len(p) + 2 : pc[i] = IF i <= Len(p) THEN p[i] ELSE c[i - Len(p)]
    <3>1. /\ p \o c \in Seq(Chars) /\ Len(p \o c) = Len(p) + Len(c)
          /\ \A i \in 1 .. Len(p) + Len(c) : (p \o c)[i] = IF i <= Len(p) THEN p[i] ELSE c[i - Len(p)]
      BY <2>1, <2>2, ConcatProperties
    <3> QED BY <2>1, <3>1
  <2>4. pc[Len(p) + 1] = c[1] /\ pc[Len(p) + 2] = c[2]
    <3>1. Len(p) + 1 \in 1 .. Len(p) + 2 /\ ~(Len(p) + 1 <= Len(p)) /\ Len(p) + 1 - Len(p) = 1
      BY <2>2
    <3>2. Len(p) + 2 \in 1 .. Len(p) + 2 /\ ~(Len(p) + 2 <= Len(p)) /\ Len(p) + 2 - Len(p) = 2
      BY <2>2
    <3> HIDE DEF pc
    <3> QED BY <2>3, <3>1, <3>2
  <2> HIDE DEF pc
  <2> QED BY <2>1, <2>2, <2>3, <2>4 DEF Texts
<1>3. Joined(p, t) = pc \o t
  BY DEF Joined, c
<1> HIDE DEF pc
<1>4. pc \in Seq(Chars) /\ t \in Seq(Chars) /\ Len(p) \in Nat /\ Len(t) \in Nat
  BY <1>2 DEF Texts
<1>5. /\ pc \o t \in Seq(Chars) /\ Len(pc \o t) = Len(pc) + Len(t)
      /\ \A i \in 1 .. Len(pc) + Len(t) : (pc \o t)[i] = IF i <= Len(pc) THEN pc[i] ELSE t[i - Len(pc)]
  BY <1>4, ConcatProperties
<1>6. ASSUME NEW j \in 1 .. Len(t) PROVE (pc \o t)[Len(p) + 2 + j] = t[j]
  <2>1. Len(p) + 2 + j \in 1 .. Len(pc) + Len(t) /\ ~(Len(p) + 2 + j <= Len(pc))
        /\ Len(p) + 2 + j - Len(pc) = j
    BY <1>2, <1>4
  <2> QED BY <1>5, <2>1
<1>7. \A i \in 1 .. Len(p) + 2 : (pc \o t)[i] = pc[i]
  BY <1>2, <1>4, <1>5
<1>8. Len(p) + 1 \in 1 .. Len(p) + 2 /\ Len(p) + 2 \in 1 .. Len(p) + 2
      /\ \A i \in 1 .. Len(p) : i \in 1 .. Len(p) + 2
  BY <1>4
<1> QED BY <1>2, <1>3, <1>4, <1>5, <1>6, <1>7, <1>8 DEF Texts

LEMMA TextFacts ==
    ASSUME NEW t \in Texts
    PROVE  Len(t) \in Nat /\ DOMAIN t = 1 .. Len(t) /\ t \in Seq(Chars)
BY DEF Texts

\* The part of a text and what is in it.
LEMMA PartOfText ==
    ASSUME NEW t \in Texts, NEW a \in 1 .. Len(t) + 1, NEW b \in 0 .. Len(t), a <= b + 1
    PROVE  /\ SubSeq(t, a, b) \in Texts
           /\ Len(SubSeq(t, a, b)) = b - a + 1
           /\ \A i \in 1 .. b - a + 1 : SubSeq(t, a, b)[i] = t[a + i - 1]
<1>1. Len(t) \in Nat /\ t \in Seq(Chars)
  BY DEF Texts
<1>2. CASE a <= b
  <2>1. \A i \in a .. b : i \in 1 .. Len(t)
    BY <1>1
  <2>2. /\ SubSeq(t, a, b) \in Seq(Chars)
        /\ Len(SubSeq(t, a, b)) = IF a <= b THEN b - a + 1 ELSE 0
        /\ \A i \in 1 .. b - a + 1 : SubSeq(t, a, b)[i] = t[a + i - 1]
    BY <1>1, <2>1, SubSeqProperties
  <2> QED BY <1>2, <2>2 DEF Texts
<1>3. CASE ~(a <= b)
  <2>1. a > b /\ b - a + 1 = 0
    BY <1>1, <1>3
  <2>2. SubSeq(t, a, b) = <<>>
    BY <1>1, <2>1, SubSeqEmpty
  <2> QED BY <2>1, <2>2 DEF Texts
<1> QED BY <1>2, <1>3

\* Texts with the same characters are the same.
LEMMA SameText ==
    ASSUME NEW s \in Texts, NEW t \in Texts, Len(s) = Len(t), \A i \in 1 .. Len(s) : s[i] = t[i]
    PROVE  s = t
BY SeqEqual DEF Texts

LEMMA JoinedCut ==
    ASSUME NEW p \in Texts, NEW t \in Texts
    PROVE  /\ SubSeq(Joined(p, t), 1, Len(p)) = p
           /\ SubSeq(Joined(p, t), Len(p) + 2, Len(Joined(p, t))) = <<Space>> \o t
<1> DEFINE v == Joined(p, t)
<1>1. /\ v \in Texts /\ Len(v) = Len(p) + 2 + Len(t)
      /\ \A i \in 1 .. Len(p) : v[i] = p[i]
      /\ v[Len(p) + 2] = Space
      /\ \A j \in 1 .. Len(t) : v[Len(p) + 2 + j] = t[j]
  BY JoinedParts
<1>2. Len(p) \in Nat /\ Len(t) \in Nat
  BY TextFacts
<1> HIDE DEF v
<1>3. SubSeq(v, 1, Len(p)) = p
  <2> DEFINE u == SubSeq(v, 1, Len(p))
  <2>1. 1 \in 1 .. Len(v) + 1 /\ Len(p) \in 0 .. Len(v) /\ 1 <= Len(p) + 1 /\ Len(p) - 1 + 1 = Len(p)
    BY <1>1, <1>2
  <2>2. u \in Texts /\ Len(u) = Len(p) /\ \A i \in 1 .. Len(p) : u[i] = v[1 + i - 1]
    BY <1>1, <2>1, PartOfText
  <2>3. \A i \in 1 .. Len(p) : u[i] = p[i]
    BY <1>1, <1>2, <2>2
  <2> HIDE DEF u
  <2>4. u = p
    BY <2>2, <2>3, SameText
  <2> QED BY <2>4 DEF u
<1>4. SubSeq(v, Len(p) + 2, Len(v)) = <<Space>> \o t
  <2> DEFINE u == SubSeq(v, Len(p) + 2, Len(v))
             w == <<Space>> \o t
  <2>1. Len(p) + 2 \in 1 .. Len(v) + 1 /\ Len(v) \in 0 .. Len(v) /\ Len(p) + 2 <= Len(v) + 1
        /\ Len(v) - (Len(p) + 2) + 1 = Len(t) + 1
    BY <1>1, <1>2
  <2>2. u \in Texts /\ Len(u) = Len(t) + 1 /\ \A i \in 1 .. Len(t) + 1 : u[i] = v[Len(p) + 2 + i - 1]
    BY <1>1, <2>1, PartOfText
  <2>3. <<Space>> \in Seq(Chars) /\ Len(<<Space>>) = 1 /\ <<Space>>[1] = Space
    BY DEF Chars
  <2>4. /\ w \in Seq(Chars) /\ Len(w) = Len(<<Space>>) + Len(t)
        /\ \A i \in 1 .. Len(<<Space>>) + Len(t) : w[i] = IF i <= Len(<<Space>>) THEN <<Space>>[i] ELSE t[i - Len(<<Space>>)]
    BY <2>3, ConcatProperties, TextFacts
  <2>5. w \in Texts /\ Len(w) = 1 + Len(t) /\ \A i \in 1 .. 1 + Len(t) : w[i] = IF i = 1 THEN Space ELSE t[i - 1]
    <3> HIDE DEF w
    <3> QED BY <1>2, <2>3, <2>4 DEF Texts
  <2> HIDE DEF u, w
  <2>6. ASSUME NEW i \in 1 .. 1 + Len(t) PROVE u[i] = w[i]
    <3>1. CASE i = 1
      BY <1>1, <1>2, <2>2, <2>5, <3>1
    <3>2. CASE i # 1
      <4>1. i - 1 \in 1 .. Len(t) /\ Len(p) + 2 + i - 1 = Len(p) + 2 + (i - 1)
        BY <1>2, <3>2
      <4>2. v[Len(p) + 2 + (i - 1)] = t[i - 1]
        BY <1>1, <4>1
      <4>3. u[i] = v[Len(p) + 2 + i - 1]
        BY <1>2, <2>2
      <4> QED BY <2>5, <3>2, <4>1, <4>2, <4>3
    <3> QED BY <3>1, <3>2
  <2>7. u = w
    BY <1>2, <2>2, <2>5, <2>6, SameText
  <2> QED BY <2>7 DEF u, w
<1> QED BY <1>3, <1>4 DEF v

-----------------------------------------------------------------------------
(* Quoted strings, read backwards *)

\* InQuotes follows from one character to the next.
LEMMA QuotesSteps ==
    ASSUME NEW s \in Texts
    PROVE  /\ InQuotes(s)[0] = FALSE
           /\ \A n \in 1 .. Len(s) : InQuotes(s)[n] = NextQuoted(s, Len(s) + 1 - n, InQuotes(s)[n - 1])
<1> DEFINE Value(n, g) == IF n = 0 THEN FALSE ELSE NextQuoted(s, Len(s) + 1 - n, g[n - 1])
           Fits(g, m) == g = [n \in 0 .. m |-> Value(n, g)]
           Part(m) == \E g : Fits(g, m)
           S == {m \in 0 .. Len(s) : Part(m)}
<1>1. Len(s) \in Nat
  BY TextFacts
<1>2. ASSUME NEW m \in 0 .. Len(s), \A j \in 0 .. m - 1 : j \in S PROVE m \in S
  <2>1. PICK g : m = 0 \/ Fits(g, m - 1)
    <3>1. CASE m = 0
      BY <3>1
    <3>2. CASE m # 0
      <4>1. m - 1 \in 0 .. m - 1
        BY <3>2
      <4>2. m - 1 \in S
        BY <1>2, <4>1
      <4> QED BY <4>2
    <3> QED BY <3>1, <3>2
  <2> DEFINE h == [n \in 0 .. m |-> IF n < m THEN g[n] ELSE Value(m, g)]
  <2>2. ASSUME NEW n \in 0 .. m PROVE h[n] = Value(n, h)
    <3>1. CASE n = m
      <4>1. h[n] = Value(m, g)
        <5> HIDE DEF Value
        <5> QED BY <1>1, <3>1
      <4>2. CASE m = 0
        BY <3>1, <4>1, <4>2
      <4>3. CASE m # 0
        <5>1. h[m - 1] = g[m - 1]
          BY <4>3
        <5> HIDE DEF h
        <5> QED BY <3>1, <4>1, <5>1
      <4> QED BY <4>2, <4>3
    <3>2. CASE n # m
      <4>1. n \in 0 .. m - 1 /\ n < m /\ m # 0
        BY <3>2
      <4>2. h[n] = g[n]
        BY <4>1
      <4>3. g[n] = Value(n, g)
        <5> HIDE DEF Value
        <5> QED BY <2>1, <4>1
      <4>4. n # 0 => h[n - 1] = g[n - 1]
        BY <4>1
      <4> HIDE DEF h
      <4> QED BY <4>2, <4>3, <4>4
    <3> QED BY <3>1, <3>2
  <2>3. h = [n \in 0 .. m |-> h[n]]
    OBVIOUS
  <2> HIDE DEF h, Value
  <2>4. Fits(h, m)
    BY <2>2, <2>3
  <2> HIDE DEF Fits
  <2> QED BY <2>4
<1>3. Part(Len(s))
  <2>1. \A m \in 0 .. Len(s) : m \in S
    <3> HIDE DEF S
    <3> QED BY <1>1, <1>2, AllUpTo
  <2> HIDE DEF Part
  <2> QED BY <1>1, <2>1
<1>4. InQuotes(s) = CHOOSE g : Fits(g, Len(s))
  BY DEF InQuotes
<1>5. Fits(InQuotes(s), Len(s))
  <2> HIDE DEF Fits
  <2> QED BY <1>3, <1>4
<1> DEFINE q == InQuotes(s)
<1>6. q = [n \in 0 .. Len(s) |-> Value(n, q)]
  BY <1>5
<1> HIDE DEF q
<1>7. q[0] = FALSE
  BY <1>1, <1>6
<1>8. ASSUME NEW n \in 1 .. Len(s) PROVE q[n] = NextQuoted(s, Len(s) + 1 - n, q[n - 1])
  <2>1. n \in 0 .. Len(s) /\ n # 0
    BY <1>1
  <2>2. q[n] = Value(n, q)
    <3> HIDE DEF Value
    <3> QED BY <1>6, <2>1
  <2> QED BY <2>1, <2>2
<1> QED BY <1>7, <1>8 DEF q

\* A backslash in front of an item that was added behind a comma and a space ends there.
LEMMA EscapedBehind ==
    ASSUME NEW p \in Texts, NEW t \in Texts, NEW j \in 1 .. Len(t)
    PROVE  IsEscaped(Joined(p, t), Len(p) + 2 + j) = IsEscaped(t, j)
<1> DEFINE v == Joined(p, t)
           i == Len(p) + 2 + j
           V == {n \in 0 .. i - 1 : \A k \in i - n .. i - 1 : v[k] = Escape}
           T == {n \in 0 .. j - 1 : \A k \in j - n .. j - 1 : t[k] = Escape}
<1>1. /\ v[Len(p) + 2] = Space
      /\ \A k \in 1 .. Len(t) : v[Len(p) + 2 + k] = t[k]
  BY JoinedParts
<1>2. Len(p) \in Nat /\ Len(t) \in Nat /\ j \in Int
  BY TextFacts
<1>3. Space # Escape
  BY DEF Space, Escape
<1> HIDE DEF v
<1>4. ASSUME NEW n \in V PROVE n \in T
  <2>1. n \in 0 .. i - 1 /\ \A k \in i - n .. i - 1 : v[k] = Escape
    OBVIOUS
  <2>2. n < j
    <3> SUFFICES ASSUME ~(n < j) PROVE FALSE
      OBVIOUS
    <3>1. Len(p) + 2 \in i - n .. i - 1
      BY <1>2, <2>1
    <3> QED BY <1>1, <1>3, <2>1, <3>1
  <2>3. ASSUME NEW k \in j - n .. j - 1 PROVE t[k] = Escape
    <3>1. Len(p) + 2 + k \in i - n .. i - 1 /\ k \in 1 .. Len(t)
      BY <1>2, <2>1, <2>2
    <3> QED BY <1>1, <2>1, <3>1
  <2>4. n \in 0 .. j - 1
    BY <1>2, <2>1, <2>2
  <2> QED BY <2>3, <2>4
<1>5. ASSUME NEW n \in T PROVE n \in V
  <2>1. n \in 0 .. j - 1 /\ \A k \in j - n .. j - 1 : t[k] = Escape
    OBVIOUS
  <2>2. ASSUME NEW k \in i - n .. i - 1 PROVE v[k] = Escape
    <3>1. k - (Len(p) + 2) \in j - n .. j - 1 /\ k - (Len(p) + 2) \in 1 .. Len(t)
          /\ Len(p) + 2 + (k - (Len(p) + 2)) = k
      BY <1>2, <2>1
    <3>2. v[Len(p) + 2 + (k - (Len(p) + 2))] = t[k - (Len(p) + 2)]
      BY <1>1, <3>1
    <3> QED BY <2>1, <3>1, <3>2
  <2>3. n \in 0 .. i - 1
    BY <1>2, <2>1
  <2> QED BY <2>2, <2>3
<1>6. V = T
  <2> HIDE DEF V, T
  <2> QED BY <1>4, <1>5
<1>7. IsEscaped(v, i) = (Max(V) % 2 = 1) /\ IsEscaped(t, j) = (Max(T) % 2 = 1)
  BY DEF IsEscaped
<1> HIDE DEF V, T
<1> QED BY <1>6, <1>7 DEF v

\* Reading backwards, an item that was added looks the same whatever it was added to.
LEMMA QuotesBehind ==
    ASSUME NEW p \in Texts, NEW t \in Texts
    PROVE  \A n \in 0 .. Len(t) : InQuotes(Joined(p, t))[n] = InQuotes(t)[n]
<1> DEFINE v == Joined(p, t)
           S == {n \in 0 .. Len(t) : InQuotes(v)[n] = InQuotes(t)[n]}
<1>1. /\ v \in Texts /\ Len(v) = Len(p) + 2 + Len(t)
      /\ \A k \in 1 .. Len(t) : v[Len(p) + 2 + k] = t[k]
  BY JoinedParts
<1>2. Len(p) \in Nat /\ Len(t) \in Nat
  BY TextFacts
<1>3. \A j \in 1 .. Len(t) : IsEscaped(v, Len(p) + 2 + j) = IsEscaped(t, j)
  BY EscapedBehind
<1> HIDE DEF v
<1>4. ASSUME NEW n \in 0 .. Len(t), \A j \in 0 .. n - 1 : j \in S PROVE n \in S
  <2>1. CASE n = 0
    BY <1>1, <2>1, QuotesSteps
  <2>2. CASE n # 0
    <3> DEFINE j == Len(t) + 1 - n
    <3>1. n \in 1 .. Len(t) /\ n \in 1 .. Len(v) /\ n - 1 \in 0 .. n - 1 /\ j \in 1 .. Len(t)
          /\ Len(v) + 1 - n = Len(p) + 2 + j
      BY <1>1, <1>2, <2>2
    <3>2. n - 1 \in S
      BY <1>4, <3>1
    <3>3. InQuotes(v)[n - 1] = InQuotes(t)[n - 1]
      BY <3>2
    <3>4. InQuotes(v)[n] = NextQuoted(v, Len(v) + 1 - n, InQuotes(v)[n - 1])
      BY <1>1, <3>1, QuotesSteps
    <3>5. InQuotes(t)[n] = NextQuoted(t, j, InQuotes(t)[n - 1])
      BY <3>1, QuotesSteps
    <3>6. v[Len(p) + 2 + j] = t[j] /\ IsEscaped(v, Len(p) + 2 + j) = IsEscaped(t, j)
      BY <1>1, <1>3, <3>1
    <3> HIDE DEF j
    <3>7. NextQuoted(v, Len(p) + 2 + j, InQuotes(v)[n - 1]) = NextQuoted(t, j, InQuotes(t)[n - 1])
      BY <3>3, <3>6 DEF NextQuoted
    <3> QED BY <3>1, <3>4, <3>5, <3>7
  <2> QED BY <2>1, <2>2
<1>5. \A n \in 0 .. Len(t) : n \in S
  <2> HIDE DEF S
  <2> QED BY <1>2, <1>4, AllUpTo
<1> QED BY <1>5 DEF v

\* An item without a separator of its own, and with its quoted strings closed.
OneItem(t, key, quotes) ==
    /\ t \in Texts
    /\ LastSeparator(t, key, quotes) = 0
    /\ quotes /\ key = "forwarded" => ~InQuotes(t)[Len(t)]

\* The commas that separate: LastSeparator is the last of them.
Separators(s, key, quotes) ==
    {i \in DOMAIN s : s[i] = Comma /\ (quotes /\ key = "forwarded" => ~InQuotes(s)[Len(s) - i])}

LEMMA LastOfSeparators ==
    ASSUME NEW s \in Texts, NEW key, NEW quotes \in BOOLEAN
    PROVE  /\ LastSeparator(s, key, quotes) = LastIn(Separators(s, key, quotes))
           /\ Separators(s, key, quotes) \subseteq 1 .. Len(s)
<1>1. CASE quotes /\ key = "forwarded"
  <2>1. Separators(s, key, quotes) = {i \in DOMAIN s : s[i] = Comma /\ ~InQuotes(s)[Len(s) - i]}
    BY <1>1 DEF Separators
  <2> QED BY <1>1, <2>1, TextFacts DEF LastSeparator, LastUnquoted
<1>2. CASE ~(quotes /\ key = "forwarded")
  <2>1. Separators(s, key, quotes) = {i \in DOMAIN s : s[i] = Comma}
    BY <1>2 DEF Separators
  <2> QED BY <1>2, <2>1, TextFacts DEF LastSeparator
<1> QED BY <1>1, <1>2

\* Whatever the text in front is, an open quoted string included, the last separator
\* is the comma that was added with the item.
LEMMA SeparatorBehind ==
    ASSUME NEW p \in Texts, NEW t, NEW key, NEW quotes \in BOOLEAN, OneItem(t, key, quotes)
    PROVE  LastSeparator(Joined(p, t), key, quotes) = Len(p) + 1
<1> DEFINE v == Joined(p, t)
           V == Separators(v, key, quotes)
<1>1. t \in Texts /\ LastSeparator(t, key, quotes) = 0
  BY DEF OneItem
<1>2. /\ v \in Texts /\ Len(v) = Len(p) + 2 + Len(t)
      /\ v[Len(p) + 1] = Comma /\ v[Len(p) + 2] = Space
      /\ \A k \in 1 .. Len(t) : v[Len(p) + 2 + k] = t[k]
  BY <1>1, JoinedParts
<1>3. Len(p) \in Nat /\ Len(t) \in Nat /\ DOMAIN t = 1 .. Len(t)
  BY <1>1, TextFacts
<1>4. \A n \in 0 .. Len(t) : InQuotes(v)[n] = InQuotes(t)[n]
  BY <1>1, QuotesBehind
<1>5. Separators(t, key, quotes) = {}
  <2>1. LastSeparator(t, key, quotes) = LastIn(Separators(t, key, quotes))
        /\ Separators(t, key, quotes) \subseteq 1 .. Len(t)
    BY <1>1, LastOfSeparators
  <2> QED BY <1>1, <1>3, <2>1, PositionFound
<1>6. DOMAIN v = 1 .. Len(v)
  BY <1>2, TextFacts
<1>7. Space # Comma /\ Space # Quote
  BY DEF Space, Comma, Quote
<1>8. quotes /\ key = "forwarded" => ~InQuotes(v)[Len(t) + 1]
  <2> SUFFICES ASSUME quotes /\ key = "forwarded" PROVE ~InQuotes(v)[Len(t) + 1]
    OBVIOUS
  <2>1. ~InQuotes(v)[Len(t)]
    <3>1. Len(t) \in 0 .. Len(t)
      BY <1>3
    <3>2. InQuotes(v)[Len(t)] = InQuotes(t)[Len(t)]
      BY <1>4, <3>1
    <3> QED BY <3>2 DEF OneItem
  <2>2. Len(t) + 1 \in 1 .. Len(v) /\ Len(v) + 1 - (Len(t) + 1) = Len(p) + 2 /\ Len(t) + 1 - 1 = Len(t)
    BY <1>2, <1>3
  <2> HIDE DEF v
  <2>3. \A n \in 1 .. Len(v) : InQuotes(v)[n] = NextQuoted(v, Len(v) + 1 - n, InQuotes(v)[n - 1])
    BY <1>2, QuotesSteps
  <2>4. NextQuoted(v, Len(p) + 2, InQuotes(v)[Len(t)]) = InQuotes(v)[Len(t)]
    BY <1>2, <1>7 DEF NextQuoted
  <2>5. InQuotes(v)[Len(t) + 1] = InQuotes(v)[Len(t)]
    BY <2>2, <2>3, <2>4
  <2> QED BY <2>1, <2>5
<1> HIDE DEF v
<1>9. Len(p) + 1 \in V
  <2>1. Len(p) + 1 \in DOMAIN v /\ Len(v) - (Len(p) + 1) = Len(t) + 1
    BY <1>2, <1>3, <1>6
  <2> QED BY <1>2, <1>8, <2>1 DEF Separators
<1>10. ASSUME NEW i \in V PROVE i <= Len(p) + 1
  <2> SUFFICES ASSUME ~(i <= Len(p) + 1) PROVE FALSE
    OBVIOUS
  <2>1. i \in 1 .. Len(v) /\ v[i] = Comma
    BY <1>6 DEF Separators
  <2>2. i # Len(p) + 2
    BY <1>2, <1>7, <2>1
  <2> DEFINE j == i - (Len(p) + 2)
  <2>3. j \in 1 .. Len(t) /\ i = Len(p) + 2 + j /\ Len(v) - i = Len(t) - j /\ Len(t) - j \in 0 .. Len(t)
    BY <1>2, <1>3, <2>1, <2>2
  <2>4. t[j] = Comma /\ InQuotes(v)[Len(v) - i] = InQuotes(t)[Len(t) - j]
    BY <1>2, <1>4, <2>1, <2>3
  <2> HIDE DEF j
  <2>5. j \in Separators(t, key, quotes)
    BY <1>3, <2>3, <2>4 DEF Separators
  <2> QED BY <1>5, <2>5
<1>11. Len(v) \in Nat /\ V \subseteq 1 .. Len(v) /\ LastSeparator(v, key, quotes) = LastIn(V)
  BY <1>2, <1>3, LastOfSeparators
<1> HIDE DEF V
<1>12. LastIn(V) = Len(p) + 1
  BY <1>9, <1>10, <1>11, LastIsIt
<1> QED BY <1>11, <1>12 DEF v

-----------------------------------------------------------------------------
(* The items of a value *)

LEMMA SpaceInFront ==
    ASSUME NEW t \in Texts
    PROVE  /\ <<Space>> \o t \in Texts /\ Len(<<Space>> \o t) = Len(t) + 1
           /\ (<<Space>> \o t)[1] = Space
           /\ \A i \in 1 .. Len(t) : (<<Space>> \o t)[i + 1] = t[i]
<1> DEFINE w == <<Space>> \o t
<1>1. <<Space>> \in Seq(Chars) /\ Len(<<Space>>) = 1 /\ <<Space>>[1] = Space
  BY DEF Chars
<1>2. Len(t) \in Nat /\ t \in Seq(Chars)
  BY TextFacts
<1>3. /\ w \in Seq(Chars) /\ Len(w) = Len(<<Space>>) + Len(t)
      /\ \A i \in 1 .. Len(<<Space>>) + Len(t) : w[i] = IF i <= Len(<<Space>>) THEN <<Space>>[i] ELSE t[i - Len(<<Space>>)]
  BY <1>1, <1>2, ConcatProperties
<1> HIDE DEF w
<1>4. w \in Texts /\ Len(w) = 1 + Len(t) /\ \A i \in 1 .. 1 + Len(t) : w[i] = IF i = 1 THEN Space ELSE t[i - 1]
  BY <1>1, <1>2, <1>3 DEF Texts
<1>5. w[1] = Space
  BY <1>2, <1>4
<1>6. ASSUME NEW i \in 1 .. Len(t) PROVE w[i + 1] = t[i]
  <2>1. i + 1 \in 1 .. 1 + Len(t) /\ i + 1 # 1 /\ i + 1 - 1 = i
    BY <1>2
  <2> QED BY <1>4, <2>1
<1>7. Len(w) = Len(t) + 1
  BY <1>2, <1>4
<1> QED BY <1>4, <1>5, <1>6, <1>7 DEF w

\* The space a proxy adds makes no difference.
LEMMA TrimmedSpace ==
    ASSUME NEW t \in Texts
    PROVE  TrimSpace(<<Space>> \o t) = TrimSpace(t)
<1> DEFINE w == <<Space>> \o t
           W == {i \in DOMAIN w : w[i] # Space}
           T == {i \in DOMAIN t : t[i] # Space}
<1>1. /\ w \in Texts /\ Len(w) = Len(t) + 1 /\ w[1] = Space
      /\ \A i \in 1 .. Len(t) : w[i + 1] = t[i]
  BY SpaceInFront
<1>2. Len(t) \in Nat /\ DOMAIN t = 1 .. Len(t)
  BY TextFacts
<1>3. DOMAIN w = 1 .. Len(w)
  BY <1>1, TextFacts
<1>4. TrimSpace(w) = IF W = {} THEN <<>> ELSE SubSeq(w, Min(W), Max(W))
  BY DEF TrimSpace
<1>5. TrimSpace(t) = IF T = {} THEN <<>> ELSE SubSeq(t, Min(T), Max(T))
  BY DEF TrimSpace
<1> HIDE DEF w
<1>6. ASSUME NEW i \in T PROVE i + 1 \in W /\ i \in 1 .. Len(t)
  <2>1. i \in 1 .. Len(t) /\ t[i] # Space
    BY <1>2
  <2>2. i + 1 \in 1 .. Len(w) /\ w[i + 1] = t[i]
    BY <1>1, <1>2, <2>1
  <2> QED BY <1>3, <2>1, <2>2
<1>7. ASSUME NEW i \in W PROVE i - 1 \in T /\ i \in 1 .. Len(w)
  <2>1. i \in 1 .. Len(w) /\ w[i] # Space /\ i # 1
    BY <1>1, <1>3
  <2>2. i - 1 \in 1 .. Len(t) /\ (i - 1) + 1 = i
    BY <1>1, <1>2, <2>1
  <2>3. w[(i - 1) + 1] = t[i - 1]
    BY <1>1, <2>2
  <2> QED BY <1>2, <2>1, <2>2, <2>3
<1> HIDE DEF W, T
<1>8. CASE T = {}
  <2>1. W = {}
    BY <1>7, <1>8
  <2> QED BY <1>4, <1>5, <1>8, <2>1 DEF w
<1>9. CASE T # {}
  <2> DEFINE a == Min(T)
             b == Max(T)
             c == Min(W)
             d == Max(W)
  <2>1. W # {} /\ T \subseteq 0 .. Len(w) /\ W \subseteq 0 .. Len(w) /\ Len(w) \in Nat
    BY <1>1, <1>2, <1>6, <1>7, <1>9
  <2>2. /\ a \in T /\ \A y \in T : a <= y
        /\ b \in T /\ \A y \in T : y <= b
    BY <1>9, <2>1, EndsOfPositions
  <2>3. /\ c \in W /\ \A y \in W : c <= y
        /\ d \in W /\ \A y \in W : y <= d
    BY <2>1, EndsOfPositions
  <2> HIDE DEF a, b, c, d
  <2>4. /\ a \in 1 .. Len(t) /\ b \in 1 .. Len(t) /\ c \in 1 .. Len(w) /\ d \in 1 .. Len(w)
        /\ c <= a + 1 /\ a <= c - 1 /\ b + 1 <= d /\ d - 1 <= b /\ a <= b
    BY <1>6, <1>7, <2>2, <2>3
  <2>5. c = a + 1 /\ d = b + 1
    BY <1>1, <1>2, <2>4
  <2> DEFINE u == SubSeq(w, c, d)
             x == SubSeq(t, a, b)
  <2>6. /\ c \in 1 .. Len(w) + 1 /\ d \in 0 .. Len(w) /\ c <= d + 1 /\ d - c + 1 = b - a + 1
        /\ a \in 1 .. Len(t) + 1 /\ b \in 0 .. Len(t) /\ a <= b + 1
    BY <1>1, <1>2, <2>4, <2>5
  <2>7. u \in Texts /\ Len(u) = b - a + 1 /\ \A i \in 1 .. b - a + 1 : u[i] = w[c + i - 1]
    BY <1>1, <2>6, PartOfText
  <2>8. x \in Texts /\ Len(x) = b - a + 1 /\ \A i \in 1 .. b - a + 1 : x[i] = t[a + i - 1]
    BY <2>6, PartOfText
  <2>9. ASSUME NEW i \in 1 .. b - a + 1 PROVE u[i] = x[i]
    <3>1. c + i - 1 = (a + i - 1) + 1 /\ a + i - 1 \in 1 .. Len(t)
      BY <1>2, <2>4, <2>5
    <3>2. w[(a + i - 1) + 1] = t[a + i - 1]
      BY <1>1, <3>1
    <3> HIDE DEF u, x
    <3> QED BY <2>7, <2>8, <3>1, <3>2
  <2> HIDE DEF u, x
  <2>10. u = x
    BY <2>7, <2>8, <2>9, SameText
  <2> QED BY <1>4, <1>5, <1>9, <2>1, <2>10 DEF u, x, a, b, c, d, w
<1> QED BY <1>8, <1>9

LEMMA ItemBehindSpace ==
    ASSUME NEW t \in Texts, NEW key
    PROVE  Item(<<Space>> \o t, key) = Item(t, key)
BY TrimmedSpace DEF Item

\* What the list resolvers get to see: addresses, and Invalid for what is none.
Found == {Addresses[a] : a \in DOMAIN Addresses} \cup {Invalid}

LEMMA ItemIsFound ==
    ASSUME NEW t, NEW key
    PROVE  ParseAddr(t) \in Found /\ Item(t, key) \in Found
<1>1. \A s : ParseAddr(s) \in Found
  BY DEF ParseAddr, Found
<1> QED BY <1>1 DEF Item, ParseForwardedListItem

\* One step of ItemsUpTo.
NextItems(s, key, quotes, k, items) ==
    LET text == SubSeq(s, 1, k)
        sep  == LastSeparator(text, key, quotes)
        item == Item(SubSeq(text, sep + 1, k), key)
    IN  <<item>> \o (IF sep = 0 THEN <<>> ELSE items[sep - 1])

LEMMA NextItemsAre ==
    ASSUME NEW s, NEW key, NEW quotes, NEW k, NEW items
    PROVE  NextItems(s, key, quotes, k, items) =
              LET text == SubSeq(s, 1, k)
                  sep  == LastSeparator(text, key, quotes)
                  item == Item(SubSeq(text, sep + 1, k), key)
              IN  IF sep = 0 THEN <<item>> ELSE <<item>> \o items[sep - 1]
<1> DEFINE sep  == LastSeparator(SubSeq(s, 1, k), key, quotes)
           item == Item(SubSeq(SubSeq(s, 1, k), sep + 1, k), key)
<1>1. NextItems(s, key, quotes, k, items) = <<item>> \o (IF sep = 0 THEN <<>> ELSE items[sep - 1])
  BY DEF NextItems
<1>2. <<item>> \o <<>> = <<item>>
  <2> HIDE DEF item
  <2>1. <<item>> \in Seq({item})
    OBVIOUS
  <2> QED BY <2>1, ConcatEmptySeq
<1>3. CASE sep = 0
  <2>1. NextItems(s, key, quotes, k, items) = <<item>> \o <<>>
    BY <1>1, <1>3
  <2> QED BY <1>2, <1>3, <2>1
<1>4. CASE sep # 0
  BY <1>1, <1>4
<1> QED BY <1>3, <1>4

\* The last separator of the first k characters is one of them.
LEMMA SeparatorInside ==
    ASSUME NEW s \in Texts, NEW k \in 0 .. Len(s), NEW key, NEW quotes \in BOOLEAN
    PROVE  LastSeparator(SubSeq(s, 1, k), key, quotes) \in 0 .. k
<1> DEFINE u == SubSeq(s, 1, k)
<1>1. 1 \in 1 .. Len(s) + 1 /\ 1 <= k + 1 /\ k - 1 + 1 = k /\ k \in Nat
  BY TextFacts
<1>2. u \in Texts /\ Len(u) = k
  BY <1>1, PartOfText
<1> HIDE DEF u
<1>3. /\ LastSeparator(u, key, quotes) = LastIn(Separators(u, key, quotes))
      /\ Separators(u, key, quotes) \subseteq 1 .. k
  BY <1>2, LastOfSeparators
<1>4. LastIn(Separators(u, key, quotes)) \in 0 .. k
  <2>1. CASE Separators(u, key, quotes) = {}
    <3>1. LastIn(Separators(u, key, quotes)) = 0
      BY <1>1, <1>3, <2>1, PositionFound
    <3> QED BY <1>1, <3>1
  <2>2. CASE Separators(u, key, quotes) # {}
    <3>1. LastIn(Separators(u, key, quotes)) \in Separators(u, key, quotes)
      BY <1>1, <1>3, <2>2, PositionFound
    <3> QED BY <1>1, <1>3, <3>1
  <2> QED BY <2>1, <2>2
<1> QED BY <1>3, <1>4 DEF u

LEMMA ItemsSteps ==
    ASSUME NEW s \in Texts, NEW key, NEW quotes \in BOOLEAN
    PROVE  \A k \in 0 .. Len(s) :
              ItemsUpTo(s, key, quotes)[k] = NextItems(s, key, quotes, k, ItemsUpTo(s, key, quotes))
<1> DEFINE Value(k, g) == NextItems(s, key, quotes, k, g)
           Fits(g, m) == g = [k \in 0 .. m |-> Value(k, g)]
           Part(m) == \E g : Fits(g, m)
           S == {m \in 0 .. Len(s) : Part(m)}
<1>1. Len(s) \in Nat
  BY TextFacts
<1>2. ASSUME NEW k \in 0 .. Len(s), NEW g, NEW h, \A j \in 0 .. k - 1 : g[j] = h[j]
      PROVE  Value(k, g) = Value(k, h)
  <2> DEFINE sep == LastSeparator(SubSeq(s, 1, k), key, quotes)
  <2>1. sep \in 0 .. k
    BY SeparatorInside
  <2>2. sep # 0 => g[sep - 1] = h[sep - 1]
    <3> HIDE DEF sep
    <3> QED BY <1>1, <1>2, <2>1
  <2> QED BY <2>2 DEF NextItems
<1> HIDE DEF Value
<1>3. ASSUME NEW m \in 0 .. Len(s), \A j \in 0 .. m - 1 : j \in S PROVE m \in S
  <2>1. PICK g : m = 0 \/ Fits(g, m - 1)
    <3>1. CASE m = 0
      BY <3>1
    <3>2. CASE m # 0
      <4>1. m - 1 \in 0 .. m - 1
        BY <3>2
      <4>2. m - 1 \in S
        BY <1>3, <4>1
      <4> QED BY <4>2
    <3> QED BY <3>1, <3>2
  <2> DEFINE h == [k \in 0 .. m |-> IF k < m THEN g[k] ELSE Value(m, g)]
  <2>2. \A k \in 0 .. m - 1 : h[k] = g[k]
    BY <1>1
  <2>3. h[m] = Value(m, g)
    BY <1>1
  <2>4. h = [k \in 0 .. m |-> h[k]]
    OBVIOUS
  <2> HIDE DEF h
  <2>5. ASSUME NEW k \in 0 .. m PROVE h[k] = Value(k, h)
    <3>1. \A j \in 0 .. k - 1 : g[j] = h[j]
      BY <1>1, <2>2
    <3>2. Value(k, g) = Value(k, h)
      <4>1. k \in 0 .. Len(s)
        BY <1>1
      <4> QED BY <1>2, <3>1, <4>1
    <3>3. CASE k = m
      BY <2>3, <3>2, <3>3
    <3>4. CASE k # m
      <4>1. k \in 0 .. m - 1 /\ m # 0
        BY <1>1, <3>4
      <4>2. g[k] = Value(k, g)
        BY <2>1, <4>1
      <4> QED BY <2>2, <3>2, <4>1, <4>2
    <3> QED BY <3>3, <3>4
  <2>6. Fits(h, m)
    BY <2>4, <2>5
  <2> HIDE DEF Fits
  <2> QED BY <2>6
<1>4. Part(Len(s))
  <2>1. \A m \in 0 .. Len(s) : m \in S
    <3> HIDE DEF S
    <3> QED BY <1>1, <1>3, AllUpTo
  <2> HIDE DEF Part
  <2> QED BY <1>1, <2>1
<1>5. ItemsUpTo(s, key, quotes) = CHOOSE g : Fits(g, Len(s))
  BY DEF ItemsUpTo, NextItems, Value
<1>6. Fits(ItemsUpTo(s, key, quotes), Len(s))
  <2> HIDE DEF Fits
  <2> QED BY <1>4, <1>5
<1> DEFINE q == ItemsUpTo(s, key, quotes)
<1>7. q = [k \in 0 .. Len(s) |-> Value(k, q)]
  BY <1>6
<1> HIDE DEF q
<1>8. \A k \in 0 .. Len(s) : q[k] = Value(k, q)
  BY <1>7
<1> QED BY <1>8 DEF q, Value

\* The list of a text's items has at least one.
LEMMA ItemsTyped ==
    ASSUME NEW s \in Texts, NEW key, NEW quotes \in BOOLEAN
    PROVE  \A k \in 0 .. Len(s) : /\ ItemsUpTo(s, key, quotes)[k] \in Seq(Found)
                                  /\ Len(ItemsUpTo(s, key, quotes)[k]) > 0
<1> DEFINE q == ItemsUpTo(s, key, quotes)
           S == {k \in 0 .. Len(s) : q[k] \in Seq(Found) /\ Len(q[k]) > 0}
<1>1. Len(s) \in Nat
  BY TextFacts
<1>2. ASSUME NEW k \in 0 .. Len(s), \A j \in 0 .. k - 1 : j \in S PROVE k \in S
  <2> SUFFICES q[k] \in Seq(Found) /\ Len(q[k]) > 0
    OBVIOUS
  <2> DEFINE sep == LastSeparator(SubSeq(s, 1, k), key, quotes)
             item == Item(SubSeq(SubSeq(s, 1, k), sep + 1, k), key)
  <2>1. q[k] = IF sep = 0 THEN <<item>> ELSE <<item>> \o q[sep - 1]
    BY ItemsSteps, NextItemsAre
  <2>2. sep \in 0 .. k
    BY SeparatorInside
  <2>3. item \in Found
    BY ItemIsFound
  <2> HIDE DEF sep, item, q
  <2>4. <<item>> \in Seq(Found) /\ Len(<<item>>) = 1
    BY <2>3
  <2>5. CASE sep = 0
    <3>1. q[k] = <<item>>
      BY <2>1, <2>5
    <3> QED BY <2>4, <3>1
  <2>6. CASE sep # 0
    <3>1. sep - 1 \in 0 .. k - 1
      BY <1>1, <2>2, <2>6
    <3>2. q[sep - 1] \in Seq(Found) /\ Len(q[sep - 1]) > 0 /\ Len(q[sep - 1]) \in Nat
      BY <1>2, <3>1
    <3>3. /\ <<item>> \o q[sep - 1] \in Seq(Found)
          /\ Len(<<item>> \o q[sep - 1]) = Len(<<item>>) + Len(q[sep - 1])
      BY <2>4, <3>2, ConcatProperties
    <3>4. q[k] = <<item>> \o q[sep - 1]
      BY <2>1, <2>6
    <3>5. Len(<<item>> \o q[sep - 1]) > 0
      BY <2>4, <3>2, <3>3
    <3> QED BY <3>3, <3>4, <3>5
  <2> QED BY <2>5, <2>6
<1>3. \A k \in 0 .. Len(s) : k \in S
  <2> HIDE DEF S
  <2> QED BY <1>1, <1>2, AllUpTo
<1> QED BY <1>3 DEF q

\* The first characters of a text decide its first items.
LEMMA ItemsAgree ==
    ASSUME NEW s \in Texts, NEW u \in Texts, NEW m \in 0 .. Len(s), m <= Len(u),
           \A i \in 1 .. m : s[i] = u[i], NEW key, NEW quotes \in BOOLEAN
    PROVE  \A k \in 0 .. m : ItemsUpTo(s, key, quotes)[k] = ItemsUpTo(u, key, quotes)[k]
<1> DEFINE q == ItemsUpTo(s, key, quotes)
           r == ItemsUpTo(u, key, quotes)
           S == {k \in 0 .. m : q[k] = r[k]}
<1>1. Len(s) \in Nat /\ Len(u) \in Nat /\ m \in Nat
  BY TextFacts
<1>2. ASSUME NEW k \in 0 .. m, \A j \in 0 .. k - 1 : j \in S PROVE k \in S
  <2> DEFINE x == SubSeq(s, 1, k)
             y == SubSeq(u, 1, k)
             sep == LastSeparator(x, key, quotes)
             item == Item(SubSeq(x, sep + 1, k), key)
  <2>1. k \in 0 .. Len(s) /\ k \in 0 .. Len(u) /\ 1 \in 1 .. Len(s) + 1 /\ 1 \in 1 .. Len(u) + 1
        /\ 1 <= k + 1 /\ k - 1 + 1 = k /\ k \in Int
    BY <1>1
  <2>2. x \in Texts /\ Len(x) = k /\ \A i \in 1 .. k : x[i] = s[1 + i - 1]
    BY <2>1, PartOfText
  <2>3. y \in Texts /\ Len(y) = k /\ \A i \in 1 .. k : y[i] = u[1 + i - 1]
    BY <2>1, PartOfText
  <2>4. sep \in 0 .. k
    BY <2>1, SeparatorInside
  <2>5. x = y
    <3> HIDE DEF x, y
    <3>1. \A i \in 1 .. k : x[i] = y[i]
      BY <1>1, <2>2, <2>3
    <3> QED BY <2>2, <2>3, <3>1, SameText
  <2>6. q[k] = IF sep = 0 THEN <<item>> ELSE <<item>> \o q[sep - 1]
    BY <2>1, ItemsSteps, NextItemsAre
  <2>7. r[k] = NextItems(u, key, quotes, k, r)
    BY <2>1, ItemsSteps
  <2>8. r[k] = IF sep = 0 THEN <<item>> ELSE <<item>> \o r[sep - 1]
    BY <2>5, <2>7, NextItemsAre
  <2> HIDE DEF sep, item, q, r
  <2>9. sep # 0 => q[sep - 1] = r[sep - 1]
    BY <1>1, <1>2, <2>4
  <2> QED BY <2>6, <2>8, <2>9
<1>3. \A k \in 0 .. m : k \in S
  <2> HIDE DEF S
  <2> QED BY <1>1, <1>2, AllUpTo
<1> QED BY <1>3 DEF q, r

LEMMA WholeText ==
    ASSUME NEW s \in Texts
    PROVE  SubSeq(s, 1, Len(s)) = s
<1>1. s \in Seq(Chars)
  BY TextFacts
<1> QED BY <1>1, SubSeqFull

LEMMA BackwardItemsTyped ==
    ASSUME NEW s \in Texts, NEW key, NEW quotes \in BOOLEAN
    PROVE  BackwardItems(s, key, quotes) \in Seq(Found) /\ Len(BackwardItems(s, key, quotes)) > 0
<1>1. Len(s) \in 0 .. Len(s)
  BY TextFacts
<1> QED BY <1>1, ItemsTyped DEF BackwardItems

\* One item alone, and one behind others.
LEMMA ItemAlone ==
    ASSUME NEW t, NEW key, NEW quotes \in BOOLEAN, OneItem(t, key, quotes)
    PROVE  BackwardItems(t, key, quotes) = <<Item(t, key)>>
<1>1. t \in Texts /\ LastSeparator(t, key, quotes) = 0
  BY DEF OneItem
<1>2. Len(t) \in 0 .. Len(t)
  BY <1>1, TextFacts
<1>3. BackwardItems(t, key, quotes) = NextItems(t, key, quotes, Len(t), ItemsUpTo(t, key, quotes))
  BY <1>1, <1>2, ItemsSteps DEF BackwardItems
<1>4. SubSeq(t, 1, Len(t)) = t
  BY <1>1, WholeText
<1>5. NextItems(t, key, quotes, Len(t), ItemsUpTo(t, key, quotes)) = <<Item(SubSeq(t, 0 + 1, Len(t)), key)>>
  BY <1>1, <1>4, NextItemsAre
<1>6. SubSeq(t, 0 + 1, Len(t)) = t
  BY <1>4
<1> QED BY <1>3, <1>5, <1>6

\* What a proxy adds to a value is its last item, and the others are those of the
\* value: nothing the client wrote reaches into it.
LEMMA ItemBehind ==
    ASSUME NEW p \in Texts, NEW t, NEW key, NEW quotes \in BOOLEAN, OneItem(t, key, quotes)
    PROVE  BackwardItems(Joined(p, t), key, quotes) = <<Item(t, key)>> \o BackwardItems(p, key, quotes)
<1> DEFINE v == Joined(p, t)
           q == ItemsUpTo(v, key, quotes)
<1>1. t \in Texts
  BY DEF OneItem
<1>2. v \in Texts /\ Len(v) = Len(p) + 2 + Len(t) /\ \A i \in 1 .. Len(p) : v[i] = p[i]
  BY <1>1, JoinedParts
<1>3. Len(p) \in Nat /\ Len(t) \in Nat
  BY <1>1, TextFacts
<1>4. LastSeparator(v, key, quotes) = Len(p) + 1
  BY SeparatorBehind
<1>5. SubSeq(v, Len(p) + 2, Len(v)) = <<Space>> \o t
  BY <1>1, JoinedCut
<1>6. SubSeq(v, 1, Len(v)) = v
  BY <1>2, WholeText
<1>7. Item(<<Space>> \o t, key) = Item(t, key)
  BY <1>1, ItemBehindSpace
<1>8. q[Len(p)] = ItemsUpTo(p, key, quotes)[Len(p)]
  <2>1. Len(p) \in 0 .. Len(v) /\ Len(p) <= Len(p) /\ Len(p) \in 0 .. Len(p)
    BY <1>2, <1>3
  <2> HIDE DEF v
  <2> QED BY <1>2, <2>1, ItemsAgree
<1>9. Len(v) \in 0 .. Len(v) /\ Len(p) + 1 # 0 /\ Len(p) + 1 - 1 = Len(p) /\ Len(p) + 1 + 1 = Len(p) + 2
  BY <1>2, <1>3
<1>10. q[Len(v)] = NextItems(v, key, quotes, Len(v), q)
  BY <1>2, <1>9, ItemsSteps
<1> HIDE DEF v, q
<1>11. q[Len(v)] = <<Item(SubSeq(v, Len(p) + 2, Len(v)), key)>> \o q[Len(p)]
  <2>1. q[Len(v)] = LET sep == Len(p) + 1
                    IN  IF sep = 0 THEN <<Item(SubSeq(v, sep + 1, Len(v)), key)>>
                        ELSE <<Item(SubSeq(v, sep + 1, Len(v)), key)>> \o q[sep - 1]
    BY <1>4, <1>6, <1>10, NextItemsAre, Zenon
  <2>2. q[Len(v)] = <<Item(SubSeq(v, Len(p) + 1 + 1, Len(v)), key)>> \o q[Len(p) + 1 - 1]
    BY <1>9, <2>1
  <2>3. Len(p) + 1 - 1 = Len(p) /\ Len(p) + 1 + 1 = Len(p) + 2
    BY <1>9
  <2> QED BY <2>2, <2>3
<1> QED BY <1>5, <1>7, <1>8, <1>11 DEF BackwardItems, v, q

\* Where every comma separates, each adds an item.
LEMMA CommasAdd ==
    ASSUME NEW s \in Texts, NEW key, NEW c \in 1 .. Len(s), s[c] = Comma
    PROVE  \A k \in 0 .. Len(s) :
              c <= k => Len(ItemsUpTo(s, key, FALSE)[k]) > Len(ItemsUpTo(s, key, FALSE)[c - 1])
<1> DEFINE q == ItemsUpTo(s, key, FALSE)
           S == {k \in 0 .. Len(s) : c <= k => Len(q[k]) > Len(q[c - 1])}
<1>1. Len(s) \in Nat
  BY TextFacts
<1>2. \A k \in 0 .. Len(s) : q[k] \in Seq(Found)
  BY ItemsTyped
<1>3. ASSUME NEW k \in 0 .. Len(s), \A j \in 0 .. k - 1 : j \in S PROVE k \in S
  <2> SUFFICES ASSUME c <= k PROVE Len(q[k]) > Len(q[c - 1])
    OBVIOUS
  <2> DEFINE u == SubSeq(s, 1, k)
             sep == LastSeparator(u, key, FALSE)
             item == Item(SubSeq(u, sep + 1, k), key)
  <2>1. 1 \in 1 .. Len(s) + 1 /\ 1 <= k + 1 /\ k - 1 + 1 = k /\ k \in Nat
    BY <1>1
  <2>2. u \in Texts /\ Len(u) = k /\ \A i \in 1 .. k : u[i] = s[1 + i - 1]
    BY <2>1, PartOfText
  <2>3. q[k] = IF sep = 0 THEN <<item>> ELSE <<item>> \o q[sep - 1]
    BY ItemsSteps, NextItemsAre
  <2>4. sep \in 0 .. k
    BY SeparatorInside
  <2>5. c <= sep
    <3> HIDE DEF u
    <3>1. u[c] = Comma /\ DOMAIN u = 1 .. k /\ c \in 1 .. k
      BY <1>1, <2>2, TextFacts
    <3>2. c \in Separators(u, key, FALSE)
      BY <3>1 DEF Separators
    <3>3. /\ sep = LastIn(Separators(u, key, FALSE))
          /\ Separators(u, key, FALSE) \subseteq 1 .. k
      BY <2>2, LastOfSeparators
    <3> DEFINE T == Separators(u, key, FALSE)
    <3>4. c \in T /\ T \subseteq 1 .. k /\ k \in Nat
      BY <2>1, <3>2, <3>3
    <3> HIDE DEF T
    <3>5. c <= LastIn(T)
      BY <3>4, PositionFound
    <3> QED BY <3>3, <3>5 DEF T
  <2>6. item \in Found
    BY ItemIsFound
  <2> HIDE DEF sep, item, q, u
  <2>7. sep # 0 /\ sep - 1 \in 0 .. k - 1 /\ sep - 1 \in 0 .. Len(s) /\ c - 1 \in 0 .. Len(s)
    BY <1>1, <2>4, <2>5
  <2>8. q[sep - 1] \in Seq(Found) /\ q[c - 1] \in Seq(Found)
    BY <1>2, <2>7
  <2>9. Len(q[sep - 1]) \in Nat /\ Len(q[c - 1]) \in Nat
    BY <2>8
  <2>10. Len(q[k]) = 1 + Len(q[sep - 1])
    <3>1. <<item>> \in Seq(Found) /\ Len(<<item>>) = 1
      BY <2>6
    <3>2. Len(<<item>> \o q[sep - 1]) = Len(<<item>>) + Len(q[sep - 1])
      BY <2>8, <3>1, ConcatProperties
    <3> QED BY <2>3, <2>7, <3>1, <3>2
  <2>11. CASE sep = c
    BY <2>9, <2>10, <2>11
  <2>12. CASE sep # c
    <3>1. c <= sep - 1
      BY <1>1, <2>4, <2>5, <2>12
    <3>2. Len(q[sep - 1]) > Len(q[c - 1])
      BY <1>3, <2>7, <3>1
    <3> QED BY <2>9, <2>10, <3>2
  <2> QED BY <2>11, <2>12
<1>4. \A k \in 0 .. Len(s) : k \in S
  <2> HIDE DEF S
  <2> QED BY <1>1, <1>3, AllUpTo
<1> QED BY <1>4 DEF q

-----------------------------------------------------------------------------
(* The items of a header *)

Values == Seq(Texts)

\* One step of ListUpTo.
NextList(values, key, quotes, k, list) ==
    IF k = 0 THEN <<>> ELSE BackwardItems(values[k], key, quotes) \o list[k - 1]

LEMMA ListSteps ==
    ASSUME NEW values \in Values, NEW key, NEW quotes \in BOOLEAN
    PROVE  \A k \in 0 .. Len(values) :
              ListUpTo(values, key, quotes)[k] = NextList(values, key, quotes, k, ListUpTo(values, key, quotes))
<1> DEFINE Value(k, g) == NextList(values, key, quotes, k, g)
           Fits(g, m) == g = [k \in 0 .. m |-> Value(k, g)]
           Part(m) == \E g : Fits(g, m)
           S == {m \in 0 .. Len(values) : Part(m)}
<1>1. Len(values) \in Nat
  BY DEF Values
<1>2. ASSUME NEW k \in 0 .. Len(values), NEW g, NEW h, \A j \in 0 .. k - 1 : g[j] = h[j]
      PROVE  Value(k, g) = Value(k, h)
  <2>1. k # 0 => g[k - 1] = h[k - 1]
    BY <1>1, <1>2
  <2> QED BY <2>1 DEF NextList
<1> HIDE DEF Value
<1>3. ASSUME NEW m \in 0 .. Len(values), \A j \in 0 .. m - 1 : j \in S PROVE m \in S
  <2>1. PICK g : m = 0 \/ Fits(g, m - 1)
    <3>1. CASE m = 0
      BY <3>1
    <3>2. CASE m # 0
      <4>1. m - 1 \in 0 .. m - 1
        BY <3>2
      <4>2. m - 1 \in S
        BY <1>3, <4>1
      <4> QED BY <4>2
    <3> QED BY <3>1, <3>2
  <2> DEFINE h == [k \in 0 .. m |-> IF k < m THEN g[k] ELSE Value(m, g)]
  <2>2. \A k \in 0 .. m - 1 : h[k] = g[k]
    BY <1>1
  <2>3. h[m] = Value(m, g)
    BY <1>1
  <2>4. h = [k \in 0 .. m |-> h[k]]
    OBVIOUS
  <2> HIDE DEF h
  <2>5. ASSUME NEW k \in 0 .. m PROVE h[k] = Value(k, h)
    <3>1. \A j \in 0 .. k - 1 : g[j] = h[j]
      BY <1>1, <2>2
    <3>2. Value(k, g) = Value(k, h)
      <4>1. k \in 0 .. Len(values)
        BY <1>1
      <4> QED BY <1>2, <3>1, <4>1
    <3>3. CASE k = m
      BY <2>3, <3>2, <3>3
    <3>4. CASE k # m
      <4>1. k \in 0 .. m - 1 /\ m # 0
        BY <1>1, <3>4
      <4>2. g[k] = Value(k, g)
        BY <2>1, <4>1
      <4> QED BY <2>2, <3>2, <4>1, <4>2
    <3> QED BY <3>3, <3>4
  <2>6. Fits(h, m)
    BY <2>4, <2>5
  <2> HIDE DEF Fits
  <2> QED BY <2>6
<1>4. Part(Len(values))
  <2>1. \A m \in 0 .. Len(values) : m \in S
    <3> HIDE DEF S
    <3> QED BY <1>1, <1>3, AllUpTo
  <2> HIDE DEF Part
  <2> QED BY <1>1, <2>1
<1>5. ListUpTo(values, key, quotes) = CHOOSE g : Fits(g, Len(values))
  BY DEF ListUpTo, NextList, Value
<1>6. Fits(ListUpTo(values, key, quotes), Len(values))
  <2> HIDE DEF Fits
  <2> QED BY <1>4, <1>5
<1> DEFINE q == ListUpTo(values, key, quotes)
<1>7. q = [k \in 0 .. Len(values) |-> Value(k, q)]
  BY <1>6
<1> HIDE DEF q
<1>8. \A k \in 0 .. Len(values) : q[k] = Value(k, q)
  BY <1>7
<1> QED BY <1>8 DEF q, Value

\* The first values decide the first items.
LEMMA ListAgrees ==
    ASSUME NEW values \in Values, NEW more \in Values, NEW m \in 0 .. Len(values), m <= Len(more),
           \A i \in 1 .. m : values[i] = more[i], NEW key, NEW quotes \in BOOLEAN
    PROVE  \A k \in 0 .. m : ListUpTo(values, key, quotes)[k] = ListUpTo(more, key, quotes)[k]
<1> DEFINE q == ListUpTo(values, key, quotes)
           r == ListUpTo(more, key, quotes)
           S == {k \in 0 .. m : q[k] = r[k]}
<1>1. Len(values) \in Nat /\ Len(more) \in Nat /\ m \in Nat
  BY DEF Values
<1>2. ASSUME NEW k \in 0 .. m, \A j \in 0 .. k - 1 : j \in S PROVE k \in S
  <2> SUFFICES q[k] = r[k]
    OBVIOUS
  <2>1. k \in 0 .. Len(values) /\ k \in 0 .. Len(more)
    BY <1>1
  <2>2. q[k] = IF k = 0 THEN <<>> ELSE BackwardItems(values[k], key, quotes) \o q[k - 1]
    BY <2>1, ListSteps DEF NextList
  <2>3. r[k] = IF k = 0 THEN <<>> ELSE BackwardItems(more[k], key, quotes) \o r[k - 1]
    BY <2>1, ListSteps DEF NextList
  <2>4. k # 0 => q[k - 1] = r[k - 1] /\ values[k] = more[k]
    <3> HIDE DEF q, r
    <3> QED BY <1>1, <1>2
  <2> HIDE DEF q, r
  <2> QED BY <2>2, <2>3, <2>4
<1>3. \A k \in 0 .. m : k \in S
  <2> HIDE DEF S
  <2> QED BY <1>1, <1>2, AllUpTo
<1> QED BY <1>3 DEF q, r

LEMMA ListTyped ==
    ASSUME NEW values \in Values, NEW key, NEW quotes \in BOOLEAN
    PROVE  \A k \in 0 .. Len(values) : ListUpTo(values, key, quotes)[k] \in Seq(Found)
<1> DEFINE q == ListUpTo(values, key, quotes)
           S == {k \in 0 .. Len(values) : q[k] \in Seq(Found)}
<1>1. Len(values) \in Nat /\ \A k \in 1 .. Len(values) : values[k] \in Texts
  BY DEF Values
<1>2. ASSUME NEW k \in 0 .. Len(values), \A j \in 0 .. k - 1 : j \in S PROVE k \in S
  <2> SUFFICES q[k] \in Seq(Found)
    OBVIOUS
  <2>1. q[k] = IF k = 0 THEN <<>> ELSE BackwardItems(values[k], key, quotes) \o q[k - 1]
    BY ListSteps DEF NextList
  <2> HIDE DEF q
  <2>2. CASE k = 0
    BY <2>1, <2>2
  <2>3. CASE k # 0
    <3>1. k \in 1 .. Len(values) /\ k - 1 \in 0 .. k - 1
      BY <1>1, <2>3
    <3>2. q[k - 1] \in Seq(Found)
      BY <1>2, <3>1
    <3>3. BackwardItems(values[k], key, quotes) \in Seq(Found)
      BY <1>1, <3>1, BackwardItemsTyped
    <3>4. BackwardItems(values[k], key, quotes) \o q[k - 1] \in Seq(Found)
      BY <3>2, <3>3, ConcatProperties
    <3> QED BY <2>1, <2>3, <3>4
  <2> QED BY <2>2, <2>3
<1>3. \A k \in 0 .. Len(values) : k \in S
  <2> HIDE DEF S
  <2> QED BY <1>1, <1>2, AllUpTo
<1> QED BY <1>3 DEF q

LEMMA BackwardListTyped ==
    ASSUME NEW values \in Values, NEW key, NEW quotes \in BOOLEAN
    PROVE  BackwardList(values, key, quotes) \in Seq(Found)
<1>1. Len(values) \in 0 .. Len(values)
  BY DEF Values
<1> QED BY <1>1, ListTyped DEF BackwardList

LEMMA ListOfNone ==
    ASSUME NEW key, NEW quotes \in BOOLEAN
    PROVE  BackwardList(<<>>, key, quotes) = <<>>
<1>1. <<>> \in Values /\ Len(<<>>) = 0 /\ 0 \in 0 .. 0
  BY DEF Values
<1> QED BY <1>1, ListSteps DEF BackwardList, NextList

\* A value more, and the last value.
LEMMA ListAppended ==
    ASSUME NEW values \in Values, NEW t \in Texts, NEW key, NEW quotes \in BOOLEAN
    PROVE  /\ Append(values, t) \in Values
           /\ BackwardList(Append(values, t), key, quotes) =
                 BackwardItems(t, key, quotes) \o BackwardList(values, key, quotes)
<1> DEFINE more == Append(values, t)
           n == Len(values)
           q == ListUpTo(more, key, quotes)
<1>1. n \in Nat /\ values \in Seq(Texts)
  BY DEF Values
<1>2. more \in Seq(Texts) /\ Len(more) = n + 1 /\ (\A i \in 1 .. n : more[i] = values[i]) /\ more[n + 1] = t
  BY <1>1, AppendProperties
<1>3. more \in Values
  BY <1>2 DEF Values
<1> HIDE DEF more
<1>4. n \in 0 .. n /\ n <= Len(more) /\ n + 1 \in 0 .. Len(more) /\ n + 1 # 0 /\ n + 1 - 1 = n
  BY <1>1, <1>2
<1>5. ListUpTo(values, key, quotes)[n] = q[n]
  <2>1. \A i \in 1 .. n : values[i] = more[i]
    BY <1>2
  <2>2. \A k \in 0 .. n : ListUpTo(values, key, quotes)[k] = ListUpTo(more, key, quotes)[k]
    BY <1>3, <1>4, <2>1, ListAgrees
  <2> QED BY <1>4, <2>2
<1> DEFINE k == n + 1
<1>6. q[k] = NextList(more, key, quotes, k, q)
  BY <1>3, <1>4, ListSteps
<1>7. more[k] = t /\ k # 0 /\ k - 1 = n
  BY <1>2, <1>4
<1> HIDE DEF q, k, n
<1>8. q[k] = BackwardItems(t, key, quotes) \o q[n]
  BY <1>6, <1>7 DEF NextList
<1>9. BackwardList(more, key, quotes) = q[k]
  BY <1>2 DEF BackwardList, q, k
<1>10. BackwardList(values, key, quotes) = q[n]
  BY <1>5 DEF BackwardList, n
<1> QED BY <1>3, <1>8, <1>9, <1>10 DEF more

LEMMA LastValue ==
    ASSUME NEW values \in Values, values # <<>>
    PROVE  /\ Front(values) \in Values /\ Last(values) \in Texts
           /\ values = Append(Front(values), Last(values))
<1>1. values \in Seq(Texts) /\ Len(values) \in Nat /\ Len(values) # 0
  BY EmptySeq DEF Values
<1> DEFINE f == SubSeq(values, 1, Len(values) - 1)
           l == values[Len(values)]
<1>2. l \in Texts
  BY <1>1
<1>3. f \in Seq(Texts) /\ Len(f) = Len(values) - 1 /\ \A i \in 1 .. Len(values) - 1 : f[i] = values[i]
  <2> DEFINE n == Len(values) - 1
  <2>1. n \in Nat /\ \A i \in 1 .. n : i \in 1 .. Len(values)
    BY <1>1
  <2>2. CASE n = 0
    <3>0. 1 > n
      <4> HIDE DEF n
      <4> QED BY <2>1, <2>2
    <3>1. f = <<>>
      BY <1>1, <2>1, <3>0, SubSeqEmpty
    <3>2. <<>> \in Seq(Texts) /\ Len(<<>>) = 0
      OBVIOUS
    <3> HIDE DEF f, n
    <3>3. \A i \in 1 .. n : FALSE
      BY <2>2
    <3>4. f \in Seq(Texts) /\ Len(f) = n
      BY <2>2, <3>1, <3>2
    <3> QED BY <3>3, <3>4 DEF n
  <2>3. CASE n # 0
    <3>1. /\ f \in Seq(Texts)
          /\ Len(f) = IF 1 <= n THEN n - 1 + 1 ELSE 0
          /\ \A i \in 1 .. n - 1 + 1 : f[i] = values[1 + i - 1]
      BY <1>1, <2>1, SubSeqProperties
    <3> HIDE DEF f, n
    <3>2. 1 <= n /\ n - 1 + 1 = n /\ \A i \in 1 .. n : 1 + i - 1 = i
      BY <2>1, <2>3
    <3>3. Len(f) = n /\ \A i \in 1 .. n : f[i] = values[i]
      BY <3>1, <3>2
    <3> QED BY <3>1, <3>3 DEF n
  <2> QED BY <2>2, <2>3
<1> HIDE DEF f, l
<1> DEFINE a == Append(f, l)
<1>4. a \in Seq(Texts) /\ Len(a) = Len(f) + 1 /\ (\A i \in 1 .. Len(f) : a[i] = f[i]) /\ a[Len(f) + 1] = l
  BY <1>2, <1>3, AppendProperties
<1> HIDE DEF a
<1>5. ASSUME NEW i \in 1 .. Len(values) PROVE values[i] = a[i]
  <2>1. CASE i = Len(values)
    BY <1>1, <1>3, <1>4, <2>1 DEF l
  <2>2. CASE i # Len(values)
    <3>1. i \in 1 .. Len(values) - 1
      BY <1>1, <2>2
    <3> QED BY <1>3, <1>4, <3>1
  <2> QED BY <2>1, <2>2
<1>6. values = a
  BY <1>1, <1>3, <1>4, <1>5, SeqEqual
<1> QED BY <1>2, <1>3, <1>6 DEF Front, Last, f, l, a, Values

\* Lists are put together in any order.
LEMMA ListsJoin ==
    ASSUME NEW x \in Found, NEW a \in Seq(Found), NEW b \in Seq(Found)
    PROVE  (<<x>> \o a) \o b = <<x>> \o (a \o b)
<1>1. <<x>> \in Seq(Found)
  OBVIOUS
<1> QED BY <1>1, ConcatAssociative

\* What a proxy makes of a header, a value more or the last one extended.
Added(values, t) ==
    {Append(values, t)} \cup
    (IF values = <<>> THEN {} ELSE {Append(Front(values), Joined(Last(values), t))})

\* BackwardAddrSeq (clientip.go): what a proxy adds is the first item of the list, and
\* the others stay as they were, even if the value it found has a quoted string open.
THEOREM ListGrows ==
    ASSUME NEW values \in Values, NEW t, NEW key, NEW quotes \in BOOLEAN, OneItem(t, key, quotes),
           NEW more \in Added(values, t)
    PROVE  /\ more \in Values
           /\ BackwardList(more, key, quotes) = <<Item(t, key)>> \o BackwardList(values, key, quotes)
<1>1. t \in Texts
  BY DEF OneItem
<1>2. CASE more = Append(values, t)
  <2>1. /\ Append(values, t) \in Values
        /\ BackwardList(Append(values, t), key, quotes) = BackwardItems(t, key, quotes) \o BackwardList(values, key, quotes)
    BY <1>1, ListAppended
  <2>2. BackwardItems(t, key, quotes) = <<Item(t, key)>>
    BY ItemAlone
  <2> QED BY <1>2, <2>1, <2>2
<1>3. CASE values # <<>> /\ more = Append(Front(values), Joined(Last(values), t))
  <2> DEFINE f == Front(values)
             l == Last(values)
             j == Joined(l, t)
  <2>1. f \in Values /\ l \in Texts /\ values = Append(f, l)
    BY <1>3, LastValue
  <2> HIDE DEF f, l
  <2>2. j \in Texts
    BY <1>1, <2>1, JoinedParts
  <2>3. BackwardItems(j, key, quotes) = <<Item(t, key)>> \o BackwardItems(l, key, quotes)
    BY <2>1, ItemBehind
  <2> HIDE DEF j
  <2>4. /\ Append(f, j) \in Values
        /\ BackwardList(Append(f, j), key, quotes) = BackwardItems(j, key, quotes) \o BackwardList(f, key, quotes)
    BY <2>1, <2>2, ListAppended
  <2>5. BackwardList(values, key, quotes) = BackwardItems(l, key, quotes) \o BackwardList(f, key, quotes)
    BY <2>1, ListAppended
  <2>6. Item(t, key) \in Found /\ BackwardItems(l, key, quotes) \in Seq(Found) /\ BackwardList(f, key, quotes) \in Seq(Found)
    BY <2>1, ItemIsFound, BackwardItemsTyped, BackwardListTyped
  <2>7. (<<Item(t, key)>> \o BackwardItems(l, key, quotes)) \o BackwardList(f, key, quotes)
           = <<Item(t, key)>> \o (BackwardItems(l, key, quotes) \o BackwardList(f, key, quotes))
    BY <2>6, ListsJoin
  <2>8. more = Append(f, j)
    BY <1>3 DEF f, l, j
  <2> QED BY <2>3, <2>4, <2>5, <2>7, <2>8
<1> QED BY <1>2, <1>3 DEF Added

\* Where every comma separates, an item with a comma of its own adds more than one.
LEMMA CommaAddsTwo ==
    ASSUME NEW p \in Texts, NEW t \in Texts, NEW key, NEW c \in 1 .. Len(t), t[c] = Comma
    PROVE  /\ Len(BackwardItems(t, key, FALSE)) >= 2
           /\ Len(BackwardItems(Joined(p, t), key, FALSE)) >= Len(BackwardItems(p, key, FALSE)) + 2
<1>1. Len(p) \in Nat /\ Len(t) \in Nat
  BY TextFacts
<1>2. Len(BackwardItems(t, key, FALSE)) >= 2
  <2> DEFINE q == ItemsUpTo(t, key, FALSE)
  <2>1. c - 1 \in 0 .. Len(t) /\ Len(t) \in 0 .. Len(t) /\ c <= Len(t)
    BY <1>1
  <2>2. q[c - 1] \in Seq(Found) /\ Len(q[c - 1]) > 0 /\ q[Len(t)] \in Seq(Found)
    BY <2>1, ItemsTyped
  <2>3. Len(q[Len(t)]) > Len(q[c - 1])
    BY <2>1, CommasAdd
  <2> HIDE DEF q
  <2>4. Len(q[c - 1]) \in Nat /\ Len(q[Len(t)]) \in Nat
    BY <2>2
  <2>5. Len(q[Len(t)]) >= 2
    BY <2>2, <2>3, <2>4
  <2> QED BY <2>5 DEF q, BackwardItems
<1>3. Len(BackwardItems(Joined(p, t), key, FALSE)) >= Len(BackwardItems(p, key, FALSE)) + 2
  <2> DEFINE v == Joined(p, t)
             q == ItemsUpTo(v, key, FALSE)
             c1 == Len(p) + 1
             c2 == Len(p) + 2 + c
  <2>1. /\ v \in Texts /\ Len(v) = Len(p) + 2 + Len(t) /\ v[Len(p) + 1] = Comma
        /\ \A i \in 1 .. Len(p) : v[i] = p[i]
        /\ \A j \in 1 .. Len(t) : v[Len(p) + 2 + j] = t[j]
    BY JoinedParts
  <2>2. v[c2] = Comma /\ v[c1] = Comma
    <3> HIDE DEF v
    <3> QED BY <2>1
  <2> HIDE DEF v
  <2>3. /\ c1 \in 1 .. Len(v) /\ c2 \in 1 .. Len(v) /\ c2 - 1 \in 0 .. Len(v) /\ c1 <= c2 - 1
        /\ Len(v) \in 0 .. Len(v) /\ c2 <= Len(v) /\ c1 - 1 = Len(p) /\ Len(p) \in 0 .. Len(v)
    BY <1>1, <2>1
  <2> HIDE DEF c1, c2
  <2>4. Len(q[Len(v)]) > Len(q[c2 - 1])
    BY <2>1, <2>2, <2>3, CommasAdd
  <2>5. Len(q[c2 - 1]) > Len(q[c1 - 1])
    BY <2>1, <2>2, <2>3, CommasAdd
  <2>6. q[Len(p)] = ItemsUpTo(p, key, FALSE)[Len(p)]
    <3>1. Len(p) <= Len(p) /\ Len(p) \in 0 .. Len(p)
      BY <1>1
    <3>4. /\ v \in Texts /\ Len(p) \in 0 .. Len(v)
          /\ \A i \in 1 .. Len(p) : v[i] = p[i]
      BY <2>1, <2>3
    <3>2. ASSUME NEW quotes \in BOOLEAN
          PROVE  \A k \in 0 .. Len(p) : ItemsUpTo(v, key, quotes)[k] = ItemsUpTo(p, key, quotes)[k]
      BY <3>1, <3>4, ItemsAgree
    <3>3. \A k \in 0 .. Len(p) : ItemsUpTo(v, key, FALSE)[k] = ItemsUpTo(p, key, FALSE)[k]
      BY <3>2, Zenon
    <3> QED BY <3>1, <3>3
  <2>7. q[Len(v)] \in Seq(Found) /\ q[c2 - 1] \in Seq(Found) /\ q[c1 - 1] \in Seq(Found)
    <3>1. c1 - 1 \in 0 .. Len(v)
      BY <2>3
    <3> QED BY <2>1, <2>3, <3>1, ItemsTyped
  <2> HIDE DEF q
  <2>8. Len(q[Len(v)]) \in Nat /\ Len(q[c2 - 1]) \in Nat /\ Len(q[c1 - 1]) \in Nat
    BY <2>7
  <2>9. Len(q[Len(v)]) >= Len(q[c1 - 1]) + 2
    BY <2>4, <2>5, <2>8
  <2>10. q[c1 - 1] = ItemsUpTo(p, key, FALSE)[Len(p)]
    BY <2>3, <2>6
  <2> QED BY <2>9, <2>10 DEF q, v, BackwardItems
<1> QED BY <1>2, <1>3

LEMMA LongerLists ==
    ASSUME NEW a \in Seq(Found), NEW b \in Seq(Found), NEW c \in Seq(Found), NEW n \in Nat,
           Len(a) >= Len(b) + n
    PROVE  Len(a \o c) >= Len(b \o c) + n
<1>1. Len(a) \in Nat /\ Len(b) \in Nat /\ Len(c) \in Nat
  OBVIOUS
<1>2. Len(a \o c) = Len(a) + Len(c) /\ Len(b \o c) = Len(b) + Len(c)
  BY ConcatProperties
<1> QED BY <1>1, <1>2

\* The plain list: every proxy adds an item, and more than one only with a comma.
LEMMA PlainListGrows ==
    ASSUME NEW values \in Values, NEW t \in Texts, NEW key, NEW more \in Added(values, t)
    PROVE  /\ more \in Values
           /\ \/ BackwardList(more, key, FALSE) = <<Item(t, key)>> \o BackwardList(values, key, FALSE)
              \/ Len(BackwardList(more, key, FALSE)) >= Len(BackwardList(values, key, FALSE)) + 2
<1>1. CASE LastSeparator(t, key, FALSE) = 0
  <2>1. OneItem(t, key, FALSE)
    BY <1>1 DEF OneItem
  <2> QED BY <2>1, ListGrows
<1>2. CASE LastSeparator(t, key, FALSE) # 0
  <2>1. PICK c \in 1 .. Len(t) : t[c] = Comma
    <3> DEFINE T == Separators(t, key, FALSE)
    <3>1. LastSeparator(t, key, FALSE) = LastIn(T) /\ T \subseteq 1 .. Len(t)
      BY LastOfSeparators
    <3>2. \A i \in T : t[i] = Comma
      BY DEF Separators
    <3>3. Len(t) \in Nat
      BY TextFacts
    <3> HIDE DEF T
    <3>4. T # {}
      BY <1>2, <3>1, <3>3, PositionFound
    <3> QED BY <3>1, <3>2, <3>4
  <2>2. BackwardList(values, key, FALSE) \in Seq(Found)
    BY BackwardListTyped
  <2>3. CASE more = Append(values, t)
    <3>1. more \in Values /\ BackwardList(more, key, FALSE) = BackwardItems(t, key, FALSE) \o BackwardList(values, key, FALSE)
      BY <2>3, ListAppended
    <3>2. BackwardItems(t, key, FALSE) \in Seq(Found)
      BY BackwardItemsTyped
    <3>3. Len(BackwardItems(t, key, FALSE)) >= Len(<<>>) + 2
      <4>1. Len(<<>>) + 2 = 2
        OBVIOUS
      <4>2. Len(BackwardItems(t, key, FALSE)) >= 2
        BY <2>1, CommaAddsTwo, Zenon
      <4> QED BY <4>1, <4>2
    <3>4. <<>> \in Seq(Found) /\ <<>> \o BackwardList(values, key, FALSE) = BackwardList(values, key, FALSE)
      BY <2>2, ConcatEmptySeq
    <3>5. Len(BackwardItems(t, key, FALSE) \o BackwardList(values, key, FALSE))
             >= Len(<<>> \o BackwardList(values, key, FALSE)) + 2
      BY <2>2, <3>2, <3>3, <3>4, LongerLists
    <3> QED BY <3>1, <3>4, <3>5
  <2>4. CASE values # <<>> /\ more = Append(Front(values), Joined(Last(values), t))
    <3> DEFINE f == Front(values)
               l == Last(values)
               j == Joined(l, t)
    <3>1. f \in Values /\ l \in Texts /\ values = Append(f, l)
      BY <2>4, LastValue
    <3>2. more = Append(f, j)
      BY <2>4
    <3> HIDE DEF f, l
    <3>3. j \in Texts
      BY <3>1, JoinedParts
    <3>4. Len(BackwardItems(j, key, FALSE)) >= Len(BackwardItems(l, key, FALSE)) + 2
      BY <2>1, <3>1, CommaAddsTwo
    <3> HIDE DEF j
    <3>5. more \in Values /\ BackwardList(more, key, FALSE) = BackwardItems(j, key, FALSE) \o BackwardList(f, key, FALSE)
      BY <3>1, <3>2, <3>3, ListAppended
    <3>6. BackwardList(values, key, FALSE) = BackwardItems(l, key, FALSE) \o BackwardList(f, key, FALSE)
      BY <3>1, ListAppended
    <3>7. /\ BackwardItems(l, key, FALSE) \in Seq(Found) /\ BackwardItems(j, key, FALSE) \in Seq(Found)
          /\ BackwardList(f, key, FALSE) \in Seq(Found)
      BY <3>1, <3>3, BackwardItemsTyped, BackwardListTyped
    <3>8. Len(BackwardItems(j, key, FALSE) \o BackwardList(f, key, FALSE))
             >= Len(BackwardItems(l, key, FALSE) \o BackwardList(f, key, FALSE)) + 2
      BY <3>4, <3>7, LongerLists
    <3> QED BY <3>5, <3>6, <3>8
  <2> QED BY <2>3, <2>4 DEF Added
<1> QED BY <1>1, <1>2

\* One more in front.
LEMMA FirstOfList ==
    ASSUME NEW x \in Found, NEW list \in Seq(Found)
    PROVE  /\ <<x>> \o list \in Seq(Found) /\ Len(<<x>> \o list) = Len(list) + 1
           /\ (<<x>> \o list)[1] = x
           /\ \A i \in 1 .. Len(list) : (<<x>> \o list)[i + 1] = list[i]
<1> DEFINE w == <<x>> \o list
<1>1. <<x>> \in Seq(Found) /\ Len(<<x>>) = 1 /\ <<x>>[1] = x
  OBVIOUS
<1>2. Len(list) \in Nat
  OBVIOUS
<1>3. /\ w \in Seq(Found) /\ Len(w) = Len(<<x>>) + Len(list)
      /\ \A i \in 1 .. Len(<<x>>) + Len(list) : w[i] = IF i <= Len(<<x>>) THEN <<x>>[i] ELSE list[i - Len(<<x>>)]
  BY <1>1, ConcatProperties
<1> HIDE DEF w
<1>4. \A i \in 1 .. 1 + Len(list) : w[i] = IF i = 1 THEN x ELSE list[i - 1]
  BY <1>1, <1>2, <1>3
<1>5. w[1] = x
  BY <1>2, <1>4
<1>6. ASSUME NEW i \in 1 .. Len(list) PROVE w[i + 1] = list[i]
  <2>1. i + 1 \in 1 .. 1 + Len(list) /\ i + 1 # 1 /\ i + 1 - 1 = i
    BY <1>2
  <2> QED BY <1>4, <2>1
<1>7. Len(w) = Len(list) + 1
  BY <1>1, <1>2, <1>3
<1> QED BY <1>3, <1>5, <1>6, <1>7 DEF w

-----------------------------------------------------------------------------
(* The addresses of clients and proxies *)

Peers == Proxies \cup {Unknown}
Everybody == Clients \cup Peers

LEMMA AddressFacts ==
    /\ \A a \in Clients : /\ AddressOf(a) = Addresses[a] /\ AddressOf(a) # Invalid
                          /\ ~IsContainedInRanges(AddressOf(a), TrustedRanges)
    /\ \A a \in Proxies : /\ AddressOf(a) = Addresses[a] /\ AddressOf(a) # Invalid
                          /\ IsContainedInRanges(AddressOf(a), TrustedRanges)
    /\ AddressOf(Unknown) = Invalid
    /\ \A a \in Everybody : AddressOf(a) \in Found
<1>1. \A a \in Clients \cup Proxies : a \in DOMAIN Addresses /\ a # Unknown
  BY ClientIPAssumption
<1>2. \A a \in Clients \cup Proxies : AddressOf(a) = Addresses[a] /\ AddressOf(a) # Invalid
  BY <1>1, ClientIPAssumption DEF AddressOf
<1>3. AddressOf(Unknown) = Invalid
  BY DEF AddressOf
<1>4. \A a \in Everybody : AddressOf(a) \in Found
  <2> SUFFICES ASSUME NEW a \in Everybody PROVE AddressOf(a) \in Found
    OBVIOUS
  <2>1. CASE a = Unknown
    BY <1>3, <2>1 DEF Found
  <2>2. CASE a # Unknown
    <3>1. a \in Clients \cup Proxies
      BY <2>2 DEF Everybody, Peers
    <3> QED BY <1>1, <1>2, <3>1 DEF Found
  <2> QED BY <2>1, <2>2
<1> QED BY <1>2, <1>3, <1>4, RangesAssumption

LEMMA NotPunctuation ==
    ASSUME NEW a \in Everybody
    PROVE  a # "[" /\ a # "]" /\ a # Colon
BY ClientIPAssumption DEF Everybody, Peers, Punctuation

LEMMA PunctuationIsNoAddress ==
    \A c \in {"[", "]", Colon, "port"} : c \notin IPv6
BY ClientIPAssumption, AddressesAssumption DEF Punctuation

LEMMA OneOf ==
    ASSUME NEW S, NEW s \in Seq(S), NEW i \in 1 .. Len(s)
    PROVE  SubSeq(s, i, i) = <<s[i]>>
<1> DEFINE u == SubSeq(s, i, i)
           w == <<s[i]>>
<1>1. Len(s) \in Nat /\ i \in Int /\ s[i] \in S /\ \A k \in i .. i : k \in 1 .. Len(s)
  OBVIOUS
<1>2. /\ u \in Seq(S) /\ Len(u) = IF i <= i THEN i - i + 1 ELSE 0
      /\ \A k \in 1 .. i - i + 1 : u[k] = s[i + k - 1]
  BY <1>1, SubSeqProperties
<1>3. w \in Seq(S) /\ Len(w) = 1 /\ w[1] = s[i]
  BY <1>1
<1> HIDE DEF u, w
<1>4. Len(u) = 1 /\ u[1] = s[i]
  BY <1>1, <1>2
<1>5. u = w
  BY <1>2, <1>3, <1>4, SeqEqual
<1> QED BY <1>5 DEF u, w

\* A host and a port are taken apart, and the brackets of an IPv6 address with them.
LEMMA HostAndPort ==
    ASSUME NEW a \in Everybody, a \notin IPv6
    PROVE  HostOf(<<a, Colon, "port">>) = <<a>>
<1> DEFINE s == <<a, Colon, "port">>
           colons == {i \in DOMAIN s : s[i] = Colon \/ s[i] \in IPv6}
<1>1. Len(s) = 3 /\ DOMAIN s = 1 .. 3 /\ s[1] = a /\ s[2] = Colon /\ s[3] = "port"
  OBVIOUS
<1>2. a # "[" /\ a # "]" /\ a # Colon
  BY NotPunctuation
<1>3. Colon # "[" /\ Colon # "]" /\ "port" # Colon /\ "port" # "[" /\ "port" # "]"
  BY DEF Colon
<1>4. Colon \notin IPv6 /\ "port" \notin IPv6
  BY PunctuationIsNoAddress
<1>5. SubSeq(s, 1, 1) = <<a>>
  <2>1. s \in Seq({a, Colon, "port"}) /\ 1 \in 1 .. Len(s)
    BY <1>1
  <2> HIDE DEF s
  <2> QED BY <1>1, <2>1, OneOf
<1> HIDE DEF s
<1>6. colons = {2}
  BY <1>1, <1>2, <1>3, <1>4
<1>7. Max(colons) = 2
  BY <1>6 DEF Max
<1>8. "]" \notin ToSet(s)
  BY <1>1, <1>2, <1>3 DEF ToSet
<1>9. /\ \A k \in DOMAIN s : s[k] = "[" => k = 1
      /\ \A k \in 2 .. Len(s) : s[k] # "]"
  BY <1>1, <1>2, <1>3
<1> HIDE DEF colons
<1>10. HostOf(s) = IF colons = {} THEN s
                   ELSE IF /\ s[Max(colons)] = Colon
                           /\ IF s[1] = "[" THEN IndexOf(s, "]") = Max(colons) - 1
                              ELSE colons = {Max(colons)} /\ "]" \notin ToSet(s)
                           /\ \A k \in DOMAIN s : s[k] = "[" => k = 1
                           /\ \A k \in Max(colons) .. Len(s) : s[k] # "]"
                        THEN IF s[1] = "[" THEN SubSeq(s, 2, Max(colons) - 2) ELSE SubSeq(s, 1, Max(colons) - 1)
                        ELSE s
  BY DEF HostOf, colons
<1>11. s[1] # "[" /\ colons # {} /\ s[2] = Colon
  BY <1>1, <1>2, <1>6
<1>12. HostOf(s) = SubSeq(s, 1, 2 - 1)
  BY <1>6, <1>7, <1>8, <1>9, <1>10, <1>11
<1> QED BY <1>5, <1>12 DEF s

LEMMA BracketsAndPort ==
    ASSUME NEW a \in Everybody, a \in IPv6
    PROVE  HostOf(<<"[", a, "]", Colon, "port">>) = <<a>>
<1> DEFINE s == <<"[", a, "]", Colon, "port">>
           colons == {i \in DOMAIN s : s[i] = Colon \/ s[i] \in IPv6}
           ends == {i \in DOMAIN s : s[i] = "]"}
<1>1. /\ Len(s) = 5 /\ DOMAIN s = 1 .. 5 /\ s[1] = "[" /\ s[2] = a /\ s[3] = "]" /\ s[4] = Colon
      /\ s[5] = "port"
  OBVIOUS
<1>2. a # "[" /\ a # "]" /\ a # Colon
  BY NotPunctuation
<1>3. /\ Colon # "[" /\ Colon # "]" /\ "port" # Colon /\ "port" # "[" /\ "port" # "]"
      /\ "[" # "]"
  BY DEF Colon
<1>4. Colon \notin IPv6 /\ "port" \notin IPv6 /\ "[" \notin IPv6 /\ "]" \notin IPv6
  BY PunctuationIsNoAddress
<1>5. SubSeq(s, 2, 2) = <<a>>
  <2>1. s \in Seq({"[", a, "]", Colon, "port"}) /\ 2 \in 1 .. Len(s)
    BY <1>1
  <2> HIDE DEF s
  <2> QED BY <1>1, <2>1, OneOf
<1> HIDE DEF s
<1>6. colons = {2, 4} /\ ends = {3}
  BY <1>1, <1>2, <1>3, <1>4
<1>7. Max(colons) = 4
  BY <1>6 DEF Max
<1>8. IndexOf(s, "]") = 3
  BY <1>6 DEF IndexOf, FirstIn, Min
<1>9. /\ \A k \in DOMAIN s : s[k] = "[" => k = 1
      /\ \A k \in 4 .. Len(s) : s[k] # "]"
  BY <1>1, <1>2, <1>3
<1> HIDE DEF colons
<1>10. HostOf(s) = IF colons = {} THEN s
                   ELSE IF /\ s[Max(colons)] = Colon
                           /\ IF s[1] = "[" THEN IndexOf(s, "]") = Max(colons) - 1
                              ELSE colons = {Max(colons)} /\ "]" \notin ToSet(s)
                           /\ \A k \in DOMAIN s : s[k] = "[" => k = 1
                           /\ \A k \in Max(colons) .. Len(s) : s[k] # "]"
                        THEN IF s[1] = "[" THEN SubSeq(s, 2, Max(colons) - 2) ELSE SubSeq(s, 1, Max(colons) - 1)
                        ELSE s
  BY DEF HostOf, colons
<1>11. s[1] = "[" /\ colons # {} /\ s[4] = Colon /\ 4 - 1 = 3
  BY <1>1, <1>6
<1>12. HostOf(s) = SubSeq(s, 2, 4 - 2)
  BY <1>7, <1>8, <1>9, <1>10, <1>11
<1> QED BY <1>5, <1>12 DEF s

LEMMA SocketHasNoPort ==
    HostOf(<<Unknown>>) = <<Unknown>>
<1> DEFINE s == <<Unknown>>
           colons == {i \in DOMAIN s : s[i] = Colon \/ s[i] \in IPv6}
<1>1. DOMAIN s = 1 .. 1 /\ s[1] = Unknown
  OBVIOUS
<1>2. Unknown # Colon /\ Unknown \notin IPv6
  BY ClientIPAssumption, AddressesAssumption DEF Punctuation
<1> HIDE DEF s
<1>3. colons = {}
  BY <1>1, <1>2
<1>4. HostOf(s) = s
  BY <1>3 DEF HostOf
<1> QED BY <1>4 DEF s

LEMMA ParsedHost ==
    ASSUME NEW s, NEW a \in Everybody, HostOf(s) = <<a>>
    PROVE  ParseAddr(s) = AddressOf(a)
<1>1. Len(<<a>>) = 1 /\ <<a>>[1] = a
  OBVIOUS
<1>2. TrimMatchedEnds(<<a>>, "[", "]") = <<a>>
  BY <1>1 DEF TrimMatchedEnds
<1>3. ParseAddr(s) = IF a \in DOMAIN Addresses /\ Addresses[a].ip \notin Unspecified
                     THEN Addresses[a] ELSE Invalid
  BY <1>1, <1>2 DEF ParseAddr
<1>4. CASE a = Unknown
  BY <1>3, <1>4, ClientIPAssumption DEF AddressOf
<1>5. CASE a # Unknown
  <2>1. a \in Clients \cup Proxies
    BY <1>5 DEF Everybody, Peers
  <2> QED BY <1>3, <1>5, <2>1, ClientIPAssumption, RangesAssumption DEF AddressOf
<1> QED BY <1>4, <1>5

LEMMA RemoteIs ==
    ASSUME peer \in Everybody
    PROVE  RemoteAddr = AddressOf(peer)
<1>1. HostOf(RemoteAddrText) = <<peer>>
  BY HostAndPort, BracketsAndPort, SocketHasNoPort DEF RemoteAddrText
<1> QED BY <1>1, ParsedHost DEF RemoteAddr

-----------------------------------------------------------------------------
(* What the loops of the resolvers return *)

LEMMA FirstOutside ==
    ASSUME NEW addrs \in Seq(Found), NEW ranges, NEW n \in DOMAIN addrs,
           addrs[n] # Invalid, ~IsContainedInRanges(addrs[n], ranges),
           \A k \in 1 .. n - 1 : addrs[k] = Invalid \/ IsContainedInRanges(addrs[k], ranges)
    PROVE  FirstValidOutside(addrs, ranges) = addrs[n]
<1> DEFINE T == {k \in DOMAIN addrs : addrs[k] # Invalid /\ ~IsContainedInRanges(addrs[k], ranges)}
<1>1. Len(addrs) \in Nat /\ DOMAIN addrs = 1 .. Len(addrs)
  OBVIOUS
<1>2. n \in T /\ T \subseteq 1 .. Len(addrs)
  BY <1>1
<1>3. ASSUME NEW k \in T PROVE n <= k
  <2>1. k \in 1 .. Len(addrs) /\ ~(k \in 1 .. n - 1)
    BY <1>1
  <2> QED BY <1>1, <2>1
<1>4. FirstValidOutside(addrs, ranges) = IF FirstIn(T) = 0 THEN Failed ELSE addrs[FirstIn(T)]
  BY DEF FirstValidOutside
<1>5. n # 0
  BY <1>1
<1> HIDE DEF T
<1>6. FirstIn(T) = n
  BY <1>1, <1>2, <1>3, FirstIsIt
<1> QED BY <1>4, <1>5, <1>6

\* The loop of the trusted ranges does not get past an item it does not trust.
LEMMA UntrustedStops ==
    ASSUME NEW addrs \in Seq(Found), NEW ranges, NEW n \in DOMAIN addrs,
           addrs[n] = Invalid \/ ~IsContainedInRanges(addrs[n], ranges)
    PROVE  /\ \E k \in 1 .. n : FirstUntrusted(addrs, ranges) = addrs[k]
           /\ (\A k \in 1 .. n - 1 : addrs[k] # Invalid /\ IsContainedInRanges(addrs[k], ranges)) =>
                 FirstUntrusted(addrs, ranges) = addrs[n]
<1> DEFINE T == {k \in DOMAIN addrs : addrs[k] = Invalid \/ ~IsContainedInRanges(addrs[k], ranges)}
<1>1. Len(addrs) \in Nat /\ DOMAIN addrs = 1 .. Len(addrs)
  OBVIOUS
<1>2. n \in T /\ T \subseteq 1 .. Len(addrs)
  BY <1>1
<1>3. FirstUntrusted(addrs, ranges) = IF FirstIn(T) = 0 THEN Failed ELSE addrs[FirstIn(T)]
  BY DEF FirstUntrusted
<1>4. FirstIn(T) \in T /\ FirstIn(T) <= n
  <2> HIDE DEF T
  <2> QED BY <1>1, <1>2, PositionFound
<1>5. FirstIn(T) \in 1 .. n /\ FirstIn(T) # 0
  <2>1. FirstIn(T) \in 1 .. Len(addrs)
    BY <1>2, <1>4
  <2> HIDE DEF T
  <2> QED BY <1>1, <1>4, <2>1
<1>6. ASSUME \A k \in 1 .. n - 1 : addrs[k] # Invalid /\ IsContainedInRanges(addrs[k], ranges)
      PROVE  FirstIn(T) = n
  <2>1. ~(FirstIn(T) \in 1 .. n - 1)
    BY <1>4, <1>6
  <2> HIDE DEF T
  <2> QED BY <1>1, <1>5, <2>1
<1> HIDE DEF T
<1> QED BY <1>3, <1>5, <1>6

-----------------------------------------------------------------------------
(* The inductive invariant: what the proxies wrote is in front *)

\* A request has a header of one kind, and comes from a client through the proxies
\* that wrote down what they saw.
Forwarded ==
    /\ client \in Clients
    /\ header = [key |-> header.key, values |-> header.values]
    /\ header.key \in {"xff", "forwarded", "single"}
    /\ header.values \in Values
    /\ peer \in Everybody
    /\ seen \in Seq(Everybody)
    /\ seen = <<>> => peer = client
    /\ seen # <<>> => peer \in Peers /\ seen[1] \in {client, Unknown}
    /\ \A k \in 2 .. Len(seen) : seen[k] \in Peers

\* The first items of a list are the addresses that were written, the last first.
Reads(list, at) ==
    /\ Len(list) >= Len(at)
    /\ \A k \in 1 .. Len(at) : list[k] = AddressOf(at[Len(at) + 1 - k])

Quoting == header.key # "single" => Reads(BackwardAddrSeq(header.values, header.key), seen)

\* The list split at every comma is longer than what was written, or just that.
Splitting ==
    header.key # "single" =>
        LET list == BackwardList(header.values, header.key, FALSE)
        IN  /\ Len(list) >= Len(seen)
            /\ Len(list) = Len(seen) => Reads(list, seen)

LastWritten ==
    header.key = "single" /\ seen # <<>> =>
        header.values # <<>> /\ ParseAddr(Last(header.values)) = AddressOf(Last(seen))

ForwardedInv == Forwarded /\ Quoting /\ Splitting /\ LastWritten

\* What a proxy writes goes in front of what a list reads.
LEMMA ReadsOn ==
    ASSUME NEW list \in Seq(Found), NEW at \in Seq(Everybody), NEW a \in Everybody, Reads(list, at)
    PROVE  Reads(<<AddressOf(a)>> \o list, Append(at, a))
<1> DEFINE more == <<AddressOf(a)>> \o list
           next == Append(at, a)
<1>1. /\ Len(more) = Len(list) + 1 /\ more[1] = AddressOf(a)
      /\ \A i \in 1 .. Len(list) : more[i + 1] = list[i]
  BY FirstOfList, AddressFacts
<1>2. /\ Len(next) = Len(at) + 1 /\ next[Len(at) + 1] = a
      /\ \A i \in 1 .. Len(at) : next[i] = at[i]
  BY AppendProperties
<1>3. Len(list) \in Nat /\ Len(at) \in Nat /\ Len(list) >= Len(at)
      /\ \A k \in 1 .. Len(at) : list[k] = AddressOf(at[Len(at) + 1 - k])
  BY DEF Reads
<1> HIDE DEF more, next
<1>4. ASSUME NEW k \in 1 .. Len(next) PROVE more[k] = AddressOf(next[Len(next) + 1 - k])
  <2>1. CASE k = 1
    <3>1. Len(next) + 1 - k = Len(at) + 1
      BY <1>2, <1>3, <2>1
    <3> QED BY <1>1, <1>2, <2>1, <3>1
  <2>2. CASE k # 1
    <3> DEFINE i == k - 1
               j == Len(at) + 1 - i
    <3>1. i \in 1 .. Len(at) /\ i \in 1 .. Len(list) /\ k = i + 1 /\ j \in 1 .. Len(at)
          /\ Len(next) + 1 - k = j
      BY <1>2, <1>3, <2>2
    <3>2. list[i] = AddressOf(at[j])
      BY <1>3, <3>1
    <3> HIDE DEF i, j
    <3> QED BY <1>1, <1>2, <3>1, <3>2
  <2> QED BY <2>1, <2>2
<1>5. Len(more) >= Len(next)
  BY <1>1, <1>2, <1>3
<1> QED BY <1>4, <1>5 DEF Reads, more, next

\* The trusted peer: the client connects itself, or a proxy does.
LEMMA PeerIsTrusted ==
    ASSUME Forwarded
    PROVE  /\ RemoteAddr = AddressOf(peer)
           /\ UntrustedPeer <=> seen = <<>>
<1>1. RemoteAddr = AddressOf(peer)
  BY RemoteIs DEF Forwarded
<1>2. CASE seen = <<>>
  <2>1. peer = client /\ client \in Clients
    BY <1>2 DEF Forwarded
  <2> QED BY <1>1, <1>2, <2>1, AddressFacts DEF UntrustedPeer
<1>3. CASE seen # <<>>
  <2>1. peer \in Peers
    BY <1>3 DEF Forwarded
  <2>2. AddressOf(peer) = Invalid \/ IsContainedInRanges(AddressOf(peer), TrustedRanges)
    BY <2>1, AddressFacts DEF Peers
  <2> QED BY <1>1, <1>3, <2>2 DEF UntrustedPeer
<1> QED BY <1>1, <1>2, <1>3

\* The values list resolvers see.
LEMMA ListIsTyped ==
    ASSUME Forwarded
    PROVE  /\ BackwardAddrSeq(ListValues, header.key) \in Seq(Found)
           /\ header.key = "single" => BackwardAddrSeq(ListValues, header.key) = <<>>
           /\ header.key # "single" => ListValues = header.values
<1>1. <<>> \in Values /\ header.values \in Values /\ TRUE \in BOOLEAN
  BY DEF Forwarded, Values
<1>2. ASSUME NEW quotes \in BOOLEAN PROVE BackwardList(ListValues, header.key, quotes) \in Seq(Found)
  BY <1>1, BackwardListTyped DEF ListValues
<1>3. ASSUME NEW quotes \in BOOLEAN, header.key = "single" PROVE BackwardList(ListValues, header.key, quotes) = <<>>
  <2>1. ListValues = <<>>
    BY <1>3 DEF ListValues
  <2> QED BY <2>1, ListOfNone
<1>4. BackwardAddrSeq(ListValues, header.key) = BackwardList(ListValues, header.key, TRUE)
  BY DEF BackwardAddrSeq
<1>5. BackwardList(ListValues, header.key, TRUE) \in Seq(Found)
  BY <1>1, <1>2, Zenon
<1>6. header.key = "single" => BackwardList(ListValues, header.key, TRUE) = <<>>
  BY <1>1, <1>3, Zenon
<1> QED BY <1>4, <1>5, <1>6 DEF ListValues

\* The addresses of peers, and that of the client, are answers no header can forge.
Connected == {Addresses[a] : a \in {client} \cup Proxies} \cup {Failed}

LEMMA PeersAreConnected ==
    ASSUME Forwarded
    PROVE  /\ AddressOf(peer) \in Connected
           /\ \A k \in 1 .. Len(seen) : AddressOf(seen[k]) \in Connected
<1>1. \A a \in Peers \cup {client} : AddressOf(a) \in Connected
  BY AddressFacts DEF Forwarded, Peers, Connected, Failed
<1>2. peer \in Peers \cup {client}
  BY DEF Forwarded
<1>3. \A k \in 1 .. Len(seen) : seen[k] \in Peers \cup {client}
  <2> SUFFICES ASSUME NEW k \in 1 .. Len(seen) PROVE seen[k] \in Peers \cup {client}
    OBVIOUS
  <2>1. Len(seen) \in Nat /\ seen # <<>>
    BY DEF Forwarded
  <2>2. CASE k = 1
    BY <2>1, <2>2 DEF Forwarded, Peers
  <2>3. CASE k # 1
    <3>1. k \in 2 .. Len(seen)
      BY <2>1, <2>3
    <3> QED BY <3>1 DEF Forwarded
  <2> QED BY <2>2, <2>3
<1> QED BY <1>1, <1>2, <1>3

\* An item the proxies wrote.
LEMMA ItemIsPeer ==
    ASSUME ForwardedInv, header.key # "single", NEW n \in 1 .. Len(seen)
    PROVE  LET list == BackwardAddrSeq(ListValues, header.key)
           IN  n \in DOMAIN list /\ Len(seen) + 1 - n \in 1 .. Len(seen)
               /\ list[n] = AddressOf(seen[Len(seen) + 1 - n])
<1> DEFINE list == BackwardAddrSeq(ListValues, header.key)
<1>1. Forwarded
  BY DEF ForwardedInv
<1>2. list \in Seq(Found) /\ ListValues = header.values
  BY <1>1, ListIsTyped
<1>3. Reads(list, seen)
  BY <1>2 DEF ForwardedInv, Quoting
<1>4. Len(seen) \in Nat
  BY <1>1 DEF Forwarded
<1> HIDE DEF list
<1>5. Len(list) \in Nat /\ DOMAIN list = 1 .. Len(list)
  BY <1>2
<1>6. Len(list) >= Len(seen) /\ list[n] = AddressOf(seen[Len(seen) + 1 - n])
  BY <1>3 DEF Reads
<1>7. n \in DOMAIN list /\ Len(seen) + 1 - n \in 1 .. Len(seen)
  BY <1>4, <1>5, <1>6
<1> QED BY <1>6, <1>7 DEF list

\* The first item behind the proxies is the client's or hidden, and the ones
\* before it are peers.
LEMMA ItemsOfProxies ==
    ASSUME ForwardedInv, header.key # "single", seen # <<>>
    PROVE  LET list == BackwardAddrSeq(ListValues, header.key)
               n == Len(seen)
           IN  /\ n \in 1 .. Len(seen) /\ n \in DOMAIN list /\ list \in Seq(Found)
               /\ list[n] \in {AddressOf(client), Invalid}
               /\ ~Hidden => list[n] = AddressOf(client)
               /\ ~Hidden => \A k \in 1 .. n - 1 :
                     list[k] # Invalid /\ IsContainedInRanges(list[k], TrustedRanges)
<1> DEFINE list == BackwardAddrSeq(ListValues, header.key)
           n == Len(seen)
<1>1. Forwarded
  BY DEF ForwardedInv
<1>2. list \in Seq(Found)
  BY <1>1, ListIsTyped
<1>3. n \in Nat /\ n # 0 /\ DOMAIN seen = 1 .. n
  BY <1>1, EmptySeq DEF Forwarded
<1>4. \A k \in 1 .. n : /\ k \in DOMAIN list /\ n + 1 - k \in 1 .. n
                        /\ list[k] = AddressOf(seen[n + 1 - k])
  BY ItemIsPeer
<1>5. seen[1] \in {client, Unknown} /\ \A k \in 2 .. n : seen[k] \in Peers
  BY <1>1 DEF Forwarded
<1>6. ~Hidden => \A k \in 1 .. n : seen[k] # Unknown
  BY <1>3 DEF Hidden, ToSet
<1> HIDE DEF list, n
<1>7. n \in 1 .. n /\ n + 1 - n = 1 /\ 1 \in 1 .. n
  BY <1>3
<1>8. list[n] = AddressOf(seen[1])
  BY <1>4, <1>7
<1>9. list[n] \in {AddressOf(client), Invalid}
  BY <1>5, <1>8, AddressFacts
<1>10. ASSUME ~Hidden PROVE list[n] = AddressOf(client)
  BY <1>5, <1>6, <1>7, <1>8, <1>10
<1>11. ASSUME ~Hidden, NEW k \in 1 .. n - 1
       PROVE  list[k] # Invalid /\ IsContainedInRanges(list[k], TrustedRanges)
  <2>1. k \in 1 .. n /\ n + 1 - k \in 2 .. n /\ n + 1 - k \in 1 .. n
    BY <1>3
  <2>2. seen[n + 1 - k] \in Proxies
    BY <1>5, <1>6, <1>11, <2>1 DEF Peers
  <2> QED BY <1>4, <2>1, <2>2, AddressFacts
<1> QED BY <1>2, <1>4, <1>7, <1>9, <1>10, <1>11 DEF list, n

-----------------------------------------------------------------------------
(* The answers *)

Links == [kind : Kinds, n : Nat, guarded : BOOLEAN]

\* Without a way to trust the peer, or with a client for a peer, a guarded resolver
\* fails; otherwise it is asked.
LEMMA Guarded ==
    ASSUME Forwarded, NEW e, NEW ranged
    PROVE  /\ e.guarded /\ (~ranged \/ seen = <<>>) => Single(e, ranged) = Failed
           /\ ~(e.guarded /\ (~ranged \/ seen = <<>>)) =>
                 /\ e.kind = "remoteAddr" => Single(e, ranged) = RemoteAddr
                 /\ e.kind = "single" => Single(e, ranged) = SingleIPHeader
                 /\ e.kind = "leftmostNonPrivate" => Single(e, ranged) = LeftmostNonPrivate(e.n)
                 /\ e.kind = "rightmostNonPrivate" => Single(e, ranged) = RightmostNonPrivate
                 /\ e.kind = "rightmostTrustedCount" => Single(e, ranged) = RightmostTrustedCount(e.n)
                 /\ e.kind = "rightmostTrustedRange" => Single(e, ranged) = RightmostTrustedRange(ranged)
<1>1. UntrustedPeer <=> seen = <<>>
  BY PeerIsTrusted
<1>2. e.guarded /\ (~ranged \/ seen = <<>>) => Single(e, ranged) = Failed
  BY <1>1 DEF Single
<1>3. ASSUME ~(e.guarded /\ (~ranged \/ seen = <<>>))
      PROVE  Single(e, ranged) =
                CASE e.kind = "remoteAddr" -> RemoteAddr
                  [] e.kind = "single" -> SingleIPHeader
                  [] e.kind = "leftmostNonPrivate" -> LeftmostNonPrivate(e.n)
                  [] e.kind = "rightmostNonPrivate" -> RightmostNonPrivate
                  [] e.kind = "rightmostTrustedCount" -> RightmostTrustedCount(e.n)
                  [] e.kind = "rightmostTrustedRange" -> RightmostTrustedRange(ranged)
  <2>1. ~(e.guarded /\ (~ranged \/ UntrustedPeer))
    BY <1>1, <1>3
  <2> QED BY <2>1 DEF Single
<1> QED BY <1>2, <1>3

\* The kinds of resolvers, behind proxies.
LEMMA CountAnswers ==
    ASSUME ForwardedInv, NEW n \in Nat, n > 0, n <= Len(seen)
    PROVE  /\ RightmostTrustedCount(n) \in Connected
           /\ header.key # "single" /\ n = Len(seen) /\ ~Hidden => RightmostTrustedCount(n) = AddressOf(client)
<1> DEFINE list == BackwardAddrSeq(ListValues, header.key)
<1>1. Forwarded
  BY DEF ForwardedInv
<1>2. Len(seen) \in Nat
  BY <1>1 DEF Forwarded
<1>3. list \in Seq(Found) /\ (header.key = "single" => list = <<>>)
  BY <1>1, ListIsTyped
<1>4. RightmostTrustedCount(n) = IF n > Len(list) THEN Failed ELSE list[n]
  BY DEF RightmostTrustedCount
<1>5. header.key # "single" => /\ n \in DOMAIN list /\ Len(seen) + 1 - n \in 1 .. Len(seen)
                               /\ list[n] = AddressOf(seen[Len(seen) + 1 - n])
  <2>1. n \in 1 .. Len(seen)
    BY <1>2
  <2> QED BY <2>1, ItemIsPeer
<1>6. header.key # "single" /\ n = Len(seen) /\ ~Hidden => list[n] = AddressOf(client)
  <2>1. n = Len(seen) => seen # <<>>
    BY <1>2
  <2> QED BY <2>1, ItemsOfProxies
<1> HIDE DEF list
<1>7. Len(list) \in Nat /\ DOMAIN list = 1 .. Len(list)
  BY <1>3
<1>8. CASE header.key = "single"
  <2>1. n > Len(list)
    BY <1>3, <1>8
  <2> QED BY <1>4, <1>8, <2>1 DEF Connected
<1>9. CASE header.key # "single"
  <2>1. ~(n > Len(list)) /\ RightmostTrustedCount(n) = list[n]
    BY <1>4, <1>5, <1>7, <1>9
  <2>2. list[n] \in Connected
    BY <1>1, <1>5, <1>9, PeersAreConnected
  <2> QED BY <1>6, <2>1, <2>2
<1> QED BY <1>8, <1>9

LEMMA RangeAnswers ==
    ASSUME ForwardedInv, NEW ranged \in BOOLEAN
    PROVE  /\ RightmostTrustedRange(ranged) \in Connected
           /\ header.key # "single" /\ ranged /\ ~Hidden => RightmostTrustedRange(ranged) = AddressOf(client)
<1> DEFINE list == BackwardAddrSeq(ListValues, header.key)
           n == Len(seen)
<1>1. Forwarded
  BY DEF ForwardedInv
<1>2. RemoteAddr = AddressOf(peer) /\ (UntrustedPeer <=> seen = <<>>) /\ AddressOf(peer) \in Connected
  BY <1>1, PeerIsTrusted, PeersAreConnected
<1>3. CASE ~ranged
  BY <1>3 DEF RightmostTrustedRange, Connected
<1>4. CASE ranged /\ seen = <<>>
  <2>1. peer = client
    BY <1>1, <1>4 DEF Forwarded
  <2> QED BY <1>2, <1>4, <2>1 DEF RightmostTrustedRange
<1>5. CASE ranged /\ seen # <<>> /\ header.key = "single"
  <2>1. list = <<>>
    BY <1>1, <1>5, ListIsTyped
  <2>2. RightmostTrustedRange(ranged) = FirstUntrusted(<<>>, TrustedRanges)
    BY <1>2, <1>5, <2>1 DEF RightmostTrustedRange
  <2>3. FirstUntrusted(<<>>, TrustedRanges) = Failed
    BY DEF FirstUntrusted, FirstIn
  <2> QED BY <1>5, <2>2, <2>3 DEF Connected
<1>6. CASE ranged /\ seen # <<>> /\ header.key # "single"
  <2>1. RightmostTrustedRange(ranged) = FirstUntrusted(list, TrustedRanges)
    BY <1>2, <1>6 DEF RightmostTrustedRange
  <2>2. /\ n \in 1 .. Len(seen) /\ n \in DOMAIN list /\ list \in Seq(Found)
        /\ list[n] \in {AddressOf(client), Invalid}
        /\ ~Hidden => list[n] = AddressOf(client)
        /\ ~Hidden => \A k \in 1 .. n - 1 :
              list[k] # Invalid /\ IsContainedInRanges(list[k], TrustedRanges)
    BY <1>6, ItemsOfProxies
  <2>3. \A k \in 1 .. n : list[k] \in Connected
    <3>1. \A k \in 1 .. n : /\ Len(seen) + 1 - k \in 1 .. Len(seen)
                            /\ list[k] = AddressOf(seen[Len(seen) + 1 - k])
      BY <1>6, ItemIsPeer
    <3> QED BY <1>1, <3>1, PeersAreConnected
  <2>4. list[n] = Invalid \/ ~IsContainedInRanges(list[n], TrustedRanges)
    BY <1>1, <2>2, AddressFacts DEF Forwarded
  <2> HIDE DEF list, n
  <2>5. /\ \E k \in 1 .. n : FirstUntrusted(list, TrustedRanges) = list[k]
        /\ (\A k \in 1 .. n - 1 : list[k] # Invalid /\ IsContainedInRanges(list[k], TrustedRanges)) =>
              FirstUntrusted(list, TrustedRanges) = list[n]
    BY <2>2, <2>4, UntrustedStops
  <2> QED BY <2>1, <2>2, <2>3, <2>5
<1> QED BY <1>3, <1>4, <1>5, <1>6

LEMMA RightmostAnswers ==
    ASSUME ForwardedInv, header.key # "single", seen # <<>>, ~Hidden
    PROVE  RightmostNonPrivate = AddressOf(client)
<1> DEFINE list == BackwardAddrSeq(ListValues, header.key)
           n == Len(seen)
<1>1. /\ n \in DOMAIN list /\ list \in Seq(Found)
      /\ list[n] = AddressOf(client)
      /\ \A k \in 1 .. n - 1 : IsContainedInRanges(list[k], TrustedRanges)
  BY ItemsOfProxies
<1>2. RightmostNonPrivate = FirstValidOutside(list, TrustedRanges)
  BY DEF RightmostNonPrivate
<1>3. AddressOf(client) # Invalid /\ ~IsContainedInRanges(AddressOf(client), TrustedRanges)
  BY AddressFacts DEF ForwardedInv, Forwarded
<1> HIDE DEF list, n
<1>4. FirstValidOutside(list, TrustedRanges) = list[n]
  BY <1>1, <1>3, FirstOutside
<1> QED BY <1>1, <1>2, <1>4

LEMMA LeftmostAnswers ==
    ASSUME ForwardedInv, header.key # "single", OwnList, ~Hidden, NEW limit \in Nat, limit > 0
    PROVE  LeftmostNonPrivate(limit) = AddressOf(client)
<1> DEFINE list == BackwardList(header.values, header.key, FALSE)
           addrs == AddrSeq(ListValues, header.key)
           n == Len(seen)
           m == Min({limit, Len(addrs)})
           part == SubSeq(addrs, 1, m)
<1>1. Forwarded
  BY DEF ForwardedInv
<1>2. n \in Nat /\ n # 0 /\ DOMAIN seen = 1 .. n
  BY <1>1, EmptySeq DEF Forwarded, OwnList
<1>3. addrs = Reverse(list) /\ Len(addrs) = n
  BY <1>1, ListIsTyped DEF AddrSeq, OwnList
<1>4. list \in Seq(Found)
  <2>1. \A quotes \in BOOLEAN : BackwardList(header.values, header.key, quotes) \in Seq(Found)
    BY <1>1, BackwardListTyped DEF Forwarded
  <2> QED BY <2>1, Zenon
<1>5. Len(list) = n => Reads(list, seen)
  BY DEF ForwardedInv, Splitting
<1>6. LeftmostNonPrivate(limit) = FirstValidOutside(part, TrustedRanges)
  BY DEF LeftmostNonPrivate
<1>7. seen[1] = client /\ client \in Clients
  BY <1>1, <1>2 DEF Forwarded, Hidden, ToSet
<1> HIDE DEF list, addrs, n
<1>8. addrs \in Seq(Found) /\ Len(addrs) = Len(list) /\ addrs[1] = list[Len(list)]
  <2>1. Len(list) \in Nat /\ \A i \in 1 .. Len(list) : Len(list) - i + 1 \in 1 .. Len(list)
    BY <1>4
  <2>2. addrs = [i \in 1 .. Len(list) |-> list[Len(list) - i + 1]]
    BY <1>3 DEF Reverse
  <2>3. addrs \in Seq(Found) /\ Len(addrs) = Len(list)
    BY <1>4, <2>1, <2>2
  <2>4. 1 \in 1 .. Len(list) /\ Len(list) - 1 + 1 = Len(list)
    BY <1>2, <1>3, <2>1, <2>3
  <2> QED BY <2>2, <2>3, <2>4
<1>9. addrs[1] = AddressOf(client)
  <2>1. Reads(list, seen) /\ Len(list) = n
    BY <1>3, <1>5, <1>8
  <2>2. n \in 1 .. n /\ n + 1 - n = 1
    BY <1>2
  <2>3. list[n] = AddressOf(seen[n + 1 - n])
    BY <2>1, <2>2 DEF Reads, n
  <2> QED BY <1>7, <1>8, <2>1, <2>2, <2>3
<1>10. m \in 1 .. Len(addrs)
  <2> DEFINE T == {limit, Len(addrs)}
  <2>1. T \subseteq 0 .. limit + Len(addrs) /\ T # {} /\ limit + Len(addrs) \in Nat
    BY <1>2, <1>3
  <2>2. Min(T) \in T /\ \A y \in T : Min(T) <= y
    <3> HIDE DEF T
    <3> QED BY <2>1, EndsOfPositions
  <2>3. Len(addrs) \in T
    OBVIOUS
  <2> QED BY <1>2, <1>3, <2>2, <2>3
<1> HIDE DEF m
<1>11. part \in Seq(Found) /\ Len(part) = m /\ part[1] = addrs[1]
  <2>1. \A i \in 1 .. m : i \in 1 .. Len(addrs)
    BY <1>2, <1>3, <1>10
  <2>2. /\ part \in Seq(Found)
        /\ Len(part) = IF 1 <= m THEN m - 1 + 1 ELSE 0
        /\ \A i \in 1 .. m - 1 + 1 : part[i] = addrs[1 + i - 1]
    BY <1>2, <1>3, <1>8, <1>10, <2>1, SubSeqProperties
  <2>3. m \in Nat /\ 1 <= m /\ 1 \in 1 .. m - 1 + 1 /\ 1 + 1 - 1 = 1 /\ m - 1 + 1 = m
    BY <1>2, <1>3, <1>10
  <2> HIDE DEF part
  <2> QED BY <2>2, <2>3
<1> HIDE DEF part
<1>12. 1 \in DOMAIN part /\ \A k \in 1 .. 1 - 1 : FALSE
  BY <1>2, <1>3, <1>10, <1>11
<1>13. part[1] # Invalid /\ ~IsContainedInRanges(part[1], TrustedRanges)
  BY <1>7, <1>9, <1>11, AddressFacts
<1>14. FirstValidOutside(part, TrustedRanges) = part[1]
  BY <1>11, <1>12, <1>13, FirstOutside
<1> QED BY <1>6, <1>9, <1>11, <1>14

LEMMA SingleAnswers ==
    ASSUME ForwardedInv, header.key = "single", Len(seen) = 1, ~Hidden
    PROVE  SingleIPHeader = AddressOf(client)
<1>1. seen # <<>> /\ Last(seen) = seen[1] /\ DOMAIN seen = 1 .. 1
  <2>1. seen \in Seq(Everybody)
    BY DEF ForwardedInv, Forwarded
  <2>2. seen # <<>>
    BY <2>1, EmptySeq
  <2>3. DOMAIN seen = 1 .. Len(seen)
    BY <2>1
  <2> QED BY <2>2, <2>3 DEF Last
<1>2. seen[1] = client
  BY <1>1 DEF ForwardedInv, Forwarded, Hidden, ToSet
<1>3. header.values # <<>> /\ ParseAddr(Last(header.values)) = AddressOf(Last(seen))
  BY <1>1 DEF ForwardedInv, LastWritten
<1> QED BY <1>1, <1>2, <1>3 DEF SingleIPHeader

LEMMA FirstOfChain ==
    ASSUME NEW r \in Seq(Links), NEW ranged
    PROVE  /\ (\A i \in DOMAIN r : Single(r[i], ranged) \in Connected) => Resolved(r, ranged) \in Connected
           /\ \A n \in DOMAIN r :
                 Single(r[n], ranged) # Failed /\ (\A i \in 1 .. n - 1 : Single(r[i], ranged) = Failed) =>
                    Resolved(r, ranged) = Single(r[n], ranged)
<1> DEFINE T == {k \in DOMAIN r : Single(r[k], ranged) # Failed}
<1>1. Len(r) \in Nat /\ DOMAIN r = 1 .. Len(r) /\ T \subseteq 1 .. Len(r) /\ T \subseteq DOMAIN r
  OBVIOUS
<1>2. Resolved(r, ranged) = IF FirstIn(T) = 0 THEN Failed ELSE Single(r[FirstIn(T)], ranged)
  <2> DEFINE answers == [k \in DOMAIN r |-> Single(r[k], ranged)]
  <2>1. /\ {k \in DOMAIN answers : answers[k] # Failed} = T
        /\ \A k \in DOMAIN r : answers[k] = Single(r[k], ranged)
    OBVIOUS
  <2>2. Resolved(r, ranged) = IF FirstIn(T) = 0 THEN Failed ELSE answers[FirstIn(T)]
    <3>1. Resolved(r, ranged) = FirstAnswer(answers)
      BY DEF Resolved
    <3> HIDE DEF answers, T
    <3>2. FirstAnswer(answers) = IF FirstIn(T) = 0 THEN Failed ELSE answers[FirstIn(T)]
      BY <2>1, Zenon DEF FirstAnswer
    <3> QED BY <3>1, <3>2
  <2>3. FirstIn(T) = 0 \/ FirstIn(T) \in DOMAIN r
    <3> HIDE DEF T
    <3> QED BY <1>1, PositionFound
  <2> HIDE DEF answers, T
  <2> QED BY <2>1, <2>2, <2>3
<1>3. FirstIn(T) # 0 => FirstIn(T) \in DOMAIN r
  <2> HIDE DEF T
  <2> QED BY <1>1, PositionFound
<1>4. ASSUME NEW n \in DOMAIN r, Single(r[n], ranged) # Failed,
             \A i \in 1 .. n - 1 : Single(r[i], ranged) = Failed
      PROVE  FirstIn(T) = n /\ n # 0
  <2>1. n \in T
    BY <1>4
  <2>2. ASSUME NEW k \in T PROVE n <= k
    <3>1. k \in 1 .. Len(r) /\ ~(k \in 1 .. n - 1)
      BY <1>1, <1>4
    <3> QED BY <1>1, <3>1
  <2> HIDE DEF T
  <2> QED BY <1>1, <2>1, <2>2, FirstIsIt
<1> HIDE DEF T
<1> QED BY <1>2, <1>3, <1>4 DEF Connected

LEMMA ResolverFacts ==
    ASSUME NEW r \in Resolvers
    PROVE  /\ r \in Seq(Links) /\ Len(r) \in Nat /\ Len(r) # 0
           /\ \A i \in 1 .. Len(r) - 1 : r[i].guarded
           /\ \A i \in DOMAIN r : /\ r[i].kind \in Kinds /\ r[i].n \in Nat
                                  /\ r[i].kind \in {"leftmostNonPrivate", "rightmostTrustedCount"} => r[i].n > 0
<1>1. r \in Seq(Links) /\ r # <<>>
  BY ResolversAssumption DEF Links
<1>2. Len(r) \in Nat /\ Len(r) # 0
  BY <1>1, EmptySeq
<1>3. \A i \in DOMAIN r : r[i] \in Links
  BY <1>1
<1>4. \A i \in DOMAIN r : r[i].kind \in Kinds /\ r[i].n \in Nat
  BY <1>3 DEF Links
<1> QED BY <1>1, <1>2, <1>4, ResolversAssumption

LEMMA ConnectedAnswers ==
    ASSUME ForwardedInv, NEW r \in Resolvers, NEW ranged \in BOOLEAN, GoesByProxies(r)
    PROVE  Resolved(r, ranged) \in Connected
<1>1. Forwarded
  BY DEF ForwardedInv
<1>2. ASSUME NEW i \in DOMAIN r PROVE Single(r[i], ranged) \in Connected
  <2> DEFINE e == r[i]
  <2>1. e.n \in Nat /\ (e.kind = "rightmostTrustedCount" => e.n > 0)
    BY ResolverFacts
  <2>2. \/ e.kind = "remoteAddr"
        \/ e.kind = "rightmostTrustedRange"
        \/ e.kind = "rightmostTrustedCount" /\ e.n <= Len(seen)
    BY DEF GoesByProxies
  <2> HIDE DEF e
  <2>3. RemoteAddr \in Connected
    BY <1>1, PeerIsTrusted, PeersAreConnected
  <2>4. RightmostTrustedRange(ranged) \in Connected
    BY RangeAnswers
  <2>5. e.kind = "rightmostTrustedCount" => RightmostTrustedCount(e.n) \in Connected
    BY <2>1, <2>2, CountAnswers
  <2>6. Single(e, ranged) \in Connected
    <3>1. CASE e.guarded /\ (~ranged \/ seen = <<>>)
      BY <1>1, <3>1, Guarded DEF Connected
    <3>2. CASE ~(e.guarded /\ (~ranged \/ seen = <<>>))
      BY <1>1, <2>2, <2>3, <2>4, <2>5, <3>2, Guarded
    <3> QED BY <3>1, <3>2
  <2> QED BY <2>6 DEF e
<1>3. r \in Seq(Links)
  BY ResolverFacts
<1> QED BY <1>2, <1>3, FirstOfChain

LEMMA SuitedAnswers ==
    ASSUME ForwardedInv, ~Hidden, NEW e, e.kind \in Kinds, e.n \in Nat,
           e.kind \in {"leftmostNonPrivate", "rightmostTrustedCount"} => e.n > 0,
           NEW ranged \in BOOLEAN, SuitedOne(e, ranged)
    PROVE  Single(e, ranged) = AddressOf(client)
<1>1. Forwarded
  BY DEF ForwardedInv
<1>2. ~(e.guarded /\ (~ranged \/ seen = <<>>))
  BY DEF SuitedOne
<1>3. CASE e.kind = "remoteAddr"
  <2>1. seen = <<>>
    BY <1>3 DEF SuitedOne
  <2>2. peer = client
    BY <1>1, <2>1 DEF Forwarded
  <2>3. RemoteAddr = AddressOf(client)
    BY <1>1, <2>2, PeerIsTrusted
  <2> QED BY <1>1, <1>2, <1>3, <2>3, Guarded
<1>4. CASE e.kind = "single"
  <2>1. header.key = "single" /\ Len(seen) = 1
    BY <1>4 DEF SuitedOne
  <2>2. SingleIPHeader = AddressOf(client)
    BY <2>1, SingleAnswers
  <2> QED BY <1>1, <1>2, <1>4, <2>2, Guarded
<1>5. CASE e.kind = "leftmostNonPrivate"
  <2>1. header.key # "single" /\ OwnList
    BY <1>5 DEF SuitedOne
  <2>2. LeftmostNonPrivate(e.n) = AddressOf(client)
    BY <1>5, <2>1, LeftmostAnswers
  <2> QED BY <1>1, <1>2, <1>5, <2>2, Guarded
<1>6. CASE e.kind = "rightmostNonPrivate"
  <2>1. header.key # "single" /\ seen # <<>>
    BY <1>6 DEF SuitedOne
  <2>2. RightmostNonPrivate = AddressOf(client)
    BY <2>1, RightmostAnswers
  <2> QED BY <1>1, <1>2, <1>6, <2>2, Guarded
<1>7. CASE e.kind = "rightmostTrustedCount"
  <2>1. header.key # "single" /\ Len(seen) = e.n
    BY <1>7 DEF SuitedOne
  <2>2. RightmostTrustedCount(e.n) = AddressOf(client)
    <3>1. e.n <= Len(seen) /\ e.n > 0
      BY <1>7, <2>1
    <3> QED BY <2>1, <3>1, CountAnswers
  <2> QED BY <1>1, <1>2, <1>7, <2>2, Guarded
<1>8. CASE e.kind = "rightmostTrustedRange"
  <2>1. header.key # "single" /\ ranged
    BY <1>8 DEF SuitedOne
  <2>2. RightmostTrustedRange(ranged) = AddressOf(client)
    BY <2>1, RangeAnswers
  <2> QED BY <1>1, <1>2, <1>8, <2>2, Guarded
<1> QED BY <1>3, <1>4, <1>5, <1>6, <1>7, <1>8 DEF Kinds

LEMMA ClientAnswers ==
    ASSUME ForwardedInv, ~Hidden, NEW r \in Resolvers, NEW ranged \in BOOLEAN, Suited(r, ranged)
    PROVE  Resolved(r, ranged) = Addresses[client]
<1>1. Forwarded /\ client \in Clients
  BY DEF ForwardedInv, Forwarded
<1>2. AddressOf(client) = Addresses[client] /\ AddressOf(client) # Failed
  BY <1>1, AddressFacts DEF Failed
<1>3. /\ r \in Seq(Links) /\ Len(r) \in Nat /\ Len(r) # 0 /\ DOMAIN r = 1 .. Len(r)
      /\ \A i \in 1 .. Len(r) - 1 : r[i].guarded
      /\ \A i \in DOMAIN r : /\ r[i].kind \in Kinds /\ r[i].n \in Nat
                             /\ r[i].kind \in {"leftmostNonPrivate", "rightmostTrustedCount"} => r[i].n > 0
  BY ResolverFacts
<1> DEFINE n == IF seen = <<>> THEN Len(r) ELSE 1
<1>4. n \in DOMAIN r
  BY <1>3
<1>5. SuitedOne(r[n], ranged)
  BY DEF Suited, Last, Head
<1>6. \A i \in 1 .. n - 1 : Single(r[i], ranged) = Failed
  <2>1. CASE seen = <<>>
    <3>1. \A i \in 1 .. n - 1 : r[i].guarded
      BY <1>3, <2>1
    <3> HIDE DEF n
    <3> QED BY <1>1, <2>1, <3>1, Guarded
  <2>2. CASE seen # <<>>
    <3>1. n = 1
      BY <2>2
    <3> HIDE DEF n
    <3> QED BY <3>1
  <2> QED BY <2>1, <2>2
<1> HIDE DEF n
<1>7. Single(r[n], ranged) = AddressOf(client)
  BY <1>3, <1>4, <1>5, SuitedAnswers
<1>8. Resolved(r, ranged) = Single(r[n], ranged)
  BY <1>2, <1>3, <1>4, <1>6, <1>7, FirstOfChain
<1> QED BY <1>2, <1>7, <1>8

-----------------------------------------------------------------------------
(* The proxies keep the invariant *)

LEMMA StringsAreTexts ==
    /\ \A t \in Seq(STRING) : t \in Texts
    /\ \A v \in Seq(Seq(STRING)) : v \in Values
<1>1. \A t \in Seq(STRING) : t \in Texts
  BY DEF Texts, Chars
<1>2. ASSUME NEW v \in Seq(Seq(STRING)) PROVE v \in Values
  <2>1. Len(v) \in Nat /\ v = [i \in 1 .. Len(v) |-> v[i]] /\ \A i \in 1 .. Len(v) : v[i] \in Seq(STRING)
    OBVIOUS
  <2>2. \A i \in 1 .. Len(v) : v[i] \in Texts
    BY <1>1, <2>1
  <2> QED BY <2>1, <2>2 DEF Values
<1> QED BY <1>1, <1>2

LEMMA WrittenFacts ==
    ASSUME NEW a \in Everybody
    PROVE  /\ \A t \in Written("single", a) : t \in Texts /\ ParseAddr(t) = AddressOf(a)
           /\ \A key \in {"xff", "forwarded"} : \A t \in Written(key, a) :
                 OneItem(t, key, TRUE) /\ Item(t, key) = AddressOf(a)
<1>1. a \in Clients \cup Proxies \cup {Unknown}
  BY DEF Everybody, Peers
<1> QED BY <1>1, WrittenAssumption, StringsAreTexts DEF OneItem

LEMMA NoneReads ==
    ASSUME NEW list \in Seq(Found)
    PROVE  Reads(list, <<>>)
<1>1. Len(list) \in Nat /\ Len(<<>>) = 0 /\ \A k \in 1 .. Len(<<>>) : FALSE
  OBVIOUS
<1> QED BY <1>1 DEF Reads

LEMMA ForwardedInit ==
    ASSUME ClientIPInit
    PROVE  ForwardedInv
<1> USE DEF ClientIPInit
<1>1. /\ header.key \in {"xff", "forwarded", "single"}
      /\ header = [key |-> header.key, values |-> header.values]
      /\ header.values \in Values
  BY HeadersAssumption, StringsAreTexts
<1>2. Forwarded
  BY <1>1 DEF Forwarded, Everybody
<1>3. ASSUME NEW quotes \in BOOLEAN PROVE BackwardList(header.values, header.key, quotes) \in Seq(Found)
  BY <1>1, BackwardListTyped
<1>4. Quoting
  <2>1. BackwardList(header.values, header.key, TRUE) \in Seq(Found)
    BY <1>3, Zenon
  <2> QED BY <2>1, NoneReads DEF Quoting, BackwardAddrSeq
<1>5. Splitting
  <2>1. BackwardList(header.values, header.key, FALSE) \in Seq(Found)
    BY <1>3, Zenon
  <2>2. Reads(BackwardList(header.values, header.key, FALSE), seen)
    BY <2>1, NoneReads
  <2> QED BY <2>2 DEF Splitting, Reads
<1>6. LastWritten
  BY DEF LastWritten
<1> QED BY <1>2, <1>4, <1>5, <1>6 DEF ForwardedInv

LEMMA ForwardedProxy ==
    ASSUME ForwardedInv, Proxy
    PROVE  ForwardedInv'
<1>1. Forwarded /\ header.key \in {"xff", "forwarded", "single"} /\ header.values \in Values
  BY DEF ForwardedInv, Forwarded
<1>2. PICK a \in {peer, Unknown} : \E text \in Written(header.key, a) :
         /\ header' \in [key : {header.key}, values : Extended(text)]
         /\ seen' = Append(seen, a)
  BY DEF Proxy
<1>3. PICK text \in Written(header.key, a) : header' \in [key : {header.key}, values : Extended(text)]
  BY <1>2
<1>4. a \in Everybody
  BY <1>1 DEF Forwarded, Everybody, Peers
<1>5. text \in Texts
  BY <1>1, <1>4, WrittenFacts DEF OneItem
<1>6. /\ header' = [key |-> header'.key, values |-> header'.values]
      /\ header'.key = header.key /\ header'.values \in Extended(text)
  BY <1>3
<1>7. header'.values \in Added(header.values, text)
      /\ (header.key = "single" => header'.values = Append(header.values, text))
  BY <1>6 DEF Extended, Added, Joined
<1>8. header'.values \in Values
  BY <1>1, <1>5, <1>7, PlainListGrows
<1>9. seen \in Seq(Everybody) /\ Len(seen) \in Nat
  BY <1>1 DEF Forwarded
<1>10. /\ seen' \in Seq(Everybody) /\ Len(seen') = Len(seen) + 1 /\ seen'[Len(seen) + 1] = a
       /\ \A k \in 1 .. Len(seen) : seen'[k] = seen[k]
  BY <1>2, <1>4, <1>9, AppendProperties
<1>11. seen' # <<>>
  BY <1>9, <1>10
<1>12. client' = client /\ peer' \in Peers
  BY DEF Proxy, Peers
<1>13. Forwarded'
  <2>1. seen'[1] \in {client, Unknown}
    <3>1. CASE seen = <<>>
      <4>1. Len(seen) + 1 = 1 /\ peer = client
        BY <1>1, <3>1 DEF Forwarded
      <4> QED BY <1>10, <4>1
    <3>2. CASE seen # <<>>
      <4>1. 1 \in 1 .. Len(seen)
        BY <1>9, <3>2, EmptySeq
      <4> QED BY <1>1, <1>10, <3>2, <4>1 DEF Forwarded
    <3> QED BY <3>1, <3>2
  <2>2. ASSUME NEW k \in 2 .. Len(seen') PROVE seen'[k] \in Peers
    <3>1. CASE k = Len(seen) + 1
      <4>1. seen # <<>>
        <5>1. Len(seen) # 0
          BY <1>9, <3>1
        <5> QED BY <5>1
      <4>2. a \in Peers
        BY <1>1, <4>1 DEF Forwarded, Peers
      <4> QED BY <1>10, <3>1, <4>2
    <3>2. CASE k # Len(seen) + 1
      <4>1. k \in 2 .. Len(seen) /\ k \in 1 .. Len(seen)
        BY <1>9, <1>10, <3>2
      <4>2. seen[k] \in Peers
        BY <1>1, <4>1 DEF Forwarded
      <4> QED BY <1>10, <4>1, <4>2
    <3> QED BY <3>1, <3>2
  <2>3. client' \in Clients /\ client' = client
    BY <1>1, <1>12 DEF Forwarded
  <2>4. peer' \in Everybody
    BY <1>12 DEF Everybody
  <2>5. header'.key \in {"xff", "forwarded", "single"}
    BY <1>1, <1>6
  <2> QED BY <1>6, <1>8, <1>10, <1>11, <1>12, <2>1, <2>2, <2>3, <2>4, <2>5 DEF Forwarded
<1>14. Quoting'
  <2> SUFFICES ASSUME header.key # "single"
               PROVE  Reads(BackwardAddrSeq(header'.values, header.key), seen')
    BY <1>6 DEF Quoting
  <2>1. header.key \in {"xff", "forwarded"}
    BY <1>1
  <2>2. OneItem(text, header.key, TRUE) /\ Item(text, header.key) = AddressOf(a)
    BY <1>4, <2>1, WrittenFacts
  <2>3. \A quotes \in BOOLEAN : OneItem(text, header.key, quotes) =>
           BackwardList(header'.values, header.key, quotes) =
              <<Item(text, header.key)>> \o BackwardList(header.values, header.key, quotes)
    BY <1>1, <1>7, ListGrows
  <2>4. BackwardList(header'.values, header.key, TRUE) =
           <<AddressOf(a)>> \o BackwardList(header.values, header.key, TRUE)
    BY <2>2, <2>3, Zenon
  <2>5. \A quotes \in BOOLEAN : BackwardList(header.values, header.key, quotes) \in Seq(Found)
    BY <1>1, BackwardListTyped
  <2>6. BackwardList(header.values, header.key, TRUE) \in Seq(Found)
    BY <2>5, Zenon
  <2>7. Reads(BackwardList(header.values, header.key, TRUE), seen)
    BY DEF ForwardedInv, Quoting, BackwardAddrSeq
  <2>8. Reads(<<AddressOf(a)>> \o BackwardList(header.values, header.key, TRUE), Append(seen, a))
    BY <1>4, <1>9, <2>6, <2>7, ReadsOn
  <2> QED BY <1>2, <2>4, <2>8 DEF BackwardAddrSeq
<1>15. Splitting'
  <2> DEFINE list == BackwardList(header.values, header.key, FALSE)
             more == BackwardList(header'.values, header.key, FALSE)
  <2> SUFFICES ASSUME header.key # "single"
               PROVE  /\ Len(more) >= Len(seen')
                      /\ Len(more) = Len(seen') => Reads(more, seen')
    BY <1>6 DEF Splitting
  <2>1. header.key \in {"xff", "forwarded"}
    BY <1>1
  <2>2. Item(text, header.key) = AddressOf(a)
    BY <1>4, <2>1, WrittenFacts
  <2>3. more = <<AddressOf(a)>> \o list \/ Len(more) >= Len(list) + 2
    BY <1>1, <1>5, <1>7, <2>2, PlainListGrows
  <2>4. \A quotes \in BOOLEAN : /\ BackwardList(header.values, header.key, quotes) \in Seq(Found)
                                /\ BackwardList(header'.values, header.key, quotes) \in Seq(Found)
    BY <1>1, <1>8, BackwardListTyped
  <2>5. list \in Seq(Found) /\ more \in Seq(Found)
    BY <2>4, Zenon
  <2>6. Len(list) >= Len(seen) /\ (Len(list) = Len(seen) => Reads(list, seen))
    BY DEF ForwardedInv, Splitting
  <2> HIDE DEF list, more
  <2>7. Len(list) \in Nat /\ Len(more) \in Nat
    BY <2>5
  <2>8. CASE more = <<AddressOf(a)>> \o list
    <3>1. Len(more) = Len(list) + 1
      BY <1>4, <2>5, <2>8, AddressFacts, FirstOfList
    <3>2. ASSUME Len(more) = Len(seen') PROVE Reads(more, seen')
      <4>1. Reads(list, seen)
        BY <1>9, <1>10, <2>6, <2>7, <3>1, <3>2
      <4>2. Reads(<<AddressOf(a)>> \o list, Append(seen, a))
        BY <1>4, <1>9, <2>5, <4>1, ReadsOn
      <4> QED BY <1>2, <2>8, <4>2
    <3> QED BY <1>9, <1>10, <2>6, <2>7, <3>1, <3>2
  <2>9. CASE Len(more) >= Len(list) + 2
    BY <1>9, <1>10, <2>6, <2>7, <2>9
  <2> QED BY <2>3, <2>8, <2>9
<1>16. LastWritten'
  <2> SUFFICES ASSUME header.key = "single"
               PROVE  header'.values # <<>> /\ ParseAddr(Last(header'.values)) = AddressOf(Last(seen'))
    BY <1>6 DEF LastWritten
  <2>1. header'.values = Append(header.values, text)
    BY <1>7
  <2>2. header.values \in Seq(Texts) /\ Len(header.values) \in Nat
    BY <1>1 DEF Values
  <2>3. Len(header'.values) = Len(header.values) + 1 /\ header'.values[Len(header.values) + 1] = text
    BY <1>5, <2>1, <2>2, AppendProperties
  <2>4. header'.values # <<>> /\ Last(header'.values) = text
    BY <2>2, <2>3 DEF Last
  <2>5. Last(seen') = a
    BY <1>9, <1>10 DEF Last
  <2>6. ParseAddr(text) = AddressOf(a)
    BY <1>4, WrittenFacts
  <2> QED BY <2>4, <2>5, <2>6
<1> QED BY <1>13, <1>14, <1>15, <1>16 DEF ForwardedInv

LEMMA ForwardedKept ==
    ASSUME ForwardedInv, UNCHANGED <<client, header, peer, seen>>
    PROVE  ForwardedInv'
<1>1. Forwarded'
  BY DEF ForwardedInv, Forwarded
<1>2. Quoting' /\ Splitting' /\ LastWritten'
  BY DEF ForwardedInv, Quoting, Splitting, LastWritten
<1> QED BY <1>1, <1>2 DEF ForwardedInv

LEMMA AnswerStep ==
    ASSUME ForwardedInv, NEW r \in Resolvers, Resolve(r)
    PROVE  AnswerIsClient' /\ AnswerIsAPeer'
<1>1. PICK ranged \in BOOLEAN :
         answer' = [resolver |-> r, ranged |-> ranged, addr |-> Resolved(r, ranged)]
  BY DEF Resolve
<1>2. UNCHANGED <<client, header, peer, seen>>
  BY DEF Resolve
<1>3. answer'.resolver = r /\ answer'.ranged = ranged /\ answer'.addr = Resolved(r, ranged)
  BY <1>1
<1>4. ~Hidden /\ Suited(r, ranged) => Resolved(r, ranged) = Addresses[client]
  BY ClientAnswers
<1>5. GoesByProxies(r) => Resolved(r, ranged) \in Connected
  BY ConnectedAnswers
<1>6. Hidden' = Hidden /\ Suited(r, ranged)' = Suited(r, ranged)
  BY <1>2 DEF Hidden, Suited, SuitedOne, OwnList
<1>7. GoesByProxies(r)' = GoesByProxies(r)
  BY <1>2 DEF GoesByProxies
<1>8. AnswerIsClient'
  BY <1>2, <1>3, <1>4, <1>6 DEF AnswerIsClient
<1>9. AnswerIsAPeer'
  BY <1>2, <1>3, <1>5, <1>7 DEF AnswerIsAPeer, Connected
<1> QED BY <1>8, <1>9

\* The answers with the inductive invariant.
AnswerInv == ForwardedInv /\ AnswerIsClient /\ AnswerIsAPeer

\* It holds in every state: proxies add to what was written, an answer changes nothing.
THEOREM AnswerInvariant == ClientIPSpec => []AnswerInv
<1>1. ClientIPInit => AnswerInv
  BY ForwardedInit DEF AnswerInv, ClientIPInit, AnswerIsClient, AnswerIsAPeer
<1>2. AnswerInv /\ [ClientIPNext]_clientIPVars => AnswerInv'
  <2> SUFFICES ASSUME AnswerInv, [ClientIPNext]_clientIPVars PROVE AnswerInv'
    OBVIOUS
  <2>1. CASE Proxy
    <3>1. answer' = NoAnswer
      BY <2>1 DEF Proxy
    <3> QED BY <2>1, <3>1, ForwardedProxy DEF AnswerInv, AnswerIsClient, AnswerIsAPeer
  <2>2. CASE \E r \in Resolvers : Resolve(r)
    <3>1. PICK r \in Resolvers : Resolve(r)
      BY <2>2
    <3>2. UNCHANGED <<client, header, peer, seen>>
      BY <3>1 DEF Resolve
    <3> QED BY <3>1, <3>2, ForwardedKept, AnswerStep DEF AnswerInv
  <2>3. CASE UNCHANGED clientIPVars
    <3>1. UNCHANGED <<client, header, peer, seen, answer>>
      BY <2>3 DEF clientIPVars
    <3>2. AnswerIsClient' /\ AnswerIsAPeer'
      BY <3>1 DEF AnswerInv, AnswerIsClient, AnswerIsAPeer, Hidden, Suited, SuitedOne, OwnList, GoesByProxies
    <3> QED BY <3>1, <3>2, ForwardedKept DEF AnswerInv
  <2> QED BY <2>1, <2>2, <2>3 DEF ClientIPNext
<1> QED BY <1>1, <1>2, PTL DEF ClientIPSpec

\* For any headers, proxies, resolvers and lengths: a resolver that suits the
\* deployment returns the address of the client (clientip.go), whatever the header
\* held before the first proxy.
THEOREM ClientIsFound == ClientIPSpec => []AnswerIsClient
<1>1. AnswerInv => AnswerIsClient
  BY DEF AnswerInv
<1> QED BY <1>1, AnswerInvariant, PTL

\* What a resolver that goes by enough proxies returns is the address of a peer
\* some connection was made from, or an error (RightmostTrustedCount,
\* RightmostTrustedRange, RemoteAddr and chains of them).
THEOREM NoAddressIsForged == ClientIPSpec => []AnswerIsAPeer
<1>1. AnswerInv => AnswerIsAPeer
  BY DEF AnswerInv
<1> QED BY <1>1, AnswerInvariant, PTL
=============================================================================
