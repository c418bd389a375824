--------------------------- MODULE DispatchProofs ---------------------------
(***************************************************************************)
(* Proofs about module Dispatch, for every set of routes, router options    *)
(* and requests: what a handler finds in its context, what the Allow header *)
(* and a 404 say about the next request, and where redirects lead.          *)
(***************************************************************************)
EXTENDS Dispatch, PathRefProofs, TLAPS

(* Facts about matching *)

Query(method, p) ==
    [method |-> method, host |-> <<>>, path |-> p, satisfied |-> {}, lazy |-> FALSE]

\* A match of a route, taken apart: as the path is, or with another trailing
\* slash, which an exact route does not allow.
LEMMA MatchOf ==
    ASSUME NEW r, NEW q, NEW m \in RM!MatchesOf(r, q)
    PROVE  /\ m.route = r
           /\ RM!HostMatches(r.pattern, q.host) # {}
           /\ \/ m.tsr = FALSE /\ RM!PathMatches(r.pattern, q.path) # {}
              \/ /\ m.tsr = TRUE /\ r.slash # "exact"
                 /\ RM!SlashAdded(r, q.path) \cup RM!SlashDropped(r, q.path) # {}
<1>1. PICK h \in RM!HostMatches(r.pattern, q.host) :
          m \in {RM!Joined(r, FALSE, h, p) : p \in RM!PathMatches(r.pattern, q.path)} \cup
                {RM!Joined(r, TRUE, h, p) : p \in IF r.slash = "exact" THEN {}
                                                  ELSE RM!SlashAdded(r, q.path) \cup RM!SlashDropped(r, q.path)}
  BY DEF RM!MatchesOf
<1>2. CASE \E p \in RM!PathMatches(r.pattern, q.path) : m = RM!Joined(r, FALSE, h, p)
  BY <1>2 DEF RM!Joined
<1>3. CASE \E p \in IF r.slash = "exact" THEN {} ELSE RM!SlashAdded(r, q.path) \cup RM!SlashDropped(r, q.path) :
             m = RM!Joined(r, TRUE, h, p)
  BY <1>3 DEF RM!Joined
<1> QED BY <1>1, <1>2, <1>3

\* A route whose parts match matches as the path is.
LEMMA DirectMatch ==
    ASSUME NEW r, NEW q, NEW h \in RM!HostMatches(r.pattern, q.host),
           NEW p \in RM!PathMatches(r.pattern, q.path)
    PROVE  RM!Joined(r, FALSE, h, p) \in RM!MatchesOf(r, q)
<1> DEFINE Direct(g) == {RM!Joined(r, FALSE, g, x) : x \in RM!PathMatches(r.pattern, q.path)}
           Other(g)  == {RM!Joined(r, TRUE, g, x) : x \in IF r.slash = "exact" THEN {}
                             ELSE RM!SlashAdded(r, q.path) \cup RM!SlashDropped(r, q.path)}
<1>1. RM!MatchesOf(r, q) = UNION {Direct(g) \cup Other(g) : g \in RM!HostMatches(r.pattern, q.host)}
  BY DEF RM!MatchesOf
<1>2. RM!Joined(r, FALSE, h, p) \in Direct(h)
  OBVIOUS
<1> DEFINE All(g) == Direct(g) \cup Other(g)
<1>3. RM!MatchesOf(r, q) = UNION {All(g) : g \in RM!HostMatches(r.pattern, q.host)}
      /\ RM!Joined(r, FALSE, h, p) \in All(h)
  BY <1>1, <1>2
<1> HIDE DEF All
<1> QED BY <1>3

\* A match of a set of routes is one of a route of the set, of that method.
LEMMA MatchIn ==
    ASSUME NEW t, NEW method, NEW p, NEW m \in Matches(t, method, p)
    PROVE  /\ m.route \in t
           /\ m \in RM!MatchesOf(m.route, Query(method, p))
           /\ m.route.methods = {} \/ method \in m.route.methods
           /\ m.route.matchers \subseteq {}
<1>1. PICK r \in t : RM!RouteAccepts(r, Query(method, p)) /\ m \in RM!MatchesOf(r, Query(method, p))
  BY DEF Matches, RM!AllMatches, Query
<1>2. m.route = r
  BY <1>1, MatchOf
<1> QED BY <1>1, <1>2 DEF RM!RouteAccepts, Query

\* Methods decide which routes take part, not how a route matches.
LEMMA MatchForOther ==
    ASSUME NEW t, NEW method, NEW p, NEW m \in Matches(t, method, p),
           NEW other, m.route.methods = {} \/ other \in m.route.methods
    PROVE  m \in Matches(t, other, p)
<1>1. m.route \in t /\ m \in RM!MatchesOf(m.route, Query(method, p)) /\ m.route.matchers \subseteq {}
  BY MatchIn
<1>2. RM!MatchesOf(m.route, Query(method, p)) = RM!MatchesOf(m.route, Query(other, p))
  BY DEF RM!MatchesOf, Query
<1>3. RM!RouteAccepts(m.route, Query(other, p))
  BY <1>1 DEF RM!RouteAccepts, Query
<1> QED BY <1>1, <1>2, <1>3 DEF Matches, RM!AllMatches, Query

\* The lookup returns one match when there is any, and always the same.
LEMMA LookupChooses ==
    ASSUME NEW t, NEW method, NEW p
    PROVE  /\ Lookup(t, method, p) \subseteq Matches(t, method, p)
           /\ Lookup(t, method, p) = {} => Matches(t, method, p) = {}
           /\ \A x, y \in Lookup(t, method, p) : x = y
<1> DEFINE ms   == Matches(t, method, p)
           x(S) == CHOOSE m \in S : RM!Preferred(S) # {} => m \in RM!Preferred(S)
<1>1. Lookup(t, method, p) = {m \in ms : m = x(ms)}
  BY DEF Lookup
<1>2. ASSUME ms # {} PROVE x(ms) \in ms
  <2>1. CASE RM!Preferred(ms) = {}
    BY <1>2, <2>1
  <2>2. CASE RM!Preferred(ms) # {}
    <3>1. RM!Preferred(ms) \subseteq ms
      BY DEF RM!Preferred, RM!Least
    <3> HIDE DEF ms
    <3> QED BY <2>2, <3>1
  <2> QED BY <2>1, <2>2
<1> HIDE DEF ms, x
<1> QED BY <1>1, <1>2 DEF ms

\* A path that matches with another slash is not the root, and the route matches
\* the path FixTrailingSlash makes of it as it is.
LEMMA SlashIsFixed ==
    ASSUME NEW t, NEW method, NEW p, NEW m \in Matches(t, method, p), m.tsr
    PROVE  /\ p # <<Slash>>
           /\ m.route.slash # "exact"
           /\ \E x \in Matches({m.route}, method, FixTrailingSlash(p)) : ~x.tsr
<1> DEFINE r == m.route
           q == Query(method, FixTrailingSlash(p))
<1>1. r \in t /\ m \in RM!MatchesOf(r, Query(method, p)) /\ (r.methods = {} \/ method \in r.methods)
      /\ r.matchers \subseteq {}
  BY MatchIn
<1>2. /\ RM!HostMatches(r.pattern, <<>>) # {} /\ r.slash # "exact"
      /\ RM!SlashAdded(r, p) \cup RM!SlashDropped(r, p) # {}
  BY <1>1, MatchOf DEF Query
<1>3. \/ \E s \in RM!AddSlash(p) : RM!PathMatches(r.pattern, s) # {}
      \/ \E s \in RM!DropSlash(p) : RM!PathMatches(r.pattern, s) # {}
  <2>1. CASE RM!SlashAdded(r, p) # {}
    BY <2>1 DEF RM!SlashAdded
  <2>2. CASE RM!SlashDropped(r, p) # {}
    BY <2>2 DEF RM!SlashDropped
  <2> QED BY <1>2, <2>1, <2>2
<1>4. \A s \in RM!AddSlash(p) \cup RM!DropSlash(p) : s = FixTrailingSlash(p)
  BY DEF RM!AddSlash, RM!DropSlash, FixTrailingSlash, RM!Last, Last, RM!Front, Front, Slash
<1>5. p # <<Slash>>
  <2>1. RM!AddSlash(<<Slash>>) = {} /\ RM!DropSlash(<<Slash>>) = {}
    BY DEF RM!AddSlash, RM!DropSlash, RM!Last, Slash
  <2> QED BY <1>3, <2>1
<1>6. PICK h \in RM!HostMatches(r.pattern, <<>>), x \in RM!PathMatches(r.pattern, FixTrailingSlash(p)) : TRUE
  BY <1>2, <1>3, <1>4
<1>7. RM!Joined(r, FALSE, h, x) \in RM!MatchesOf(r, q) /\ ~RM!Joined(r, FALSE, h, x).tsr
  <2>1. q.path = FixTrailingSlash(p) /\ q.host = <<>>
    BY DEF Query
  <2> HIDE DEF q, r
  <2>2. RM!Joined(r, FALSE, h, x) \in RM!MatchesOf(r, q)
    BY <2>1, DirectMatch
  <2> QED BY <2>2 DEF RM!Joined
<1>8. RM!RouteAccepts(r, q)
  BY <1>1 DEF RM!RouteAccepts, Query
<1>9. RM!Joined(r, FALSE, h, x) \in Matches({r}, method, FixTrailingSlash(p))
  BY <1>7, <1>8 DEF Matches, RM!AllMatches, Query
<1> QED BY <1>2, <1>5, <1>7, <1>9

-----------------------------------------------------------------------------
(* The inductive invariant *)

IsContext(c) == c = [scope |-> c.scope, route |-> c.route, params |-> c.params]

Shapes ==
    /\ IsContext(ctx)
    /\ req = [method |-> req.method, path |-> req.path, malformed |-> req.malformed,
              opaque |-> req.opaque, preflight |-> req.preflight]
    /\ table \subseteq Routes

\* Whether a request by method is looked up, and on which path.
NormalizedFor(method) == HasNormalize /\ method # "CONNECT"
Canonical(method)  == NormalizedFor(method) => Norm(req.path).ok /\ ~Norm(req.path).redirect
RoutedPath(method) == IF NormalizedFor(method) THEN Norm(req.path).path ELSE req.path

\* What ServeHTTP knows at each of its stages.
BeforeMatch ==
    /\ stage \in {"start", "normalize", "match"} =>
          ctx = FreshContext /\ ~nonCanonical /\ url = path /\ found = {}
    /\ stage \in {"start", "normalize"} => path = req.path
    /\ stage = "start" => todo = {} /\ seen = {}
    /\ stage \notin {"start", "replied"} => req.method # ""

Looked ==
    stage \in {"match", "found"} =>
        path = RoutedPath(req.method) /\ Canonical(req.method) /\ url = path /\ ~nonCanonical

WhenFound ==
    stage = "found" => /\ found = Lookup(table, req.method, path)
                       /\ ctx.scope = "route" /\ ctx.route = {}
                       /\ \A m \in found : ctx.params = m.caps

\* The lookup found nothing to serve or to redirect to.
Missed ==
    \A m \in Lookup(table, req.method, path) :
        /\ m.tsr
        /\ \/ ~SlashApplies
           \/ m.route.slash = "exact"
           \/ m.route.slash = "redirect" /\ ~MayRedirect(path)

Falling == stage \in {"noMatch", "fallback", "allow"}

WhenFalling ==
    /\ Falling => /\ ctx.scope = "route" /\ ctx.route = {}
                  /\ nonCanonical => req.opaque \/ ~Canonical(req.method)
                  /\ ~nonCanonical => /\ path = RoutedPath(req.method) /\ Canonical(req.method)
                                      /\ url = path /\ Missed
    /\ stage \in {"fallback", "allow"} => /\ ctx.params = <<>> /\ pattern = ""
                                          /\ ~nonCanonical => ~req.opaque
    /\ stage = "allow" => AsksMethods

\* The lookup for some method of the tree is a reason to name g in Allow.
Grants(g, p) == \E m \in TreeMethods : \E x \in Lookup(table, m, p) :
                    Allows(x, m) /\ g \in x.route.methods

\* What the loop over the methods of the tree has found.
AllowLoop ==
    stage = "allow" =>
        /\ \A g \in seen : Grants(g, path) \/ (~AutoOptions /\ g = req.method)
        /\ \A g \in TreeMethods \ (todo \cup seen) : \A x \in Lookup(table, g, path) :
               Allows(x, g) => x.route.methods \subseteq seen
        /\ ~AutoOptions => req.method \in seen

\* What a reply to method that names the methods of allow says about the path.
AllowFacts(method, allow) ==
    /\ Canonical(method) /\ ~req.opaque
    /\ \A g \in allow \ {method} :
          \/ Grants(g, RoutedPath(method))
          \/ g = "OPTIONS" /\ conf.autoOptions /\ \E h \in TreeMethods : Grants(h, RoutedPath(method))
    /\ \A g \in TreeMethods \ (allow \cup {method}) : \A x \in Lookup(table, g, RoutedPath(method)) :
          Allows(x, g) => x.route.methods \subseteq allow \cup {method}
    /\ method # "CONNECT" /\ ~HasDotSegment(RoutedPath(method)) =>
          Lookup(table, method, RoutedPath(method)) = {}

\* The reply tells the facts, and so does the reply before when the path is the same.
ReplyTells ==
    /\ stage = "replied" /\ req.method # ""
    /\ \/ reply.kind = "noMethod"
       \/ reply.kind = "options" /\ reply.allow # {}
       \/ reply.kind = "noRoute" /\ conf.noMethod /\ ~nonCanonical
    => AllowFacts(req.method, reply.allow)

PrevTells ==
    /\ ~prev.followed /\ AllowSaysAll /\ (prev.kind = "noRoute" => prev.canonical)
    => AllowFacts(prev.method, prev.allow)

PrevIsOther == ~prev.followed /\ prev.kind # "none" => prev.method # req.method

\* A request that is said to be rewritten is a copy of the caller's.
FlagFits == rewritten => copied

IInv ==
    /\ Shapes
    /\ ContextFits
    /\ CallerRequestKept /\ FlagFits
    /\ BeforeMatch /\ Looked /\ WhenFound /\ WhenFalling /\ AllowLoop
    /\ ReplyTells /\ PrevTells /\ PrevIsOther
    /\ HandlerSeesMatchedPath
    /\ AllowedIsHandled
    /\ OthersAreNotServed

-----------------------------------------------------------------------------
(* Frames: steps of the router within a request, and its replies *)

LEMMA ContextUpdate ==
    ASSUME NEW c, IsContext(c), NEW v
    PROVE  /\ [c EXCEPT !.scope = v]  = [scope |-> v, route |-> c.route, params |-> c.params]
           /\ [c EXCEPT !.route = v]  = [scope |-> c.scope, route |-> v, params |-> c.params]
           /\ [c EXCEPT !.params = v] = [scope |-> c.scope, route |-> c.route, params |-> v]
<1> DEFINE s == c.scope
           r == c.route
           q == c.params
<1>1. c = [scope |-> s, route |-> r, params |-> q]
  BY DEF IsContext
<1> HIDE DEF s, r, q
<1>2. /\ [c EXCEPT !.scope = v]  = [scope |-> v, route |-> r, params |-> q]
      /\ [c EXCEPT !.route = v]  = [scope |-> s, route |-> v, params |-> q]
      /\ [c EXCEPT !.params = v] = [scope |-> s, route |-> r, params |-> v]
  BY <1>1
<1> QED BY <1>2 DEF s, r, q

\* The request, the tables and the reply before stay while the router works.
LEMMA ClientFrame ==
    ASSUME PrevTells, PrevIsOther, UNCHANGED client
    PROVE  /\ PrevTells' /\ PrevIsOther'
           /\ req' = req /\ table' = table /\ conf' = conf /\ prev' = prev /\ tries' = tries
           /\ TreeMethods' = TreeMethods
           /\ \A m : RoutedPath(m)' = RoutedPath(m)
           /\ \A m : Canonical(m)' <=> Canonical(m)
           /\ \A g, p : Grants(g, p)' <=> Grants(g, p)
           /\ \A m, a : AllowFacts(m, a)' <=> AllowFacts(m, a)
           /\ AutoOptions' <=> AutoOptions
<1>1. req' = req /\ table' = table /\ conf' = conf /\ prev' = prev /\ tries' = tries
  BY DEF client
<1>2. TreeMethods' = TreeMethods
  BY <1>1 DEF TreeMethods
<1>3. \A m : NormalizedFor(m)' <=> NormalizedFor(m)
  BY <1>1 DEF NormalizedFor, HasNormalize
<1>4. \A m : RoutedPath(m)' = RoutedPath(m)
  BY <1>1, <1>3 DEF RoutedPath, Norm
<1>5. \A m : Canonical(m)' <=> Canonical(m)
  BY <1>1, <1>3 DEF Canonical, Norm
<1>6. \A g, p : Grants(g, p)' <=> Grants(g, p)
  BY <1>1, <1>2 DEF Grants
<1>7. \A m, a : AllowFacts(m, a)' <=> AllowFacts(m, a)
  BY <1>1, <1>2, <1>4, <1>5, <1>6 DEF AllowFacts
<1>8. AutoOptions' <=> AutoOptions
  BY <1>1 DEF AutoOptions, IsOptions
<1>9. PrevTells' /\ PrevIsOther'
  BY <1>1, <1>7 DEF PrevTells, PrevIsOther, AllowSaysAll
<1> QED BY <1>1, <1>2, <1>4, <1>5, <1>6, <1>7, <1>8, <1>9

LEMMA FlagKept ==
    ASSUME IInv, UNCHANGED <<copied, rewritten>>
    PROVE  FlagFits'
BY DEF IInv, FlagFits

\* A step that does not reply has to keep only what the stages know.
LEMMA InnerStep ==
    ASSUME IInv, UNCHANGED <<client, reply>>, stage' # "replied", stage # "replied",
           TypeOK', callerUrl' = callerUrl, FlagFits',
           IsContext(ctx'),
           BeforeMatch', Looked', WhenFound', WhenFalling', AllowLoop'
    PROVE  IInv'
<1>1. PrevTells' /\ PrevIsOther' /\ req' = req /\ table' = table
  BY ClientFrame DEF IInv
<1>2. reply'.kind = "none"
  BY DEF TypeOK
<1>3. Shapes' /\ CallerRequestKept'
  BY <1>1 DEF IInv, Shapes, CallerRequestKept
<1>4. ContextFits' /\ HandlerSeesMatchedPath' /\ ReplyTells' /\ AllowedIsHandled' /\ OthersAreNotServed'
  BY <1>2 DEF ContextFits, HandlerSeesMatchedPath, ReplyTells, AllowedIsHandled, OthersAreNotServed, Retried
<1> QED BY <1>1, <1>3, <1>4 DEF IInv

\* A reply has to keep what the handler sees and what the reply tells.
LEMMA ReplyStep ==
    ASSUME IInv, UNCHANGED client, stage' = "replied",
           IsContext(ctx'),
           callerUrl' = callerUrl, FlagFits', ContextFits', HandlerSeesMatchedPath',
           ReplyTells', AllowedIsHandled', OthersAreNotServed'
    PROVE  IInv'
<1>1. PrevTells' /\ PrevIsOther' /\ req' = req /\ table' = table
  BY ClientFrame DEF IInv
<1>2. Shapes' /\ CallerRequestKept'
  BY <1>1 DEF IInv, Shapes, CallerRequestKept
<1>3. BeforeMatch' /\ Looked' /\ WhenFound' /\ WhenFalling' /\ AllowLoop'
  BY DEF BeforeMatch, Looked, WhenFound, WhenFalling, AllowLoop, Falling
<1> QED BY <1>1, <1>2, <1>3 DEF IInv

-----------------------------------------------------------------------------
(* What the tables say about two methods on one path *)

\* A method that is refused on a path without dot segments matches nothing there.
LEMMA MissedMatchesNothing ==
    ASSUME Missed, url = path, ~req.opaque, req.method # "CONNECT", ~HasDotSegment(path)
    PROVE  Lookup(table, req.method, path) = {}
<1> SUFFICES ASSUME NEW m \in Lookup(table, req.method, path) PROVE FALSE
  OBVIOUS
<1>1. m.tsr /\ (~SlashApplies \/ m.route.slash = "exact" \/ ~MayRedirect(path))
  BY DEF Missed
<1>2. m \in Matches(table, req.method, path)
  BY LookupChooses
<1>3. path # <<Slash>> /\ m.route.slash # "exact"
  BY <1>1, <1>2, SlashIsFixed
<1> QED BY <1>1, <1>3 DEF SlashApplies, MayRedirect

\* A method that another one's lookup grants matches.
LEMMA GrantedMatches ==
    ASSUME NEW g, NEW p, Grants(g, p)
    PROVE  Lookup(table, g, p) # {} /\ g \in TreeMethods
<1>1. PICK m \in TreeMethods : \E x \in Lookup(table, m, p) : g \in x.route.methods
  BY DEF Grants
<1> PICK x \in Lookup(table, m, p) : g \in x.route.methods
  BY <1>1
<1>2. x \in Matches(table, m, p)
  BY <1>1, LookupChooses
<1>3. x \in Matches(table, g, p) /\ x.route \in table
  BY <1>1, <1>2, MatchForOther, MatchIn
<1>4. Lookup(table, g, p) # {}
  BY <1>3, LookupChooses
<1> QED BY <1>1, <1>3, <1>4 DEF TreeMethods

\* Both requests are looked up on the same path, if CONNECT does not differ.
LEMMA SamePath ==
    ASSUME NEW m, NEW n, "CONNECT" \in {m, n} => ~HasNormalize
    PROVE  RoutedPath(m) = RoutedPath(n) /\ (Canonical(m) <=> Canonical(n))
BY DEF RoutedPath, Canonical, NormalizedFor

\* No route is served for the empty method alone.
LEMMA EmptyNotGranted ==
    ASSUME Shapes, NEW p
    PROVE  ~Grants("", p)
<1> SUFFICES ASSUME Grants("", p) PROVE FALSE
  OBVIOUS
<1>1. "" \in TreeMethods
  BY GrantedMatches
<1> QED BY <1>1, MethodsAssumption DEF TreeMethods, Shapes

\* A method that Allow named is not refused after a lookup that found nothing.
LEMMA AllowedIsFound ==
    ASSUME IInv, Falling, ~prev.followed, prev.kind \in {"noMethod", "options"},
           "CONNECT" \in {prev.method, req.method} => ~HasNormalize,
           req.method \in prev.allow \ {"CONNECT"}, ~HasDotSegment(path)
    PROVE  /\ ~nonCanonical
           /\ AutoOptions
           /\ \E h \in TreeMethods : Grants(h, path)
<1>1. AllowFacts(prev.method, prev.allow) /\ prev.method # req.method
  BY DEF IInv, PrevTells, PrevIsOther, AllowSaysAll
<1>2. RoutedPath(prev.method) = RoutedPath(req.method) /\ Canonical(req.method) /\ ~req.opaque
  BY <1>1, SamePath DEF AllowFacts
<1>3. ~nonCanonical /\ path = RoutedPath(req.method) /\ url = path /\ Missed
  BY <1>2 DEF IInv, WhenFalling
<1>4. Lookup(table, req.method, path) = {}
  BY <1>2, <1>3, MissedMatchesNothing
<1>5. ~Grants(req.method, path)
  BY <1>4, GrantedMatches
<1>6. req.method = "OPTIONS" /\ conf.autoOptions /\ \E h \in TreeMethods : Grants(h, path)
  BY <1>1, <1>2, <1>3, <1>5 DEF AllowFacts
<1> QED BY <1>3, <1>6 DEF AutoOptions, IsOptions

\* A method that Allow left out, when it should name all, matches nothing that
\* could be served.
LEMMA OtherIsNotServed ==
    ASSUME IInv, ~prev.followed, AllowSaysAll, prev.canonical, prev.kind # "none",
           "CONNECT" \in {prev.method, req.method} => ~HasNormalize,
           prev.method # "CONNECT", req.method \notin prev.allow,
           path = RoutedPath(req.method), ~HasDotSegment(path),
           NEW m \in Lookup(table, req.method, path)
    PROVE  ~Allows(m, req.method)
<1> SUFFICES ASSUME Allows(m, req.method) PROVE FALSE
  OBVIOUS
<1>1. AllowFacts(prev.method, prev.allow) /\ prev.method # req.method
  BY DEF IInv, PrevTells, PrevIsOther
<1>2. RoutedPath(prev.method) = path
  BY SamePath
<1>3. m \in Matches(table, req.method, path) /\ m.route \in table
      /\ (m.route.methods = {} \/ req.method \in m.route.methods)
  <2>1. m \in Matches(table, req.method, path)
    BY LookupChooses
  <2> QED BY <2>1, MatchIn
<1>4. Lookup(table, prev.method, path) = {}
  BY <1>1, <1>2 DEF AllowFacts
<1>5. m.route.methods # {}
  BY <1>3, <1>4, LookupChooses, MatchForOther
<1>6. req.method \in TreeMethods \ (prev.allow \cup {prev.method})
  BY <1>1, <1>3, <1>5 DEF TreeMethods
<1>7. m.route.methods \subseteq prev.allow \cup {prev.method}
  BY <1>1, <1>2, <1>6 DEF AllowFacts
<1> QED BY <1>3, <1>5, <1>6, <1>7

-----------------------------------------------------------------------------
(* The steps within a request *)

LEMMA InitHolds ==
    ASSUME Init
    PROVE  IInv
<1>1. PICK s \in Scenarios : conf \in s.confs /\ table \in s.tables /\ req \in s.reqs
  BY DEF Init
<1>2. req = [method |-> req.method, path |-> req.path, malformed |-> req.malformed,
             opaque |-> req.opaque, preflight |-> req.preflight]
  BY <1>1, RequestsAssumption
<1>3. table \subseteq Routes
  BY <1>1 DEF Routes
<1>4. Shapes
  BY <1>2, <1>3 DEF Shapes, Init, FreshContext, IsContext
<1>5. stage = "start" /\ reply.kind = "none" /\ prev.kind = "none"
  BY DEF Init, NoReply
<1>6. TypeOK
  <2>1. ctx.scope = "route" /\ ctx.route = {} /\ {m.route : m \in found} = {}
    BY DEF Init, FreshContext
  <2>2. tries = 0
    BY DEF Init
  <2>3. tries \in 0 .. MaxTries
    BY <2>2, TriesAssumption
  <2> QED BY <1>5, <2>1, <2>3 DEF Init, TypeOK, Scopes, Kinds
<1>7. ContextFits /\ HandlerSeesMatchedPath /\ AllowedIsHandled /\ OthersAreNotServed
      /\ ReplyTells /\ PrevTells /\ PrevIsOther
  BY <1>5, <1>6 DEF ContextFits, HandlerSeesMatchedPath, AllowedIsHandled, OthersAreNotServed,
                    ReplyTells, PrevTells, PrevIsOther, AllowSaysAll, Retried
<1>8. CallerRequestKept /\ FlagFits /\ BeforeMatch /\ Looked /\ WhenFound /\ WhenFalling /\ AllowLoop
  BY <1>5 DEF Init, CallerRequestKept, FlagFits, BeforeMatch, Looked, WhenFound, WhenFalling, AllowLoop, Falling
<1> QED BY <1>4, <1>7, <1>8 DEF IInv

\* The steps before the lookup.
LEMMA RoutingPathStep ==
    ASSUME IInv, RoutingPath
    PROVE  IInv'
<1>1. /\ stage = "start" /\ stage' = "normalize" /\ UNCHANGED <<client, reply>>
      /\ req.method # "" /\ UNCHANGED <<path, pattern, ctx, nonCanonical, found, todo, seen>>
  BY DEF RoutingPath, Go
<1>2. callerUrl' = callerUrl /\ rewritten' \in BOOLEAN /\ copied' \in BOOLEAN /\ FlagFits' /\ url' = path
  BY <1>1 DEF IInv, RoutingPath, Rewrite, KeepRequest, BeforeMatch, ContextFits, TypeOK, FlagFits
<1>3. TypeOK'
  BY <1>1, <1>2 DEF IInv, ContextFits, TypeOK, client, TreeMethods
<1>4. BeforeMatch' /\ Looked' /\ WhenFound' /\ WhenFalling' /\ AllowLoop'
  BY <1>1, <1>2 DEF IInv, BeforeMatch, Looked, WhenFound, WhenFalling, AllowLoop, Falling, client
<1> QED BY <1>1, <1>2, <1>3, <1>4, InnerStep DEF IInv, Shapes

LEMMA NormalizeOffStep ==
    ASSUME IInv, NormalizeOff
    PROVE  IInv'
<1>1. /\ stage = "normalize" /\ stage' = "match" /\ UNCHANGED <<client, reply>> /\ ~Normalizes
      /\ UNCHANGED <<path, url, callerUrl, copied, rewritten, pattern, ctx, nonCanonical, found, todo, seen>>
  BY DEF NormalizeOff, Go, local
<1>2. TypeOK'
  BY <1>1 DEF IInv, ContextFits, TypeOK, client, TreeMethods
<1>3. path = RoutedPath(req.method) /\ Canonical(req.method)
  BY <1>1 DEF IInv, BeforeMatch, RoutedPath, Canonical, NormalizedFor, Normalizes
<1>4. Looked'
  BY <1>1, <1>3, ClientFrame DEF IInv, Looked, BeforeMatch
<1>5. BeforeMatch' /\ WhenFound' /\ WhenFalling' /\ AllowLoop'
  BY <1>1 DEF IInv, BeforeMatch, WhenFound, WhenFalling, AllowLoop, Falling, client
<1> QED BY <1>1, <1>2, <1>4, <1>5, InnerStep, FlagKept DEF IInv, Shapes

LEMMA NotCanonicalStep ==
    ASSUME IInv, NotCanonical
    PROVE  IInv'
<1>1. /\ stage = "normalize" /\ stage' = "noMatch" /\ UNCHANGED <<client, reply>>
      /\ Normalizes /\ Norm(path).redirect /\ nonCanonical' = TRUE
      /\ UNCHANGED <<path, url, callerUrl, copied, rewritten, pattern, ctx, found, todo, seen>>
  BY DEF NotCanonical, Go, KeepRequest
<1>2. TypeOK'
  BY <1>1 DEF IInv, ContextFits, TypeOK, client, TreeMethods
<1>3. ~Canonical(req.method)
  BY <1>1 DEF IInv, BeforeMatch, Canonical, NormalizedFor, Normalizes
<1>4. ctx'.scope = "route" /\ ctx'.route = {}
  <2>1. ctx' = FreshContext
    BY <1>1 DEF IInv, BeforeMatch
  <2> QED BY <2>1 DEF FreshContext
<1>5. ~Canonical(req.method)'
  BY <1>1, <1>3 DEF client, Canonical, NormalizedFor, HasNormalize, Norm
<1>6. WhenFalling'
  BY <1>1, <1>4, <1>5 DEF WhenFalling
<1>7. BeforeMatch' /\ Looked' /\ WhenFound' /\ AllowLoop'
  BY <1>1 DEF IInv, BeforeMatch, Looked, WhenFound, AllowLoop, client
<1> QED BY <1>1, <1>2, <1>6, <1>7, InnerStep, FlagKept DEF IInv, Shapes

LEMMA NormalizePathStep ==
    ASSUME IInv, NormalizePath
    PROVE  IInv'
<1>1. /\ stage = "normalize" /\ stage' = "match" /\ UNCHANGED <<client, reply>>
      /\ Normalizes /\ Norm(path).ok /\ ~Norm(path).redirect /\ path' = Norm(path).path
      /\ UNCHANGED <<pattern, ctx, nonCanonical, found, todo, seen>>
  BY DEF NormalizePath, Go
<1>2. callerUrl' = callerUrl /\ rewritten' \in BOOLEAN /\ copied' \in BOOLEAN /\ FlagFits' /\ url' = path'
  BY <1>1 DEF IInv, NormalizePath, Rewrite, KeepRequest, BeforeMatch, ContextFits, TypeOK, FlagFits
<1>3. TypeOK'
  BY <1>1, <1>2 DEF IInv, ContextFits, TypeOK, client, TreeMethods
<1>4. path' = RoutedPath(req.method) /\ Canonical(req.method)
  BY <1>1 DEF IInv, BeforeMatch, RoutedPath, Canonical, NormalizedFor, Normalizes
<1>5. Looked'
  BY <1>1, <1>2, <1>4, ClientFrame DEF IInv, Looked, BeforeMatch
<1>6. BeforeMatch' /\ WhenFound' /\ WhenFalling' /\ AllowLoop'
  BY <1>1, <1>2 DEF IInv, BeforeMatch, WhenFound, WhenFalling, AllowLoop, Falling, client
<1> QED BY <1>1, <1>2, <1>3, <1>5, <1>6, InnerStep DEF IInv, Shapes

\* The lookup and what follows it.
LEMMA MatchStep ==
    ASSUME IInv, Match
    PROVE  IInv'
<1> DEFINE L == Lookup(table, req.method, path)
<1>1. /\ stage = "match" /\ stage' = "found" /\ UNCHANGED <<client, reply>>
      /\ UNCHANGED <<path, url, callerUrl, copied, rewritten, pattern, nonCanonical, todo, seen>>
  BY DEF Match, Go, KeepRequest
<1>2. \/ \E m \in L : found' = {m} /\ ctx' = [ctx EXCEPT !.params = m.caps]
      \/ L = {} /\ found' = {} /\ ctx' \in {ctx, [ctx EXCEPT !.params = <<"left">>]}
  BY DEF Match
<1>3. found' = L /\ ctx'.scope = "route" /\ ctx'.route = {} /\ (\A m \in found' : ctx'.params = m.caps)
      /\ IsContext(ctx')
  <2>1. ctx = [scope |-> "route", route |-> {}, params |-> <<>>]
    BY <1>1 DEF IInv, BeforeMatch, FreshContext
  <2>2. \A x, y \in L : x = y
    BY LookupChooses
  <2>3. ASSUME NEW v, ctx' = [ctx EXCEPT !.params = v]
        PROVE  ctx' = [scope |-> "route", route |-> {}, params |-> v]
    BY <2>1, <2>3
  <2> HIDE DEF L
  <2>4. CASE \E m \in L : found' = {m} /\ ctx' = [ctx EXCEPT !.params = m.caps]
    <3>1. PICK m \in L : found' = {m} /\ ctx' = [ctx EXCEPT !.params = m.caps]
      BY <2>4
    <3>2. found' = L
      BY <2>2, <3>1
    <3>3. ctx' = [scope |-> "route", route |-> {}, params |-> m.caps]
      BY <2>3, <3>1
    <3>4. ctx'.scope = "route" /\ ctx'.route = {} /\ ctx'.params = m.caps /\ IsContext(ctx')
      BY <3>3 DEF IsContext
    <3>5. \A x \in found' : ctx'.params = x.caps
      BY <3>1, <3>4
    <3> QED BY <3>2, <3>4, <3>5
  <2>5. CASE L = {} /\ found' = {} /\ ctx' = ctx
    BY <2>1, <2>5 DEF IsContext
  <2>6. CASE L = {} /\ found' = {} /\ ctx' = [ctx EXCEPT !.params = <<"left">>]
    BY <2>3, <2>6 DEF IsContext
  <2> QED BY <1>2, <2>4, <2>5, <2>6
<1>4. \A m \in L : m.route \in table
  BY LookupChooses, MatchIn
<1>5. TypeOK'
  BY <1>1, <1>3, <1>4 DEF IInv, ContextFits, TypeOK, client, TreeMethods, Scopes
<1>6. Looked'
  BY <1>1, ClientFrame DEF IInv, Looked
<1>7. WhenFound'
  BY <1>1, <1>3 DEF WhenFound, client
<1>8. BeforeMatch' /\ WhenFalling' /\ AllowLoop'
  BY <1>1 DEF IInv, BeforeMatch, WhenFalling, AllowLoop, Falling, client
<1> QED BY <1>1, <1>3, <1>5, <1>6, <1>7, <1>8, InnerStep, FlagKept

LEMMA MissStep ==
    ASSUME IInv, Miss
    PROVE  IInv'
<1>1. /\ stage = "found" /\ stage' = "noMatch" /\ UNCHANGED <<client, reply>>
      /\ UNCHANGED <<path, url, callerUrl, copied, rewritten, pattern, ctx, nonCanonical, found, todo, seen>>
  BY DEF Miss, Go, local
<1>2. TypeOK'
  BY <1>1 DEF IInv, ContextFits, TypeOK, client, TreeMethods
<1>3. Missed
  BY <1>1 DEF IInv, WhenFound, Miss, Missed
<1>4. Missed'
  BY <1>1, <1>3 DEF Missed, client, SlashApplies
<1>5. WhenFalling'
  BY <1>1, <1>4, ClientFrame DEF IInv, Looked, WhenFound, WhenFalling
<1>6. BeforeMatch' /\ Looked' /\ WhenFound' /\ AllowLoop'
  BY <1>1 DEF IInv, BeforeMatch, Looked, WhenFound, AllowLoop, client
<1> QED BY <1>1, <1>2, <1>5, <1>6, InnerStep, FlagKept DEF IInv, Shapes

\* The fallbacks.
LEMMA NoMatchStep ==
    ASSUME IInv, NoMatch
    PROVE  IInv'
<1>1. /\ stage = "noMatch" /\ stage' = "fallback" /\ UNCHANGED <<client, reply>>
      /\ UNCHANGED <<path, url, callerUrl, copied, rewritten, found, todo, seen>>
      /\ pattern' = "" /\ ctx' = [ctx EXCEPT !.params = <<>>]
      /\ nonCanonical' = (nonCanonical \/ req.opaque)
  BY DEF NoMatch, Go, KeepRequest, ClearParams
<1>2. IsContext(ctx) /\ ctx.scope = "route" /\ ctx.route = {}
  BY <1>1 DEF IInv, Shapes, WhenFalling, Falling
<1>3. ctx' = [scope |-> "route", route |-> {}, params |-> <<>>]
  BY <1>1, <1>2, ContextUpdate
<1>4. ctx'.scope = "route" /\ ctx'.route = {} /\ ctx'.params = <<>> /\ IsContext(ctx')
  BY <1>3 DEF IsContext
<1>5. nonCanonical' \in BOOLEAN /\ (nonCanonical' <=> nonCanonical \/ req.opaque)
  BY <1>1
<1>6. TypeOK'
  BY <1>1, <1>4, <1>5 DEF IInv, ContextFits, TypeOK, client, TreeMethods, Scopes
<1>7. /\ nonCanonical => req.opaque \/ ~Canonical(req.method)
      /\ ~nonCanonical => path = RoutedPath(req.method) /\ Canonical(req.method) /\ url = path /\ Missed
  BY <1>1 DEF IInv, WhenFalling, Falling
<1>8. Missed' <=> Missed
  BY <1>1 DEF Missed, client, SlashApplies
<1>9. WhenFalling'
  <2>1. nonCanonical' => req'.opaque \/ ~Canonical(req.method)'
    BY <1>1, <1>5, <1>7, ClientFrame DEF IInv
  <2>2. ~nonCanonical' => /\ path' = RoutedPath(req.method)' /\ Canonical(req.method)'
                          /\ url' = path' /\ Missed' /\ ~req'.opaque
    BY <1>1, <1>5, <1>7, <1>8, ClientFrame DEF IInv
  <2> QED BY <1>1, <1>4, <2>1, <2>2 DEF WhenFalling
<1>10. BeforeMatch' /\ Looked' /\ WhenFound' /\ AllowLoop'
  BY <1>1 DEF IInv, BeforeMatch, Looked, WhenFound, AllowLoop, client
<1> QED BY <1>1, <1>4, <1>6, <1>9, <1>10, InnerStep, FlagKept

\* The loop over the methods changes nothing of what the fallbacks know.
LEMMA LoopFrame ==
    ASSUME IInv, stage \in {"fallback", "allow"}, stage' = "allow", AsksMethods,
           UNCHANGED <<client, reply>>,
           UNCHANGED <<path, url, callerUrl, copied, rewritten, pattern, ctx, nonCanonical, found>>,
           todo' \subseteq TreeMethods, seen' \subseteq TreeMethods \cup {req.method}, AllowLoop'
    PROVE  IInv'
<1>1. TypeOK'
  BY DEF IInv, ContextFits, TypeOK, client, TreeMethods
<1>2. Missed' <=> Missed
  BY DEF Missed, client, SlashApplies
<1>3. AsksMethods' <=> AsksMethods
  BY DEF AsksMethods, AutoOptions, IsOptions, client
<1>4. WhenFalling'
  BY <1>2, <1>3, ClientFrame DEF IInv, WhenFalling, Falling
<1>5. BeforeMatch' /\ Looked' /\ WhenFound'
  BY DEF IInv, BeforeMatch, Looked, WhenFound, client
<1> QED BY <1>1, <1>4, <1>5, InnerStep, FlagKept DEF IInv, Shapes

LEMMA StartAllowStep ==
    ASSUME IInv, StartAllow
    PROVE  IInv'
<1>1. /\ stage = "fallback" /\ stage' = "allow" /\ UNCHANGED <<client, reply>>
      /\ UNCHANGED <<path, url, callerUrl, copied, rewritten, pattern, ctx, nonCanonical, found>>
      /\ AsksMethods /\ todo' = TreeMethods
      /\ seen' = IF AutoOptions THEN {} ELSE {req.method}
  BY DEF StartAllow, Go, KeepRequest
<1>2. AllowLoop'
  BY <1>1, ClientFrame DEF IInv, AllowLoop
<1> QED BY <1>1, <1>2, LoopFrame

LEMMA AllowStepStep ==
    ASSUME IInv, NEW m \in TreeMethods, AllowStep(m)
    PROVE  IInv'
<1>1. /\ stage = "allow" /\ stage' = "allow" /\ UNCHANGED <<client, reply>>
      /\ UNCHANGED <<path, url, callerUrl, copied, rewritten, pattern, ctx, nonCanonical, found>>
      /\ todo' = todo \ {m}
  BY DEF AllowStep, Go, KeepRequest
<1>2. PICK ms \in AllowedBy(m) : seen' = seen \cup ms
  BY DEF AllowStep
<1>3. AsksMethods /\ todo \subseteq TreeMethods /\ seen \subseteq TreeMethods \cup {req.method}
  BY <1>1 DEF IInv, WhenFalling, ContextFits, TypeOK
<1>4. /\ \A g \in seen : Grants(g, path) \/ (~AutoOptions /\ g = req.method)
      /\ \A g \in TreeMethods \ (todo \cup seen) : \A x \in Lookup(table, g, path) :
             Allows(x, g) => x.route.methods \subseteq seen
      /\ ~AutoOptions => req.method \in seen
  BY <1>1 DEF IInv, AllowLoop
<1>5. /\ \A g \in ms : g \in TreeMethods /\ Grants(g, path)
      /\ m \notin seen => \A x \in Lookup(table, m, path) : Allows(x, m) => x.route.methods \subseteq ms
  <2>1. CASE m \in seen \/ Lookup(table, m, path) = {}
    BY <1>2, <2>1 DEF AllowedBy
  <2>2. CASE ~(m \in seen \/ Lookup(table, m, path) = {})
    <3>1. PICK y \in Lookup(table, m, path) : ms = IF Allows(y, m) THEN y.route.methods ELSE {}
      BY <1>2, <2>2 DEF AllowedBy
    <3>2. \A x \in Lookup(table, m, path) : x = y
      BY LookupChooses
    <3>3. y.route \in table
      BY LookupChooses, MatchIn
    <3>4. \A g \in ms : Allows(y, m) /\ g \in y.route.methods
      BY <3>1
    <3>5. \A g \in ms : g \in TreeMethods /\ Grants(g, path)
      BY <3>3, <3>4 DEF TreeMethods, Grants
    <3> QED BY <3>1, <3>2, <3>5
  <2> QED BY <2>1, <2>2
<1>6. /\ \A g \in seen' : Grants(g, path) \/ (~AutoOptions /\ g = req.method)
      /\ \A g \in TreeMethods \ (todo' \cup seen') : \A x \in Lookup(table, g, path) :
             Allows(x, g) => x.route.methods \subseteq seen'
      /\ ~AutoOptions => req.method \in seen'
  <2>1. ASSUME NEW g \in TreeMethods \ (todo' \cup seen'), NEW x \in Lookup(table, g, path), Allows(x, g)
        PROVE  x.route.methods \subseteq seen'
    <3>1. CASE g = m
      BY <1>2, <1>5, <2>1, <3>1
    <3>2. CASE g # m
      BY <1>1, <1>2, <1>4, <2>1, <3>2
    <3> QED BY <3>1, <3>2
  <2> QED BY <1>2, <1>4, <1>5, <2>1
<1>7. AllowLoop'
  BY <1>1, <1>6, ClientFrame DEF IInv, AllowLoop
<1>8. todo' \subseteq TreeMethods /\ seen' \subseteq TreeMethods \cup {req.method}
  BY <1>1, <1>2, <1>3, <1>5
<1> QED BY <1>1, <1>3, <1>7, <1>8, LoopFrame

-----------------------------------------------------------------------------
(* The replies *)

\* A handler of the router, called in its own scope: the context is empty.
LEMMA PlainReply ==
    ASSUME IInv, UNCHANGED client, stage' = "replied",
           NEW kind \in Scopes \ {"route"}, NEW allow, NEW location,
           reply' = [kind |-> kind, allow |-> allow, location |-> location],
           ctx.route = {}, ctx.params = <<>>, ctx' = [ctx EXCEPT !.scope = kind],
           UNCHANGED <<callerUrl, copied, rewritten, nonCanonical, found, todo, seen>>,
           kind \in Redirects \cup {"noMethod", "options"} => pattern' = "",
           kind \in {"noMethod", "noRoute"} => AllowedIsHandled',
           kind \in {"noMethod", "noRoute", "options"} => ReplyTells'
    PROVE  IInv'
<1>1. ctx' = [scope |-> kind, route |-> {}, params |-> <<>>]
  BY ContextUpdate DEF IInv, Shapes
<1>2. IsContext(ctx') /\ ctx'.scope = kind /\ ctx'.route = {} /\ ctx'.params = <<>> /\ kind # "route"
  BY <1>1 DEF IsContext
<1>3. reply'.kind = kind /\ kind \notin {"none", "served", "serverOptions"} /\ kind \in Kinds
  BY DEF Scopes, Kinds
<1>4. TypeOK'
  BY <1>2, <1>3 DEF IInv, ContextFits, TypeOK, client, TreeMethods
<1>5. ContextFits'
  BY <1>2, <1>3, <1>4 DEF ContextFits
<1>6. HandlerSeesMatchedPath' /\ OthersAreNotServed'
  BY <1>3 DEF HandlerSeesMatchedPath, OthersAreNotServed
<1>7. AllowedIsHandled'
  BY <1>3 DEF AllowedIsHandled
<1>8. ReplyTells'
  BY <1>3 DEF ReplyTells
<1> QED BY <1>2, <1>5, <1>6, <1>7, <1>8, ReplyStep, FlagKept

\* What IInv says of the context before the lookup.
LEMMA ContextIsFresh ==
    ASSUME IInv, stage \in {"start", "normalize", "match"}
    PROVE  ctx.route = {} /\ ctx.params = <<>>
<1>1. ctx = FreshContext
  BY DEF IInv, BeforeMatch
<1> QED BY <1>1 DEF FreshContext

\* A refusal is no answer to a method that Allow named, unless Allow named it
\* because other methods are served.
LEMMA RefusedOnlyIf ==
    ASSUME IInv, Falling, UNCHANGED <<client, path>>,
           (/\ AutoOptions /\ ~nonCanonical /\ \E h \in TreeMethods : Grants(h, path)) => FALSE
    PROVE  AllowedIsHandled'
<1>1. ASSUME Retried({"noMethod", "options"})', req'.method \in prev'.allow \ {"CONNECT"}
      PROVE  FALSE
  <2>1. /\ ~prev.followed /\ prev.kind \in {"noMethod", "options"} /\ ~HasDotSegment(path)
        /\ "CONNECT" \in {prev.method, req.method} => ~HasNormalize
        /\ req.method \in prev.allow \ {"CONNECT"}
    BY <1>1 DEF Retried, client, HasNormalize
  <2> QED BY <2>1, AllowedIsFound
<1> QED BY <1>1 DEF AllowedIsHandled

LEMMA EmptyMethodStep ==
    ASSUME IInv, EmptyMethod
    PROVE  IInv'
<1>1. /\ stage = "start" /\ req.method = "" /\ stage' = "replied" /\ UNCHANGED client
      /\ reply' = [kind |-> "noRoute", allow |-> {}, location |-> <<>>]
      /\ ctx' = [ctx EXCEPT !.scope = "noRoute"]
      /\ UNCHANGED <<path, url, callerUrl, copied, rewritten, pattern, nonCanonical, found, todo, seen>>
  BY DEF EmptyMethod, Reply, KeepRequest
<1>2. AllowedIsHandled'
  <2>1. ASSUME Retried({"noMethod", "options"})', req'.method \in prev'.allow \ {"CONNECT"}
        PROVE  FALSE
    <3>1. ~prev.followed /\ prev.kind \in {"noMethod", "options"} /\ req.method \in prev.allow
      BY <1>1, <2>1 DEF Retried, client
    <3>2. AllowFacts(prev.method, prev.allow) /\ prev.method # req.method
      BY <3>1 DEF IInv, PrevTells, PrevIsOther, AllowSaysAll
    <3>3. Grants("", RoutedPath(prev.method))
      BY <1>1, <3>1, <3>2 DEF AllowFacts
    <3> QED BY <3>3, EmptyNotGranted DEF IInv
  <2> QED BY <2>1 DEF AllowedIsHandled
<1>3. ReplyTells'
  BY <1>1 DEF ReplyTells, client
<1>4. ctx.route = {} /\ ctx.params = <<>>
  BY <1>1, ContextIsFresh
<1> QED BY <1>1, <1>2, <1>3, <1>4, PlainReply DEF Scopes, Redirects

LEMMA RejectPathStep ==
    ASSUME IInv, RejectPath
    PROVE  IInv'
<1>1. /\ stage = "normalize" /\ stage' = "replied" /\ UNCHANGED client
      /\ reply' = [kind |-> "rejectPath", allow |-> {}, location |-> <<>>]
      /\ ctx' = [ctx EXCEPT !.scope = "rejectPath"]
      /\ UNCHANGED <<path, url, callerUrl, copied, rewritten, pattern, nonCanonical, found, todo, seen>>
  BY DEF RejectPath, Reply, KeepRequest
<1>2. ctx.route = {} /\ ctx.params = <<>>
  BY <1>1, ContextIsFresh
<1> QED BY <1>1, <1>2, PlainReply DEF Scopes, Redirects

LEMMA RedirectPathStep ==
    ASSUME IInv, RedirectPath
    PROVE  IInv'
<1>1. /\ stage = "normalize" /\ stage' = "replied" /\ UNCHANGED client
      /\ reply' = [kind |-> "redirectPath", allow |-> {}, location |-> RedirectLocation]
      /\ ctx' = [ctx EXCEPT !.scope = "redirectPath"] /\ pattern' = ""
      /\ UNCHANGED <<path, url, callerUrl, copied, rewritten, nonCanonical, found, todo, seen>>
  BY DEF RedirectPath, Reply, KeepRequest
<1>2. ctx.route = {} /\ ctx.params = <<>>
  BY <1>1, ContextIsFresh
<1> QED BY <1>1, <1>2, PlainReply DEF Scopes, Redirects

LEMMA RedirectSlashStep ==
    ASSUME IInv, RedirectSlash
    PROVE  IInv'
<1>1. /\ stage = "found" /\ stage' = "replied" /\ UNCHANGED client
      /\ reply' = [kind |-> "redirectSlash", allow |-> {}, location |-> SlashLocation]
      /\ ctx' = [ctx EXCEPT !.params = <<>>, !.scope = "redirectSlash"] /\ pattern' = ""
      /\ UNCHANGED <<path, url, callerUrl, copied, rewritten, nonCanonical, found, todo, seen>>
  BY DEF RedirectSlash, Reply, KeepRequest
<1>2. IsContext(ctx) /\ ctx.route = {}
  BY <1>1 DEF IInv, Shapes, WhenFound
<1>3. ctx' = [scope |-> "redirectSlash", route |-> {}, params |-> <<>>]
  <2> DEFINE s == ctx.scope
             q == ctx.params
  <2>1. ctx = [scope |-> s, route |-> {}, params |-> q]
    BY <1>2 DEF IsContext
  <2> HIDE DEF s, q
  <2> QED BY <1>1, <2>1
<1>4. /\ IsContext(ctx') /\ ctx'.scope = "redirectSlash" /\ ctx'.route = {} /\ ctx'.params = <<>>
      /\ reply'.kind = "redirectSlash"
  <2>1. reply'.kind = "redirectSlash"
    BY <1>1
  <2>2. IsContext(ctx') /\ ctx'.scope = "redirectSlash" /\ ctx'.route = {} /\ ctx'.params = <<>>
    BY <1>3 DEF IsContext
  <2> QED BY <2>1, <2>2
<1>5. TypeOK'
  BY <1>1, <1>4 DEF IInv, ContextFits, TypeOK, client, TreeMethods, Scopes, Kinds
<1>6. ContextFits' /\ HandlerSeesMatchedPath' /\ ReplyTells' /\ AllowedIsHandled' /\ OthersAreNotServed'
  BY <1>1, <1>4, <1>5 DEF ContextFits, HandlerSeesMatchedPath, ReplyTells, AllowedIsHandled, OthersAreNotServed
<1> QED BY <1>1, <1>4, <1>6, ReplyStep, FlagKept

LEMMA SystemWideOptionsStep ==
    ASSUME IInv, SystemWideOptions
    PROVE  IInv'
<1>1. /\ stage = "fallback" /\ stage' = "replied" /\ UNCHANGED client
      /\ reply'.kind = "serverOptions"
      /\ UNCHANGED <<path, url, callerUrl, copied, rewritten, pattern, ctx, nonCanonical, found, todo, seen>>
  BY DEF SystemWideOptions, Reply, local
<1>2. TypeOK'
  BY <1>1 DEF IInv, ContextFits, TypeOK, client, TreeMethods, Kinds
<1>3. ContextFits' /\ HandlerSeesMatchedPath' /\ ReplyTells' /\ AllowedIsHandled' /\ OthersAreNotServed'
  BY <1>1, <1>2 DEF ContextFits, HandlerSeesMatchedPath, ReplyTells, AllowedIsHandled, OthersAreNotServed
<1> QED BY <1>1, <1>3, ReplyStep, FlagKept DEF IInv, Shapes

LEMMA PreflightStep ==
    ASSUME IInv, Preflight
    PROVE  IInv'
<1>1. /\ stage = "fallback" /\ stage' = "replied" /\ UNCHANGED client
      /\ reply' = [kind |-> "options", allow |-> {}, location |-> <<>>]
      /\ ctx' = [ctx EXCEPT !.scope = "options"]
      /\ UNCHANGED <<path, url, callerUrl, copied, rewritten, pattern, nonCanonical, found, todo, seen>>
  BY DEF Preflight, Reply, KeepRequest
<1>2. ctx.route = {} /\ ctx.params = <<>> /\ pattern = ""
  BY <1>1 DEF IInv, WhenFalling, Falling
<1>3. ReplyTells'
  BY <1>1 DEF ReplyTells
<1> QED BY <1>1, <1>2, <1>3, PlainReply DEF Scopes, Redirects

\* What the loop and the lookup before it say when all methods were tried.
LEMMA LoopTells ==
    ASSUME IInv, stage = "allow", todo = {}, NEW allow,
           \A g \in allow \ {req.method} :
              g \in seen \/ (/\ g = "OPTIONS" /\ conf.autoOptions
                            /\ \E h \in seen : Grants(h, path)),
           seen \subseteq allow \cup {req.method}
    PROVE  AllowFacts(req.method, allow)
<1>1. ~nonCanonical /\ path = RoutedPath(req.method) /\ Canonical(req.method) /\ url = path
      /\ Missed /\ ~req.opaque
  BY DEF IInv, WhenFalling, Falling, AsksMethods
<1>2. \A g \in seen \ {req.method} : Grants(g, path)
  BY DEF IInv, AllowLoop
<1>3. ASSUME NEW g \in allow \ {req.method}
      PROVE  \/ Grants(g, path)
             \/ g = "OPTIONS" /\ conf.autoOptions /\ \E h \in TreeMethods : Grants(h, path)
  BY <1>2, GrantedMatches
<1>4. ASSUME NEW g \in TreeMethods \ (allow \cup {req.method}),
             NEW x \in Lookup(table, g, path), Allows(x, g)
      PROVE  x.route.methods \subseteq allow \cup {req.method}
  <2>1. g \in TreeMethods \ (todo \cup seen)
    OBVIOUS
  <2> QED BY <1>4, <2>1 DEF IInv, AllowLoop
<1>5. req.method # "CONNECT" /\ ~HasDotSegment(path) => Lookup(table, req.method, path) = {}
  BY <1>1, MissedMatchesNothing
<1> QED BY <1>1, <1>3, <1>4, <1>5 DEF AllowFacts

\* The facts a reply tells are about the request and the tables, which it keeps.
LEMMA TellsOf ==
    ASSUME IInv, UNCHANGED client, AllowFacts(req.method, reply'.allow)
    PROVE  ReplyTells'
<1>1. AllowFacts(req.method, reply.allow)'
  BY ClientFrame DEF IInv
<1> QED BY <1>1 DEF ReplyTells

LEMMA OptionsReplyStep ==
    ASSUME IInv, OptionsReply
    PROVE  IInv'
<1>1. /\ stage = "allow" /\ todo = {} /\ AutoOptions
      /\ stage' = "replied" /\ UNCHANGED client
      /\ reply' = [kind |-> "options", allow |-> seen \cup {"OPTIONS"}, location |-> <<>>]
      /\ ctx' = [ctx EXCEPT !.scope = "options"]
      /\ UNCHANGED <<path, url, callerUrl, copied, rewritten, pattern, nonCanonical, found, todo, seen>>
  BY DEF OptionsReply, Reply, KeepRequest
<1>2. ctx.route = {} /\ ctx.params = <<>> /\ pattern = ""
  BY <1>1 DEF IInv, WhenFalling, Falling
<1>3. AllowFacts(req.method, seen \cup {"OPTIONS"})
  BY <1>1, LoopTells DEF AutoOptions, IsOptions
<1>4. ReplyTells'
  BY <1>1, <1>3, TellsOf
<1> QED BY <1>1, <1>2, <1>4, PlainReply DEF Scopes, Redirects

LEMMA MethodNotAllowedStep ==
    ASSUME IInv, MethodNotAllowed
    PROVE  IInv'
<1> DEFINE allow == (seen \ {req.method}) \cup {m \in {"OPTIONS"} : conf.autoOptions}
<1>1. /\ stage = "allow" /\ todo = {} /\ ~AutoOptions /\ seen # {req.method}
      /\ stage' = "replied" /\ UNCHANGED client
      /\ reply' = [kind |-> "noMethod", allow |-> allow, location |-> <<>>]
      /\ ctx' = [ctx EXCEPT !.scope = "noMethod"]
      /\ UNCHANGED <<path, url, callerUrl, copied, rewritten, pattern, nonCanonical, found, todo, seen>>
  BY DEF MethodNotAllowed, Reply, KeepRequest
<1>2. ctx.route = {} /\ ctx.params = <<>> /\ pattern = ""
  BY <1>1 DEF IInv, WhenFalling, Falling
<1>3. \E h \in seen : h # req.method /\ Grants(h, path)
  <2>1. req.method \in seen
    BY <1>1 DEF IInv, AllowLoop
  <2>2. PICK h \in seen : h # req.method
    BY <1>1, <2>1
  <2> QED BY <1>1, <2>2 DEF IInv, AllowLoop
<1>4. AllowFacts(req.method, allow)
  BY <1>1, <1>3, LoopTells
<1>5. reply'.allow = allow
  BY <1>1
<1>6. ReplyTells'
  BY <1>1, <1>4, <1>5, TellsOf
<1>7. AllowedIsHandled'
  BY <1>1, RefusedOnlyIf DEF Falling
<1> HIDE DEF allow
<1> QED BY <1>1, <1>2, <1>6, <1>7, PlainReply DEF Scopes, Redirects

LEMMA NotFoundStep ==
    ASSUME IInv, NotFound
    PROVE  IInv'
<1>1. /\ stage \in {"fallback", "allow"} /\ stage' = "replied" /\ UNCHANGED client
      /\ reply' = [kind |-> "noRoute", allow |-> {}, location |-> <<>>]
      /\ ctx' = [ctx EXCEPT !.scope = "noRoute"]
      /\ UNCHANGED <<path, url, callerUrl, copied, rewritten, pattern, nonCanonical, found, todo, seen>>
  BY DEF NotFound, Reply, KeepRequest
<1>2. \/ stage = "fallback" /\ ~AsksMethods
      \/ stage = "allow" /\ todo = {} /\ seen \subseteq IF AutoOptions THEN {} ELSE {req.method}
  BY DEF NotFound
<1>3. ctx.route = {} /\ ctx.params = <<>>
  BY <1>1 DEF IInv, WhenFalling, Falling
<1>4. ReplyTells'
  <2>1. CASE stage = "fallback" /\ ~AsksMethods
    BY <1>1, <2>1 DEF ReplyTells, AsksMethods, client
  <2>2. CASE stage = "allow" /\ todo = {} /\ seen \subseteq IF AutoOptions THEN {} ELSE {req.method}
    <3>1. seen \subseteq {req.method}
      BY <2>2
    <3>2. AllowFacts(req.method, {})
      BY <2>2, <3>1, LoopTells
    <3> QED BY <1>1, <3>2, TellsOf
  <2> QED BY <1>2, <2>1, <2>2
<1>5. ASSUME AutoOptions, ~nonCanonical, NEW h \in TreeMethods, Grants(h, path)
      PROVE  FALSE
  <2>1. stage = "allow" /\ todo = {} /\ seen = {}
    BY <1>2, <1>5 DEF AsksMethods
  <2>2. PICK m \in TreeMethods : \E x \in Lookup(table, m, path) : Allows(x, m) /\ h \in x.route.methods
    BY <1>5 DEF Grants
  <2> QED BY <2>1, <2>2 DEF IInv, AllowLoop
<1>6. AllowedIsHandled'
  BY <1>1, <1>5, RefusedOnlyIf DEF Falling
<1> QED BY <1>1, <1>3, <1>4, <1>6, PlainReply DEF Scopes, Redirects

-----------------------------------------------------------------------------
(* The handler of a route *)

\* A match of a route is a match of that route alone.
LEMMA MatchAlone ==
    ASSUME NEW t, NEW method, NEW p, NEW m \in Matches(t, method, p)
    PROVE  m \in Matches({m.route}, method, p)
<1>1. m \in RM!MatchesOf(m.route, Query(method, p)) /\ RM!RouteAccepts(m.route, Query(method, p))
  BY MatchIn DEF RM!RouteAccepts, Query
<1> QED BY <1>1 DEF Matches, RM!AllMatches, Query

LEMMA ServeStep ==
    ASSUME IInv, stage = "found", NEW m \in found, Serve(m), Allows(m, req.method),
           callerUrl' = callerUrl, rewritten' \in BOOLEAN, copied' \in BOOLEAN, FlagFits',
           \E x \in Matches({m.route}, req.method, url') : ~x.tsr
    PROVE  IInv'
<1>1. /\ ctx' = [ctx EXCEPT !.route = {m.route}] /\ pattern' = m.route.pattern.str
      /\ UNCHANGED <<path, nonCanonical, found, todo, seen>>
      /\ stage' = "replied" /\ UNCHANGED client
      /\ reply' = [kind |-> "served", allow |-> {}, location |-> <<>>]
  BY DEF Serve, Reply
<1>2. /\ IsContext(ctx) /\ ctx.scope = "route" /\ ctx.params = m.caps
      /\ m \in Lookup(table, req.method, path)
  BY DEF IInv, Shapes, WhenFound
<1>3. ctx' = [scope |-> "route", route |-> {m.route}, params |-> m.caps]
  BY <1>1, <1>2, ContextUpdate
<1>4. IsContext(ctx') /\ ctx'.scope = "route" /\ ctx'.route = {m.route} /\ ctx'.params = m.caps
  BY <1>3 DEF IsContext
<1>5. reply'.kind = "served"
  BY <1>1
<1>6. m.route \in table
  BY <1>2, LookupChooses, MatchIn
<1>7. TypeOK'
  BY <1>1, <1>4, <1>5, <1>6 DEF IInv, ContextFits, TypeOK, client, TreeMethods, Scopes, Kinds
<1>8. ContextFits'
  BY <1>1, <1>4, <1>5, <1>7 DEF ContextFits, Redirects
<1>9. HandlerSeesMatchedPath'
  BY <1>1, <1>4 DEF HandlerSeesMatchedPath, client
<1>10. ReplyTells' /\ AllowedIsHandled'
  BY <1>5 DEF ReplyTells, AllowedIsHandled
<1>11. OthersAreNotServed'
  <2>1. ASSUME Retried({"noMethod", "options", "noRoute"})', AllowSaysAll', prev'.canonical,
               prev'.method # "CONNECT", req'.method \notin prev'.allow
        PROVE  FALSE
    <3>1. /\ ~prev.followed /\ prev.kind # "none" /\ ~HasDotSegment(path)
          /\ "CONNECT" \in {prev.method, req.method} => ~HasNormalize
          /\ prev.canonical /\ prev.method # "CONNECT" /\ req.method \notin prev.allow
      BY <1>1, <2>1 DEF Retried, client, HasNormalize
    <3>2. AllowSaysAll
      BY <1>1, <2>1 DEF AllowSaysAll, client
    <3>3. path = RoutedPath(req.method)
      BY DEF IInv, Looked
    <3> QED BY <1>2, <3>1, <3>2, <3>3, OtherIsNotServed
  <2> QED BY <2>1 DEF OthersAreNotServed
<1> QED BY <1>1, <1>4, <1>8, <1>9, <1>10, <1>11, ReplyStep

LEMMA ServeDirectStep ==
    ASSUME IInv, ServeDirect
    PROVE  IInv'
<1>1. PICK m \in found : ~m.tsr /\ Serve(m)
  BY DEF ServeDirect
<1>2. stage = "found" /\ UNCHANGED <<url, callerUrl, copied, rewritten>>
  BY DEF ServeDirect, KeepRequest
<1>3. m \in Lookup(table, req.method, path) /\ url = path /\ rewritten \in BOOLEAN /\ copied \in BOOLEAN /\ FlagFits
  BY <1>2 DEF IInv, WhenFound, Looked, ContextFits, TypeOK
<1>4. m \in Matches({m.route}, req.method, url')
  BY <1>2, <1>3, LookupChooses, MatchAlone
<1>5. Allows(m, req.method)
  BY <1>1 DEF Allows
<1> QED BY <1>1, <1>2, <1>3, <1>4, <1>5, ServeStep, FlagKept

LEMMA ServeRelaxedStep ==
    ASSUME IInv, ServeRelaxed
    PROVE  IInv'
<1>1. PICK m \in found : m.tsr /\ SlashApplies /\ m.route.slash = "relaxed" /\ Serve(m)
  BY DEF ServeRelaxed
<1>2. /\ stage = "found" /\ url' = FixTrailingSlash(path) /\ callerUrl' = callerUrl
      /\ rewritten' \in BOOLEAN /\ copied' \in BOOLEAN /\ FlagFits'
  BY DEF ServeRelaxed, Rewrite, IInv, ContextFits, TypeOK, FlagFits
<1>3. m \in Matches(table, req.method, path)
  BY <1>2, LookupChooses DEF IInv, WhenFound
<1>4. \E x \in Matches({m.route}, req.method, url') : ~x.tsr
  BY <1>1, <1>2, <1>3, SlashIsFixed
<1>5. Allows(m, req.method)
  BY <1>1 DEF Allows, SlashApplies
<1> QED BY <1>1, <1>2, <1>4, <1>5, ServeStep

-----------------------------------------------------------------------------
(* The client *)

\* A request is sent: what is left of the one before is what its reply told.
LEMMA SendStep ==
    ASSUME IInv, NEW q, NEW followed, Send(q, followed),
           q = [method |-> q.method, path |-> q.path, malformed |-> q.malformed,
                opaque |-> q.opaque, preflight |-> q.preflight],
           PrevTells', PrevIsOther'
    PROVE  IInv'
<1>1. /\ tries < MaxTries /\ stage' = "start" /\ reply' = NoReply /\ req' = q /\ table' = table
      /\ path' = q.path /\ url' = q.path /\ callerUrl' = q.path
      /\ rewritten' = FALSE /\ copied' = FALSE /\ nonCanonical' = FALSE
      /\ ctx' = FreshContext /\ found' = {} /\ todo' = {} /\ seen' = {}
      /\ tries' = tries + 1
      /\ prev' = [kind |-> reply.kind, method |-> req.method, allow |-> reply.allow,
                  canonical |-> ~nonCanonical, followed |-> followed]
  BY DEF Send
<1>2. ctx'.scope = "route" /\ ctx'.route = {} /\ IsContext(ctx')
  BY <1>1 DEF FreshContext, IsContext
<1>3. reply'.kind = "none" /\ prev'.kind = reply.kind
  BY <1>1 DEF NoReply
<1>4. tries' \in 0 .. MaxTries
  <2>1. tries \in 0 .. MaxTries
    BY DEF IInv, ContextFits, TypeOK
  <2> QED BY <1>1, <2>1, TriesAssumption
<1>5. TypeOK'
  <2>1. reply.kind \in Kinds
    BY DEF IInv, ContextFits, TypeOK
  <2>2. {m.route : m \in found'} = {}
    BY <1>1
  <2> QED BY <1>1, <1>2, <1>3, <1>4, <2>1, <2>2 DEF TypeOK, Scopes, Kinds
<1>6. ContextFits' /\ HandlerSeesMatchedPath' /\ AllowedIsHandled' /\ OthersAreNotServed' /\ ReplyTells'
  BY <1>1, <1>3, <1>5 DEF ContextFits, HandlerSeesMatchedPath, AllowedIsHandled, OthersAreNotServed,
                         ReplyTells, Retried
<1>7. Shapes'
  BY <1>1, <1>2 DEF IInv, Shapes
<1>8. CallerRequestKept' /\ FlagFits' /\ BeforeMatch'
  BY <1>1 DEF CallerRequestKept, FlagFits, BeforeMatch
<1>9. Looked' /\ WhenFound' /\ WhenFalling' /\ AllowLoop'
  BY <1>1 DEF Looked, WhenFound, WhenFalling, AllowLoop, Falling
<1> QED BY <1>5, <1>6, <1>7, <1>8, <1>9 DEF IInv

\* The request of a client that follows a redirect.
LEMMA FollowedRequest ==
    ASSUME IInv, Follow
    PROVE  \E q : /\ Send(q, TRUE)
                 /\ q = [method |-> req.method, path |-> Resolved(reply.location), malformed |-> FALSE,
                         opaque |-> FALSE, preflight |-> req.preflight]
<1> DEFINE m == req.method
           p == req.path
           f == req.malformed
           o == req.opaque
           c == req.preflight
           new == Resolved(reply.location)
           b == FALSE
           q == [req EXCEPT !.path = new, !.malformed = b, !.opaque = b]
           r == [req EXCEPT !.path = new]
           s == [r EXCEPT !.malformed = b]
<1>1. Send(q, TRUE)
  BY DEF Follow
<1>2. req = [method |-> m, path |-> p, malformed |-> f, opaque |-> o, preflight |-> c]
  BY DEF IInv, Shapes
<1>3. q = [s EXCEPT !.opaque = b]
  OBVIOUS
<1> HIDE DEF m, p, f, o, c, new, b, q
<1>4. r = [method |-> m, path |-> new, malformed |-> f, opaque |-> o, preflight |-> c]
  BY <1>2
<1> HIDE DEF r
<1>5. s = [method |-> m, path |-> new, malformed |-> b, opaque |-> o, preflight |-> c]
  BY <1>4
<1> HIDE DEF s
<1>6. q = [method |-> m, path |-> new, malformed |-> b, opaque |-> b, preflight |-> c]
  BY <1>3, <1>5
<1>7. q = [method |-> req.method, path |-> Resolved(reply.location), malformed |-> FALSE,
           opaque |-> FALSE, preflight |-> req.preflight]
  BY <1>6 DEF m, new, b, c
<1> QED BY <1>1, <1>7

LEMMA FollowStep ==
    ASSUME IInv, Follow
    PROVE  IInv'
<1>1. PICK q : /\ Send(q, TRUE)
               /\ q = [method |-> req.method, path |-> Resolved(reply.location), malformed |-> FALSE,
                       opaque |-> FALSE, preflight |-> req.preflight]
  BY FollowedRequest
<1>2. q = [method |-> q.method, path |-> q.path, malformed |-> q.malformed,
           opaque |-> q.opaque, preflight |-> q.preflight]
  BY <1>1
<1>3. prev'.followed = TRUE
  BY <1>1 DEF Send
<1>4. PrevTells' /\ PrevIsOther'
  BY <1>3 DEF PrevTells, PrevIsOther
<1> QED BY <1>1, <1>2, <1>4, SendStep

LEMMA TryMethodStep ==
    ASSUME IInv, NEW method \in Methods, TryMethod(method)
    PROVE  IInv'
<1> DEFINE q == [req EXCEPT !.method = method]
<1>1. /\ Send(q, FALSE) /\ method # req.method /\ req.method # ""
      /\ stage = "replied" /\ req' = q /\ table' = table /\ conf' = conf
      /\ prev' = [kind |-> reply.kind, method |-> req.method, allow |-> reply.allow,
                  canonical |-> ~nonCanonical, followed |-> FALSE]
  BY DEF TryMethod, Send
<1>2. /\ q = [method |-> q.method, path |-> q.path, malformed |-> q.malformed,
              opaque |-> q.opaque, preflight |-> q.preflight]
      /\ q.method = method /\ q.path = req.path /\ q.opaque = req.opaque
  BY DEF IInv, Shapes
<1> HIDE DEF q
<1>3. /\ prev'.kind = reply.kind /\ prev'.method = req.method /\ prev'.allow = reply.allow
      /\ (prev'.canonical <=> ~nonCanonical)
  BY <1>1
<1>4. PrevIsOther'
  BY <1>1, <1>2, <1>3 DEF PrevIsOther
<1>5. TreeMethods' = TreeMethods
  BY <1>1 DEF TreeMethods
<1>6. \A m : RoutedPath(m)' = RoutedPath(m) /\ (Canonical(m)' <=> Canonical(m))
  BY <1>1, <1>2 DEF RoutedPath, Canonical, NormalizedFor, HasNormalize, Norm
<1>7. \A g, p : Grants(g, p)' <=> Grants(g, p)
  BY <1>1, <1>5 DEF Grants
<1>8. AllowFacts(req.method, reply.allow) => AllowFacts(prev.method, prev.allow)'
  <2>1. \A m, a : AllowFacts(m, a)' <=> AllowFacts(m, a)
    BY <1>1, <1>2, <1>5, <1>6, <1>7 DEF AllowFacts
  <2> QED BY <1>3, <2>1
<1>9. PrevTells'
  BY <1>1, <1>3, <1>8 DEF IInv, ReplyTells, PrevTells, AllowSaysAll
<1> QED BY <1>1, <1>2, <1>4, <1>9, SendStep

-----------------------------------------------------------------------------

LEMMA StutterStep ==
    ASSUME IInv, UNCHANGED vars
    PROVE  IInv'
<1>1. UNCHANGED <<client, stage, reply>> /\ UNCHANGED local
  BY DEF vars
<1>2. UNCHANGED <<path, url, callerUrl, copied, rewritten, pattern, ctx, nonCanonical, found, todo, seen>>
  BY <1>1 DEF local
<1>3. UNCHANGED <<conf, table, req, prev, tries>>
  BY <1>1 DEF client
<1>4. Shapes' /\ CallerRequestKept' /\ FlagFits'
  BY <1>2, <1>3 DEF IInv, Shapes, CallerRequestKept, FlagFits
<1>5. ContextFits'
  BY <1>1, <1>2, <1>3 DEF IInv, ContextFits, TypeOK, TreeMethods
<1>6. PrevTells' /\ PrevIsOther' /\ ReplyTells'
  BY <1>1, <1>2, <1>3, ClientFrame DEF IInv, ReplyTells
<1>7. Missed' <=> Missed
  BY <1>2, <1>3 DEF Missed, SlashApplies
<1>8. AsksMethods' <=> AsksMethods
  BY <1>2, <1>3 DEF AsksMethods, AutoOptions, IsOptions
<1>9. BeforeMatch' /\ Looked' /\ WhenFound' /\ WhenFalling' /\ AllowLoop'
  BY <1>1, <1>2, <1>3, <1>7, <1>8, ClientFrame
     DEF IInv, BeforeMatch, Looked, WhenFound, WhenFalling, Falling, AllowLoop
<1>10. HandlerSeesMatchedPath' /\ AllowedIsHandled' /\ OthersAreNotServed'
  BY <1>1, <1>2, <1>3 DEF IInv, HandlerSeesMatchedPath, AllowedIsHandled, OthersAreNotServed,
                         Retried, AllowSaysAll, HasNormalize
<1> QED BY <1>4, <1>5, <1>6, <1>9, <1>10 DEF IInv

\* Every step of ServeHTTP and of the client keeps the inductive invariant.
LEMMA NextStep ==
    ASSUME IInv, [Next]_vars
    PROVE  IInv'
<1>1. CASE EmptyMethod BY <1>1, EmptyMethodStep
<1>2. CASE RoutingPath BY <1>2, RoutingPathStep
<1>3. CASE NormalizeOff BY <1>3, NormalizeOffStep
<1>4. CASE RejectPath BY <1>4, RejectPathStep
<1>5. CASE RedirectPath BY <1>5, RedirectPathStep
<1>6. CASE NotCanonical BY <1>6, NotCanonicalStep
<1>7. CASE NormalizePath BY <1>7, NormalizePathStep
<1>8. CASE Match BY <1>8, MatchStep
<1>9. CASE ServeDirect BY <1>9, ServeDirectStep
<1>10. CASE ServeRelaxed BY <1>10, ServeRelaxedStep
<1>11. CASE RedirectSlash BY <1>11, RedirectSlashStep
<1>12. CASE Miss BY <1>12, MissStep
<1>13. CASE NoMatch BY <1>13, NoMatchStep
<1>14. CASE SystemWideOptions BY <1>14, SystemWideOptionsStep
<1>15. CASE Preflight BY <1>15, PreflightStep
<1>16. CASE StartAllow BY <1>16, StartAllowStep
<1>17. CASE \E m \in TreeMethods : AllowStep(m) BY <1>17, AllowStepStep
<1>18. CASE OptionsReply BY <1>18, OptionsReplyStep
<1>19. CASE MethodNotAllowed BY <1>19, MethodNotAllowedStep
<1>20. CASE NotFound BY <1>20, NotFoundStep
<1>21. CASE Follow BY <1>21, FollowStep
<1>22. CASE \E m \in Methods : TryMethod(m) BY <1>22, TryMethodStep
<1>23. CASE UNCHANGED vars BY <1>23, StutterStep
<1> QED BY <1>1, <1>2, <1>3, <1>4, <1>5, <1>6, <1>7, <1>8, <1>9, <1>10, <1>11, <1>12, <1>13,
           <1>14, <1>15, <1>16, <1>17, <1>18, <1>19, <1>20, <1>21, <1>22, <1>23 DEF Next

\* The inductive invariant holds in every state of ServeHTTP and its client.
LEMMA DispatchInv ==
    Spec => []IInv
<1>1. Init => IInv
  BY InitHolds
<1>2. IInv /\ [Next]_vars => IInv'
  BY NextStep
<1> QED BY <1>1, <1>2, PTL DEF Spec

-----------------------------------------------------------------------------
(* Finitely many matches *)

\* The image of a finite set, and the union of a finite family of finite sets.
LEMMA ImageFinite ==
    ASSUME NEW S, IsFiniteSet(S), NEW f
    PROVE  IsFiniteSet({f[x] : x \in S})
<1> DEFINE T == {f[x] : x \in S}
           g == [x \in S |-> f[x]]
<1>1. g \in Surjection(S, T)
  BY DEF Surjection
<1> HIDE DEF g, T
<1>2. IsFiniteSet(T)
  BY <1>1, FS_Surjection
<1> QED BY <1>2 DEF T

LEMMA FamilyFinite ==
    ASSUME NEW S, IsFiniteSet(S), NEW f, \A x \in S : IsFiniteSet(f[x])
    PROVE  IsFiniteSet(UNION {f[x] : x \in S})
<1> DEFINE T == {f[x] : x \in S}
<1>1. IsFiniteSet(T)
  BY ImageFinite
<1>2. \A A \in T : IsFiniteSet(A)
  OBVIOUS
<1> HIDE DEF T
<1>3. IsFiniteSet(UNION T)
  BY <1>1, <1>2, FS_UNION
<1> QED BY <1>3 DEF T

\* What paths consist of.
Chars == STRING \cup {Slash, EncodedSlash}

Steps == Nat \X Nat \X Nat

\* The steps of a match of a path, before any slash is added or dropped.
PathTrace(t) == t \in Seq(Steps) /\ \A i \in 1 .. Len(t) : t[i][1] <= 3

IsMatch(m, n) == /\ m = [caps |-> m.caps, trace |-> m.trace]
                 /\ PathTrace(m.trace) /\ Len(m.trace) >= n

\* Finitely many ways to match, each of at least n steps.
MatchSet(M, n) == IsFiniteSet(M) /\ \A m \in M : IsMatch(m, n)

IsToken(tk) == tk.typ = "static" => tk.value \in Seq(STRING) \ {<<>>}
AreTokens(tokens) == tokens \in Seq(ToSet(tokens)) /\ \A tk \in ToSet(tokens) : IsToken(tk)

\* Traces of matches are made of traces.
LEMMA JoinedTraces ==
    ASSUME NEW s, NEW t, PathTrace(s), PathTrace(t)
    PROVE  PathTrace(s \o t) /\ Len(s \o t) = Len(s) + Len(t)
<1>1. /\ s \o t \in Seq(Steps) /\ Len(s \o t) = Len(s) + Len(t)
      /\ \A i \in 1 .. Len(s) + Len(t) : (s \o t)[i] = IF i <= Len(s) THEN s[i] ELSE t[i - Len(s)]
  BY ConcatProperties DEF PathTrace
<1>2. ASSUME NEW i \in 1 .. Len(s \o t) PROVE (s \o t)[i][1] <= 3
  <2>1. Len(s) \in Nat /\ Len(t) \in Nat
    BY DEF PathTrace
  <2>2. CASE i <= Len(s)
    BY <1>1, <2>1, <2>2 DEF PathTrace
  <2>3. CASE ~(i <= Len(s))
    <3>1. i - Len(s) \in 1 .. Len(t)
      BY <1>1, <2>1, <2>3
    <3> QED BY <1>1, <2>3, <3>1 DEF PathTrace
  <2> QED BY <2>2, <2>3
<1> QED BY <1>1, <1>2 DEF PathTrace

LEMMA BraceTrace ==
    ASSUME NEW tk, NEW last, NEW k \in Nat
    PROVE  PathTrace(<<RM!BraceStep(tk, last, k)>>)
<1>1. RM!BraceStep(tk, last, k) \in Steps /\ RM!BraceStep(tk, last, k)[1] <= 3
  BY DEF RM!BraceStep, Steps
<1> HIDE DEF Steps
<1> QED BY <1>1 DEF PathTrace

LEMMA StaticTrace ==
    ASSUME NEW v \in Seq(STRING)
    PROVE  LET t == [n \in DOMAIN v |-> RM!StaticStep] IN PathTrace(t) /\ Len(t) = Len(v)
<1> DEFINE t == [n \in DOMAIN v |-> RM!StaticStep]
<1>1. RM!StaticStep \in Steps /\ RM!StaticStep[1] <= 3
  BY DEF RM!StaticStep, Steps
<1> HIDE DEF Steps
<1>2. t \in Seq(Steps) /\ Len(t) = Len(v) /\ \A i \in 1 .. Len(v) : t[i] = RM!StaticStep
  BY <1>1
<1> HIDE DEF t
<1> QED BY <1>1, <1>2 DEF PathTrace, t

\* A match of one more token.
LEMMA LongerMatch ==
    ASSUME NEW m, NEW n \in Nat, IsMatch(m, n), NEW t, PathTrace(t), Len(t) >= 1, NEW c
    PROVE  /\ IsMatch([caps |-> c, trace |-> t \o m.trace], n + 1)
           /\ [m EXCEPT !.trace = t \o @] = [caps |-> m.caps, trace |-> t \o m.trace]
<1> DEFINE u == t \o m.trace
<1>1. PathTrace(u) /\ Len(u) >= n + 1
  <2>1. Len(t) \in Nat /\ Len(m.trace) \in Nat
    BY DEF IsMatch, PathTrace
  <2> QED BY <2>1, JoinedTraces DEF IsMatch
<1>2. m = [caps |-> m.caps, trace |-> m.trace]
  BY DEF IsMatch
<1> HIDE DEF u
<1>3. IsMatch([caps |-> c, trace |-> u], n + 1)
  BY <1>1 DEF IsMatch
<1>4. [m EXCEPT !.trace = u] = [caps |-> m.caps, trace |-> u]
  BY <1>2
<1> QED BY <1>3, <1>4 DEF u

\* One token in front keeps the matches finitely many.
LEMMA MatchesBehindToken ==
    ASSUME NEW tk, IsToken(tk), NEW last, NEW s \in Seq(Chars), NEW delim, NEW j \in 0 .. Len(s),
           NEW next, NEW n \in Nat, \A k \in 0 .. Len(s) : MatchSet(next[k], n)
    PROVE  MatchSet(RM!MatchesBehind(tk, last, s, delim, j, next), n + 1)
<1> DEFINE rest == SubSeq(s, j + 1, Len(s))
<1>1. Len(s) \in Nat /\ rest \in Seq(Chars) /\ Len(rest) = Len(s) - j
  OBVIOUS
<1>2. Len(RM!Folded(rest, delim)) = Len(rest)
  <2>1. CASE delim = RM!Dot
    <3>1. RM!Folded(rest, delim) = [i \in 1 .. Len(rest) |-> RM!Lower(rest[i])]
      BY <1>1, <2>1 DEF RM!Folded
    <3> DEFINE A == {RM!Lower(rest[i]) : i \in 1 .. Len(rest)}
               u == [i \in 1 .. Len(rest) |-> RM!Lower(rest[i])]
    <3>2. \A i \in 1 .. Len(rest) : RM!Lower(rest[i]) \in A
      OBVIOUS
    <3> HIDE DEF rest, A
    <3>3. u \in Seq(A) /\ DOMAIN u = 1 .. Len(rest)
      BY <1>1, <3>2
    <3> HIDE DEF u
    <3>4. Len(u) = Len(rest)
      BY <1>1, <3>3
    <3> QED BY <3>1, <3>4 DEF u
  <2>2. CASE delim # RM!Dot
    BY <2>2 DEF RM!Folded
  <2> QED BY <2>1, <2>2
<1>3. CASE tk.typ = "static"
  <2>1. CASE ~RM!IsPrefix(tk.value, RM!Folded(rest, delim))
    <3>1. RM!MatchesBehind(tk, last, s, delim, j, next) = {}
      BY <1>3, <2>1 DEF RM!MatchesBehind
    <3> QED BY <3>1, FS_EmptySet DEF MatchSet
  <2>2. CASE RM!IsPrefix(tk.value, RM!Folded(rest, delim))
    <3> DEFINE v == tk.value
               t == [i \in DOMAIN v |-> RM!StaticStep]
               S == next[j + Len(v)]
               f == [m \in S |-> [m EXCEPT !.trace = t \o @]]
    <3>1. v \in Seq(STRING) /\ Len(v) \in Nat /\ Len(v) >= 1
      BY <1>3 DEF IsToken
    <3>2. Len(v) <= Len(rest)
      BY <1>2, <2>2 DEF RM!IsPrefix
    <3>3. j + Len(v) \in 0 .. Len(s)
      BY <1>1, <3>1, <3>2
    <3>4. PathTrace(t) /\ Len(t) = Len(v)
      BY <3>1, StaticTrace
    <3>5. RM!MatchesBehind(tk, last, s, delim, j, next) = {f[m] : m \in S}
      BY <1>3, <2>2 DEF RM!MatchesBehind
    <3> HIDE DEF v, t
    <3>6. IsFiniteSet(S) /\ \A m \in S : IsMatch(m, n)
      BY <3>3 DEF MatchSet
    <3>7. ASSUME NEW m \in S PROVE IsMatch(f[m], n + 1)
      <4>1. f[m] = [caps |-> m.caps, trace |-> t \o m.trace]
        BY <3>1, <3>4, <3>6, LongerMatch
      <4>2. IsMatch([caps |-> m.caps, trace |-> t \o m.trace], n + 1)
        BY <3>1, <3>4, <3>6, LongerMatch
      <4> QED BY <4>1, <4>2
    <3> HIDE DEF f, S
    <3> QED BY <3>5, <3>6, <3>7, ImageFinite DEF MatchSet
  <2> QED BY <2>1, <2>2
<1>4. CASE tk.typ # "static"
  <2> DEFINE K == RM!Lengths(tk, rest, delim)
             g(k, m) == [caps |-> <<SubSeq(rest, 1, k)>> \o m.caps,
                         trace |-> <<RM!BraceStep(tk, last, k)>> \o m.trace]
             f == [k \in K |-> {g(k, m) : m \in next[j + k]}]
  <2>1. K \subseteq 1 .. Len(rest)
    BY DEF RM!Lengths
  <2>2. IsFiniteSet(K)
    <3> HIDE DEF K, rest
    <3>1. IsFiniteSet(1 .. Len(rest))
      <4>1. 1 \in Int /\ Len(rest) \in Int
        BY <1>1
      <4> QED BY <4>1, FS_Interval
    <3> QED BY <2>1, <3>1, FS_Subset
  <2>3. RM!MatchesBehind(tk, last, s, delim, j, next) = UNION {f[k] : k \in K}
    <3>1. RM!MatchesBehind(tk, last, s, delim, j, next) = UNION {{g(k, m) : m \in next[j + k]} : k \in K}
      BY <1>4 DEF RM!MatchesBehind
    <3> QED BY <3>1
  <2> HIDE DEF K, rest
  <2>4. ASSUME NEW k \in K PROVE MatchSet(f[k], n + 1)
    <3>1. k \in Nat /\ j + k \in 0 .. Len(s)
      BY <1>1, <2>1
    <3> DEFINE S == next[j + k]
               h == [m \in S |-> g(k, m)]
    <3>2. IsFiniteSet(S) /\ \A m \in S : IsMatch(m, n)
      BY <3>1 DEF MatchSet
    <3> DEFINE t == <<RM!BraceStep(tk, last, k)>>
    <3>3. PathTrace(t) /\ Len(t) = 1
      BY <3>1, BraceTrace
    <3>4. ASSUME NEW m \in S PROVE IsMatch(g(k, m), n + 1)
      <4> DEFINE c == <<SubSeq(rest, 1, k)>> \o m.caps
      <4>1. g(k, m) = [caps |-> c, trace |-> t \o m.trace]
        OBVIOUS
      <4> HIDE DEF S, t, c, g
      <4>2. IsMatch(m, n) /\ Len(t) >= 1
        BY <3>2, <3>3
      <4>3. IsMatch([caps |-> c, trace |-> t \o m.trace], n + 1)
        BY <3>3, <4>2, LongerMatch
      <4> QED BY <4>1, <4>3
    <3>5. f[k] = {h[m] : m \in S}
      OBVIOUS
    <3>6. \A m \in S : IsMatch(h[m], n + 1)
      BY <3>4
    <3> HIDE DEF h, f, S
    <3> QED BY <3>2, <3>5, <3>6, ImageFinite DEF MatchSet
  <2> HIDE DEF f
  <2>5. IsFiniteSet(UNION {f[k] : k \in K})
    BY <2>2, <2>4, FamilyFinite DEF MatchSet
  <2> QED BY <2>3, <2>4, <2>5 DEF MatchSet
<1> QED BY <1>3, <1>4

\* The rows of the recursive function, each from the next.
MatchRow(tokens, s, delim, i, next) ==
    [j \in 0 .. Len(s) |->
        IF i < Len(tokens)
        THEN RM!MatchesBehind(tokens[i + 1], i + 1 = Len(tokens), s, delim, j, next)
        ELSE IF j = Len(s) THEN {[caps |-> <<>>, trace |-> <<>>]} ELSE {}]

LEMMA MatchRows ==
    ASSUME NEW tokens, Len(tokens) \in Nat, NEW s, NEW delim
    PROVE  \E F : /\ RM!TokenMatches(tokens, s, delim) = F[0][0]
                  /\ \A i \in 0 .. Len(tokens) : F[i] = MatchRow(tokens, s, delim, i, F[i + 1])
<1> DEFINE N == Len(tokens)
           Row(i, next) == MatchRow(tokens, s, delim, i, next)
           Fits(g, m) == g = [i \in m .. N |-> Row(i, g[i + 1])]
           Part(m) == \E g : Fits(g, m)
           S == {m \in 0 .. N : Part(N - m)}
           F == CHOOSE g : Fits(g, 0)
<1>1. N \in Nat
  OBVIOUS
<1>2. RM!TokenMatches(tokens, s, delim) = F[0][0]
  BY DEF RM!TokenMatches, MatchRow
<1>3. \A next, other : Row(N, next) = Row(N, other)
  BY DEF MatchRow
<1> HIDE DEF Row, N
<1>4. Part(N)
  <2> DEFINE g == [i \in N .. N |-> Row(N, <<>>)]
  <2>1. \A i \in N .. N : g[i] = Row(i, g[i + 1])
    BY <1>1, <1>3
  <2>2. g = [i \in N .. N |-> g[i]]
    OBVIOUS
  <2> HIDE DEF g
  <2>3. Fits(g, N)
    BY <2>1, <2>2
  <2> HIDE DEF Fits
  <2> QED BY <2>3
<1>5. ASSUME NEW m \in 0 .. N, m # N, Part(m + 1) PROVE Part(m)
  <2>1. PICK g : Fits(g, m + 1)
    BY <1>5
  <2> DEFINE h == [i \in m .. N |-> IF i = m THEN Row(m, g[m + 1]) ELSE g[i]]
  <2>2. ASSUME NEW i \in m .. N PROVE h[i] = Row(i, h[i + 1])
    <3>1. CASE i = m
      <4>1. i + 1 \in m .. N /\ i + 1 # m
        BY <1>1, <1>5, <3>1
      <4>2. h[i + 1] = g[m + 1]
        BY <3>1, <4>1
      <4>3. h[i] = Row(m, g[m + 1])
        BY <3>1
      <4> HIDE DEF h
      <4> QED BY <3>1, <4>2, <4>3
    <3>2. CASE i # m
      <4>1. i \in m + 1 .. N /\ h[i] = g[i]
        BY <1>1, <3>2
      <4>2. g[i] = Row(i, g[i + 1])
        BY <2>1, <4>1
      <4>3. CASE i = N
        BY <1>3, <4>1, <4>2, <4>3
      <4>4. CASE i # N
        <5>1. i + 1 \in m .. N /\ i + 1 # m
          BY <1>1, <3>2, <4>4
        <5>2. h[i + 1] = g[i + 1]
          BY <5>1
        <5> HIDE DEF h
        <5> QED BY <4>1, <4>2, <5>2
      <4> QED BY <4>3, <4>4
    <3> QED BY <3>1, <3>2
  <2>3. h = [i \in m .. N |-> h[i]]
    OBVIOUS
  <2> HIDE DEF h
  <2>4. Fits(h, m)
    BY <2>2, <2>3
  <2> HIDE DEF Fits
  <2> QED BY <2>4
<1>6. Part(0)
  <2>1. 0 \in S
    <3>1. N - 0 = N
      BY <1>1
    <3> HIDE DEF Part
    <3> QED BY <1>1, <1>4, <3>1
  <2>2. ASSUME NEW m \in 1 .. N, m - 1 \in S PROVE m \in S
    <3>1. N - m \in 0 .. N /\ N - m # N /\ N - (m - 1) = (N - m) + 1
      BY <1>1
    <3> HIDE DEF Part
    <3>2. Part((N - m) + 1)
      BY <2>2, <3>1
    <3>3. Part(N - m)
      BY <1>5, <3>1, <3>2
    <3> QED BY <3>3
  <2>3. \A i \in 0 .. N : i \in S
    <3> HIDE DEF S
    <3> QED BY <1>1, <2>1, <2>2, UpTo
  <2>4. N \in 0 .. N /\ N - N = 0
    BY <1>1
  <2> HIDE DEF Part
  <2> QED BY <2>3, <2>4
<1>7. Fits(F, 0)
  <2> HIDE DEF Fits
  <2> QED BY <1>6
<1>8. \A i \in 0 .. N : F[i] = Row(i, F[i + 1])
  <2> HIDE DEF F
  <2> QED BY <1>7
<1> HIDE DEF F
<1> QED BY <1>2, <1>8 DEF Row, N

\* Finitely many ways to match, with a step for each token at least, and none to
\* match the empty string.
LEMMA TokenMatchSet ==
    ASSUME NEW tokens, AreTokens(tokens), NEW s \in Seq(Chars), NEW delim
    PROVE  /\ MatchSet(RM!TokenMatches(tokens, s, delim), Len(tokens))
           /\ tokens # <<>> /\ s = <<>> => RM!TokenMatches(tokens, s, delim) = {}
<1> DEFINE N == Len(tokens)
<1>1. N \in Nat /\ Len(s) \in Nat /\ \A i \in 1 .. N : tokens[i] \in ToSet(tokens) /\ IsToken(tokens[i])
  BY DEF AreTokens, ToSet
<1>2. PICK F : /\ RM!TokenMatches(tokens, s, delim) = F[0][0]
               /\ \A i \in 0 .. N : F[i] = MatchRow(tokens, s, delim, i, F[i + 1])
  <2>1. Len(tokens) \in Nat
    BY <1>1
  <2> QED BY <2>1, MatchRows
<1> DEFINE T == {d \in 0 .. N : \A j \in 0 .. Len(s) : MatchSet(F[N - d][j], d)}
<1>3. ASSUME NEW j \in 0 .. Len(s) PROVE MatchSet(F[N][j], 0)
  <2> DEFINE e == [caps |-> <<>>, trace |-> <<>>]
  <2>1. F[N][j] = {e} \/ F[N][j] = {}
    <3>1. F[N] = MatchRow(tokens, s, delim, N, F[N + 1]) /\ ~(N < N)
      BY <1>1, <1>2
    <3> QED BY <3>1 DEF MatchRow
  <2>2. IsMatch(e, 0)
    BY DEF IsMatch, PathTrace
  <2> HIDE DEF e
  <2>3. IsFiniteSet({e}) /\ IsFiniteSet({})
    BY FS_Singleton, FS_EmptySet
  <2> QED BY <2>1, <2>2, <2>3 DEF MatchSet
<1>4. ASSUME NEW i \in 0 .. N, i # N, NEW j \in 0 .. Len(s)
      PROVE  F[i][j] = RM!MatchesBehind(tokens[i + 1], i + 1 = Len(tokens), s, delim, j, F[i + 1])
  <2>1. F[i] = MatchRow(tokens, s, delim, i, F[i + 1]) /\ i < N
    BY <1>1, <1>2, <1>4
  <2> QED BY <2>1 DEF MatchRow
<1> HIDE DEF N
<1>5. ASSUME NEW d \in 1 .. N, \A j \in 0 .. Len(s) : MatchSet(F[N - (d - 1)][j], d - 1), NEW j \in 0 .. Len(s)
      PROVE  MatchSet(F[N - d][j], d)
  <2> DEFINE i == N - d
             last == i + 1 = Len(tokens)
             next == F[i + 1]
  <2>1. i \in 0 .. N /\ i # N /\ i + 1 \in 1 .. N /\ i + 1 = N - (d - 1) /\ d - 1 \in Nat /\ (d - 1) + 1 = d
    BY <1>1
  <2>2. F[i][j] = RM!MatchesBehind(tokens[i + 1], last, s, delim, j, next)
    BY <1>4, <2>1
  <2>3. \A k \in 0 .. Len(s) : MatchSet(next[k], d - 1)
    BY <1>5, <2>1
  <2>4. IsToken(tokens[i + 1])
    BY <1>1, <2>1
  <2> HIDE DEF i, next, last
  <2>5. MatchSet(RM!MatchesBehind(tokens[i + 1], last, s, delim, j, next), (d - 1) + 1)
    BY <2>1, <2>3, <2>4, MatchesBehindToken
  <2> QED BY <2>1, <2>2, <2>5 DEF i
<1>6. \A d \in 0 .. N : d \in T
  <2>1. 0 \in T
    <3>1. N - 0 = N
      BY <1>1
    <3> QED BY <1>1, <1>3, <3>1
  <2>2. ASSUME NEW d \in 1 .. N, d - 1 \in T PROVE d \in T
    <3>1. \A j \in 0 .. Len(s) : MatchSet(F[N - (d - 1)][j], d - 1)
      BY <2>2
    <3>2. \A j \in 0 .. Len(s) : MatchSet(F[N - d][j], d)
      BY <1>5, <3>1
    <3> QED BY <1>1, <3>2
  <2> HIDE DEF T
  <2> QED BY <1>1, <2>1, <2>2, UpTo
<1>7. MatchSet(F[0][0], N)
  <2>1. N \in T /\ N - N = 0 /\ 0 \in 0 .. Len(s)
    BY <1>1, <1>6
  <2> QED BY <2>1
<1>8. ASSUME tokens # <<>>, s = <<>>, NEW z, z = 0 PROVE F[z][z] = {}
  <2> DEFINE tk == tokens[z + 1]
             rest == SubSeq(s, z + 1, Len(s))
  <2>1. N # 0 /\ z \in 0 .. N /\ z # N /\ z + 1 \in 1 .. N /\ z \in 0 .. Len(s) /\ IsToken(tk)
    <3>1. N # 0
      BY <1>8 DEF N, AreTokens
    <3> QED BY <1>1, <1>8, <3>1
  <2>2. F[z][z] = RM!MatchesBehind(tk, z + 1 = Len(tokens), s, delim, z, F[z + 1])
    BY <1>4, <2>1
  <2>3. Len(rest) = 0 /\ Len(RM!Folded(rest, delim)) = 0
    BY <1>8 DEF RM!Folded
  <2>4. CASE tk.typ = "static"
    <3>1. Len(tk.value) \in Nat /\ Len(tk.value) > 0
      BY <2>1, <2>4 DEF IsToken
    <3>2. ~RM!IsPrefix(tk.value, RM!Folded(rest, delim))
      BY <2>3, <3>1 DEF RM!IsPrefix
    <3> HIDE DEF tk
    <3> QED BY <2>2, <2>4, <3>2 DEF RM!MatchesBehind
  <2>5. CASE tk.typ # "static"
    <3> HIDE DEF tk, rest
    <3>1. RM!Lengths(tk, rest, delim) = {}
      <4>1. 1 .. Len(rest) = {}
        BY <2>3
      <4> QED BY <4>1 DEF RM!Lengths
    <3> USE DEF rest
    <3> QED BY <2>2, <2>5, <3>1 DEF RM!MatchesBehind
  <2> QED BY <2>4, <2>5
<1> QED BY <1>2, <1>7, <1>8 DEF N

IsPattern(p) ==
    /\ p.tokens \in Seq(ToSet(p.tokens))
    /\ \A tk \in ToSet(p.tokens) : tk.typ = "static" => tk.value \in Seq(STRING) \ {<<>>}
    /\ p.hostLen \in 0 .. Len(p.tokens) - 1
    /\ p.tokens[p.hostLen + 1].typ = "static"
    /\ p.optionalCatchAll => Last(p.tokens).typ = "wildcard"

\* The tokens of a part of a pattern.
LEMMA TokensOfPart ==
    ASSUME NEW tokens, AreTokens(tokens), NEW a \in 1 .. Len(tokens) + 1, NEW b \in a - 1 .. Len(tokens)
    PROVE  LET part == SubSeq(tokens, a, b)
           IN  /\ AreTokens(part) /\ Len(part) = b - a + 1
               /\ \A i \in 1 .. b - a + 1 : part[i] = tokens[a + i - 1]
<1> DEFINE part == SubSeq(tokens, a, b)
           A == ToSet(tokens)
<1>1. tokens \in Seq(A) /\ Len(tokens) \in Nat
  BY DEF AreTokens
<1>2. \A i \in a .. b : i \in 1 .. Len(tokens)
  BY <1>1
<1> HIDE DEF A
<1>3. part \in Seq(A) /\ Len(part) = b - a + 1 /\ \A i \in 1 .. b - a + 1 : part[i] = tokens[a + i - 1]
  BY <1>1, <1>2
<1> HIDE DEF part
<1>4. part \in Seq(ToSet(part)) /\ ToSet(part) \subseteq A
  <2>1. DOMAIN part = 1 .. Len(part) /\ Len(part) \in Nat /\ \A i \in DOMAIN part : part[i] \in ToSet(part) /\ part[i] \in A
    BY <1>3 DEF ToSet
  <2>2. ToSet(part) \subseteq A
    BY <2>1 DEF ToSet
  <2>3. part \in Seq(ToSet(part))
    BY <1>3, <2>1
  <2> QED BY <2>2, <2>3
<1> QED BY <1>3, <1>4 DEF AreTokens, A, part

\* Finitely many ways to match a path; none to match the empty path.
LEMMA PathMatchSet ==
    ASSUME NEW p, IsPattern(p), NEW s \in Seq(Chars)
    PROVE  /\ MatchSet(RM!PathMatches(p, s), 1)
           /\ RM!Last(p.tokens).typ = "wildcard" => MatchSet(RM!PathMatches(p, s), 2)
           /\ s = <<>> => RM!PathMatches(p, s) = {}
<1> DEFINE N == Len(p.tokens)
           tokens == SubSeq(p.tokens, p.hostLen + 1, N)
           n == Len(tokens)
           front == RM!Front(tokens)
           M == RM!TokenMatches(tokens, s, "/")
           E == IF ~p.optionalCatchAll THEN {} ELSE RM!TokenMatches(front, s, "/")
           e(m) == [caps |-> Append(m.caps, <<>>), trace |-> Append(m.trace, RM!BraceStep(RM!Last(tokens), TRUE, 0))]
<1>1. AreTokens(p.tokens) /\ N \in Nat /\ p.hostLen \in 0 .. N - 1
  BY DEF IsPattern, AreTokens, IsToken
<1>2. /\ AreTokens(tokens) /\ n = N - p.hostLen /\ n \in Nat /\ n >= 1
      /\ tokens[1] = p.tokens[p.hostLen + 1] /\ tokens[n] = p.tokens[N]
  <2>1. /\ p.hostLen + 1 \in 1 .. N + 1 /\ N \in (p.hostLen + 1) - 1 .. N
        /\ N - (p.hostLen + 1) + 1 = N - p.hostLen
        /\ 1 \in 1 .. N - p.hostLen /\ N - p.hostLen \in 1 .. N - p.hostLen
        /\ (p.hostLen + 1) + 1 - 1 = p.hostLen + 1 /\ (p.hostLen + 1) + (N - p.hostLen) - 1 = N
        /\ N - p.hostLen \in Nat /\ N - p.hostLen >= 1
    <3> DEFINE h == p.hostLen
    <3>1. N \in Nat /\ h \in Nat /\ h <= N - 1
      BY <1>1
    <3> HIDE DEF N, h
    <3>2. /\ h + 1 \in 1 .. N + 1 /\ N \in (h + 1) - 1 .. N /\ N - (h + 1) + 1 = N - h
          /\ 1 \in 1 .. N - h /\ N - h \in 1 .. N - h
          /\ (h + 1) + 1 - 1 = h + 1 /\ (h + 1) + (N - h) - 1 = N
          /\ N - h \in Nat /\ N - h >= 1
      BY <3>1
    <3> QED BY <3>2 DEF h
  <2> DEFINE a == p.hostLen + 1
  <2> HIDE DEF N, a
  <2>2. /\ AreTokens(SubSeq(p.tokens, a, N)) /\ Len(SubSeq(p.tokens, a, N)) = N - a + 1
        /\ \A i \in 1 .. N - a + 1 : SubSeq(p.tokens, a, N)[i] = p.tokens[a + i - 1]
    BY <1>1, <2>1, TokensOfPart DEF N, a
  <2> QED BY <2>1, <2>2 DEF a
<1> HIDE DEF tokens, N
<1>3. AreTokens(front) /\ Len(front) = n - 1
  <2>1. 1 \in 1 .. n + 1 /\ n - 1 \in 1 - 1 .. n /\ (n - 1) - 1 + 1 = n - 1
    BY <1>2
  <2>2. AreTokens(SubSeq(tokens, 1, n - 1)) /\ Len(SubSeq(tokens, 1, n - 1)) = (n - 1) - 1 + 1
    BY <1>2, <2>1, TokensOfPart
  <2> QED BY <2>1, <2>2 DEF RM!Front
<1>4. RM!PathMatches(p, s) = M \cup {e(m) : m \in E}
  BY DEF RM!PathMatches, tokens, N
<1>5. MatchSet(M, n) /\ (s = <<>> => M = {})
  <2>1. tokens # <<>>
    BY <1>2
  <2> QED BY <1>2, <2>1, TokenMatchSet
<1>6. p.optionalCatchAll => n >= 2
  <2>1. n = 1 => tokens[1] = tokens[n]
    OBVIOUS
  <2>2. p.tokens[p.hostLen + 1].typ = "static" /\ (p.optionalCatchAll => p.tokens[N].typ = "wildcard")
    BY DEF IsPattern, N, Last
  <2>3. p.optionalCatchAll => n # 1
    BY <1>2, <2>1, <2>2
  <2> QED BY <1>2, <2>3
<1>7. MatchSet(E, n - 1) /\ (s = <<>> => E = {})
  <2>1. CASE p.optionalCatchAll
    <3>1. front # <<>>
      BY <1>3, <1>6, <2>1
    <3> HIDE DEF front
    <3> QED BY <1>3, <2>1, <3>1, TokenMatchSet
  <2>2. CASE ~p.optionalCatchAll
    <3>1. E = {}
      BY <2>2
    <3> HIDE DEF E
    <3> QED BY <3>1, FS_EmptySet DEF MatchSet
  <2> QED BY <2>1, <2>2
<1> HIDE DEF M, E
<1>8. MatchSet({e(m) : m \in E}, n)
  <2> DEFINE t == <<RM!BraceStep(RM!Last(tokens), TRUE, 0)>>
             f == [m \in E |-> e(m)]
  <2>1. PathTrace(t) /\ Len(t) = 1
    BY BraceTrace
  <2>2. ASSUME NEW m \in E PROVE IsMatch(e(m), n)
    <3>1. IsMatch(m, n - 1)
      BY <1>7 DEF MatchSet
    <3>2. PathTrace(m.trace \o t) /\ Len(m.trace \o t) = Len(m.trace) + 1 /\ Len(m.trace) + 1 >= n
      <4>1. PathTrace(m.trace) /\ Len(m.trace) >= n - 1 /\ Len(m.trace) \in Nat
        BY <3>1 DEF IsMatch, PathTrace
      <4>2. PathTrace(m.trace \o t) /\ Len(m.trace \o t) = Len(m.trace) + 1
        <5> HIDE DEF t
        <5> QED BY <2>1, <4>1, JoinedTraces
      <4> HIDE DEF t
      <4> QED BY <1>2, <4>1, <4>2
    <3>3. Append(m.trace, RM!BraceStep(RM!Last(tokens), TRUE, 0)) = m.trace \o t
      <4> DEFINE b == RM!BraceStep(RM!Last(tokens), TRUE, 0)
      <4>1. m.trace \in Seq(Steps) /\ b \in Steps
        <5>1. PathTrace(<<b>>)
          BY <2>1
        <5> HIDE DEF b
        <5> QED BY <3>1, <5>1 DEF IsMatch, PathTrace
      <4> HIDE DEF b
      <4>2. Append(m.trace, b) = m.trace \o <<b>>
        BY <4>1, AppendIsConcat
      <4> QED BY <4>2 DEF b
    <3> HIDE DEF t
    <3> QED BY <3>2, <3>3 DEF IsMatch
  <2>3. {e(m) : m \in E} = {f[m] : m \in E} /\ \A m \in E : f[m] = e(m)
    OBVIOUS
  <2> HIDE DEF f, e
  <2> QED BY <1>7, <2>2, <2>3, ImageFinite DEF MatchSet
<1>9. MatchSet(RM!PathMatches(p, s), n)
  <2>1. IsFiniteSet(M \cup {e(m) : m \in E})
    <3> DEFINE X == {e(m) : m \in E}
    <3> HIDE DEF X
    <3>1. IsFiniteSet(M) /\ IsFiniteSet(X)
      BY <1>5, <1>8 DEF MatchSet, X
    <3>2. IsFiniteSet(M \cup X)
      BY <3>1, FS_Union
    <3> QED BY <3>2 DEF X
  <2> HIDE DEF e
  <2> QED BY <1>4, <1>5, <1>8, <2>1 DEF MatchSet
<1>10. ASSUME NEW k \in Nat, k <= n PROVE MatchSet(RM!PathMatches(p, s), k)
  <2>1. ASSUME NEW m \in RM!PathMatches(p, s) PROVE IsMatch(m, k)
    BY <1>2, <1>9, <1>10 DEF MatchSet, IsMatch, PathTrace
  <2> QED BY <1>9, <2>1 DEF MatchSet
<1>11. RM!Last(p.tokens).typ = "wildcard" => n >= 2
  <2>1. n = 1 => tokens[1] = tokens[n]
    OBVIOUS
  <2>2. p.tokens[p.hostLen + 1].typ = "static"
    BY DEF IsPattern
  <2> QED BY <1>2, <2>1, <2>2 DEF RM!Last, N
<1> HIDE DEF n, e
<1> QED BY <1>2, <1>4, <1>5, <1>7, <1>10, <1>11

\* A request without a host matches the routes without a hostname.
LEMMA NoHostMatches ==
    ASSUME NEW p, IsPattern(p)
    PROVE  RM!HostMatches(p, <<>>) \subseteq {[caps |-> <<>>, trace |-> <<RM!NoHostStep>>]}
<1>1. CASE p.hostLen = 0
  BY <1>1 DEF RM!HostMatches
<1>2. CASE p.hostLen # 0
  <2> DEFINE tokens == SubSeq(p.tokens, 1, p.hostLen)
  <2>1. AreTokens(p.tokens) /\ Len(p.tokens) \in Nat /\ p.hostLen \in 0 .. Len(p.tokens) - 1
    BY DEF IsPattern, AreTokens, IsToken
  <2>2. AreTokens(tokens) /\ Len(tokens) = p.hostLen
    <3>1. 1 \in 1 .. Len(p.tokens) + 1 /\ p.hostLen \in 1 - 1 .. Len(p.tokens) /\ p.hostLen - 1 + 1 = p.hostLen
      BY <2>1
    <3> QED BY <2>1, <3>1, TokensOfPart
  <2> HIDE DEF tokens
  <2>3. RM!TokenMatches(tokens, <<>>, RM!Dot) = {}
    <3>1. tokens # <<>> /\ <<>> \in Seq(Chars)
      BY <1>2, <2>2
    <3> QED BY <2>2, <3>1, TokenMatchSet
  <2>4. RM!HostMatches(p, <<>>) = {}
    BY <1>2, <2>3 DEF RM!HostMatches, tokens
  <2> QED BY <2>4
<1> QED BY <1>1, <1>2

-----------------------------------------------------------------------------
(* The order of preference *)

\* A step is less than another lexically: by kind, expression, length.
LEMMA StepLessMeans ==
    ASSUME NEW a \in Steps, NEW b \in Steps
    PROVE  /\ a[1] \in Nat /\ a[2] \in Nat /\ a[3] \in Nat
           /\ a = <<a[1], a[2], a[3]>>
           /\ RM!StepLess(a, b) <=> \/ a[1] < b[1]
                                    \/ a[1] = b[1] /\ a[2] < b[2]
                                    \/ a[1] = b[1] /\ a[2] = b[2] /\ a[3] < b[3]
<1>1. a[1] \in Nat /\ a[2] \in Nat /\ a[3] \in Nat /\ a = <<a[1], a[2], a[3]>>
  BY DEF Steps
<1>2. RM!StepLess(a, b) <=> \E i \in 1 .. 3 : a[i] < b[i] /\ \A j \in 1 .. i - 1 : a[j] = b[j]
  BY DEF RM!StepLess
<1>3. ASSUME NEW i \in 1 .. 3 PROVE i = 1 \/ i = 2 \/ i = 3
  OBVIOUS
<1>4. 1 .. 1 - 1 = {} /\ 1 .. 2 - 1 = {1} /\ 1 .. 3 - 1 = {1, 2}
  OBVIOUS
<1>5. ASSUME RM!StepLess(a, b)
      PROVE  \/ a[1] < b[1]
             \/ a[1] = b[1] /\ a[2] < b[2]
             \/ a[1] = b[1] /\ a[2] = b[2] /\ a[3] < b[3]
  <2>1. PICK i \in 1 .. 3 : a[i] < b[i] /\ \A j \in 1 .. i - 1 : a[j] = b[j]
    BY <1>2, <1>5
  <2>2. CASE i = 1
    BY <2>1, <2>2
  <2>3. CASE i = 2
    <3>1. 1 \in 1 .. i - 1
      BY <2>3
    <3> QED BY <2>1, <2>3, <3>1
  <2>4. CASE i = 3
    <3>1. 1 \in 1 .. i - 1 /\ 2 \in 1 .. i - 1
      BY <2>4
    <3> QED BY <2>1, <2>4, <3>1
  <2> QED BY <1>3, <2>2, <2>3, <2>4
<1>6. ASSUME a[1] < b[1] PROVE RM!StepLess(a, b)
  BY <1>2, <1>4, <1>6
<1>7. ASSUME a[1] = b[1], a[2] < b[2] PROVE RM!StepLess(a, b)
  BY <1>2, <1>4, <1>7
<1>8. ASSUME a[1] = b[1], a[2] = b[2], a[3] < b[3] PROVE RM!StepLess(a, b)
  BY <1>2, <1>4, <1>8
<1> QED BY <1>1, <1>5, <1>6, <1>7, <1>8

\* Steps are totally ordered, and so the order of traces is an order.
LEMMA StepOrder ==
    ASSUME NEW a \in Steps, NEW b \in Steps, NEW c \in Steps
    PROVE  /\ ~RM!StepLess(a, a)
           /\ RM!StepLess(a, b) /\ RM!StepLess(b, c) => RM!StepLess(a, c)
           /\ RM!StepLess(a, b) \/ a = b \/ RM!StepLess(b, a)
           /\ a[1] < b[1] => RM!StepLess(a, b)
<1>1. /\ a[1] \in Nat /\ a[2] \in Nat /\ a[3] \in Nat /\ a = <<a[1], a[2], a[3]>>
      /\ b[1] \in Nat /\ b[2] \in Nat /\ b[3] \in Nat /\ b = <<b[1], b[2], b[3]>>
      /\ c[1] \in Nat /\ c[2] \in Nat /\ c[3] \in Nat
  BY StepLessMeans
<1>2. ~RM!StepLess(a, a)
  BY <1>1, StepLessMeans
<1>3. RM!StepLess(a, b) /\ RM!StepLess(b, c) => RM!StepLess(a, c)
  BY <1>1, StepLessMeans
<1>4. RM!StepLess(a, b) \/ a = b \/ RM!StepLess(b, a)
  BY <1>1, StepLessMeans
<1>5. a[1] < b[1] => RM!StepLess(a, b)
  BY StepLessMeans
<1> QED BY <1>2, <1>3, <1>4, <1>5

\* s is less than t because of their i-th steps, or because it ends before it.
LessAt(s, t, i) ==
    /\ i \in 1 .. Len(t) /\ i <= Len(s) + 1
    /\ \A j \in 1 .. i - 1 : s[j] = t[j]
    /\ i <= Len(s) => RM!StepLess(s[i], t[i])

\* TraceLess by the first place where two traces differ.
LEMMA LessMeans ==
    ASSUME NEW s \in Seq(Steps), NEW t \in Seq(Steps)
    PROVE  RM!TraceLess(s, t) <=> \E i \in Nat : LessAt(s, t, i)
<1> DEFINE M == Len(s)
           N == Len(t)
<1>1. M \in Nat /\ N \in Nat /\ DOMAIN s = 1 .. M /\ DOMAIN t = 1 .. N
  OBVIOUS
<1>2. ASSUME s # t, RM!IsPrefix(s, t) PROVE LessAt(s, t, M + 1)
  <2>1. M <= N /\ SubSeq(s, 1, M) = SubSeq(t, 1, M)
    BY <1>2 DEF RM!IsPrefix
  <2>2. \A j \in 1 .. M : s[j] = t[j]
    <3>1. \A j \in 1 .. M : SubSeq(s, 1, M)[j] = s[j] /\ SubSeq(t, 1, M)[j] = t[j]
      BY <1>1, <2>1
    <3> QED BY <2>1, <3>1
  <2>3. M # N
    <3> SUFFICES ASSUME M = N PROVE FALSE
      OBVIOUS
    <3>1. s = t
      BY <2>2, SeqEqual
    <3> QED BY <1>2, <3>1
  <2>4. /\ M + 1 \in 1 .. N /\ M + 1 <= M + 1 /\ ~(M + 1 <= M)
        /\ \A j \in 1 .. (M + 1) - 1 : j \in 1 .. M
    <3> HIDE DEF M, N
    <3> QED BY <1>1, <2>1, <2>3
  <2> HIDE DEF M, N
  <2> QED BY <2>2, <2>4 DEF LessAt, M, N
<1>3. ASSUME NEW i \in DOMAIN s \cap DOMAIN t, RM!StepLess(s[i], t[i]), \A j \in 1 .. i - 1 : s[j] = t[j]
      PROVE  LessAt(s, t, i) /\ i \in Nat
  BY <1>1, <1>3 DEF LessAt
<1>4. ASSUME NEW i \in Nat, LessAt(s, t, i) PROVE RM!TraceLess(s, t)
  <2>1. i \in 1 .. N /\ i <= M + 1 /\ \A j \in 1 .. i - 1 : s[j] = t[j]
    BY <1>4 DEF LessAt
  <2>2. CASE i <= M
    <3>1. i \in DOMAIN s \cap DOMAIN t /\ RM!StepLess(s[i], t[i])
      BY <1>1, <1>4, <2>1, <2>2 DEF LessAt
    <3> QED BY <2>1, <3>1 DEF RM!TraceLess
  <2>3. CASE ~(i <= M)
    <3>1. i - 1 = M /\ M <= N /\ M # N
      <4> HIDE DEF M, N
      <4> QED BY <1>1, <2>1, <2>3
    <3>2. s # t
      BY <3>1
    <3>3. SubSeq(s, 1, M) = SubSeq(t, 1, M)
      <4>1. /\ SubSeq(s, 1, M) \in Seq(Steps) /\ Len(SubSeq(s, 1, M)) = M
            /\ SubSeq(t, 1, M) \in Seq(Steps) /\ Len(SubSeq(t, 1, M)) = M
            /\ \A j \in 1 .. M : SubSeq(s, 1, M)[j] = s[j] /\ SubSeq(t, 1, M)[j] = t[j]
        <5>1. \A j \in 1 .. M : j \in 1 .. N
          <6> HIDE DEF M, N
          <6> QED BY <1>1, <3>1
        <5>2. SubSeq(s, 1, M) \in Seq(Steps) /\ Len(SubSeq(s, 1, M)) = M /\ \A j \in 1 .. M : SubSeq(s, 1, M)[j] = s[j]
          OBVIOUS
        <5> HIDE DEF M
        <5>3. \A j \in 1 .. M : t[j] \in Steps
          BY <5>1
        <5>4. SubSeq(t, 1, M) \in Seq(Steps) /\ Len(SubSeq(t, 1, M)) = M /\ \A j \in 1 .. M : SubSeq(t, 1, M)[j] = t[j]
          BY <1>1, <5>3
        <5> QED BY <5>2, <5>4
      <4>2. \A j \in 1 .. M : SubSeq(s, 1, M)[j] = SubSeq(t, 1, M)[j]
        BY <2>1, <3>1, <4>1
      <4> QED BY <4>1, <4>2, SeqEqual
    <3>4. RM!IsPrefix(s, t)
      BY <3>1, <3>3 DEF RM!IsPrefix
    <3> QED BY <3>2, <3>4 DEF RM!TraceLess
  <2> QED BY <2>2, <2>3
<1>5. ASSUME RM!TraceLess(s, t) PROVE \E i \in Nat : LessAt(s, t, i)
  <2>1. CASE s # t /\ RM!IsPrefix(s, t)
    <3>1. M + 1 \in Nat
      BY <1>1
    <3> QED BY <1>2, <2>1, <3>1
  <2>2. CASE \E i \in DOMAIN s \cap DOMAIN t : RM!StepLess(s[i], t[i]) /\ \A j \in 1 .. i - 1 : s[j] = t[j]
    BY <1>3, <2>2
  <2> QED BY <1>5, <2>1, <2>2 DEF RM!TraceLess
<1> QED BY <1>4, <1>5

LEMMA TraceOrder ==
    ASSUME NEW s \in Seq(Steps), NEW t \in Seq(Steps), NEW u \in Seq(Steps)
    PROVE  /\ ~RM!TraceLess(s, s)
           /\ RM!TraceLess(s, t) /\ RM!TraceLess(t, u) => RM!TraceLess(s, u)
<1>1. ASSUME RM!TraceLess(s, s) PROVE FALSE
  <2>1. PICK i \in Nat : LessAt(s, s, i)
    BY <1>1, LessMeans
  <2>2. i \in 1 .. Len(s) /\ s[i] \in Steps /\ RM!StepLess(s[i], s[i])
    BY <2>1 DEF LessAt
  <2> QED BY <2>2, StepOrder
<1>2. ASSUME RM!TraceLess(s, t), RM!TraceLess(t, u) PROVE RM!TraceLess(s, u)
  <2>1. PICK i \in Nat : LessAt(s, t, i)
    BY <1>2, LessMeans
  <2>2. PICK k \in Nat : LessAt(t, u, k)
    BY <1>2, LessMeans
  <2>3. /\ Len(s) \in Nat /\ Len(t) \in Nat /\ Len(u) \in Nat
        /\ i \in 1 .. Len(t) /\ i <= Len(s) + 1 /\ k \in 1 .. Len(u) /\ k <= Len(t) + 1
        /\ \A j \in 1 .. i - 1 : s[j] = t[j]
        /\ \A j \in 1 .. k - 1 : t[j] = u[j]
        /\ i <= Len(s) => RM!StepLess(s[i], t[i])
        /\ k <= Len(t) => RM!StepLess(t[k], u[k])
    BY <2>1, <2>2 DEF LessAt
  <2>4. CASE i < k
    <3>1. i \in 1 .. Len(u) /\ t[i] = u[i] /\ \A j \in 1 .. i - 1 : s[j] = u[j]
      BY <2>3, <2>4
    <3>2. LessAt(s, u, i)
      BY <2>3, <3>1 DEF LessAt
    <3> QED BY <3>2, LessMeans
  <2>5. CASE k < i
    <3>1. /\ k <= Len(s) /\ k <= Len(t) /\ s[k] = t[k] /\ \A j \in 1 .. k - 1 : s[j] = u[j]
      BY <2>3, <2>5
    <3>2. LessAt(s, u, k)
      BY <2>3, <3>1 DEF LessAt
    <3> QED BY <3>2, LessMeans
  <2>6. CASE i = k
    <3>1. k <= Len(t) /\ \A j \in 1 .. k - 1 : s[j] = u[j]
      BY <2>3, <2>6
    <3>2. k <= Len(s) => RM!StepLess(s[k], u[k])
      <4> SUFFICES ASSUME k <= Len(s) PROVE RM!StepLess(s[k], u[k])
        OBVIOUS
      <4>1. s[k] \in Steps /\ t[k] \in Steps /\ u[k] \in Steps
        BY <2>3, <3>1
      <4>2. RM!StepLess(s[k], t[k]) /\ RM!StepLess(t[k], u[k])
        BY <2>3, <2>6, <3>1
      <4> QED BY <4>1, <4>2, StepOrder
    <3>3. LessAt(s, u, k)
      BY <2>3, <2>6, <3>1, <3>2 DEF LessAt
    <3> QED BY <3>3, LessMeans
  <2> QED BY <2>4, <2>5, <2>6
<1> QED BY <1>1, <1>2

\* Of finitely many matches one is preferred, and where it needs another slash, it
\* is least.
LEMMA LeastExists ==
    ASSUME NEW ms, IsFiniteSet(ms), ms # {}, \A m \in ms : m.trace \in Seq(Steps)
    PROVE  RM!Least(ms) # {}
<1> DEFINE Down(m) == {x \in ms : RM!TraceLess(x.trace, m.trace)}
           C == {Cardinality(Down(m)) : m \in ms}
<1>1. \A m \in ms : IsFiniteSet(Down(m)) /\ Cardinality(Down(m)) \in Nat
  <2> SUFFICES ASSUME NEW m \in ms PROVE IsFiniteSet(Down(m)) /\ Cardinality(Down(m)) \in Nat
    OBVIOUS
  <2>1. Down(m) \subseteq ms
    OBVIOUS
  <2> HIDE DEF Down
  <2>2. IsFiniteSet(Down(m))
    BY <2>1, FS_Subset
  <2> QED BY <2>2, FS_CardinalityType
<1>2. PICK m \in ms : \A x \in ms : Cardinality(Down(m)) <= Cardinality(Down(x))
  <2>1. C \subseteq Nat /\ C # {}
    BY <1>1
  <2>2. PICK c \in C : \A d \in C : c <= d
    <3> HIDE DEF C
    <3> QED BY <2>1, LeastNatural
  <2> HIDE DEF Down
  <2> QED BY <2>2
<1>3. ASSUME NEW x \in ms, RM!TraceLess(x.trace, m.trace) PROVE FALSE
  <2>1. Down(x) \subseteq Down(m)
    <3> SUFFICES ASSUME NEW y \in ms, RM!TraceLess(y.trace, x.trace) PROVE RM!TraceLess(y.trace, m.trace)
      OBVIOUS
    <3> QED BY <1>3, TraceOrder
  <2>2. x \in Down(m) /\ x \notin Down(x)
    BY <1>3, TraceOrder
  <2> HIDE DEF Down
  <2>3. Cardinality(Down(x)) <= Cardinality(Down(m)) /\ Cardinality(Down(x)) # Cardinality(Down(m))
    BY <1>1, <2>1, <2>2, FS_Subset
  <2> QED BY <1>1, <1>2, <2>3
<1> QED BY <1>3 DEF RM!Least

LEMMA PreferredMatch ==
    ASSUME NEW ms, IsFiniteSet(ms), ms # {}, \A m \in ms : m.trace \in Seq(Steps)
    PROVE  /\ RM!Preferred(ms) # {}
           /\ \A m \in RM!Preferred(ms) : m.tsr => m \in RM!Least(ms)
<1> DEFINE over == {m \in ms : \E t \in RM!Least(ms) : RM!Overrides(m, t)}
<1>1. RM!Preferred(ms) = IF over = {} THEN RM!Least(ms) ELSE RM!Least(over)
  BY DEF RM!Preferred
<1>2. over \subseteq ms /\ \A m \in over : ~m.tsr
  BY DEF RM!Overrides
<1> HIDE DEF over
<1>3. CASE over = {}
  BY <1>1, <1>3, LeastExists
<1>4. CASE over # {}
  <2>1. IsFiniteSet(over)
    BY <1>2, FS_Subset
  <2>2. RM!Least(over) # {}
    BY <1>2, <1>4, <2>1, LeastExists
  <2>3. RM!Least(over) \subseteq over
    BY DEF RM!Least
  <2> QED BY <1>1, <1>2, <1>4, <2>2, <2>3
<1> QED BY <1>3, <1>4

\* s2 and t2 have a step for another slash, s2 in one of the last two places of s,
\* t2 behind t.  Then s comes before t2, or t before s2.
LEMMA SlashesCross ==
    ASSUME NEW s \in Seq(Steps), NEW t \in Seq(Steps), NEW s2 \in Seq(Steps), NEW t2 \in Seq(Steps),
           NEW k \in 2 .. Len(s), k >= Len(s) - 1,
           Len(t) >= 1, s[1] = t[1],
           \A i \in 2 .. Len(s) : s[i][1] <= 3,
           \A i \in 2 .. Len(t) : t[i][1] <= 3,
           Len(s2) = Len(s), \A i \in 1 .. Len(s) : s2[i] = IF i = k THEN RM!SlashStep ELSE s[i],
           Len(t2) = Len(t) + 1, \A i \in 1 .. Len(t2) : t2[i] = IF i <= Len(t) THEN t[i] ELSE RM!SlashStep
    PROVE  RM!TraceLess(s, t2) \/ RM!TraceLess(t, s2)
<1> DEFINE M == Len(s)
           N == Len(t)
           Diff(i) == i > M \/ i > N \/ s[i] # t[i]
           D == {i \in Nat \ {0} : Diff(i)}
<1>1. M \in Nat /\ N \in Nat /\ k \in 2 .. M /\ N >= 1
  OBVIOUS
<1>2. RM!SlashStep \in Steps /\ RM!SlashStep[1] = 4
  BY DEF RM!SlashStep, Steps
<1>3. \A i \in 1 .. M : s[i] \in Steps
  OBVIOUS
<1>4. \A i \in 1 .. N : t[i] \in Steps
  OBVIOUS
<1>5. PICK i \in D : \A j \in D : i <= j
  <2>1. D \subseteq Nat
    OBVIOUS
  <2>2. M + 1 \in D
    BY <1>1
  <2> HIDE DEF D
  <2> QED BY <2>1, <2>2, LeastNatural
<1>6. i \in Nat /\ i > 1 /\ Diff(i) /\ \A j \in 1 .. i - 1 : j <= M /\ j <= N /\ s[j] = t[j]
  <2>1. i \in Nat /\ i # 0 /\ Diff(i)
    BY <1>5
  <2>2. \A j \in 1 .. i - 1 : ~Diff(j)
    <3>1. \A j \in 1 .. i - 1 : j \in Nat \ {0} /\ ~(i <= j)
      BY <2>1
    <3> HIDE DEF Diff
    <3> QED BY <1>5, <3>1
  <2>3. \A j \in 1 .. i - 1 : j <= M /\ j <= N /\ s[j] = t[j]
    <3>1. \A j \in 1 .. i - 1 : j \in Nat
      BY <2>1
    <3> QED BY <1>1, <2>2, <3>1
  <2>4. i # 1
    <3>1. ~Diff(1)
      BY <1>1
    <3> QED BY <2>1, <3>1
  <2> QED BY <2>1, <2>3, <2>4
<1> HIDE DEF M, N, D
\* A step of s or t in a place behind the first comes before one for a slash.
<1>7. \A a \in Steps : a[1] <= 3 => RM!StepLess(a, RM!SlashStep)
  <2> SUFFICES ASSUME NEW a \in Steps, a[1] <= 3 PROVE RM!StepLess(a, RM!SlashStep)
    OBVIOUS
  <2>1. a[1] \in Nat
    BY DEF Steps
  <2> QED BY <1>2, <2>1, StepOrder
<1>8. CASE i > N
  \* t ends first: s goes on with a step before the slash, or ends too.
  <2>1. i = N + 1 /\ N <= M
    <3>1. i - 1 \in 1 .. i - 1
      BY <1>6
    <3>2. i - 1 <= M /\ i - 1 <= N
      BY <1>6, <3>1
    <3> QED BY <1>1, <1>6, <1>8, <3>2
  <2>2. LessAt(s, t2, i)
    <3>1. i \in 1 .. Len(t2) /\ i <= Len(s) + 1 /\ t2[i] = RM!SlashStep
      BY <1>1, <2>1 DEF M, N
    <3>2. \A j \in 1 .. i - 1 : s[j] = t2[j]
      BY <1>1, <1>6, <2>1 DEF M, N
    <3>3. i <= Len(s) => RM!StepLess(s[i], t2[i])
      BY <1>1, <1>3, <1>6, <1>7, <3>1 DEF M
    <3> QED BY <3>1, <3>2, <3>3 DEF LessAt
  <2> QED BY <1>6, <2>2, LessMeans
<1>9. CASE i <= N /\ (i > M \/ (i <= M /\ ~RM!StepLess(s[i], t[i])))
  \* t is not before s where they differ: it is before s2 at k, or it is before s.
  <2>1. CASE i > k
    <3>1. k \in 1 .. Len(s2) /\ k <= Len(t) + 1 /\ s2[k] = RM!SlashStep /\ k <= N /\ k >= 2
      BY <1>1, <1>6, <2>1 DEF M, N
    <3>2. \A j \in 1 .. k - 1 : t[j] = s2[j]
      BY <1>1, <1>6, <2>1 DEF M, N
    <3>3. RM!StepLess(t[k], s2[k])
      <4>1. k \in 2 .. N
        BY <1>1, <3>1
      <4>2. t[k] \in Steps /\ t[k][1] <= 3
        BY <1>4, <4>1 DEF N
      <4> QED BY <1>7, <3>1, <4>2
    <3>4. LessAt(t, s2, k) /\ k \in Nat
      BY <1>1, <3>1, <3>2, <3>3 DEF LessAt
    <3> QED BY <3>4, LessMeans
  <2>2. CASE ~(i > k)
    <3>1. i \in 2 .. M /\ i \in 2 .. N /\ i <= k
      BY <1>1, <1>6, <1>9, <2>2
    <3>2. RM!StepLess(t[i], s[i])
      <4>1. s[i] \in Steps /\ t[i] \in Steps /\ s[i] # t[i]
        BY <1>1, <1>3, <1>4, <1>6, <3>1
      <4>2. ~RM!StepLess(s[i], t[i])
        BY <1>1, <1>9, <3>1
      <4> QED BY <4>1, <4>2, StepOrder
    <3>3. RM!StepLess(t[i], s2[i])
      <4>1. CASE i = k
        <5>1. s2[i] = RM!SlashStep /\ t[i] \in Steps /\ t[i][1] <= 3
          BY <1>1, <1>4, <3>1, <4>1 DEF M, N
        <5> QED BY <1>7, <5>1
      <4>2. CASE i # k
        <5>1. s2[i] = s[i]
          BY <1>1, <3>1, <4>2 DEF M
        <5> QED BY <3>2, <5>1
      <4> QED BY <4>1, <4>2
    <3>4. \A j \in 1 .. i - 1 : t[j] = s2[j]
      BY <1>1, <1>6, <3>1 DEF M, N
    <3>5. i \in 1 .. Len(s2) /\ i <= Len(t) + 1
      BY <1>1, <3>1 DEF M, N
    <3>6. LessAt(t, s2, i)
      BY <3>3, <3>4, <3>5 DEF LessAt
    <3> QED BY <1>6, <3>6, LessMeans
  <2> QED BY <2>1, <2>2
<1>10. CASE i <= N /\ i <= M /\ RM!StepLess(s[i], t[i])
  <2>1. i \in 1 .. Len(t2) /\ i <= Len(s) + 1 /\ t2[i] = t[i]
    BY <1>1, <1>6, <1>10 DEF M, N
  <2>2. \A j \in 1 .. i - 1 : s[j] = t2[j]
    BY <1>1, <1>6, <1>10 DEF M, N
  <2>3. LessAt(s, t2, i)
    BY <1>10, <2>1, <2>2 DEF LessAt
  <2> QED BY <1>6, <2>3, LessMeans
<1> QED BY <1>1, <1>6, <1>8, <1>9, <1>10

-----------------------------------------------------------------------------
(* The matches of a request, and their traces *)

\* The trace of a match of the path as it is, of a request without a host.
HostTrace(t) == /\ t \in Seq(Steps) /\ Len(t) >= 2 /\ t[1] = RM!NoHostStep
                /\ \A i \in 2 .. Len(t) : t[i][1] <= 3

DirectTrace(r, p, t) == \E x \in RM!PathMatches(r.pattern, p) : t = <<RM!NoHostStep>> \o x.trace

\* A slash in one of the last two places, and a slash behind all others.
AddedTrace(t, u) ==
    /\ u \in Seq(Steps) /\ Len(u) = Len(t)
    /\ \E k \in 2 .. Len(t) : k >= Len(t) - 1 /\ \A i \in 1 .. Len(t) : u[i] = IF i = k THEN RM!SlashStep ELSE t[i]

DroppedTrace(t, u) ==
    /\ u \in Seq(Steps) /\ Len(u) = Len(t) + 1
    /\ \A i \in 1 .. Len(u) : u[i] = IF i <= Len(t) THEN t[i] ELSE RM!SlashStep

\* The step for the missing hostname in front of the others.
LEMMA OneInFront ==
    ASSUME NEW a \in Steps, NEW v \in Seq(Steps)
    PROVE  /\ <<a>> \o v \in Seq(Steps) /\ Len(<<a>> \o v) = 1 + Len(v)
           /\ \A i \in 1 .. 1 + Len(v) : (<<a>> \o v)[i] = IF i <= 1 THEN a ELSE v[i - 1]
<1> DEFINE h == <<a>>
           w == h \o v
           one == Len(h)
<1>1. h \in Seq(Steps) /\ one = 1 /\ h[1] = a
  OBVIOUS
<1> HIDE DEF h
<1>2. /\ w \in Seq(Steps) /\ Len(w) = one + Len(v)
      /\ \A i \in 1 .. one + Len(v) : w[i] = IF i <= one THEN h[i] ELSE v[i - one]
  BY <1>1, ConcatProperties
<1> HIDE DEF w, one
<1>3. \A i \in 1 .. 1 + Len(v) : i <= 1 => i = 1
  OBVIOUS
<1>4. /\ w \in Seq(Steps) /\ Len(w) = 1 + Len(v)
      /\ \A i \in 1 .. 1 + Len(v) : w[i] = IF i <= 1 THEN a ELSE v[i - 1]
  BY <1>1, <1>2, <1>3
<1> QED BY <1>4 DEF w, h

LEMMA HostAndPath ==
    ASSUME NEW t, PathTrace(t), Len(t) >= 1
    PROVE  LET u == <<RM!NoHostStep>> \o t
           IN  HostTrace(u) /\ Len(u) = Len(t) + 1 /\ \A i \in 1 .. Len(t) : u[i + 1] = t[i]
<1> DEFINE h == <<RM!NoHostStep>>
           u == h \o t
<1>1. RM!NoHostStep \in Steps
  BY DEF RM!NoHostStep, Steps
<1>2. t \in Seq(Steps) /\ Len(t) \in Nat
  BY <1>1 DEF PathTrace
<1>3. /\ u \in Seq(Steps) /\ Len(u) = 1 + Len(t)
      /\ \A i \in 1 .. 1 + Len(t) : u[i] = IF i <= 1 THEN RM!NoHostStep ELSE t[i - 1]
  BY <1>1, <1>2, OneInFront
<1> HIDE DEF u
<1>4. Len(u) >= 2 /\ u[1] = RM!NoHostStep
  BY <1>2, <1>3
<1>5. \A i \in 1 .. Len(t) : u[i + 1] = t[i]
  <2> SUFFICES ASSUME NEW i \in 1 .. Len(t) PROVE u[i + 1] = t[i]
    OBVIOUS
  <2>1. i + 1 \in 1 .. 1 + Len(t) /\ ~(i + 1 <= 1) /\ (i + 1) - 1 = i
    BY <1>2
  <2> QED BY <1>3, <2>1
<1>6. \A i \in 2 .. Len(u) : u[i][1] <= 3
  <2> SUFFICES ASSUME NEW i \in 2 .. Len(u) PROVE u[i][1] <= 3
    OBVIOUS
  <2>1. i - 1 \in 1 .. Len(t) /\ i \in 1 .. 1 + Len(t) /\ ~(i <= 1)
    BY <1>2, <1>3
  <2> QED BY <1>3, <2>1 DEF PathTrace
<1>7. Len(u) = Len(t) + 1
  BY <1>2, <1>3
<1> QED BY <1>3, <1>4, <1>5, <1>6, <1>7 DEF HostTrace, u, h

\* A match with a slash added, and one with a slash dropped.
LEMMA AddedMatch ==
    ASSUME NEW r, IsPattern(r.pattern), NEW p \in Seq(Chars), NEW m \in RM!SlashAdded(r, p)
    PROVE  /\ RM!AddSlash(p) = {Append(p, Slash)} /\ p # <<>> /\ RM!Last(p) # Slash
           /\ \E t : /\ HostTrace(t) /\ DirectTrace(r, Append(p, Slash), t)
                     /\ AddedTrace(t, <<RM!NoHostStep>> \o m.trace)
<1> DEFINE K(t) == IF RM!CatchAll(r) THEN Len(t) - 1 ELSE Len(t)
<1>1. PICK x \in UNION {RM!PathMatches(r.pattern, s) : s \in RM!AddSlash(p)} :
          m = [x EXCEPT !.trace = [x.trace EXCEPT ![K(x.trace)] = RM!SlashStep]]
  BY DEF RM!SlashAdded
<1>2. RM!AddSlash(p) = {Append(p, Slash)} /\ p # <<>> /\ RM!Last(p) # Slash
  BY <1>1 DEF RM!AddSlash, Slash
<1>3. x \in RM!PathMatches(r.pattern, Append(p, Slash))
  BY <1>1, <1>2
<1>4. Append(p, Slash) \in Seq(Chars)
  <2>1. Slash \in Chars
    BY DEF Chars
  <2> QED BY <2>1, AppendProperties
<1> DEFINE u == x.trace
           k == K(u)
           v == [u EXCEPT ![k] = RM!SlashStep]
           t == <<RM!NoHostStep>> \o u
           w == <<RM!NoHostStep>> \o v
<1>5. IsMatch(x, 1) /\ (RM!CatchAll(r) => IsMatch(x, 2))
  BY <1>3, <1>4, PathMatchSet DEF MatchSet, RM!CatchAll
<1>6. /\ PathTrace(u) /\ Len(u) \in Nat /\ Len(u) >= 1 /\ k \in 1 .. Len(u) /\ k >= Len(u) - 1
  BY <1>5 DEF IsMatch, PathTrace
<1>7. m.trace = v
  <2>1. x = [caps |-> x.caps, trace |-> u]
    BY <1>5 DEF IsMatch
  <2> DEFINE c == x.caps
  <2>2. m = [x EXCEPT !.trace = v]
    BY <1>1
  <2> HIDE DEF u, v, c
  <2>3. x = [caps |-> c, trace |-> u]
    BY <2>1 DEF c
  <2> QED BY <2>2, <2>3
<1> HIDE DEF K, k, u
<1>8. RM!SlashStep \in Steps
  BY DEF RM!SlashStep, Steps
<1>9. /\ v \in Seq(Steps) /\ Len(v) = Len(u)
      /\ \A i \in 1 .. Len(u) : v[i] = IF i = k THEN RM!SlashStep ELSE u[i]
  BY <1>6, <1>8 DEF PathTrace
<1> HIDE DEF v
<1>10. HostTrace(t) /\ Len(t) = Len(u) + 1 /\ \A i \in 1 .. Len(u) : t[i + 1] = u[i]
  BY <1>6, HostAndPath
<1>11. DirectTrace(r, Append(p, Slash), t)
  BY <1>3 DEF DirectTrace, u
<1>12. /\ w \in Seq(Steps) /\ Len(w) = 1 + Len(v)
       /\ \A i \in 1 .. 1 + Len(v) : w[i] = IF i <= 1 THEN RM!NoHostStep ELSE v[i - 1]
  <2>1. RM!NoHostStep \in Steps
    BY DEF RM!NoHostStep, Steps
  <2> QED BY <1>9, <2>1, OneInFront
<1> HIDE DEF t, w
<1>13. AddedTrace(t, w)
  <2>1. k + 1 \in 2 .. Len(t) /\ k + 1 >= Len(t) - 1 /\ Len(w) = Len(t)
    BY <1>6, <1>9, <1>10, <1>12
  <2>2. ASSUME NEW i \in 1 .. Len(t) PROVE w[i] = IF i = k + 1 THEN RM!SlashStep ELSE t[i]
    <3>1. CASE i <= 1
      <4>1. i = 1 /\ i # k + 1 /\ i \in 1 .. 1 + Len(v)
        BY <1>6, <1>9, <1>10, <3>1
      <4> QED BY <1>10, <1>12, <4>1 DEF HostTrace
    <3>2. CASE ~(i <= 1)
      <4>1. i - 1 \in 1 .. Len(u) /\ (i - 1) + 1 = i /\ i \in 1 .. 1 + Len(v) /\ (i = k + 1 <=> i - 1 = k)
        BY <1>6, <1>9, <1>10, <3>2
      <4>2. w[i] = v[i - 1] /\ t[i] = u[i - 1]
        BY <1>10, <1>12, <3>2, <4>1
      <4> QED BY <1>9, <4>1, <4>2
    <3> QED BY <3>1, <3>2
  <2> QED BY <1>12, <2>1, <2>2 DEF AddedTrace
<1> QED BY <1>2, <1>7, <1>10, <1>11, <1>13 DEF w

LEMMA DroppedMatch ==
    ASSUME NEW r, IsPattern(r.pattern), NEW p \in Seq(Chars), NEW m \in RM!SlashDropped(r, p)
    PROVE  /\ RM!DropSlash(p) = {RM!Front(p)} /\ Len(p) > 1 /\ RM!Last(p) = Slash
           /\ ~RM!EndsWith(p, <<Slash, Slash>>)
           /\ \E t : /\ HostTrace(t) /\ DirectTrace(r, RM!Front(p), t)
                     /\ DroppedTrace(t, <<RM!NoHostStep>> \o m.trace)
<1>1. PICK x \in UNION {RM!PathMatches(r.pattern, s) : s \in RM!DropSlash(p)} :
          m = [x EXCEPT !.trace = Append(x.trace, RM!SlashStep)]
  BY DEF RM!SlashDropped
<1>2. RM!DropSlash(p) = {RM!Front(p)} /\ Len(p) > 1 /\ RM!Last(p) = Slash /\ ~RM!EndsWith(p, <<Slash, Slash>>)
  BY <1>1 DEF RM!DropSlash, Slash
<1>3. x \in RM!PathMatches(r.pattern, RM!Front(p))
  BY <1>1, <1>2
<1>4. RM!Front(p) \in Seq(Chars)
  BY <1>2 DEF RM!Front
<1> DEFINE u == x.trace
           v == Append(u, RM!SlashStep)
           t == <<RM!NoHostStep>> \o u
           w == <<RM!NoHostStep>> \o v
<1>5. IsMatch(x, 1)
  BY <1>3, <1>4, PathMatchSet DEF MatchSet
<1>6. PathTrace(u) /\ Len(u) \in Nat /\ Len(u) >= 1
  BY <1>5 DEF IsMatch, PathTrace
<1>7. m.trace = v
  <2>1. x = [caps |-> x.caps, trace |-> u]
    BY <1>5 DEF IsMatch
  <2> DEFINE c == x.caps
  <2>2. m = [x EXCEPT !.trace = v]
    BY <1>1
  <2> HIDE DEF u, v, c
  <2>3. x = [caps |-> c, trace |-> u]
    BY <2>1 DEF c
  <2> QED BY <2>2, <2>3
<1> HIDE DEF u
<1>8. RM!SlashStep \in Steps
  BY DEF RM!SlashStep, Steps
<1>9. /\ v \in Seq(Steps) /\ Len(v) = Len(u) + 1
      /\ \A i \in 1 .. Len(u) + 1 : v[i] = IF i <= Len(u) THEN u[i] ELSE RM!SlashStep
  <2>1. u \in Seq(Steps)
    BY <1>6 DEF PathTrace
  <2> HIDE DEF Steps
  <2>2. v \in Seq(Steps) /\ Len(v) = Len(u) + 1 /\ v[Len(u) + 1] = RM!SlashStep /\ \A i \in 1 .. Len(u) : v[i] = u[i]
    BY <1>8, <2>1, AppendProperties
  <2> HIDE DEF v
  <2>3. \A i \in 1 .. Len(u) + 1 : (i \in 1 .. Len(u) /\ i <= Len(u)) \/ (i = Len(u) + 1 /\ ~(i <= Len(u)))
    BY <1>6
  <2> QED BY <2>2, <2>3
<1> HIDE DEF v
<1>10. HostTrace(t) /\ Len(t) = Len(u) + 1 /\ \A i \in 1 .. Len(u) : t[i + 1] = u[i]
  BY <1>6, HostAndPath
<1>11. DirectTrace(r, RM!Front(p), t)
  BY <1>3 DEF DirectTrace, u
<1>12. /\ w \in Seq(Steps) /\ Len(w) = 1 + Len(v)
       /\ \A i \in 1 .. 1 + Len(v) : w[i] = IF i <= 1 THEN RM!NoHostStep ELSE v[i - 1]
  <2>1. RM!NoHostStep \in Steps
    BY DEF RM!NoHostStep, Steps
  <2> QED BY <1>9, <2>1, OneInFront
<1> HIDE DEF t, w
<1>13. DroppedTrace(t, w)
  <2>1. Len(w) = Len(t) + 1
    BY <1>6, <1>9, <1>10, <1>12
  <2>2. ASSUME NEW i \in 1 .. Len(w) PROVE w[i] = IF i <= Len(t) THEN t[i] ELSE RM!SlashStep
    <3>1. CASE i <= 1
      <4>1. i = 1 /\ i <= Len(t) /\ i \in 1 .. 1 + Len(v)
        BY <1>6, <1>9, <1>10, <1>12, <3>1
      <4> QED BY <1>10, <1>12, <4>1 DEF HostTrace
    <3>2. CASE ~(i <= 1)
      <4>1. /\ i - 1 \in 1 .. Len(u) + 1 /\ (i - 1) + 1 = i /\ i \in 1 .. 1 + Len(v)
            /\ (i <= Len(t) <=> i - 1 <= Len(u))
        BY <1>6, <1>9, <1>10, <1>12, <3>2
      <4>2. w[i] = v[i - 1] /\ v[i - 1] = IF i - 1 <= Len(u) THEN u[i - 1] ELSE RM!SlashStep
        BY <1>9, <1>12, <3>2, <4>1
      <4>3. i - 1 <= Len(u) => t[i] = u[i - 1]
        <5>1. i - 1 <= Len(u) => i - 1 \in 1 .. Len(u)
          BY <1>6, <4>1
        <5> QED BY <1>10, <4>1, <5>1
      <4> QED BY <4>1, <4>2, <4>3
    <3> QED BY <3>1, <3>2
  <2> QED BY <1>12, <2>1, <2>2 DEF DroppedTrace
<1> QED BY <1>2, <1>7, <1>10, <1>11, <1>13 DEF w

WhenAdded(r, p, u) ==
    /\ p # <<>> /\ RM!Last(p) # Slash
    /\ \E t : HostTrace(t) /\ DirectTrace(r, Append(p, Slash), t) /\ AddedTrace(t, u)

WhenDropped(r, p, u) ==
    /\ Len(p) > 1 /\ RM!Last(p) = Slash /\ ~RM!EndsWith(p, <<Slash, Slash>>)
    /\ \E t : HostTrace(t) /\ DirectTrace(r, RM!Front(p), t) /\ DroppedTrace(t, u)

\* A match of a route: as the path is, or with another trailing slash.
LEMMA MatchTraces ==
    ASSUME NEW r, IsPattern(r.pattern), NEW method, NEW p \in Seq(Chars),
           NEW m \in RM!MatchesOf(r, Query(method, p))
    PROVE  /\ m.trace \in Seq(Steps)
           /\ \/ m.tsr = FALSE /\ HostTrace(m.trace) /\ DirectTrace(r, p, m.trace)
              \/ m.tsr = TRUE /\ WhenAdded(r, p, m.trace)
              \/ m.tsr = TRUE /\ WhenDropped(r, p, m.trace)
<1> DEFINE Tsr == IF r.slash = "exact" THEN {} ELSE RM!SlashAdded(r, p) \cup RM!SlashDropped(r, p)
           h == [caps |-> <<>>, trace |-> <<RM!NoHostStep>>]
<1>1. PICK g \in RM!HostMatches(r.pattern, <<>>) :
          m \in {RM!Joined(r, FALSE, g, x) : x \in RM!PathMatches(r.pattern, p)} \cup
                {RM!Joined(r, TRUE, g, x) : x \in Tsr}
  BY DEF RM!MatchesOf, Query
<1>2. g.trace = <<RM!NoHostStep>>
  <2>1. g = h
    BY NoHostMatches
  <2> QED BY <2>1
<1>3. CASE \E x \in RM!PathMatches(r.pattern, p) : m = RM!Joined(r, FALSE, g, x)
  <2>1. PICK x \in RM!PathMatches(r.pattern, p) : m = RM!Joined(r, FALSE, g, x)
    BY <1>3
  <2>2. m.tsr = FALSE /\ m.trace = <<RM!NoHostStep>> \o x.trace
    BY <1>2, <2>1 DEF RM!Joined
  <2>3. PathTrace(x.trace) /\ Len(x.trace) >= 1
    BY PathMatchSet DEF MatchSet, IsMatch
  <2>4. HostTrace(<<RM!NoHostStep>> \o x.trace)
    BY <2>3, HostAndPath
  <2>5. m.trace \in Seq(Steps)
    BY <2>2, <2>4 DEF HostTrace
  <2> QED BY <2>2, <2>4, <2>5 DEF DirectTrace
<1>4. CASE \E x \in Tsr : m = RM!Joined(r, TRUE, g, x)
  <2>1. PICK x \in Tsr : m = RM!Joined(r, TRUE, g, x)
    BY <1>4
  <2>2. m.tsr = TRUE /\ m.trace = <<RM!NoHostStep>> \o x.trace
    BY <1>2, <2>1 DEF RM!Joined
  <2>3. x \in RM!SlashAdded(r, p) \/ x \in RM!SlashDropped(r, p)
    BY <2>1
  <2>4. CASE x \in RM!SlashAdded(r, p)
    <3>1. WhenAdded(r, p, m.trace)
      BY <2>2, <2>4, AddedMatch DEF WhenAdded
    <3> QED BY <2>2, <3>1 DEF WhenAdded, AddedTrace
  <2>5. CASE x \in RM!SlashDropped(r, p)
    <3>1. WhenDropped(r, p, m.trace)
      BY <2>2, <2>5, DroppedMatch DEF WhenDropped
    <3> QED BY <2>2, <3>1 DEF WhenDropped, DroppedTrace
  <2> QED BY <2>3, <2>4, <2>5
<1> QED BY <1>1, <1>3, <1>4

\* A route that matches some path for the method matches whatever path its pattern
\* matches.
LEMMA DirectIn ==
    ASSUME NEW T, NEW method, NEW p, NEW m \in Matches(T, method, p), IsPattern(m.route.pattern),
           NEW q, NEW t, DirectTrace(m.route, q, t)
    PROVE  \E d \in Matches(T, method, q) : d.trace = t
<1> DEFINE r == m.route
           h == [caps |-> <<>>, trace |-> <<RM!NoHostStep>>]
<1>1. /\ r \in T /\ m \in RM!MatchesOf(r, Query(method, p))
      /\ (r.methods = {} \/ method \in r.methods) /\ r.matchers \subseteq {}
  BY MatchIn
<1>2. h \in RM!HostMatches(r.pattern, <<>>)
  <2>1. RM!HostMatches(r.pattern, <<>>) # {}
    BY <1>1, MatchOf DEF Query
  <2>2. RM!HostMatches(r.pattern, <<>>) \subseteq {h}
    BY NoHostMatches
  <2> HIDE DEF h
  <2> QED BY <2>1, <2>2
<1>3. PICK x \in RM!PathMatches(r.pattern, q) : t = <<RM!NoHostStep>> \o x.trace
  BY DEF DirectTrace
<1> DEFINE d == RM!Joined(r, FALSE, h, x)
<1>4. d.trace = t
  BY <1>3 DEF RM!Joined
<1>5. d \in RM!MatchesOf(r, Query(method, q))
  <2> HIDE DEF r, h
  <2>1. h \in RM!HostMatches(r.pattern, Query(method, q).host) /\ x \in RM!PathMatches(r.pattern, Query(method, q).path)
    BY <1>2, <1>3 DEF Query
  <2> QED BY <2>1, DirectMatch
<1>6. RM!RouteAccepts(r, Query(method, q))
  BY <1>1 DEF RM!RouteAccepts, Query
<1> HIDE DEF d, r
<1>7. d \in Matches(T, method, q)
  BY <1>1, <1>5, <1>6 DEF Matches, RM!AllMatches, Query
<1> QED BY <1>4, <1>7

IsTable(T) == IsFiniteSet(T) /\ \A r \in T : IsPattern(r.pattern)

\* A request has finitely many matches, whose traces are steps.
LEMMA PathsFinite ==
    ASSUME NEW pat, IsPattern(pat), NEW S, IsFiniteSet(S), S \subseteq Seq(Chars)
    PROVE  IsFiniteSet(UNION {RM!PathMatches(pat, s) : s \in S})
<1> DEFINE f == [s \in S |-> RM!PathMatches(pat, s)]
<1>1. \A s \in S : IsFiniteSet(f[s])
  BY PathMatchSet DEF MatchSet
<1>2. UNION {RM!PathMatches(pat, s) : s \in S} = UNION {f[s] : s \in S}
  OBVIOUS
<1> HIDE DEF f
<1>3. IsFiniteSet(UNION {f[s] : s \in S})
  BY <1>1, FamilyFinite
<1> QED BY <1>2, <1>3

LEMMA MatchesFinite ==
    ASSUME NEW T, IsTable(T), NEW method, NEW p \in Seq(Chars)
    PROVE  /\ IsFiniteSet(Matches(T, method, p))
           /\ \A m \in Matches(T, method, p) : m.trace \in Seq(Steps)
<1> DEFINE q == Query(method, p)
           R == {r \in T : RM!RouteAccepts(r, q)}
<1>1. ASSUME NEW r \in R PROVE IsFiniteSet(RM!MatchesOf(r, q))
  <2> DEFINE H == RM!HostMatches(r.pattern, <<>>)
             P == RM!PathMatches(r.pattern, p)
             A == RM!SlashAdded(r, p)
             D == RM!SlashDropped(r, p)
             X == IF r.slash = "exact" THEN {} ELSE A \cup D
             f == [x \in P |-> x]
  <2>1. IsPattern(r.pattern)
    BY DEF IsTable
  <2>2. IsFiniteSet(H)
    <3> DEFINE h == [caps |-> <<>>, trace |-> <<RM!NoHostStep>>]
    <3>1. H \subseteq {h}
      BY <2>1, NoHostMatches
    <3> HIDE DEF H, h
    <3> QED BY <3>1, FS_Singleton, FS_Subset
  <2>3. IsFiniteSet(P)
    BY <2>1, PathMatchSet DEF MatchSet
  <2>4. IsFiniteSet(A)
    <3> DEFINE U == UNION {RM!PathMatches(r.pattern, s) : s \in RM!AddSlash(p)}
               V == {x \in U : RM!CatchAll(r) => RM!Last(x.caps) = <<>>}
               K(t) == IF RM!CatchAll(r) THEN Len(t) - 1 ELSE Len(t)
               g == [x \in V |-> [x EXCEPT !.trace = [@ EXCEPT ![K(@)] = RM!SlashStep]]]
    <3>1. IsFiniteSet(RM!AddSlash(p)) /\ RM!AddSlash(p) \subseteq Seq(Chars)
      <4>1. Slash \in Chars
        BY DEF Chars
      <4>2. Append(p, Slash) \in Seq(Chars)
        BY <4>1, AppendProperties
      <4>3. RM!AddSlash(p) \subseteq {Append(p, Slash)}
        BY DEF RM!AddSlash, Slash
      <4> QED BY <4>2, <4>3, FS_Singleton, FS_Subset
    <3>2. IsFiniteSet(U)
      BY <2>1, <3>1, PathsFinite
    <3>3. IsFiniteSet(V)
      <4>1. V \subseteq U
        OBVIOUS
      <4> HIDE DEF U, V
      <4> QED BY <3>2, <4>1, FS_Subset
    <3>4. A = {g[x] : x \in V}
      BY DEF RM!SlashAdded
    <3> HIDE DEF V, g, A
    <3> QED BY <3>3, <3>4, ImageFinite
  <2>5. IsFiniteSet(D)
    <3> DEFINE S == IF RM!CatchAll(r) THEN {} ELSE RM!DropSlash(p)
               U == UNION {RM!PathMatches(r.pattern, s) : s \in S}
               g == [x \in U |-> [x EXCEPT !.trace = Append(@, RM!SlashStep)]]
    <3>1. IsFiniteSet(S) /\ S \subseteq Seq(Chars)
      <4>1. S \subseteq {RM!Front(p)}
        BY DEF RM!DropSlash
      <4>2. S # {} => RM!Front(p) \in Seq(Chars)
        <5>1. S # {} => Len(p) > 1
          BY DEF RM!DropSlash
        <5> HIDE DEF S
        <5> QED BY <5>1 DEF RM!Front
      <4> HIDE DEF S
      <4> QED BY <4>1, <4>2, FS_Singleton, FS_Subset
    <3> HIDE DEF S
    <3>2. IsFiniteSet(U)
      BY <2>1, <3>1, PathsFinite
    <3>3. D = {g[x] : x \in U}
      BY DEF RM!SlashDropped, S
    <3> HIDE DEF U, g, D
    <3> QED BY <3>2, <3>3, ImageFinite
  <2>6. IsFiniteSet(X)
    <3> HIDE DEF A, D
    <3>1. IsFiniteSet(A \cup D)
      BY <2>4, <2>5, FS_Union
    <3> QED BY <3>1, FS_EmptySet
  <2> DEFINE DirectOf(h) == {RM!Joined(r, FALSE, h, x) : x \in P}
             TsrOf(h) == {RM!Joined(r, TRUE, h, x) : x \in X}
             All(h) == DirectOf(h) \cup TsrOf(h)
             F == [h \in H |-> All(h)]
  <2>7. RM!MatchesOf(r, q) = UNION {F[h] : h \in H}
    <3>1. q.host = <<>> /\ q.path = p
      BY DEF Query
    <3>2. RM!MatchesOf(r, q) = UNION {All(h) : h \in H}
      BY <3>1 DEF RM!MatchesOf
    <3> HIDE DEF All
    <3> QED BY <3>2
  <2> HIDE DEF P, X, H
  <2>8. ASSUME NEW h PROVE IsFiniteSet(All(h))
    <3> DEFINE f1 == [x \in P |-> RM!Joined(r, FALSE, h, x)]
               f2 == [x \in X |-> RM!Joined(r, TRUE, h, x)]
    <3>1. DirectOf(h) = {f1[x] : x \in P} /\ TsrOf(h) = {f2[x] : x \in X}
      OBVIOUS
    <3> HIDE DEF f1, f2, DirectOf, TsrOf
    <3>2. IsFiniteSet({f1[x] : x \in P}) /\ IsFiniteSet({f2[x] : x \in X})
      BY <2>3, <2>6, ImageFinite
    <3> QED BY <3>1, <3>2, FS_Union
  <2>9. \A h \in H : IsFiniteSet(F[h])
    <3> HIDE DEF All
    <3> QED BY <2>8
  <2> HIDE DEF F
  <2> QED BY <2>2, <2>7, <2>9, FamilyFinite
<1>2. IsFiniteSet(R)
  <2>1. R \subseteq T
    OBVIOUS
  <2> HIDE DEF R
  <2> QED BY <2>1, FS_Subset DEF IsTable
<1> DEFINE f == [r \in R |-> RM!MatchesOf(r, q)]
<1>3. Matches(T, method, p) = UNION {f[r] : r \in R}
  BY DEF Matches, RM!AllMatches, Query
<1>4. \A r \in R : IsFiniteSet(f[r])
  BY <1>1
<1>5. IsFiniteSet(Matches(T, method, p))
  <2> HIDE DEF R, f
  <2> QED BY <1>2, <1>3, <1>4, FamilyFinite
<1>6. ASSUME NEW m \in Matches(T, method, p) PROVE m.trace \in Seq(Steps)
  <2>1. m.route \in T /\ m \in RM!MatchesOf(m.route, Query(method, p))
    BY MatchIn
  <2> QED BY <2>1, MatchTraces DEF IsTable
<1> QED BY <1>5, <1>6

\* A match that is looked up and needs another slash is least.
LEMMA LookedIsLeast ==
    ASSUME NEW T, IsTable(T), NEW method, NEW p \in Seq(Chars), NEW m \in Lookup(T, method, p), m.tsr
    PROVE  m \in Matches(T, method, p) /\ \A x \in Matches(T, method, p) : ~RM!TraceLess(x.trace, m.trace)
<1> DEFINE ms == Matches(T, method, p)
<1>1. m \in ms /\ m = CHOOSE x \in ms : RM!Preferred(ms) # {} => x \in RM!Preferred(ms)
  BY DEF Lookup
<1>2. IsFiniteSet(ms) /\ \A x \in ms : x.trace \in Seq(Steps)
  BY MatchesFinite
<1> HIDE DEF ms
<1>3. /\ RM!Preferred(ms) # {}
      /\ \A x \in RM!Preferred(ms) : x.tsr => x \in RM!Least(ms)
  BY <1>1, <1>2, PreferredMatch
<1>4. RM!Preferred(ms) \subseteq ms
  BY DEF RM!Preferred, RM!Least
<1>5. m \in RM!Preferred(ms)
  BY <1>1, <1>3, <1>4
<1> QED BY <1>1, <1>3, <1>5 DEF RM!Least, ms

\* A slash is added, and dropped again.
LEMMA SlashAddedBack ==
    ASSUME NEW B, Slash \in B, NEW p \in Seq(B), p # <<>>, RM!Last(p) # Slash
    PROVE  LET f == FixTrailingSlash(p)
           IN  /\ f = Append(p, Slash) /\ f \in Seq(B) /\ f # <<>>
               /\ Len(f) = Len(p) + 1 /\ Len(p) >= 1
               /\ RM!Last(f) = Slash /\ RM!Front(f) = p
<1> DEFINE f == Append(p, Slash)
<1>1. FixTrailingSlash(p) = f
  BY DEF FixTrailingSlash, Last, RM!Last
<1>2. f \in Seq(B) /\ Len(f) = Len(p) + 1 /\ f[Len(p) + 1] = Slash /\ \A i \in 1 .. Len(p) : f[i] = p[i]
  BY AppendProperties
<1>3. Len(p) \in Nat /\ Len(p) >= 1
  OBVIOUS
<1> HIDE DEF f
<1>4. RM!Last(f) = Slash
  BY <1>2 DEF RM!Last
<1>5. RM!Front(f) = p
  <2>1. (Len(p) + 1) - 1 = Len(p) /\ \A i \in 1 .. Len(p) : i \in 1 .. Len(f)
    BY <1>2, <1>3
  <2> DEFINE g == SubSeq(f, 1, Len(p))
  <2>2. g \in Seq(B) /\ Len(g) = Len(p) /\ \A i \in 1 .. Len(p) : g[i] = f[i]
    BY <1>2, <1>3
  <2>3. RM!Front(f) = g
    BY <1>2, <2>1 DEF RM!Front
  <2> HIDE DEF g
  <2>4. \A i \in 1 .. Len(g) : g[i] = p[i]
    BY <1>2, <2>2
  <2>5. g = p
    BY <2>2, <2>4, SeqEqual
  <2> QED BY <2>3, <2>5
<1>6. f # <<>>
  BY <1>2, <1>3
<1> QED BY <1>1, <1>2, <1>3, <1>4, <1>5, <1>6

\* A slash is dropped, and added again.
LEMMA SlashDroppedBack ==
    ASSUME NEW B, NEW p \in Seq(B), Len(p) > 1, RM!Last(p) = Slash,
           ~RM!EndsWith(p, <<Slash, Slash>>)
    PROVE  LET f == FixTrailingSlash(p)
           IN  /\ f = RM!Front(p) /\ f \in Seq(B) /\ f # <<>> /\ Len(f) = Len(p) - 1
               /\ \A i \in 1 .. Len(p) - 1 : f[i] = p[i]
               /\ RM!Last(f) # Slash /\ Append(f, Slash) = p
<1> DEFINE N == Len(p)
           f == SubSeq(p, 1, N - 1)
<1>1. FixTrailingSlash(p) = f /\ RM!Front(p) = f
  BY DEF FixTrailingSlash, Last, RM!Last, Front, RM!Front
<1>2. N \in Nat /\ N > 1 /\ p[N] = Slash
  BY DEF RM!Last
<1>3. f \in Seq(B) /\ Len(f) = N - 1 /\ \A i \in 1 .. N - 1 : f[i] = p[i]
  OBVIOUS
<1>4. N - 1 \in 1 .. N - 1 /\ (N - 1) + 1 = N
  BY <1>2
<1> HIDE DEF f
<1>5. p[N - 1] # Slash
  <2> SUFFICES ASSUME p[N - 1] = Slash PROVE FALSE
    OBVIOUS
  <2> DEFINE two == <<Slash, Slash>>
             C == B \cup {Slash}
             rt == RM!Reverse(two)
             rp == RM!Reverse(p)
             a == SubSeq(rt, 1, 2)
             b == SubSeq(rp, 1, 2)
  <2>1. two \in Seq(C) /\ Len(two) = 2 /\ two[1] = Slash /\ two[2] = Slash
    OBVIOUS
  <2> HIDE DEF two
  <2>2. rt \in Seq(C) /\ Len(rt) = 2 /\ \A i \in 1 .. 2 : rt[i] = two[(2 - i) + 1]
    BY <2>1 DEF RM!Reverse
  <2>3. p \in Seq(C)
    OBVIOUS
  <2> HIDE DEF C
  <2>4. rp \in Seq(C) /\ Len(rp) = N /\ \A i \in 1 .. N : rp[i] = p[(N - i) + 1]
    BY <2>3 DEF RM!Reverse
  <2> HIDE DEF rt, rp, N
  <2>5. /\ a \in Seq(C) /\ Len(a) = 2 /\ \A i \in 1 .. 2 : a[i] = rt[i]
        /\ b \in Seq(C) /\ Len(b) = 2 /\ \A i \in 1 .. 2 : b[i] = rp[i]
    <3>1. ASSUME NEW q \in Seq(C), Len(q) >= 2
          PROVE  LET c == SubSeq(q, 1, 2)
                 IN  c \in Seq(C) /\ Len(c) = 2 /\ \A i \in 1 .. 2 : c[i] = q[i]
      <4>1. \A i \in 1 .. 2 : q[i] \in C
        BY <3>1
      <4> QED BY <3>1, <4>1
    <3>2. Len(rt) >= 2 /\ Len(rp) >= 2
      BY <1>2, <2>2, <2>4
    <3> QED BY <2>2, <2>4, <3>1, <3>2
  <2> HIDE DEF a, b
  <2>6. \A i \in 1 .. 2 : a[i] = Slash /\ b[i] = Slash
    <3> SUFFICES ASSUME NEW i \in 1 .. 2 PROVE a[i] = Slash /\ b[i] = Slash
      OBVIOUS
    <3>1. (2 - i) + 1 = 1 \/ (2 - i) + 1 = 2
      OBVIOUS
    <3>2. a[i] = Slash
      BY <2>1, <2>2, <2>5, <3>1
    <3>3. i \in 1 .. N /\ ((N - i) + 1 = N \/ (N - i) + 1 = N - 1)
      BY <1>2
    <3>4. b[i] = Slash
      BY <1>2, <2>4, <2>5, <3>3
    <3> QED BY <3>2, <3>4
  <2>7. a = b
    BY <2>5, <2>6, SeqEqual
  <2>8. RM!IsSuffix(two, p)
    BY <1>2, <2>2, <2>4, <2>7 DEF RM!IsSuffix, RM!IsPrefix, rt, rp, a, b
  <2> QED BY <2>8 DEF RM!EndsWith, two
<1>6. RM!Last(f) # Slash
  BY <1>3, <1>4, <1>5 DEF RM!Last
<1>7. f # <<>>
  BY <1>2, <1>3
<1>8. Append(f, Slash) = p
  <2> DEFINE g == Append(f, Slash)
             C == B \cup {Slash}
  <2>1. f \in Seq(C)
    BY <1>3
  <2>2. g \in Seq(C) /\ Len(g) = Len(f) + 1 /\ g[Len(f) + 1] = Slash /\ \A i \in 1 .. Len(f) : g[i] = f[i]
    BY <2>1, AppendProperties
  <2>3. p \in Seq(C)
    OBVIOUS
  <2> HIDE DEF g, C
  <2>4. Len(g) = Len(p)
    BY <1>2, <1>3, <2>2
  <2>5. \A i \in 1 .. Len(g) : g[i] = p[i]
    <3> SUFFICES ASSUME NEW i \in 1 .. Len(g) PROVE g[i] = p[i]
      OBVIOUS
    <3>1. CASE i = N
      BY <1>2, <1>3, <1>4, <2>2, <3>1
    <3>2. CASE i # N
      <4>1. i \in 1 .. N - 1
        BY <1>2, <2>4, <3>2
      <4> QED BY <1>3, <2>2, <4>1
    <3> QED BY <3>1, <3>2
  <2>6. g = p
    BY <2>2, <2>3, <2>4, <2>5, SeqEqual
  <2> QED BY <2>6 DEF g
<1> QED BY <1>1, <1>3, <1>6, <1>7, <1>8

\* The route that was reached with a slash added and the one reached with a slash
\* dropped cannot both be preferred to the direct matches of the other.
LEMMA TracesCross ==
    ASSUME NEW s, NEW t, NEW u, NEW v, HostTrace(s), HostTrace(t), AddedTrace(s, u), DroppedTrace(t, v)
    PROVE  RM!TraceLess(s, v) \/ RM!TraceLess(t, u)
<1>1. PICK k \in 2 .. Len(s) : k >= Len(s) - 1 /\ \A i \in 1 .. Len(s) : u[i] = IF i = k THEN RM!SlashStep ELSE s[i]
  BY DEF AddedTrace
<1>2. /\ s \in Seq(Steps) /\ t \in Seq(Steps) /\ s[1] = t[1]
      /\ \A i \in 2 .. Len(s) : s[i][1] <= 3
      /\ \A i \in 2 .. Len(t) : t[i][1] <= 3
  BY DEF HostTrace
<1>3. Len(t) >= 1
  BY DEF HostTrace
<1>4. u \in Seq(Steps) /\ Len(u) = Len(s)
  BY DEF AddedTrace
<1>5. v \in Seq(Steps) /\ Len(v) = Len(t) + 1 /\ \A i \in 1 .. Len(v) : v[i] = IF i <= Len(t) THEN t[i] ELSE RM!SlashStep
  BY DEF DroppedTrace
<1> QED BY <1>1, <1>2, <1>3, <1>4, <1>5, SlashesCross

\* A path that is looked up with another slash: with that slash the lookup finds
\* something, and it needs none of the other slash again.
LEMMA SlashLeads ==
    ASSUME NEW T, IsTable(T), NEW method, NEW p \in Seq(Chars), NEW m \in Lookup(T, method, p), m.tsr
    PROVE  LET f == FixTrailingSlash(p)
           IN  /\ f \in Seq(Chars) /\ f # <<>>
               /\ Lookup(T, method, f) # {}
               /\ \A x \in Lookup(T, method, f) : ~x.tsr
<1> DEFINE f == FixTrailingSlash(p)
<1>1. m \in Matches(T, method, p) /\ \A x \in Matches(T, method, p) : ~RM!TraceLess(x.trace, m.trace)
  BY LookedIsLeast
<1>2. m.route \in T /\ m \in RM!MatchesOf(m.route, Query(method, p)) /\ IsPattern(m.route.pattern)
  BY <1>1, MatchIn DEF IsTable
<1>3. WhenAdded(m.route, p, m.trace) \/ WhenDropped(m.route, p, m.trace)
  BY <1>2, MatchTraces
<1>4. Slash \in Chars
  BY DEF Chars
\* A match of f that needs another slash again.
<1>5. ASSUME NEW x \in Lookup(T, method, f), x.tsr, f \in Seq(Chars)
      PROVE  /\ x \in Matches(T, method, f) /\ \A y \in Matches(T, method, f) : ~RM!TraceLess(y.trace, x.trace)
             /\ IsPattern(x.route.pattern)
             /\ WhenAdded(x.route, f, x.trace) \/ WhenDropped(x.route, f, x.trace)
  <2>1. x \in Matches(T, method, f) /\ \A y \in Matches(T, method, f) : ~RM!TraceLess(y.trace, x.trace)
    BY <1>5, LookedIsLeast
  <2>2. x.route \in T /\ x \in RM!MatchesOf(x.route, Query(method, f)) /\ IsPattern(x.route.pattern)
    BY <2>1, MatchIn DEF IsTable
  <2> HIDE DEF f
  <2>3. WhenAdded(x.route, f, x.trace) \/ WhenDropped(x.route, f, x.trace)
    BY <1>5, <2>2, MatchTraces
  <2> QED BY <2>1, <2>2, <2>3
<1>6. CASE WhenAdded(m.route, p, m.trace)
  <2>1. PICK s : HostTrace(s) /\ DirectTrace(m.route, Append(p, Slash), s) /\ AddedTrace(s, m.trace)
    BY <1>6 DEF WhenAdded
  <2>2. f = Append(p, Slash) /\ f \in Seq(Chars) /\ f # <<>> /\ RM!Last(f) = Slash /\ RM!Front(f) = p
    BY <1>4, <1>6, SlashAddedBack DEF WhenAdded
  <2> HIDE DEF f
  <2>3. PICK d \in Matches(T, method, f) : d.trace = s
    BY <1>1, <1>2, <2>1, <2>2, DirectIn
  <2>4. ASSUME NEW x \in Lookup(T, method, f), x.tsr PROVE FALSE
    <3>1. /\ x \in Matches(T, method, f) /\ \A y \in Matches(T, method, f) : ~RM!TraceLess(y.trace, x.trace)
          /\ IsPattern(x.route.pattern) /\ WhenDropped(x.route, f, x.trace)
      BY <1>5, <2>2, <2>4 DEF WhenAdded
    <3>2. PICK t : HostTrace(t) /\ DirectTrace(x.route, p, t) /\ DroppedTrace(t, x.trace)
      BY <2>2, <3>1 DEF WhenDropped
    <3>3. PICK e \in Matches(T, method, p) : e.trace = t
      BY <3>1, <3>2, DirectIn
    <3>4. RM!TraceLess(s, x.trace) \/ RM!TraceLess(t, m.trace)
      BY <2>1, <3>2, TracesCross
    <3> QED BY <1>1, <2>3, <3>1, <3>3, <3>4
  <2>5. Lookup(T, method, f) # {}
    BY <2>3, LookupChooses
  <2> QED BY <2>2, <2>4, <2>5 DEF f
<1>7. CASE WhenDropped(m.route, p, m.trace)
  <2>1. PICK t : HostTrace(t) /\ DirectTrace(m.route, RM!Front(p), t) /\ DroppedTrace(t, m.trace)
    BY <1>7 DEF WhenDropped
  <2>2. f = RM!Front(p) /\ f \in Seq(Chars) /\ f # <<>> /\ RM!Last(f) # Slash /\ Append(f, Slash) = p
    BY <1>7, SlashDroppedBack DEF WhenDropped
  <2> HIDE DEF f
  <2>3. PICK d \in Matches(T, method, f) : d.trace = t
    BY <1>1, <1>2, <2>1, <2>2, DirectIn
  <2>4. ASSUME NEW x \in Lookup(T, method, f), x.tsr PROVE FALSE
    <3>1. /\ x \in Matches(T, method, f) /\ \A y \in Matches(T, method, f) : ~RM!TraceLess(y.trace, x.trace)
          /\ IsPattern(x.route.pattern) /\ WhenAdded(x.route, f, x.trace)
      BY <1>5, <2>2, <2>4 DEF WhenDropped
    <3>2. PICK s : HostTrace(s) /\ DirectTrace(x.route, p, s) /\ AddedTrace(s, x.trace)
      BY <2>2, <3>1 DEF WhenAdded
    <3>3. PICK e \in Matches(T, method, p) : e.trace = s
      BY <3>1, <3>2, DirectIn
    <3>4. RM!TraceLess(s, m.trace) \/ RM!TraceLess(t, x.trace)
      BY <2>1, <3>2, TracesCross
    <3> QED BY <1>1, <2>3, <3>1, <3>3, <3>4
  <2>5. Lookup(T, method, f) # {}
    BY <2>3, LookupChooses
  <2> QED BY <2>2, <2>4, <2>5 DEF f
<1> QED BY <1>3, <1>6, <1>7

-----------------------------------------------------------------------------
(* The paths of redirects *)

\* A path whose dot segments are those of another has none if that one has none.
LEMMA DotsKept ==
    ASSUME NEW B, NEW p \in Seq(B), NEW q \in Seq(B), ~HasDotSegment(p),
           \A i \in 0 .. Len(q) :
              /\ i = 0 \/ q[i] = Slash
              /\ OneDot(q, i) \/ TwoDots(q, i)
              => /\ i \in 0 .. Len(p) /\ (i = 0 \/ p[i] = Slash)
                 /\ OneDot(p, i) \/ TwoDots(p, i)
    PROVE  ~HasDotSegment(q)
<1> SUFFICES ASSUME HasDotSegment(q) PROVE FALSE
  OBVIOUS
<1>1. PICK i \in 0 .. Len(q) : (i = 0 \/ q[i] = Slash) /\ (OneDot(q, i) \/ TwoDots(q, i))
  BY DotSegmentsAt
<1>2. i \in 0 .. Len(p) /\ (i = 0 \/ p[i] = Slash) /\ (OneDot(p, i) \/ TwoDots(p, i))
  BY <1>1
<1> QED BY <1>2, DotSegmentsAt

\* Adding or dropping the trailing slash makes no dot segment, and no two slashes
\* in a row.
LEMMA AddedKeeps ==
    ASSUME NEW B, Slash \in B, NEW p \in Seq(B), p # <<>>, RM!Last(p) # Slash
    PROVE  LET f == FixTrailingSlash(p)
           IN  /\ ~HasDotSegment(p) => ~HasDotSegment(f)
               /\ ~HasDoubleSlash(p) => ~HasDoubleSlash(f)
<1> DEFINE f == FixTrailingSlash(p)
           N == Len(p)
<1>1. /\ f \in Seq(B) /\ Len(f) = N + 1 /\ N \in Nat /\ N >= 1 /\ f[N + 1] = Slash /\ p[N] # Slash
      /\ \A i \in 1 .. N : f[i] = p[i]
  <2>1. f = Append(p, Slash)
    BY SlashAddedBack
  <2>2. N \in Nat /\ N >= 1
    OBVIOUS
  <2> HIDE DEF f
  <2> QED BY <2>1, <2>2, AppendProperties DEF RM!Last
<1>2. Dot # Slash
  BY DEF Dot, Slash
<1> HIDE DEF f, N
<1>3. ASSUME NEW i \in 0 .. Len(f), i = 0 \/ f[i] = Slash, OneDot(f, i) \/ TwoDots(f, i)
      PROVE  i \in 0 .. N /\ (i = 0 \/ p[i] = Slash) /\ (OneDot(p, i) \/ TwoDots(p, i))
  <2>1. i < N
    <3>1. f[i + 1] = Dot /\ i < Len(f)
      BY <1>1, <1>3 DEF OneDot, TwoDots
    <3>2. i + 1 # N + 1
      BY <1>1, <1>2, <3>1
    <3> QED BY <1>1, <3>1, <3>2
  <2>2. i = 0 \/ p[i] = Slash
    BY <1>1, <1>3, <2>1
  <2>3. CASE OneDot(f, i)
    <3>1. p[i + 1] = Dot
      BY <1>1, <2>1, <2>3 DEF OneDot
    <3>2. i + 1 = N \/ p[i + 2] = Slash
      BY <1>1, <2>1, <2>3 DEF OneDot
    <3> QED BY <1>1, <2>1, <2>2, <3>1, <3>2 DEF OneDot, N
  <2>4. CASE TwoDots(f, i)
    <3>1. i + 1 < N
      <4>1. f[i + 2] = Dot /\ i + 1 < Len(f)
        BY <2>4 DEF TwoDots
      <4>2. i + 2 # N + 1
        BY <1>1, <1>2, <4>1
      <4> QED BY <1>1, <4>1, <4>2
    <3>2. p[i + 1] = Dot /\ p[i + 2] = Dot
      BY <1>1, <2>1, <2>4, <3>1 DEF TwoDots
    <3>3. i + 2 = N \/ p[i + 3] = Slash
      BY <1>1, <2>1, <2>4, <3>1 DEF TwoDots
    <3> QED BY <1>1, <2>1, <2>2, <3>1, <3>2, <3>3 DEF TwoDots, N
  <2> QED BY <1>3, <2>3, <2>4
<1>4. ~HasDotSegment(p) => ~HasDotSegment(f)
  BY <1>1, <1>3, DotsKept DEF N
<1>5. ASSUME ~HasDoubleSlash(p), NEW i \in 2 .. Len(f), f[i] = Slash, f[i - 1] = Slash PROVE FALSE
  <2>1. CASE i = N + 1
    <3>1. i - 1 = N /\ N \in 1 .. N
      BY <1>1, <2>1
    <3> QED BY <1>1, <1>5, <3>1
  <2>2. CASE i # N + 1
    <3>1. i \in 2 .. N /\ i \in 1 .. N /\ i - 1 \in 1 .. N
      BY <1>1, <2>2
    <3> QED BY <1>1, <1>5, <3>1 DEF HasDoubleSlash, N
  <2> QED BY <2>1, <2>2
<1> QED BY <1>4, <1>5 DEF HasDoubleSlash, f

LEMMA DroppedKeeps ==
    ASSUME NEW B, NEW p \in Seq(B), Len(p) > 1, RM!Last(p) = Slash, ~RM!EndsWith(p, <<Slash, Slash>>)
    PROVE  LET f == FixTrailingSlash(p)
           IN  /\ ~HasDotSegment(p) => ~HasDotSegment(f)
               /\ ~HasDoubleSlash(p) => ~HasDoubleSlash(f)
<1> DEFINE f == FixTrailingSlash(p)
           N == Len(p)
           M == Len(f)
<1>1. /\ f \in Seq(B) /\ N \in Nat /\ N > 1 /\ M = N - 1 /\ M \in Nat /\ p[N] = Slash
      /\ \A i \in 1 .. M : f[i] = p[i]
  <2>1. f \in Seq(B) /\ Len(f) = N - 1 /\ \A i \in 1 .. N - 1 : f[i] = p[i]
    BY SlashDroppedBack
  <2> HIDE DEF f
  <2> QED BY <2>1 DEF RM!Last
<1> HIDE DEF f, N, M
<1>3. ASSUME NEW i \in 0 .. M, i = 0 \/ f[i] = Slash, OneDot(f, i) \/ TwoDots(f, i)
      PROVE  i \in 0 .. N /\ (i = 0 \/ p[i] = Slash) /\ (OneDot(p, i) \/ TwoDots(p, i))
  <2>1. i < M /\ i \in 0 .. N
    BY <1>1, <1>3 DEF OneDot, TwoDots, M
  <2>2. i = 0 \/ p[i] = Slash
    BY <1>1, <1>3, <2>1
  <2>3. CASE OneDot(f, i)
    <3>1. p[i + 1] = Dot
      BY <1>1, <2>1, <2>3 DEF OneDot
    <3>2. p[i + 2] = Slash
      <4>1. CASE i + 1 = M
        <5>1. i + 2 = N
          BY <1>1, <2>1, <4>1
        <5> QED BY <1>1, <5>1
      <4>2. CASE i + 1 # M
        <5>1. f[i + 2] = Slash /\ i + 2 \in 1 .. M
          BY <1>1, <2>1, <2>3, <4>2 DEF OneDot, M
        <5> QED BY <1>1, <5>1
      <4> QED BY <4>1, <4>2
    <3> QED BY <1>1, <2>1, <2>2, <3>1, <3>2 DEF OneDot, N
  <2>4. CASE TwoDots(f, i)
    <3>1. i + 1 < M
      BY <2>4 DEF TwoDots, M
    <3>2. p[i + 1] = Dot /\ p[i + 2] = Dot
      BY <1>1, <2>1, <2>4, <3>1 DEF TwoDots
    <3>3. p[i + 3] = Slash
      <4>1. CASE i + 2 = M
        <5>1. i + 3 = N
          BY <1>1, <2>1, <4>1
        <5> QED BY <1>1, <5>1
      <4>2. CASE i + 2 # M
        <5>1. f[i + 3] = Slash /\ i + 3 \in 1 .. M
          BY <1>1, <2>1, <2>4, <3>1, <4>2 DEF TwoDots, M
        <5> QED BY <1>1, <5>1
      <4> QED BY <4>1, <4>2
    <3> QED BY <1>1, <2>1, <2>2, <3>1, <3>2, <3>3 DEF TwoDots, N
  <2> QED BY <1>3, <2>3, <2>4
<1>4. ~HasDotSegment(p) => ~HasDotSegment(f)
  BY <1>1, <1>3, DotsKept DEF N, M
<1>5. ASSUME ~HasDoubleSlash(p), NEW i \in 2 .. M, f[i] = Slash, f[i - 1] = Slash PROVE FALSE
  <2>1. i \in 2 .. N /\ i \in 1 .. M /\ i - 1 \in 1 .. M
    BY <1>1
  <2> QED BY <1>1, <1>5, <2>1 DEF HasDoubleSlash, N
<1> QED BY <1>4, <1>5 DEF HasDoubleSlash, f, M

\* A Location without dot segments is the path itself, or has an escaped slash.
LEMMA LocationIs ==
    ASSUME NEW p \in Seq(Chars), p # <<>>, ~HasDotSegment(p)
    PROVE  /\ Resolved(LocationOf(p)) \in Seq(Chars)
           /\ \/ Resolved(LocationOf(p)) = p
              \/ EncodedSlash \in ToSet(Resolved(LocationOf(p)))
<1> DEFINE q == [p EXCEPT ![2] = EncodedSlash]
<1>1. CASE ~(Len(p) > 2 /\ p[1] = Slash /\ p[2] = Slash)
  <2>1. LocationOf(p) = p
    BY <1>1 DEF LocationOf, EscapeLeadingSlashes
  <2> QED BY <2>1 DEF Resolved
<1>2. CASE Len(p) > 2 /\ p[1] = Slash /\ p[2] = Slash
  <2>1. LocationOf(p) = q
    BY <1>2 DEF LocationOf, EscapeLeadingSlashes
  <2>2. /\ q \in Seq(Chars) /\ Len(q) = Len(p) /\ Len(p) \in Nat /\ q[2] = EncodedSlash
        /\ \A i \in 1 .. Len(p) : i # 2 => q[i] = p[i]
    <3>1. EncodedSlash \in Chars
      BY DEF Chars
    <3> QED BY <1>2, <3>1
  <2>3. EncodedSlash # Dot /\ EncodedSlash # Slash
    BY DEF EncodedSlash, Dot, Slash
  <2> HIDE DEF q
  <2>4. ASSUME NEW i \in 0 .. Len(q), i = 0 \/ q[i] = Slash, OneDot(q, i) \/ TwoDots(q, i)
        PROVE  i \in 0 .. Len(p) /\ (i = 0 \/ p[i] = Slash) /\ (OneDot(p, i) \/ TwoDots(p, i))
    <3>1. i # 2
      BY <2>2, <2>3, <2>4
    <3>2. i = 0 \/ p[i] = Slash
      BY <2>2, <2>4, <3>1
    <3>3. CASE OneDot(q, i)
      <4>1. i < Len(p) /\ q[i + 1] = Dot /\ (i + 1 = Len(p) \/ q[i + 2] = Slash)
        BY <2>2, <3>3 DEF OneDot
      <4>2. i + 1 # 2 /\ p[i + 1] = Dot
        BY <2>2, <2>3, <4>1
      <4>3. i + 1 = Len(p) \/ p[i + 2] = Slash
        BY <2>2, <2>3, <4>1
      <4> QED BY <2>2, <3>2, <4>1, <4>2, <4>3 DEF OneDot
    <3>4. CASE TwoDots(q, i)
      <4>1. i + 1 < Len(p) /\ q[i + 1] = Dot /\ q[i + 2] = Dot /\ (i + 2 = Len(p) \/ q[i + 3] = Slash)
        BY <2>2, <3>4 DEF TwoDots
      <4>2. p[i + 1] = Dot /\ p[i + 2] = Dot
        BY <2>2, <2>3, <4>1
      <4>3. i + 2 = Len(p) \/ p[i + 3] = Slash
        BY <2>2, <2>3, <4>1
      <4> QED BY <2>2, <3>2, <4>1, <4>2, <4>3 DEF TwoDots
    <3> QED BY <2>4, <3>3, <3>4
  <2>5. ~HasDotSegment(q)
    BY <2>2, <2>4, DotsKept
  <2>6. Resolved(q) = q
    BY <2>5 DEF Resolved
  <2>7. EncodedSlash \in ToSet(q)
    <3>1. 2 \in DOMAIN q
      BY <1>2, <2>2
    <3> QED BY <2>2, <3>1 DEF ToSet
  <2> QED BY <2>1, <2>2, <2>6, <2>7
<1> QED BY <1>1, <1>2

\* Only a path of two slashes becomes a Location that names a host.
LEMMA LocationLeaves ==
    ASSUME NEW p \in Seq(Chars), p # <<>>, IsNetworkPath(LocationOf(p))
    PROVE  p = <<Slash, Slash>> /\ LocationOf(p) = p /\ HasDoubleSlash(p)
<1>1. ~(Len(p) > 2 /\ p[1] = Slash /\ p[2] = Slash)
  <2>1. SUFFICES ASSUME Len(p) > 2, p[1] = Slash, p[2] = Slash PROVE FALSE
    OBVIOUS
  <2>2. LocationOf(p) = [p EXCEPT ![2] = EncodedSlash]
    BY <2>1 DEF LocationOf, EscapeLeadingSlashes
  <2>3. [p EXCEPT ![2] = EncodedSlash][2] = EncodedSlash
    BY <2>1
  <2>4. EncodedSlash # Slash
    BY DEF EncodedSlash, Slash
  <2> QED BY <2>2, <2>3, <2>4 DEF IsNetworkPath
<1>2. LocationOf(p) = p
  BY <1>1 DEF LocationOf, EscapeLeadingSlashes
<1>3. Len(p) = 2 /\ p[1] = Slash /\ p[2] = Slash
  <2>1. IsNetworkPath(p)
    BY <1>2
  <2>2. Len(p) \in Nat /\ Len(p) > 1 /\ p[1] = Slash /\ p[2] = Slash
    BY <2>1, LenProperties DEF IsNetworkPath
  <2>3. ~(Len(p) > 2)
    BY <1>1, <2>2
  <2>4. \A n \in Nat : n > 1 /\ ~(n > 2) => n = 2
    OBVIOUS
  <2> QED BY <2>2, <2>3, <2>4
<1>4. p = <<Slash, Slash>>
  BY <1>3
<1>5. HasDoubleSlash(p)
  <2>1. 2 \in 2 .. Len(p) /\ p[2] = Slash /\ p[2 - 1] = Slash
    BY <1>3
  <2> QED BY <2>1 DEF HasDoubleSlash
<1> QED BY <1>2, <1>4, <1>5

\* The empty path matches nothing.
LEMMA EmptyMatchesNothing ==
    ASSUME NEW T, IsTable(T), NEW method
    PROVE  Matches(T, method, <<>>) = {}
<1> SUFFICES ASSUME NEW m \in Matches(T, method, <<>>) PROVE FALSE
  OBVIOUS
<1>1. m.route \in T /\ m \in RM!MatchesOf(m.route, Query(method, <<>>)) /\ IsPattern(m.route.pattern)
  BY MatchIn DEF IsTable
<1>2. <<>> \in Seq(Chars)
  OBVIOUS
<1>3. \/ DirectTrace(m.route, <<>>, m.trace)
      \/ WhenAdded(m.route, <<>>, m.trace)
      \/ WhenDropped(m.route, <<>>, m.trace)
  BY <1>1, <1>2, MatchTraces
<1>4. ~DirectTrace(m.route, <<>>, m.trace)
  <2>1. RM!PathMatches(m.route.pattern, <<>>) = {}
    BY <1>1, <1>2, PathMatchSet
  <2> QED BY <2>1 DEF DirectTrace
<1> QED BY <1>3, <1>4 DEF WhenAdded, WhenDropped

-----------------------------------------------------------------------------
(* The second invariant, on top of the first: what a redirect leads to *)

\* A redirect of this kind may lead a request by method to p: p is not normalised
\* any further, the lookup finds something, and without another slash once one
\* was added or dropped.
PathLeads(kind, method, p) ==
    /\ p \in Seq(Chars) /\ p # <<>> /\ ~HasDotSegment(p)
    /\ method \notin {"", "CONNECT"}
    /\ HasNormalize => Norm(p) = [ok |-> TRUE, path |-> p, redirect |-> FALSE]
    /\ Lookup(table, method, p) # {}
    /\ kind = "redirectSlash" => \A m \in Lookup(table, method, p) : ~m.tsr

Typed == req.path \in Seq(Chars) /\ IsTable(table)

ReplyLeads ==
    stage = "replied" /\ reply.kind \in Redirects =>
        /\ \E p : PathLeads(reply.kind, req.method, p) /\ reply.location = LocationOf(p)
        /\ OnlySlashesLeave

\* The request of a client that follows a redirect is never on the way to NoMatch.
Following ==
    prev.followed /\ ~Escaped =>
        /\ ~req.opaque
        /\ prev.kind \in Redirects /\ PathLeads(prev.kind, req.method, req.path)
        /\ ~Falling
        /\ FollowedIsServed

LInv == Typed /\ ReplyLeads /\ Following

\* Options and tables stay.
LEMMA LeadsFrame ==
    ASSUME UNCHANGED <<conf, table>>
    PROVE  \A kind, method, p : PathLeads(kind, method, p)' <=> PathLeads(kind, method, p)
BY DEF PathLeads, HasNormalize, Norm

LEMMA LeadsOn ==
    ASSUME NEW p, PathLeads(reply'.kind, req.method, p), reply'.location = LocationOf(p), UNCHANGED client,
           IsNetworkPath(LocationOf(p)) =>
              reply'.kind = "redirectPath" /\ conf.merge = "exact" /\ Norm(req.path).path = p
    PROVE  ReplyLeads'
<1>1. req' = req /\ UNCHANGED <<conf, table>>
  BY DEF client
<1>2. PathLeads(reply.kind, req.method, p)'
  BY <1>1, LeadsFrame
<1>3. ASSUME IsNetworkPath(reply'.location)
      PROVE  /\ reply'.kind = "redirectPath" /\ conf'.merge = "exact"
             /\ reply'.location = p /\ p = <<Slash, Slash>> /\ Norm(req.path).path' = p
  <2>1. p = <<Slash, Slash>> /\ LocationOf(p) = p
    BY <1>3, LocationLeaves DEF PathLeads
  <2>2. Norm(req.path).path' = Norm(req.path).path
    BY <1>1 DEF Norm
  <2> QED BY <1>1, <1>3, <2>1, <2>2
<1>4. OnlySlashesLeave'
  BY <1>3 DEF OnlySlashesLeave
<1> QED BY <1>2, <1>4 DEF ReplyLeads

\* The second invariant holds initially, and each step keeps it.
LEMMA InitLeads ==
    ASSUME Init
    PROVE  LInv
<1>1. PICK s \in Scenarios : table \in s.tables /\ req \in s.reqs
  BY DEF Init
<1>2. req.path \in Seq(Chars)
  <2>1. req.path \in Seq(STRING)
    BY <1>1, RequestsAssumption
  <2>2. STRING \subseteq Chars
    BY DEF Chars
  <2>3. \A q \in Seq(STRING) : q \in Seq(Chars)
    <3> SUFFICES ASSUME NEW q \in Seq(STRING) PROVE q \in Seq(Chars)
      OBVIOUS
    <3>1. q \in [1 .. Len(q) -> STRING] /\ Len(q) \in Nat
      BY LenProperties
    <3>2. q \in [1 .. Len(q) -> Chars]
      BY <2>2, <3>1
    <3> QED BY <3>1, <3>2, SeqDef
  <2> QED BY <2>1, <2>3
<1>3. IsTable(table)
  <2>1. IsFiniteSet(table)
    BY <1>1, TablesAssumption
  <2>2. table \subseteq Routes
    BY <1>1 DEF Routes
  <2> QED BY <2>1, <2>2, PatternsAssumption DEF IsTable, IsPattern
<1>4. stage = "start" /\ prev.followed = FALSE
  BY DEF Init
<1> QED BY <1>2, <1>3, <1>4 DEF LInv, Typed, ReplyLeads, Following

\* A step within a request, not to NoMatch, unless the request is no redirect's.
LEMMA InnerLeads ==
    ASSUME LInv, UNCHANGED client, stage' # "replied",
           Falling' => ~(prev.followed /\ ~Escaped)
    PROVE  LInv'
<1>1. UNCHANGED <<conf, table>> /\ req' = req /\ prev' = prev
  BY DEF client
<1>2. Typed' /\ ReplyLeads'
  BY <1>1 DEF LInv, Typed, ReplyLeads
<1>3. Escaped' <=> Escaped
  BY <1>1 DEF Escaped
<1>4. FollowedIsServed'
  BY DEF FollowedIsServed
<1>5. ASSUME (prev.followed /\ ~Escaped)' PROVE /\ ~req'.opaque /\ prev'.kind \in Redirects
                                             /\ PathLeads(prev.kind, req.method, req.path)' /\ ~Falling'
  <2>1. /\ prev.followed /\ ~Escaped
        /\ ~req.opaque /\ prev.kind \in Redirects /\ PathLeads(prev.kind, req.method, req.path)
    BY <1>1, <1>3, <1>5 DEF LInv, Following
  <2>2. PathLeads(prev.kind, req.method, req.path)'
    BY <1>1, <2>1, LeadsFrame
  <2> QED BY <1>1, <2>1, <2>2
<1> QED BY <1>2, <1>4, <1>5 DEF LInv, Following

\* A reply that is no redirect: it is the right one for a followed request.
LEMMA ReplyLeadsOn ==
    ASSUME LInv, UNCHANGED client, stage' = "replied",
           ReplyLeads',
           prev.followed /\ ~Escaped => \/ reply'.kind = "served"
                                        \/ reply'.kind = "redirectSlash" /\ prev.kind = "redirectPath"
    PROVE  LInv'
<1>1. UNCHANGED <<conf, table>> /\ req' = req /\ prev' = prev
  BY DEF client
<1>2. Typed'
  BY <1>1 DEF LInv, Typed
<1>3. Escaped' <=> Escaped
  BY <1>1 DEF Escaped
<1>4. FollowedIsServed'
  BY <1>1, <1>3 DEF FollowedIsServed
<1>5. ASSUME (prev.followed /\ ~Escaped)' PROVE /\ ~req'.opaque /\ prev'.kind \in Redirects
                                             /\ PathLeads(prev.kind, req.method, req.path)' /\ ~Falling'
  <2>1. /\ prev.followed /\ ~Escaped
        /\ ~req.opaque /\ prev.kind \in Redirects /\ PathLeads(prev.kind, req.method, req.path)
    BY <1>1, <1>3, <1>5 DEF LInv, Following
  <2>2. PathLeads(prev.kind, req.method, req.path)'
    BY <1>1, <2>1, LeadsFrame
  <2>3. ~Falling'
    BY DEF Falling
  <2> QED BY <1>1, <2>1, <2>2, <2>3
<1> QED BY <1>2, <1>4, <1>5 DEF LInv, Following

\* What is known of a followed request.
LEMMA FollowedIs ==
    ASSUME IInv, LInv, prev.followed, ~Escaped
    PROVE  /\ req.method \notin {"", "CONNECT"} /\ ~req.opaque
           /\ prev.kind \in Redirects
           /\ ~Falling
           /\ HasNormalize => Norm(req.path).ok /\ ~Norm(req.path).redirect /\ Norm(req.path).path = req.path
           /\ ~HasDotSegment(req.path)
           /\ prev.kind = "redirectSlash" => \A m \in Lookup(table, req.method, req.path) : ~m.tsr
           /\ Lookup(table, req.method, req.path) # {}
           /\ stage \in {"match", "found"} => path = req.path /\ url = req.path
<1>1. /\ ~req.opaque /\ prev.kind \in Redirects /\ PathLeads(prev.kind, req.method, req.path) /\ ~Falling
  BY DEF LInv, Following
<1>2. HasNormalize => Norm(req.path).ok /\ ~Norm(req.path).redirect /\ Norm(req.path).path = req.path
  <2> DEFINE w == req.path
             n == Norm(w)
  <2>1. HasNormalize => n = [ok |-> TRUE, path |-> w, redirect |-> FALSE]
    BY <1>1 DEF PathLeads
  <2> HIDE DEF w, n
  <2>2. HasNormalize => n.ok /\ ~n.redirect /\ n.path = w
    BY <2>1
  <2> QED BY <2>2 DEF n, w
<1>3. ASSUME stage \in {"match", "found"} PROVE path = req.path /\ url = req.path
  <2>1. path = RoutedPath(req.method) /\ url = path
    BY <1>3 DEF IInv, Looked
  <2>2. RoutedPath(req.method) = req.path
    BY <1>2 DEF RoutedPath, NormalizedFor
  <2> QED BY <2>1, <2>2
<1> QED BY <1>1, <1>3, <1>2 DEF PathLeads

\* The handlers for what matches nothing are not called for a followed request.
LEMMA FallingLeads ==
    ASSUME LInv, Falling, UNCHANGED client,
           stage' = "replied" => reply'.kind \notin Redirects
    PROVE  LInv'
<1>1. ~(prev.followed /\ ~Escaped)
  BY DEF LInv, Following
<1>2. CASE stage' # "replied"
  BY <1>1, <1>2, InnerLeads
<1>3. CASE stage' = "replied"
  <2>1. ReplyLeads'
    BY <1>3 DEF ReplyLeads
  <2> QED BY <1>1, <1>3, <2>1, ReplyLeadsOn
<1> QED BY <1>2, <1>3

\* A path a redirect leads to is neither refused nor redirected by normalisation.
LEMMA NormalizeLeads ==
    ASSUME IInv, LInv, EmptyMethod \/ RoutingPath \/ NormalizeOff \/ RejectPath \/ NotCanonical \/ NormalizePath
    PROVE  LInv'
<1>1. CASE EmptyMethod
  <2>1. stage' = "replied" /\ UNCHANGED client /\ reply'.kind = "noRoute" /\ req.method = ""
    BY <1>1 DEF EmptyMethod, Reply
  <2>2. ReplyLeads'
    BY <2>1 DEF ReplyLeads, Redirects
  <2>3. ~(prev.followed /\ ~Escaped)
    BY <2>1, FollowedIs
  <2> QED BY <2>1, <2>2, <2>3, ReplyLeadsOn
<1>2. CASE RoutingPath
  <2>1. stage' = "normalize" /\ UNCHANGED client /\ ~Falling'
    BY <1>2 DEF RoutingPath, Go, Falling
  <2> QED BY <2>1, InnerLeads
<1>3. CASE NormalizeOff \/ NormalizePath
  <2>1. stage' = "match" /\ UNCHANGED client /\ ~Falling'
    BY <1>3 DEF NormalizeOff, NormalizePath, Go, Falling
  <2> QED BY <2>1, InnerLeads
<1>4. ASSUME path = req.path, Normalizes, ~Norm(path).ok \/ Norm(path).redirect
      PROVE  ~(prev.followed /\ ~Escaped)
  BY <1>4, FollowedIs DEF Normalizes
<1>5. CASE RejectPath
  <2>1. UNCHANGED client /\ Normalizes /\ path = req.path /\ ~Norm(path).ok /\ stage' = "replied"
    BY <1>5 DEF RejectPath, Reply, IInv, BeforeMatch
  <2>2. reply'.kind = "rejectPath"
    BY <1>5 DEF RejectPath, Reply
  <2>3. ReplyLeads'
    BY <2>2 DEF ReplyLeads, Redirects
  <2> QED BY <1>4, <2>1, <2>3, ReplyLeadsOn
<1>6. CASE NotCanonical
  <2>1. UNCHANGED client /\ Normalizes /\ path = req.path /\ Norm(path).redirect /\ stage' = "noMatch"
    BY <1>6 DEF NotCanonical, Go, IInv, BeforeMatch
  <2> QED BY <1>4, <2>1, InnerLeads
<1> QED BY <1>1, <1>2, <1>3, <1>5, <1>6

\* RedirectPath leads to the normalised path, which is not normalised further.
LEMMA RedirectPathLeads ==
    ASSUME IInv, LInv, RedirectPath
    PROVE  LInv'
<1> DEFINE p == Norm(req.path).path
<1>1. /\ UNCHANGED client /\ Normalizes /\ path = req.path /\ url = req.path
      /\ Norm(req.path).ok /\ Norm(req.path).redirect /\ RedirectTarget(p)
      /\ stage' = "replied"
      /\ reply' = [kind |-> "redirectPath", allow |-> {}, location |-> LocationOf(Norm(url).path)]
      /\ req.method # ""
  BY DEF RedirectPath, Reply, IInv, BeforeMatch, RedirectLocation
<1>2. /\ p \in Seq(Chars)
      /\ Norm(p) = [ok |-> TRUE, path |-> p, redirect |-> FALSE]
      /\ conf.collapse # "exact" => ~HasDotSegment(p)
      /\ conf.merge # "exact" => ~HasDoubleSlash(p)
  <2>1. Slash \in Chars /\ req.path \in Seq(Chars)
    BY DEF Chars, LInv, Typed
  <2>2. Normalized(conf.merge, conf.collapse, req.path).ok
    BY <1>1 DEF Norm
  <2> QED BY <2>1, <2>2, NormalizedIsStable DEF Norm
<1>3. ~HasDotSegment(p)
  BY <1>1, <1>2 DEF RedirectTarget, MayRedirect
<1>4. Lookup(table, req.method, p) # {}
  BY <1>1 DEF RedirectTarget
<1>5. p # <<>>
  <2>1. Lookup(table, req.method, p) \subseteq Matches(table, req.method, p)
    BY LookupChooses
  <2> QED BY <1>4, <2>1, EmptyMatchesNothing DEF LInv, Typed
<1>6. PathLeads("redirectPath", req.method, p)
  <2> HIDE DEF p
  <2>1. req.method \notin {"", "CONNECT"}
    BY <1>1 DEF Normalizes
  <2> QED BY <1>2, <1>3, <1>4, <1>5, <2>1 DEF PathLeads
<1>7. ReplyLeads'
  <2>1. reply'.kind = "redirectPath" /\ reply'.location = LocationOf(p)
    BY <1>1
  <2>2. Norm(req.path).path = p
    OBVIOUS
  <2> HIDE DEF p
  <2>3. IsNetworkPath(LocationOf(p)) => conf.merge = "exact"
    BY <1>2, <1>5, LocationLeaves
  <2> QED BY <1>1, <1>6, <2>1, <2>2, <2>3, LeadsOn
<1>8. ~(prev.followed /\ ~Escaped)
  <2>1. HasNormalize /\ Norm(req.path).redirect
    BY <1>1 DEF Normalizes
  <2> QED BY <2>1, FollowedIs
<1> QED BY <1>1, <1>7, <1>8, ReplyLeadsOn

\* The lookup and the handler of a route.
LEMMA MatchLeads ==
    ASSUME IInv, LInv, Match \/ ServeDirect \/ ServeRelaxed
    PROVE  LInv'
<1>1. CASE Match
  <2>1. stage' = "found" /\ UNCHANGED client /\ ~Falling'
    BY <1>1 DEF Match, Go, Falling
  <2> QED BY <2>1, InnerLeads
<1>2. CASE ServeDirect \/ ServeRelaxed
  <2>1. stage' = "replied" /\ UNCHANGED client /\ reply'.kind = "served"
    BY <1>2 DEF ServeDirect, ServeRelaxed, Serve, Reply
  <2>2. ReplyLeads'
    BY <2>1 DEF ReplyLeads, Redirects
  <2> QED BY <2>1, <2>2, ReplyLeadsOn
<1> QED BY <1>1, <1>2

\* With the slash added or dropped the path stays normalised.
LEMMA SlashStaysNormal ==
    ASSUME NEW p \in Seq(Chars), ~HasDotSegment(p),
           \/ p # <<>> /\ RM!Last(p) # Slash
           \/ Len(p) > 1 /\ RM!Last(p) = Slash /\ ~RM!EndsWith(p, <<Slash, Slash>>),
           conf.merge # "exact" => ~HasDoubleSlash(p)
    PROVE  LET f == FixTrailingSlash(p)
           IN  /\ ~HasDotSegment(f)
               /\ Norm(f) = [ok |-> TRUE, path |-> f, redirect |-> FALSE]
<1> DEFINE f == FixTrailingSlash(p)
<1>1. Slash \in Chars
  BY DEF Chars
<1>2. f \in Seq(Chars)
  BY <1>1, SlashAddedBack, SlashDroppedBack
<1>3. ~HasDotSegment(f) /\ (~HasDoubleSlash(p) => ~HasDoubleSlash(f))
  BY <1>1, AddedKeeps, DroppedKeeps
<1> HIDE DEF f
<1>4. (IF conf.merge = "exact" THEN f ELSE Merged(f)) = f
  BY <1>2, <1>3, MergeLeavesSingle
<1>5. (IF conf.collapse = "exact" THEN [ok |-> TRUE, out |-> f] ELSE Collapsed(f)) = [ok |-> TRUE, out |-> f]
  BY <1>2, <1>3, CollapseLeavesPlain
<1>6. Norm(f) = [ok |-> TRUE, path |-> f, redirect |-> FALSE]
  <2> DEFINE m == IF conf.merge = "exact" THEN f ELSE Merged(f)
             c == IF conf.collapse = "exact" THEN [ok |-> TRUE, out |-> m] ELSE Collapsed(m)
  <2>1. m = f /\ c = [ok |-> TRUE, out |-> f]
    BY <1>4, <1>5
  <2>2. Norm(f) = [ok |-> c.ok, path |-> c.out,
                   redirect |-> c.ok /\ \/ conf.merge = "redirect" /\ m # f
                                        \/ conf.collapse = "redirect" /\ c.out # m]
    BY DEF Norm, Normalized
  <2> HIDE DEF m, c
  <2>3. c.ok = TRUE /\ c.out = f
    BY <2>1
  <2>4. (c.ok /\ \/ conf.merge = "redirect" /\ m # f
                 \/ conf.collapse = "redirect" /\ c.out # m) = FALSE
    BY <2>1, <2>3
  <2> QED BY <2>2, <2>3, <2>4
<1> QED BY <1>3, <1>6 DEF f

\* No path becomes two slashes when its trailing slash is added or dropped.
LEMMA SlashNeverLeaves ==
    ASSUME NEW p \in Seq(Chars),
           \/ p # <<>> /\ RM!Last(p) # Slash
           \/ Len(p) > 1 /\ RM!Last(p) = Slash /\ ~RM!EndsWith(p, <<Slash, Slash>>)
    PROVE  FixTrailingSlash(p) # <<Slash, Slash>>
<1> DEFINE f == FixTrailingSlash(p)
<1> SUFFICES ASSUME f = <<Slash, Slash>> PROVE FALSE
  OBVIOUS
<1>1. Len(f) = 2 /\ f[1] = Slash /\ f[2] = Slash /\ RM!Last(f) = Slash
  <2> HIDE DEF f
  <2> QED BY DEF RM!Last
<1>2. Slash \in Chars
  BY DEF Chars
<1>3. CASE p # <<>> /\ RM!Last(p) # Slash
  <2>1. Len(f) = Len(p) + 1 /\ f = Append(p, Slash)
    BY <1>2, <1>3, SlashAddedBack
  <2> HIDE DEF f
  <2>2. Len(p) \in Nat /\ Len(p) = 1
    <3>1. Len(p) \in Nat
      BY LenProperties
    <3>2. \A n \in Nat : 2 = n + 1 => n = 1
      OBVIOUS
    <3>3. 2 = Len(p) + 1
      BY <1>1, <2>1
    <3> QED BY <3>1, <3>2, <3>3
  <2>3. f[1] = p[1]
    BY <2>1, <2>2, AppendProperties
  <2> QED BY <1>1, <1>3, <2>2, <2>3 DEF RM!Last
<1>4. CASE Len(p) > 1 /\ RM!Last(p) = Slash /\ ~RM!EndsWith(p, <<Slash, Slash>>)
  BY <1>1, <1>4, SlashDroppedBack
<1> QED BY <1>3, <1>4

\* RedirectSlash leads to the path with its slash added or dropped.
LEMMA RedirectSlashLeads ==
    ASSUME IInv, LInv, RedirectSlash
    PROVE  LInv'
<1> DEFINE f == FixTrailingSlash(path)
<1>1. /\ UNCHANGED client /\ stage = "found" /\ url = path /\ path = RoutedPath(req.method)
      /\ Canonical(req.method) /\ found = Lookup(table, req.method, path)
      /\ \E m \in found : m.tsr /\ SlashApplies
      /\ ~HasDotSegment(path)
      /\ stage' = "replied"
      /\ reply' = [kind |-> "redirectSlash", allow |-> {}, location |-> LocationOf(FixTrailingSlash(url))]
  BY DEF RedirectSlash, Reply, IInv, Looked, WhenFound, SlashLocation, MayRedirect
<1>2. PICK m \in Lookup(table, req.method, path) : m.tsr
  BY <1>1
<1>3. req.method # "" /\ req.method # "CONNECT" /\ IsTable(table)
  BY <1>1 DEF IInv, BeforeMatch, SlashApplies, LInv, Typed
<1>4. path \in Seq(Chars) /\ (conf.merge # "exact" => ~HasDoubleSlash(path))
  <2>1. Slash \in Chars /\ req.path \in Seq(Chars)
    BY DEF Chars, LInv, Typed
  <2>2. CASE HasNormalize
    <3>1. path = Norm(req.path).path /\ Norm(req.path).ok
      BY <1>1, <1>3, <2>2 DEF RoutedPath, Canonical, NormalizedFor
    <3>2. /\ Norm(req.path).path \in Seq(Chars)
          /\ conf.merge # "exact" => ~HasDoubleSlash(Norm(req.path).path)
      BY <2>1, <3>1, NormalizedIsStable DEF Norm
    <3> QED BY <3>1, <3>2
  <2>3. CASE ~HasNormalize
    BY <1>1, <2>1, <2>3 DEF RoutedPath, NormalizedFor, HasNormalize
  <2> QED BY <2>2, <2>3
<1>5. /\ f \in Seq(Chars) /\ f # <<>>
      /\ Lookup(table, req.method, f) # {}
      /\ \A x \in Lookup(table, req.method, f) : ~x.tsr
  BY <1>2, <1>3, <1>4, SlashLeads
<1>6. /\ ~HasDotSegment(f)
      /\ Norm(f) = [ok |-> TRUE, path |-> f, redirect |-> FALSE]
      /\ \/ path # <<>> /\ RM!Last(path) # Slash
         \/ Len(path) > 1 /\ RM!Last(path) = Slash /\ ~RM!EndsWith(path, <<Slash, Slash>>)
  <2>1. m.route \in table /\ m \in RM!MatchesOf(m.route, Query(req.method, path))
    BY <1>2, LookupChooses, MatchIn
  <2>2. WhenAdded(m.route, path, m.trace) \/ WhenDropped(m.route, path, m.trace)
    BY <1>2, <1>3, <1>4, <2>1, MatchTraces DEF IsTable
  <2>3. \/ path # <<>> /\ RM!Last(path) # Slash
        \/ Len(path) > 1 /\ RM!Last(path) = Slash /\ ~RM!EndsWith(path, <<Slash, Slash>>)
    BY <2>2 DEF WhenAdded, WhenDropped
  <2>4. ~HasDotSegment(f) /\ Norm(f) = [ok |-> TRUE, path |-> f, redirect |-> FALSE]
    BY <1>1, <1>4, <2>3, SlashStaysNormal
  <2> QED BY <2>3, <2>4
<1>7. PathLeads("redirectSlash", req.method, f)
  <2> HIDE DEF f
  <2> QED BY <1>3, <1>5, <1>6 DEF PathLeads
<1>8. ReplyLeads'
  <2>1. reply'.kind = "redirectSlash" /\ reply'.location = LocationOf(f)
    BY <1>1
  <2>2. f # <<Slash, Slash>>
    BY <1>4, <1>6, SlashNeverLeaves
  <2> HIDE DEF f
  <2>3. ~IsNetworkPath(LocationOf(f))
    BY <1>5, <2>2, LocationLeaves
  <2> QED BY <1>1, <1>7, <2>1, <2>3, LeadsOn
<1>9. prev.followed /\ ~Escaped => prev.kind = "redirectPath"
  BY <1>1, <1>2, FollowedIs DEF Redirects
<1>10. reply'.kind = "redirectSlash"
  BY <1>1
<1> QED BY <1>1, <1>8, <1>9, <1>10, ReplyLeadsOn

\* What a redirect leads to is not refused for its slash.
LEMMA MissLeads ==
    ASSUME IInv, LInv, Miss
    PROVE  LInv'
<1>1. /\ UNCHANGED client /\ stage = "found" /\ stage' = "noMatch"
      /\ found = Lookup(table, req.method, path)
      /\ \A m \in found : /\ m.tsr
                          /\ \/ ~SlashApplies
                             \/ m.route.slash = "exact"
                             \/ m.route.slash = "redirect" /\ ~MayRedirect(path)
  BY DEF Miss, Go, IInv, WhenFound
<1>2. ASSUME prev.followed, ~Escaped PROVE FALSE
  <2>1. /\ path = req.path /\ url = req.path /\ ~HasDotSegment(path) /\ ~req.opaque
        /\ req.method # "CONNECT" /\ Lookup(table, req.method, path) # {}
    BY <1>1, <1>2, FollowedIs
  <2>2. PICK m \in Lookup(table, req.method, path) : TRUE
    BY <2>1
  <2>3. m.tsr /\ m \in Matches(table, req.method, path)
    BY <1>1, <2>2, LookupChooses
  <2>4. path # <<Slash>> /\ m.route.slash # "exact"
    BY <2>3, SlashIsFixed
  <2>5. SlashApplies /\ MayRedirect(path)
    BY <2>1, <2>4 DEF SlashApplies, MayRedirect
  <2> QED BY <1>1, <2>2, <2>4, <2>5
<1> QED BY <1>1, <1>2, InnerLeads

\* The handlers behind NoMatch.
LEMMA NoMatchLeads ==
    ASSUME LInv,
           \/ NoMatch \/ SystemWideOptions \/ Preflight \/ StartAllow
           \/ \E m \in TreeMethods : AllowStep(m)
           \/ OptionsReply \/ MethodNotAllowed \/ NotFound
    PROVE  LInv'
<1>1. CASE NoMatch \/ StartAllow \/ \E m \in TreeMethods : AllowStep(m)
  <2>1. Falling /\ UNCHANGED client /\ stage' # "replied"
    BY <1>1 DEF NoMatch, StartAllow, AllowStep, Go, Falling
  <2> QED BY <2>1, FallingLeads
<1>2. CASE SystemWideOptions \/ Preflight \/ OptionsReply \/ MethodNotAllowed \/ NotFound
  <2>1. /\ Falling /\ UNCHANGED client
        /\ reply'.kind \in {"serverOptions", "options", "noMethod", "noRoute"}
    BY <1>2 DEF SystemWideOptions, Preflight, OptionsReply, MethodNotAllowed, NotFound, Reply, Falling
  <2>2. reply'.kind \notin Redirects
    BY <2>1 DEF Redirects
  <2> QED BY <2>1, <2>2, FallingLeads
<1> QED BY <1>1, <1>2

\* The client is led where the redirect says.
LEMMA FollowLeads ==
    ASSUME IInv, LInv, Follow
    PROVE  LInv'
<1>1. PICK q : /\ Send(q, TRUE)
               /\ q = [method |-> req.method, path |-> Resolved(reply.location), malformed |-> FALSE,
                       opaque |-> FALSE, preflight |-> req.preflight]
  BY FollowedRequest
<1>2. stage = "replied" /\ reply.kind \in Redirects
  BY DEF Follow, Send
<1>3. PICK p : PathLeads(reply.kind, req.method, p) /\ reply.location = LocationOf(p)
  BY <1>2 DEF LInv, ReplyLeads
<1>4. /\ stage' = "start" /\ req' = q /\ UNCHANGED <<conf, table>>
      /\ prev'.kind = reply.kind
  BY <1>1 DEF Send
<1>5. /\ req'.method = req.method /\ req'.path = Resolved(LocationOf(p)) /\ req'.opaque = FALSE
  BY <1>1, <1>3, <1>4
<1>6. /\ req'.path \in Seq(Chars)
      /\ req'.path = p \/ EncodedSlash \in ToSet(req'.path)
  BY <1>3, <1>5, LocationIs DEF PathLeads
<1>7. Typed' /\ ReplyLeads' /\ FollowedIsServed' /\ ~Falling'
  BY <1>4, <1>6 DEF LInv, Typed, ReplyLeads, FollowedIsServed, Falling
<1>8. ASSUME ~Escaped', prev'.followed PROVE PathLeads(prev.kind, req.method, req.path)'
  <2>1. req'.path = p
    BY <1>6, <1>8 DEF Escaped
  <2>2. PathLeads(prev'.kind, req'.method, req'.path)
    BY <1>3, <1>4, <1>5, <2>1
  <2> QED BY <1>4, <2>2, LeadsFrame
<1>9. Following'
  BY <1>2, <1>4, <1>5, <1>7, <1>8 DEF Following
<1> QED BY <1>7, <1>9 DEF LInv

LEMMA TryMethodLeads ==
    ASSUME IInv, LInv, NEW method, TryMethod(method)
    PROVE  LInv'
<1>1. /\ stage' = "start" /\ req' = [req EXCEPT !.method = method] /\ UNCHANGED <<conf, table>>
      /\ prev'.followed = FALSE
  BY DEF TryMethod, Send
<1>2. req'.path = req.path
  BY <1>1 DEF IInv, Shapes
<1> QED BY <1>1, <1>2 DEF LInv, Typed, ReplyLeads, Following

LEMMA StutterLeads ==
    ASSUME LInv, UNCHANGED vars
    PROVE  LInv'
<1>1. UNCHANGED client /\ stage' = stage /\ reply' = reply
  BY DEF vars
<1>2. UNCHANGED <<conf, table>> /\ req' = req /\ prev' = prev
  BY <1>1 DEF client
<1>3. CASE stage' # "replied"
  <2>1. Falling' => ~(prev.followed /\ ~Escaped)
    BY <1>1 DEF LInv, Following, Falling
  <2> QED BY <1>1, <1>3, <2>1, InnerLeads
<1>4. CASE stage' = "replied"
  <2>1. ReplyLeads'
    <3>1. OnlySlashesLeave' <=> OnlySlashesLeave
      BY <1>1, <1>2 DEF OnlySlashesLeave, Norm
    <3>2. \A k, m, p : PathLeads(k, m, p)' <=> PathLeads(k, m, p)
      BY <1>2, LeadsFrame
    <3> QED BY <1>1, <1>2, <3>1, <3>2 DEF LInv, ReplyLeads
  <2>2. prev.followed /\ ~Escaped => \/ reply'.kind = "served"
                                     \/ reply'.kind = "redirectSlash" /\ prev.kind = "redirectPath"
    BY <1>1, <1>4 DEF LInv, Following, FollowedIsServed
  <2> QED BY <1>1, <1>4, <2>1, <2>2, ReplyLeadsOn
<1> QED BY <1>3, <1>4

LEMMA NextLeads ==
    ASSUME IInv, LInv, [Next]_vars
    PROVE  LInv'
<1>1. CASE EmptyMethod \/ RoutingPath \/ NormalizeOff \/ RejectPath \/ NotCanonical \/ NormalizePath
  BY <1>1, NormalizeLeads
<1>2. CASE RedirectPath BY <1>2, RedirectPathLeads
<1>3. CASE Match \/ ServeDirect \/ ServeRelaxed BY <1>3, MatchLeads
<1>4. CASE RedirectSlash BY <1>4, RedirectSlashLeads
<1>5. CASE Miss BY <1>5, MissLeads
<1>6. CASE \/ NoMatch \/ SystemWideOptions \/ Preflight \/ StartAllow
           \/ \E m \in TreeMethods : AllowStep(m)
           \/ OptionsReply \/ MethodNotAllowed \/ NotFound
  BY <1>6, NoMatchLeads
<1>7. CASE Follow BY <1>7, FollowLeads
<1>8. CASE \E m \in Methods : TryMethod(m) BY <1>8, TryMethodLeads
<1>9. CASE UNCHANGED vars BY <1>9, StutterLeads
<1> QED BY <1>1, <1>2, <1>3, <1>4, <1>5, <1>6, <1>7, <1>8, <1>9 DEF Next

-----------------------------------------------------------------------------
(* The theorems *)

\* Whatever the routes, options and requests, a handler ServeHTTP calls finds a
\* context that fits together: its route, params and pattern, or none of them.
THEOREM ContextsFit ==
    Spec => []ContextFits
<1>1. IInv => ContextFits
  BY DEF IInv
<1> QED BY <1>1, DispatchInv, PTL

\* rewriteRequest never writes to the request of the caller: wherever it takes the
\* request as owned, a copy was made (FlagFits).
THEOREM CallersRequestIsKept ==
    Spec => []CallerRequestKept
<1>1. IInv => CallerRequestKept
  BY DEF IInv
<1> QED BY <1>1, DispatchInv, PTL

\* The handler of a route sees a path its route matches as it is, for every pattern,
\* expression and path: FixTrailingSlash makes what the lookup compared with.
THEOREM HandlersSeeMatchedPaths ==
    Spec => []HandlerSeesMatchedPath
<1>1. IInv => HandlerSeesMatchedPath
  BY DEF IInv
<1> QED BY <1>1, DispatchInv, PTL

\* A method named by the Allow header of a 405 or OPTIONS reply is not refused
\* with 404 or 405 when the client sends it for the same path.
THEOREM AllowedMethodsAreHandled ==
    Spec => []AllowedIsHandled
<1>1. IInv => AllowedIsHandled
  BY DEF IInv
<1> QED BY <1>1, DispatchInv, PTL

\* A method that the Allow header leaves out, or any after a 404 of a router
\* that answers 405, is not served for the same path.
THEOREM OtherMethodsAreNotServed ==
    Spec => []OthersAreNotServed
<1>1. IInv => OthersAreNotServed
  BY DEF IInv
<1> QED BY <1>1, DispatchInv, PTL

\* A client that follows a redirect is served, at once or after the redirect of the
\* trailing slash: for every table, options and request, redirects neither loop nor
\* lead to an error.  The one Location that leads to another host is "//", and only
\* where slashes are not merged: never that of a redirect of the slash.
THEOREM RedirectsLeadOn ==
    Spec => []RedirectsLead
<1>1. Init => IInv /\ LInv
  BY InitHolds, InitLeads
<1>2. (IInv /\ LInv) /\ [Next]_vars => (IInv /\ LInv)'
  BY NextStep, NextLeads
<1>3. IInv /\ LInv => RedirectsLead
  <2>1. IInv /\ reply.kind \in Redirects => stage = "replied"
    BY DEF IInv, ContextFits, TypeOK, Redirects
  <2>2. LInv => FollowedIsServed
    BY DEF LInv, Following, FollowedIsServed
  <2> QED BY <2>1, <2>2 DEF LInv, ReplyLeads, RedirectsLead, OnlySlashesLeave
<1> QED BY <1>1, <1>2, <1>3, PTL DEF Spec
=============================================================================
