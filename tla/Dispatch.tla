------------------------------ MODULE Dispatch ------------------------------
(***************************************************************************)
(* Router.ServeHTTP (fox.go): how one request becomes a handler call, from  *)
(* path normalisation over the lookup to the redirects, the automatic       *)
(* OPTIONS replies, 405 and 404, and what the context tells the handler.    *)
(* Around it, a client that follows redirects and tries other methods, so   *)
(* that what one reply promises is compared with the next reply.            *)
(*                                                                          *)
(* A request is [method, path, malformed, opaque, preflight]: its path with *)
(* escapes as single characters, whether its wire form has to be rewritten, *)
(* whether its URL is opaque, and whether it is a CORS preflight.           *)
(***************************************************************************)
EXTENDS PathRef

CONSTANTS Accepts(_, _),   \* Accepts(e, s): the expression e matches the string s
          Scenarios,       \* [confs, tables, reqs]: sets of router options, of sets of
                           \* routes, and of what a client sends first
          Methods,         \* what it tries next
          MaxTries         \* bound on the requests of a client

Routes == UNION UNION {s.tables : s \in Scenarios}

ASSUME TriesAssumption == MaxTries \in Nat

ASSUME RequestsAssumption ==
    \A s \in Scenarios : \A q \in s.reqs :
        /\ q = [method |-> q.method, path |-> q.path, malformed |-> q.malformed,
                opaque |-> q.opaque, preflight |-> q.preflight]
        /\ q.path \in Seq(STRING)

\* The path of a pattern starts with a slash, no static part is empty, and what is
\* optional is a catch-all.
ASSUME PatternsAssumption ==
    \A r \in Routes :
        LET p == r.pattern IN
        /\ p.tokens \in Seq(ToSet(p.tokens))
        /\ \A tk \in ToSet(p.tokens) : tk.typ = "static" => tk.value \in Seq(STRING) \ {<<>>}
        /\ p.hostLen \in 0 .. Len(p.tokens) - 1
        /\ p.tokens[p.hostLen + 1].typ = "static"
        /\ p.optionalCatchAll => Last(p.tokens).typ = "wildcard"

ASSUME TablesAssumption == \A s \in Scenarios : \A t \in s.tables : IsFiniteSet(t)

\* NewRoute refuses an empty method.
ASSUME MethodsAssumption == \A r \in Routes : "" \notin r.methods

RM == INSTANCE RouteMatch WITH MaxUint <- Cardinality(Routes)

VARIABLES conf,         \* merge, collapse, noMethod, autoOptions, systemWide
          table,        \* the routes of the tree
          req,          \* the request as it arrived
          stage,        \* how far ServeHTTP is
          path,         \* its routing path
          url,          \* the path of the request the context shows
          callerUrl,    \* the path of the request the caller passed
          rewritten,    \* the flag of ServeHTTP: the request is rewritten already
          copied,       \* the request the context shows is not the caller's (a ghost)
          pattern,      \* Request.Pattern
          ctx,          \* the context: scope, route (at most one), params
          nonCanonical, \* the path is not the one a route would be served on
          found,        \* the matches of the lookup, at most one
          todo, seen,   \* methods to try for Allow, and methods found
          reply,        \* [kind, allow, location]
          prev,         \* the reply before, with its request
          tries         \* requests sent after the first

local  == <<path, url, callerUrl, rewritten, copied, pattern, ctx, nonCanonical, found, todo, seen>>
client == <<conf, table, req, prev, tries>>
vars   == <<local, client, stage, reply>>

Outer   == "outer"       \* the pattern a mux around the router left behind

FixTrailingSlash(p) ==
    IF Len(p) > 1 /\ Last(p) = Slash THEN Front(p) ELSE Append(p, Slash)

EncodedSlash == "%"

EscapeLeadingSlashes(p) ==
    IF Len(p) > 2 /\ p[1] = Slash /\ p[2] = Slash THEN [p EXCEPT ![2] = EncodedSlash] ELSE p

\* The Location of a redirect: never empty.
LocationOf(p) == IF p = <<>> THEN <<Slash>> ELSE EscapeLeadingSlashes(p)

Norm(p) == Normalized(conf.merge, conf.collapse, p)
HasNormalize == conf.merge # "exact" \/ conf.collapse # "exact"

\* The redirect handlers start from the request of the context.
RedirectLocation == LocationOf(Norm(url).path)
SlashLocation    == LocationOf(FixTrailingSlash(url))

\* The matches of a set of routes, as [route, tsr, caps, trace].
Matches(routes, method, p) ==
    RM!AllMatches(routes, [method |-> method, host |-> <<>>, path |-> p,
                           satisfied |-> {}, lazy |-> FALSE])

\* iTree.lookup: a preferred match, if anything matches; the choice among equals
\* is that of the tree, and always the same.
Lookup(routes, method, p) ==
    LET ms == Matches(routes, method, p)
    IN  {m \in ms : m = CHOOSE x \in ms : RM!Preferred(ms) # {} => x \in RM!Preferred(ms)}

TreeMethods == UNION {r.methods : r \in table}

NoReply == [kind |-> "none", allow |-> {}, location |-> <<>>]

-----------------------------------------------------------------------------

FreshContext == [scope |-> "route", route |-> {}, params |-> <<>>]

Init ==
    /\ \E s \in Scenarios : conf \in s.confs /\ table \in s.tables /\ req \in s.reqs
    /\ path = req.path /\ url = req.path /\ callerUrl = req.path
    /\ rewritten = FALSE /\ copied = FALSE /\ nonCanonical = FALSE
    /\ pattern = Outer
    /\ ctx = FreshContext
    /\ found = {} /\ todo = {} /\ seen = {}
    /\ stage = "start"
    /\ reply = NoReply
    /\ prev = [kind |-> "none", method |-> "", allow |-> {}, canonical |-> TRUE, followed |-> FALSE]
    /\ tries = 0

\* A handler of the router is called in its scope.
Reply(kind, allow, location) ==
    /\ stage' = "replied"
    /\ reply' = [kind |-> kind, allow |-> allow, location |-> location]
    /\ UNCHANGED client

Go(to) == stage' = to /\ UNCHANGED <<client, reply>>

\* rewriteRequest: the request is copied unless it is owned; what is then written
\* to is the caller's if no copy was ever made.
Rewrite(p, owned) ==
    /\ url' = p
    /\ copied' = (copied \/ ~owned)
    /\ callerUrl' = IF copied' THEN callerUrl ELSE p

KeepRequest == UNCHANGED <<url, callerUrl, copied, rewritten>>

-----------------------------------------------------------------------------
(* Normalisation *)

EmptyMethod ==
    /\ stage = "start" /\ req.method = ""
    /\ ctx' = [ctx EXCEPT !.scope = "noRoute"]
    /\ UNCHANGED <<path, pattern, nonCanonical, found, todo, seen>> /\ KeepRequest
    /\ Reply("noRoute", {}, <<>>)

\* Mutant of RoutingPath: the flag is set whether or not the request is copied.
RoutingPathFlagged ==
    /\ stage = "start" /\ req.method # ""
    /\ IF req.malformed THEN Rewrite(path, FALSE) ELSE UNCHANGED <<url, callerUrl, copied>>
    /\ rewritten' = TRUE
    /\ UNCHANGED <<path, pattern, ctx, nonCanonical, found, todo, seen>>
    /\ Go("normalize")

RoutingPath ==
    /\ stage = "start" /\ req.method # ""
    /\ IF req.malformed THEN Rewrite(path, FALSE) /\ rewritten' = TRUE ELSE KeepRequest
    /\ UNCHANGED <<path, pattern, ctx, nonCanonical, found, todo, seen>>
    /\ Go("normalize")

Normalizes == HasNormalize /\ req.method # "CONNECT"

NormalizeOff ==
    /\ stage = "normalize" /\ ~Normalizes
    /\ UNCHANGED local
    /\ Go("match")

RejectPath ==
    /\ stage = "normalize" /\ Normalizes
    /\ ~Norm(path).ok
    /\ ctx' = [ctx EXCEPT !.scope = "rejectPath"]
    /\ UNCHANGED <<path, pattern, nonCanonical, found, todo, seen>> /\ KeepRequest
    /\ Reply("rejectPath", {}, <<>>)

\* Mutant of MayRedirect: a Location with dot segments is sent.
MayRedirectDots(p) == TRUE

\* A client resolves the dot segments of a Location.
MayRedirect(p) == ~HasDotSegment(p)

\* A match with another trailing slash counts if that slash is not exact.
RedirectTarget(p) ==
    /\ conf.collapse # "exact" \/ MayRedirect(p)
    /\ \E m \in Lookup(table, req.method, p) : ~m.tsr \/ m.route.slash # "exact"

RedirectPath ==
    /\ stage = "normalize" /\ Normalizes
    /\ Norm(path).ok /\ Norm(path).redirect
    /\ RedirectTarget(Norm(path).path)
    /\ pattern' = ""
    /\ ctx' = [ctx EXCEPT !.scope = "redirectPath"]
    /\ UNCHANGED <<path, nonCanonical, found, todo, seen>> /\ KeepRequest
    /\ Reply("redirectPath", {}, RedirectLocation)

NotCanonical ==
    /\ stage = "normalize" /\ Normalizes
    /\ Norm(path).ok /\ Norm(path).redirect
    /\ ~RedirectTarget(Norm(path).path)
    /\ nonCanonical' = TRUE
    /\ UNCHANGED <<path, pattern, ctx, found, todo, seen>> /\ KeepRequest
    /\ Go("noMatch")

NormalizePath ==
    /\ stage = "normalize" /\ Normalizes
    /\ Norm(path).ok /\ ~Norm(path).redirect
    /\ path' = Norm(path).path
    /\ IF path' # path THEN Rewrite(path', rewritten) /\ rewritten' = TRUE ELSE KeepRequest
    /\ UNCHANGED <<pattern, ctx, nonCanonical, found, todo, seen>>
    /\ Go("match")

-----------------------------------------------------------------------------
(* Lookup *)

\* A lookup that fails may leave captures behind.
Match ==
    /\ stage = "match"
    /\ \/ \E m \in Lookup(table, req.method, path) :
             found' = {m} /\ ctx' = [ctx EXCEPT !.params = m.caps]
       \/ /\ Lookup(table, req.method, path) = {}
          /\ found' = {}
          /\ ctx' \in {ctx, [ctx EXCEPT !.params = <<"left">>]}
    /\ UNCHANGED <<path, pattern, nonCanonical, todo, seen>> /\ KeepRequest
    /\ Go("found")

Serve(m) ==
    /\ ctx' = [ctx EXCEPT !.route = {m.route}]
    /\ pattern' = m.route.pattern.str
    /\ UNCHANGED <<path, nonCanonical, found, todo, seen>>
    /\ Reply("served", {}, <<>>)

ServeDirect ==
    /\ stage = "found"
    /\ \E m \in found : ~m.tsr /\ Serve(m)
    /\ KeepRequest

\* A trailing slash is added or dropped.
SlashApplies == req.method # "CONNECT" /\ url # <<Slash>> /\ ~req.opaque

\* Mutant of ServeRelaxed: the request keeps its slash.
ServeRelaxedAsIs ==
    /\ stage = "found"
    /\ \E m \in found : m.tsr /\ SlashApplies /\ m.route.slash = "relaxed" /\ Serve(m)
    /\ KeepRequest

ServeRelaxed ==
    /\ stage = "found"
    /\ \E m \in found : m.tsr /\ SlashApplies /\ m.route.slash = "relaxed" /\ Serve(m)
    /\ Rewrite(FixTrailingSlash(path), rewritten) /\ UNCHANGED rewritten

RedirectSlash ==
    /\ stage = "found"
    /\ \E m \in found : m.tsr /\ SlashApplies /\ m.route.slash = "redirect"
    /\ MayRedirect(path)
    /\ pattern' = ""
    /\ ctx' = [ctx EXCEPT !.params = <<>>, !.scope = "redirectSlash"]
    /\ UNCHANGED <<path, nonCanonical, found, todo, seen>> /\ KeepRequest
    /\ Reply("redirectSlash", {}, SlashLocation)

Miss ==
    /\ stage = "found"
    /\ \A m \in found : /\ m.tsr
                        /\ \/ ~SlashApplies
                           \/ m.route.slash = "exact"
                           \/ m.route.slash = "redirect" /\ ~MayRedirect(path)
    /\ UNCHANGED local
    /\ Go("noMatch")

-----------------------------------------------------------------------------
(* NoMatch *)

\* Mutant of ClearParams: the captures stay.
KeepParams == ctx

ClearParams == [ctx EXCEPT !.params = <<>>]

IsOptions == req.method = "OPTIONS"

NoMatch ==
    /\ stage = "noMatch"
    /\ ctx' = ClearParams
    /\ pattern' = ""
    /\ nonCanonical' = (nonCanonical \/ req.opaque)
    /\ UNCHANGED <<path, found, todo, seen>> /\ KeepRequest
    /\ Go("fallback")

ServerOptions == conf.systemWide /\ IsOptions /\ path = <<"*">>

\* OPTIONS *: replied to without a handler.
SystemWideOptions ==
    /\ stage = "fallback" /\ ServerOptions
    /\ UNCHANGED local
    /\ Reply("serverOptions",
             TreeMethods \cup {m \in {"OPTIONS"} : conf.autoOptions /\ TreeMethods # {}},
             <<>>)

AutoOptions == conf.autoOptions /\ IsOptions

Preflight ==
    /\ stage = "fallback" /\ ~ServerOptions
    /\ AutoOptions /\ req.preflight
    /\ ctx' = [ctx EXCEPT !.scope = "options"]
    /\ UNCHANGED <<path, pattern, nonCanonical, found, todo, seen>> /\ KeepRequest
    /\ Reply("options", {}, <<>>)

AsksMethods == (AutoOptions \/ conf.noMethod) /\ ~nonCanonical

\* The methods of the tree are gone through, in the order of a Go map.
StartAllow ==
    /\ stage = "fallback" /\ ~ServerOptions /\ ~(AutoOptions /\ req.preflight)
    /\ AsksMethods
    /\ todo' = TreeMethods
    /\ seen' = IF AutoOptions THEN {} ELSE {req.method}
    /\ UNCHANGED <<path, pattern, ctx, nonCanonical, found>> /\ KeepRequest
    /\ Go("allow")

\* Mutant of Allows: a match with another slash counts for nothing.
AllowsDirect(m, method) == ~m.tsr

Allows(m, method) == ~m.tsr \/ (method # "CONNECT" /\ m.route.slash = "relaxed")

\* Mutant of AllowedBy: every method of the tree is allowed everywhere.
AllowedByTree(method) == {{method}}

\* What the lookup for a method adds to Allow.
AllowedBy(method) ==
    IF method \in seen \/ Lookup(table, method, path) = {} THEN {{}}
    ELSE {IF Allows(m, method) THEN m.route.methods ELSE {} : m \in Lookup(table, method, path)}

AllowStep(method) ==
    /\ stage = "allow" /\ method \in todo
    /\ todo' = todo \ {method}
    /\ \E ms \in AllowedBy(method) : seen' = seen \cup ms
    /\ UNCHANGED <<path, pattern, ctx, nonCanonical, found>> /\ KeepRequest
    /\ Go("allow")

OptionsReply ==
    /\ stage = "allow" /\ todo = {}
    /\ AutoOptions /\ seen # {}
    /\ ctx' = [ctx EXCEPT !.scope = "options"]
    /\ UNCHANGED <<path, pattern, nonCanonical, found, todo, seen>> /\ KeepRequest
    /\ Reply("options", seen \cup {"OPTIONS"}, <<>>)

MethodNotAllowed ==
    /\ stage = "allow" /\ todo = {}
    /\ ~AutoOptions /\ seen # {req.method}
    /\ ctx' = [ctx EXCEPT !.scope = "noMethod"]
    /\ UNCHANGED <<path, pattern, nonCanonical, found, todo, seen>> /\ KeepRequest
    /\ Reply("noMethod",
             (seen \ {req.method}) \cup {m \in {"OPTIONS"} : conf.autoOptions},
             <<>>)

NotFound ==
    /\ \/ stage = "fallback" /\ ~ServerOptions /\ ~(AutoOptions /\ req.preflight) /\ ~AsksMethods
       \/ stage = "allow" /\ todo = {} /\ seen \subseteq (IF AutoOptions THEN {} ELSE {req.method})
    /\ ctx' = [ctx EXCEPT !.scope = "noRoute"]
    /\ UNCHANGED <<path, pattern, nonCanonical, found, todo, seen>> /\ KeepRequest
    /\ Reply("noRoute", {}, <<>>)

-----------------------------------------------------------------------------
(* The client *)

Send(q, followed) ==
    /\ stage = "replied" /\ tries < MaxTries
    /\ req' = q
    /\ path' = q.path /\ url' = q.path /\ callerUrl' = q.path
    /\ rewritten' = FALSE /\ copied' = FALSE /\ nonCanonical' = FALSE
    /\ pattern' = Outer
    /\ ctx' = FreshContext
    /\ found' = {} /\ todo' = {} /\ seen' = {}
    /\ stage' = "start"
    /\ reply' = NoReply
    /\ prev' = [kind |-> reply.kind, method |-> req.method, allow |-> reply.allow,
                canonical |-> ~nonCanonical, followed |-> followed]
    /\ tries' = tries + 1
    /\ UNCHANGED <<conf, table>>

\* A reference that starts with two slashes names a host (RFC 3986, section 4.2).
IsNetworkPath(p) == Len(p) > 1 /\ p[1] = Slash /\ p[2] = Slash

\* The path of any other Location, as RFC 3986 resolves it (section 5.2).
Resolved(p) == IF ~HasDotSegment(p) THEN p
               ELSE IF Collapsed(p).ok THEN Collapsed(p).out ELSE <<Slash>>

Redirects == {"redirectPath", "redirectSlash"}

\* 301 for GET and 308 keep the method; the new URL has a path.  A client that is
\* led to another host asks this server for nothing.
Follow ==
    /\ reply.kind \in Redirects
    /\ ~IsNetworkPath(reply.location)
    /\ Send([req EXCEPT !.path = Resolved(reply.location), !.malformed = FALSE, !.opaque = FALSE],
            TRUE)

\* After the first reply, where the router answers for other methods.
TryMethod(method) ==
    /\ conf.noMethod \/ conf.autoOptions
    /\ reply.kind \in {"noMethod", "noRoute", "options"} /\ method # req.method
    /\ req.method # "" /\ prev.kind = "none"
    /\ Send([req EXCEPT !.method = method], FALSE)

Next ==
    \/ EmptyMethod \/ RoutingPath
    \/ NormalizeOff \/ RejectPath \/ RedirectPath \/ NotCanonical \/ NormalizePath
    \/ Match \/ ServeDirect \/ ServeRelaxed \/ RedirectSlash \/ Miss
    \/ NoMatch \/ SystemWideOptions \/ Preflight \/ StartAllow
    \/ \E m \in TreeMethods : AllowStep(m)
    \/ OptionsReply \/ MethodNotAllowed \/ NotFound
    \/ Follow
    \/ \E m \in Methods : TryMethod(m)

Spec == Init /\ [][Next]_vars

-----------------------------------------------------------------------------
(* Properties *)

Scopes == {"route", "noRoute", "noMethod", "redirectSlash", "redirectPath", "options", "rejectPath"}
Kinds  == {"none", "served", "serverOptions"} \cup (Scopes \ {"route"})

TypeOK ==
    /\ stage \in {"start", "normalize", "match", "found", "noMatch", "fallback", "allow", "replied"}
    /\ ctx.scope \in Scopes
    /\ ctx.route \subseteq table
    /\ {m.route : m \in found} \subseteq table
    /\ rewritten \in BOOLEAN /\ copied \in BOOLEAN /\ nonCanonical \in BOOLEAN
    /\ todo \subseteq TreeMethods /\ seen \subseteq TreeMethods \cup {req.method}
    /\ reply.kind \in Kinds /\ prev.kind \in Kinds
    /\ (stage = "replied") <=> (reply.kind # "none")
    /\ tries \in 0 .. MaxTries

\* States are well typed, and what a handler finds in its context fits together: a
\* route exactly in the route scope, the params of that route and no others (Param and Params index
\* the route by them), and its pattern on the request.
ContextFits ==
    /\ TypeOK
    /\ stage = "replied" /\ reply.kind # "serverOptions" =>
        /\ ctx.scope = "route" <=> ctx.route # {}
        /\ ctx.route = {} => ctx.params = <<>>
        /\ \A r \in ctx.route : /\ \E m \in found : r = m.route /\ ctx.params = m.caps
                                /\ pattern = r.pattern.str
        /\ reply.kind \in Redirects \cup {"noMethod", "options"} => pattern = ""

\* The request of the caller keeps its path: at each of the three places that rewrite
\* the request, the flag says that it is owned only once it was copied.
CallerRequestKept == callerUrl = req.path

\* The request a route's handler sees has a path the route matches as it is: one
\* that arrived with another slash, or in another form, was rewritten.
HandlerSeesMatchedPath ==
    reply.kind = "served" =>
        \A r \in ctx.route : \E m \in Matches({r}, req.method, url) : ~m.tsr

Escaped == prev.followed /\ EncodedSlash \in ToSet(req.path)

\* A Location that leads to another host is one for the path "//", where slashes
\* are not merged.
OnlySlashesLeave ==
    reply.kind \in Redirects /\ IsNetworkPath(reply.location) =>
        /\ reply.kind = "redirectPath" /\ conf.merge = "exact"
        /\ reply.location = Norm(req.path).path /\ reply.location = <<Slash, Slash>>

FollowedIsServed ==
    prev.followed /\ stage = "replied" /\ ~Escaped =>
        \/ reply.kind = "served"
        \/ reply.kind = "redirectSlash" /\ prev.kind = "redirectPath"

\* A client that follows a redirect of the router is served, at once or after
\* the redirect of the trailing slash that may come second: redirects neither
\* loop nor lead to an error.  Excepted are a Location that had to be escaped and
\* the Location "//", which escapeLeadingSlashes leaves as it is.
RedirectsLead == OnlySlashesLeave /\ FollowedIsServed

\* The reply to the second of two requests for a path, by another method.  A
\* CONNECT is compared only where paths are not normalised, since its own never is,
\* and a path with dot segments not at all: a match that would be redirected
\* to another slash is then dropped, with the matches it was preferred to.
Retried(kinds) ==
    /\ ~prev.followed /\ prev.kind \in kinds /\ stage = "replied"
    /\ "CONNECT" \in {prev.method, req.method} => ~HasNormalize
    /\ ~HasDotSegment(path)

\* A method that Allow names is not refused on the same path.
AllowedIsHandled ==
    Retried({"noMethod", "options"}) /\ req.method \in prev.allow \ {"CONNECT"} =>
        reply.kind \notin {"noMethod", "noRoute"}

AllowSaysAll == \/ prev.kind = "noMethod"
                \/ prev.kind = "options" /\ prev.allow # {}
                \/ prev.kind = "noRoute" /\ conf.noMethod

\* A method that Allow does not name is not served on the same path, and after
\* a 404 of a router that answers 405 no method is.  (The reply to a CONNECT is
\* the exception: it alone skips the routes that another slash leads to.)
OthersAreNotServed ==
    Retried({"noMethod", "options", "noRoute"}) /\ AllowSaysAll /\ prev.canonical
    /\ prev.method # "CONNECT"
    /\ req.method \notin prev.allow =>
        reply.kind # "served"
=============================================================================
