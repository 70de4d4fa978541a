------------------------------- MODULE Routes --------------------------------
(***************************************************************************)
(* The route tables (http/routes.go, service/http/routes.go), the handler *)
(* table NewHandler installs on them (api.go), and the requests the API    *)
(* client builds with MakeURL (http/client/client.go).                     *)
(*                                                                         *)
(* A request is its method, the version segment and the rest of its path, *)
(* and the set of its query keys.  A route matches a request when every    *)
(* matcher it was given accepts it; gorilla/mux tries the routes in the   *)
(* order they were added and the first match wins.  Query values are not *)
(* modelled: a {var} query template accepts any value, the empty one too. *)
(***************************************************************************)
EXTENDS Naturals, Sequences
LOCAL INSTANCE SequencesExt

Wildcard == "*"
AllMethods == {"GET", "HEAD", "POST", "PATCH"}

Route(name, methods, version, resource, queries) ==
  [name |-> name, methods |-> methods, version |-> version,
   resource |-> resource, queries |-> queries]

Request(method, version, resource, query) ==
  [method |-> method, version |-> version, resource |-> resource,
   query |-> query]

\* Mutation: the deprecated /v4/release route is registered as a prefix
\* of the whole v4 API.
APIRoutesV4Prefix ==
  << Route("Deprecated:v1", AllMethods, "v1", Wildcard, {}),
     Route("Deprecated:v2", AllMethods, "v2", Wildcard, {}),
     Route("Deprecated:PostOrGetRelease", AllMethods, "v4", Wildcard, {}),
     Route("ListServices", {"GET"}, "v3", "services", {"namespace"}),
     Route("ListImages", {"GET"}, "v3", "images", {"service"}),
     Route("UpdateImages", {"POST"}, "v6", "update-images",
           {"service", "image", "kind"}),
     Route("UpdatePolicies", {"PATCH"}, "v4", "policies", {}),
     Route("SyncNotify", {"POST"}, "v6", "sync", {}),
     Route("JobStatus", {"GET"}, "v6", "jobs", {"id"}),
     Route("SyncStatus", {"GET"}, "v6", "sync", {"ref"}),
     Route("Export", {"HEAD", "GET"}, "v5", "export", {}) >>

\* AddAPIRoutes: the retired versions and /v4/release first, for any
\* method, then the API.
APIRoutes ==
  << Route("Deprecated:v1", AllMethods, "v1", Wildcard, {}),
     Route("Deprecated:v2", AllMethods, "v2", Wildcard, {}),
     Route("Deprecated:PostOrGetRelease", AllMethods, "v4", "release", {}),
     Route("ListServices", {"GET"}, "v3", "services", {"namespace"}),
     Route("ListImages", {"GET"}, "v3", "images", {"service"}),
     Route("UpdateImages", {"POST"}, "v6", "update-images",
           {"service", "image", "kind"}),
     Route("UpdatePolicies", {"PATCH"}, "v4", "policies", {}),
     Route("SyncNotify", {"POST"}, "v6", "sync", {}),
     Route("JobStatus", {"GET"}, "v6", "jobs", {"id"}),
     Route("SyncStatus", {"GET"}, "v6", "sync", {"ref"}),
     Route("Export", {"HEAD", "GET"}, "v5", "export", {}) >>

\* NewServiceRouter: the API routes, the service's own, and last the
\* NotFound route, which has no matcher and so matches every request.
ServiceRouter ==
  APIRoutes \o
  << Route("Automate", {"POST"}, "v3", "automate", {"service"}),
     Route("Deautomate", {"POST"}, "v3", "deautomate", {"service"}),
     Route("Lock", {"POST"}, "v3", "lock", {"service"}),
     Route("Unlock", {"POST"}, "v3", "unlock", {"service"}),
     Route("History", {"GET"}, "v3", "history", {"service"}),
     Route("Status", {"GET"}, "v3", "status", {}),
     Route("GetConfig", {"GET"}, "v4", "config", {}),
     Route("SetConfig", {"POST"}, "v4", "config", {}),
     Route("PatchConfig", {"PATCH"}, "v4", "config", {}),
     Route("GenerateDeployKeys", {"POST"}, "v5", "config/deploy-keys", {}),
     Route("PostIntegrationsGithub", {"POST"}, "v5", "integrations/github",
           {"owner", "repository"}),
     Route("RegisterDaemonV4", {"GET"}, "v4", "daemon", {}),
     Route("RegisterDaemonV5", {"GET"}, "v5", "daemon", {}),
     Route("IsConnected", {"HEAD", "GET"}, "v4", "ping", {}),
     Route("NotFound", AllMethods, Wildcard, Wildcard, {}) >>

\* NewUpstreamRouter: the routes daemons call.
UpstreamRouter ==
  << Route("RegisterDaemonV6", {"GET"}, "v6", "daemon", {}),
     Route("LogEvent", {"POST"}, "v4", "events", {}) >>

\* The handler names NewHandler installs: its own map, AddAPIHandlers and
\* AddUpstreamHandlers.  The Deprecated and NotFound routes carry theirs.
HandlerNames ==
  {"History", "Status", "GetConfig", "SetConfig", "PatchConfig",
   "GenerateDeployKeys", "PostIntegrationsGithub", "IsConnected"}
  \cup {"ListServices", "ListImages", "UpdateImages", "UpdatePolicies",
        "Export", "SyncNotify", "JobStatus", "SyncStatus"}
  \cup {"RegisterDaemonV6", "LogEvent"}

RouteMatches(rt, rq) ==
  /\ rq.method \in rt.methods
  /\ rt.version \in {Wildcard, rq.version}
  /\ rt.resource \in {Wildcard, rq.resource}
  /\ rt.queries \subseteq rq.query

DeprecatedRoutes == {"Deprecated:v1", "Deprecated:v2",
                     "Deprecated:PostOrGetRelease"}

\* What serves a request: the first matching route's handler, the
\* deprecated handler (410), the NotFound route's handler (a JSON-capable
\* 404), or, when no route matches or the matching route has no handler,
\* mux's own http.NotFoundHandler (a plain-text 404).
Serve(router, rq) ==
  LET i == SelectInSeq(router, LAMBDA rt : RouteMatches(rt, rq)) IN
  CASE i = 0                               -> "muxNotFound"
    [] router[i].name \in DeprecatedRoutes -> "deprecated"
    [] router[i].name = "NotFound"         -> "apiNotFound"
    [] router[i].name \in HandlerNames     -> router[i].name
    [] OTHER                               -> "muxNotFound"

NamedRoute(router, name) ==
  router[SelectInSeq(router, LAMBDA rt : rt.name = name)]

\* MakeURL: the path of the named route of the client's router and the
\* query parameters the method passes.
MakeURL(router, name, method, query) ==
  LET rt == NamedRoute(router, name) IN
  Request(method, rt.version, rt.resource, query)

\* The requests each client method can build.  UpdateImages passes image,
\* kind and user always, one "service" per service spec, one "exclude" per
\* excluded service, and "message" when there is one.
ClientRequests(name) ==
  CASE name = "ListServices" ->
         {MakeURL(APIRoutes, name, "GET", {"namespace"})}
    [] name = "ListImages" -> {MakeURL(APIRoutes, name, "GET", {"service"})}
    [] name = "UpdateImages" ->
         {MakeURL(APIRoutes, name, "POST", {"image", "kind", "user"} \cup opt) :
            opt \in SUBSET {"service", "exclude", "message"}}
    [] name = "SyncNotify" -> {MakeURL(APIRoutes, name, "POST", {})}
    [] name = "JobStatus" -> {MakeURL(APIRoutes, name, "GET", {"id"})}
    [] name = "SyncStatus" -> {MakeURL(APIRoutes, name, "GET", {"ref"})}
    [] name = "UpdatePolicies" -> {MakeURL(APIRoutes, name, "PATCH", {})}
    [] name = "Export" -> {MakeURL(APIRoutes, name, "GET", {})}
    [] name = "LogEvent" -> {MakeURL(UpstreamRouter, name, "POST", {})}
=============================================================================
