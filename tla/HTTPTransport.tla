---------------------------- MODULE HTTPTransport ---------------------------
(***************************************************************************)
(* The error-taxonomy envelope on the HTTP/JSON transport: the service's   *)
(* handlers (service/http, api.go) answer through ErrorResponse,           *)
(* WriteError and JSONResponse (package http, unnamed/part_000), and the   *)
(* API client (http/client) turns the response back into a result or an   *)
(* error in executeRequest, get and methodWithResp.                        *)
(*                                                                         *)
(* Each request is one exchange: a client sends it, the router (Routes)    *)
(* picks the handler, the handler answers it once, and the API client      *)
(* decodes the answer.  Requests are independent, so several are in      *)
(* flight at once only to let TLC enumerate their inputs.                  *)
(* Payloads are abstracted to what the client can tell apart: whether a    *)
(* body is a JSON result, a JSON error envelope (with or without a help   *)
(* text), an empty JSON object, plain text, or nothing.                    *)
(***************************************************************************)
EXTENDS Naturals, FiniteSets, Routes

CONSTANTS
  Requests,   \* client requests, each used once
  CallNames,  \* the calls the requests make (see Calls)
  Accepts     \* Accept headers a client may send ("" = none)

ASSUME Accepts \subseteq {"", "application/json", "text/plain", "text/html"}

VARIABLES
  req    \* [Requests -> the exchange's inputs, response and client result]

vars == <<req>>

-----------------------------------------------------------------------------
(* Data.                                                                   *)

\* The error a service method returns: nil, one of the flux.BaseError
\* kinds (possibly wrapped with errors.Wrap), or an unclassified error.
FluxKinds == {"Missing", "UserConfigProblem", "ServerException"}
ServiceErrors ==
  {[class |-> "nil", wrapped |-> FALSE], [class |-> "plain", wrapped |-> FALSE]}
  \cup [class : FluxKinds, wrapped : BOOLEAN]
NoError == [class |-> "nil", wrapped |-> FALSE]

\* What WriteError is given: whether it JSON-encodes to the BaseError
\* envelope (a *flux.BaseError, or a flux kind embedding one), and whether
\* its dynamic type is *flux.BaseError itself (the text branch's type
\* switch prints the help only then).
Err(envelope, isBase) == [envelope |-> envelope, isBase |-> isBase]

Bodies == {"result", "envelope", "emptyObject", "helpText", "errorText",
           "empty"}
\* An HTTP response: status, whether Content-Type is application/json,
\* and the body.
Response(code, json, body) == [code |-> code, json |-> json, body |-> body]
NoResponse == Response(0, FALSE, "empty")

\* What the API client's method returns: nil, the decoded *flux.BaseError
\* (with or without its help), ErrorUnauthorized, an error made from the
\* status line and body text, or a body-decoding error.
ClientErrors == {"none", "BaseError", "Unauthorized", "Opaque", "Decode"}
NoResult == [err |-> "none", help |-> FALSE]

-----------------------------------------------------------------------------
(* The service side (package http: unnamed/part_000).                      *)

\* negotiateContentType offers application/json and text/plain, in that
\* order: an empty Accept header accepts anything and gets the first offer;
\* a header naming neither offer gets "".
negotiateContentType(accept) ==
  CASE accept = ""                                   -> "application/json"
    [] accept \in {"application/json", "text/plain"} -> accept
    [] OTHER                                         -> ""

\* WriteError: with an Accept header the body is negotiated: a JSON
\* encoding of the error (json.Marshal of a non-BaseError error is "{}"), or
\* the help text of a BaseError, or the error text; without one, or when
\* nothing is negotiated, the error text.  The JSON-encoding failure branch
\* is left out: a *flux.BaseError and the errors handed to WriteError
\* always encode.
WriteError(accept, code, err) ==
  LET ct == negotiateContentType(accept) IN
  IF accept # "" /\ ct = "application/json"
  THEN Response(code, TRUE, IF err.envelope THEN "envelope" ELSE "emptyObject")
  ELSE IF accept # "" /\ ct = "text/plain"
  THEN Response(code, FALSE, IF err.isBase THEN "helpText" ELSE "errorText")
  ELSE Response(code, FALSE, "errorText")

\* Mutation: the cover-all kind written as 503 Service Unavailable.
StatusOfUnavailable(kind) ==
  CASE kind = "Missing"           -> 404
    [] kind = "UserConfigProblem" -> 422
    [] OTHER                      -> 503

\* ErrorResponse: classify errors.Cause(apiError) into a status code; a
\* BaseError kind is sent as its BaseError, anything else as
\* CoverAllError(apiError), itself a BaseError.
StatusOf(kind) ==
  CASE kind = "Missing"           -> 404
    [] kind = "UserConfigProblem" -> 422
    [] OTHER                      -> 500

\* Mutation: an unclassified error is written as it is, not through
\* CoverAllError.
ErrorResponseNoCoverAll(accept, apiError) ==
  LET classified == apiError.class \in FluxKinds IN
  WriteError(accept, StatusOf(apiError.class), Err(classified, classified))

ErrorResponse(accept, apiError) ==
  WriteError(accept, StatusOf(apiError.class), Err(TRUE, TRUE))

\* JSONResponse: the result is marshalled and written with 200.
JSONResponse == Response(200, TRUE, "result")


-----------------------------------------------------------------------------
(* The handlers (HTTPService methods, api.go).                             *)

\* Handlers whose request carries something to parse (a service spec, an
\* image spec, a JSON body); a parse failure is answered with 400 and the
\* wrapped parse error, before the service is called.
ParsingRoutes == {"ListImages", "UpdateImages", "UpdatePolicies", "LogEvent",
                  "History"}

\* What a request carries besides its route, as far as the handler's early
\* returns tell it apart: arguments that parse, an argument that does not
\* ("unparsable"), History's malformed before or limit ("badForm"),
\* PostIntegrationsGithub's empty owner, repository or GithubToken
\* ("missingParam"), or GitHub refusing the deploy key with the status of
\* an *httperror.APIError (0: an error of another type).
In(kind) == [kind |-> kind, code |-> 0]
GitHubErr(code) == [kind |-> "github", code |-> code]
GitHubCodes == {0, 401, 422}
Ok == In("ok")

InputsOf(route) ==
  {Ok}
  \cup (IF route \in ParsingRoutes THEN {In("unparsable")} ELSE {})
  \cup (IF route = "History" THEN {In("badForm")} ELSE {})
  \cup (IF route = "PostIntegrationsGithub"
        THEN {In("missingParam")} \cup {GitHubErr(c) : c \in GitHubCodes}
        ELSE {})

\* Whether the handler gets as far as calling the service.
CallsService(route, input) ==
  route \in HandlerNames /\ input.kind \in {"ok", "github"}

\* ListServices, ListImages, UpdateImages, JobStatus, SyncStatus,
\* UpdatePolicies, Export: an error goes through ErrorResponse, a result
\* through JSONResponse.
QueryHandler(accept, e) ==
  IF e.class # "nil" THEN ErrorResponse(accept, e) ELSE JSONResponse

\* SyncNotify: success is 202 Accepted with no body.
SyncNotifyHandler(accept, e) ==
  IF e.class # "nil" THEN ErrorResponse(accept, e)
  ELSE Response(202, FALSE, "empty")

\* LogEvent: success is 200 with no body.
LogEventHandler(accept, e) ==
  IF e.class # "nil" THEN ErrorResponse(accept, e)
  ELSE Response(200, FALSE, "empty")

\* IsConnected: 204 when connected; a flux.UserConfigProblem (matched on
\* the error itself, not its cause) is "cannot contact", written as 404;
\* anything else goes through ErrorResponse.
IsConnectedHandler(accept, e) ==
  CASE e.class = "nil" -> Response(204, FALSE, "empty")
    [] e.class = "UserConfigProblem" /\ ~e.wrapped ->
         WriteError(accept, 404, Err(TRUE, FALSE))
    [] OTHER -> ErrorResponse(accept, e)

\* History: a malformed before (time.Parse) or limit (fmt.Sscan) is handed
\* to ErrorResponse, which answers an unclassified error with the
\* cover-all 500; otherwise as QueryHandler.
HistoryHandler(accept, input, e) ==
  IF input = In("badForm")
  THEN ErrorResponse(accept, [class |-> "plain", wrapped |-> FALSE])
  ELSE QueryHandler(accept, e)

\* GenerateKeys: success is 200 with no body.
GenerateKeysHandler(accept, e) ==
  IF e.class # "nil" THEN ErrorResponse(accept, e)
  ELSE Response(200, FALSE, "empty")

\* Mutation: the GenerateDeployKey error is not checked before GitHub is
\* called.
PostIntegrationsGithubIgnoresKeyError(accept, input, e) ==
  CASE input = In("missingParam") ->
         WriteError(accept, 422, Err(FALSE, FALSE))
    [] input.kind = "github" ->
         WriteError(accept, IF input.code # 0 THEN input.code ELSE 500,
                    Err(FALSE, FALSE))
    [] OTHER -> Response(200, FALSE, "empty")

\* PostIntegrationsGithub: an empty owner, repository or token is 422 with
\* a plain error; then GenerateDeployKey's error goes through
\* ErrorResponse; a GitHub error is written with GitHub's own status when
\* it is an *httperror.APIError, else 500; success is 200 with no body.
PostIntegrationsGithubHandler(accept, input, e) ==
  CASE input = In("missingParam") ->
         WriteError(accept, 422, Err(FALSE, FALSE))
    [] e.class # "nil" -> ErrorResponse(accept, e)
    [] input.kind = "github" ->
         WriteError(accept, IF input.code # 0 THEN input.code ELSE 500,
                    Err(FALSE, FALSE))
    [] OTHER -> Response(200, FALSE, "empty")

\* What the router picked runs: the deprecated handler writes
\* ErrorDeprecated with 410, the NotFound route's handler writes
\* MakeAPINotFound with 404 (both *flux.BaseError), mux's NotFoundHandler
\* writes "404 page not found" as text whatever the Accept header.
Handler(route, accept, input, e) ==
  CASE route = "deprecated"  -> WriteError(accept, 410, Err(TRUE, TRUE))
    [] route = "apiNotFound" -> WriteError(accept, 404, Err(TRUE, TRUE))
    [] route = "muxNotFound" -> Response(404, FALSE, "errorText")
    [] input = In("unparsable") -> WriteError(accept, 400, Err(FALSE, FALSE))
    [] route = "SyncNotify"  -> SyncNotifyHandler(accept, e)
    [] route = "LogEvent"    -> LogEventHandler(accept, e)
    [] route = "IsConnected" -> IsConnectedHandler(accept, e)
    [] route = "History"     -> HistoryHandler(accept, input, e)
    [] route = "GenerateDeployKeys" -> GenerateKeysHandler(accept, e)
    [] route = "PostIntegrationsGithub" ->
         PostIntegrationsGithubHandler(accept, input, e)
    [] OTHER                 -> QueryHandler(accept, e)

-----------------------------------------------------------------------------
(* The API client (http/client/client.go).                                 *)

ClientResult(err, help) == [err |-> err, help |-> help]

\* executeRequest: 200, 201 and 204 are success, 401 is ErrorUnauthorized;
\* otherwise a JSON response is decoded as a flux.BaseError, anything else
\* becomes an error made of the status line and the body text.
executeRequest(resp) ==
  CASE resp.code \in {200, 201, 204} -> NoResult
    [] resp.code = 401               -> ClientResult("Unauthorized", FALSE)
    [] resp.json                     -> ClientResult("BaseError",
                                                     resp.body = "envelope")
    [] OTHER                         -> ClientResult("Opaque", FALSE)

\* get: after a successful executeRequest the body is JSON-decoded into the
\* destination; an empty body fails to decode.
get(resp) ==
  LET r == executeRequest(resp) IN
  IF r.err = "none" /\ resp.body = "empty"
  THEN ClientResult("Decode", FALSE) ELSE r

\* Mutation: the body is unmarshalled even when it is empty.
methodWithRespDecodesEmpty(resp) ==
  LET r == executeRequest(resp) IN
  IF r.err = "none" /\ resp.body = "empty"
  THEN ClientResult("Decode", FALSE) ELSE r

\* methodWithResp: an empty body is success; a body is unmarshalled.
methodWithResp(resp) == executeRequest(resp)

\* The methods of the API client (IsConnected has none in this client:
\* its callers are outside this repository).
ClientMethods == {"ListServices", "ListImages", "JobStatus", "SyncStatus",
                  "Export", "UpdateImages", "SyncNotify", "UpdatePolicies",
                  "LogEvent"}
ClientDecode(method, resp) ==
  IF method \in {"ListServices", "ListImages", "JobStatus", "SyncStatus",
                "Export"}
  THEN get(resp) ELSE methodWithResp(resp)

-----------------------------------------------------------------------------
(* The exchanges.                                                          *)

\* The API client sets Accept: application/json on every request; other
\* clients (older fluxctl, curl) send any Accept header or none.
APIAccept == "application/json"

\* A call: who makes it, its name, and the request.  The API client's
\* methods build theirs with MakeURL; older clients still ask for the
\* retired v1 API and /v4/release; IsConnected, History, Status and the
\* key and GitHub endpoints are asked for by callers outside this
\* repository; daemons of earlier versions dial /v4/daemon and
\* /v5/daemon.  Daemons' requests go to the upstream routes, every other
\* request to the service's.
Call(by, name, rq) == [by |-> by, name |-> name, rq |-> rq]
OtherCalls ==
  { Call("other", "OldV1", Request("GET", "v1", "services", {})),
    Call("other", "OldRelease", Request("POST", "v4", "release", {})),
    Call("other", "IsConnected", Request("GET", "v4", "ping", {})),
    Call("other", "History",
         Request("GET", "v3", "history", {"service", "before", "limit"})),
    Call("other", "Status", Request("GET", "v3", "status", {})),
    Call("other", "GenerateDeployKeys",
         Request("POST", "v5", "config/deploy-keys", {})),
    Call("other", "PostIntegrationsGithub",
         Request("POST", "v5", "integrations/github", {"owner", "repository"})),
    Call("daemon", "DaemonV4", Request("GET", "v4", "daemon", {})),
    Call("daemon", "DaemonV5", Request("GET", "v5", "daemon", {})) }
AllCalls ==
  UNION {{Call(IF m = "LogEvent" THEN "daemon" ELSE "client", m, rq) :
            rq \in ClientRequests(m)} : m \in ClientMethods} \cup OtherCalls
Calls == {c \in AllCalls : c.name \in CallNames}

Routed(c) == Serve(IF c.by = "daemon" THEN UpstreamRouter ELSE ServiceRouter,
                   c.rq)

\* Whether the API client decodes the answer (LogEvent's is the daemon's
\* copy of the same client).
ByClient(c) == c.name \in ClientMethods

Init ==
  req = [r \in Requests |->
           [stage |-> "idle", call |-> CHOOSE c \in Calls : TRUE,
            route |-> "muxNotFound",
            accept |-> APIAccept, input |-> Ok, err |-> NoError,
            resp |-> NoResponse, result |-> NoResult]]

\* A client makes a call; the router picks what serves it; what the
\* arguments hold is part of the request.
Send(r, c, accept, input) ==
  LET route == Routed(c) IN
  /\ req[r].stage = "idle"
  /\ input \in InputsOf(route)
  /\ req' = [req EXCEPT ![r].stage = "sent", ![r].call = c,
                        ![r].route = route, ![r].accept = accept,
                        ![r].input = input]

\* The handler runs; the service method it calls returns e.
Handle(r, e) ==
  /\ req[r].stage = "sent"
  /\ CallsService(req[r].route, req[r].input) \/ e = NoError
  /\ req' = [req EXCEPT ![r].stage = "answered", ![r].err = e,
                        ![r].resp = Handler(req[r].route, req[r].accept,
                                            req[r].input, e)]

\* The API client decodes the response of a request it sent.
Receive(r) ==
  /\ req[r].stage = "answered"
  /\ req[r].accept = APIAccept
  /\ ByClient(req[r].call)
  /\ req' = [req EXCEPT ![r].stage = "done",
                        ![r].result = ClientDecode(req[r].call.name,
                                                   req[r].resp)]

\* Every request has been answered and, if the API client sent it, decoded.
Finished ==
  /\ \A r \in Requests :
       \/ req[r].stage = "done"
       \/ req[r].stage = "answered" /\ ~ENABLED Receive(r)
  /\ UNCHANGED vars

Next ==
  \/ \E r \in Requests, c \in Calls, a \in Accepts :
       \E i \in InputsOf(Routed(c)) : Send(r, c, a, i)
  \/ \E r \in Requests, e \in ServiceErrors : Handle(r, e)
  \/ \E r \in Requests : Receive(r)
  \/ Finished

Spec == Init /\ [][Next]_vars


-----------------------------------------------------------------------------
(* Properties.                                                             *)

TypeOK ==
  req \in [Requests ->
            [stage : {"idle", "sent", "answered", "done"}, call : Calls,
             route : HandlerNames \cup {"deprecated", "apiNotFound",
                                        "muxNotFound"},
             accept : Accepts \cup {APIAccept},
             input : {Ok, In("unparsable"), In("badForm"), In("missingParam")}
                       \cup {GitHubErr(c) : c \in GitHubCodes},
             err : ServiceErrors,
             resp : [code : {0, 200, 202, 204, 400, 401, 404, 410, 422, 500},
                     json : BOOLEAN, body : Bodies],
             result : [err : ClientErrors, help : BOOLEAN]]]

\* A call of the API client succeeds exactly when the handler's request
\* parsed and the service method succeeded: no success is reported as an
\* error, and no error is lost (status handling in executeRequest against
\* the status each handler writes).
SuccessRoundTrip ==
  \A r \in Requests :
    req[r].stage = "done" =>
      ((req[r].result.err = "none") <=> (req[r].input = Ok /\ req[r].err = NoError))

\* When a service method fails, the API client gets a flux.BaseError with
\* its help text, whether the error was classified or not (ErrorResponse's
\* cover-all, WriteError's JSON branch, executeRequest's decoding).
HelpReachesClient ==
  \A r \in Requests :
    req[r].stage = "done" /\ req[r].input = Ok /\ req[r].err # NoError
      => req[r].result = ClientResult("BaseError", TRUE)

\* Every request an API client method builds with MakeURL is served by
\* the handler of the route it names: no earlier route of the service's
\* (or the upstream) router shadows it, and its method and query keys meet
\* the route's matchers (client.go against the route tables).
ClientReachesHandler ==
  \A r \in Requests :
    req[r].stage # "idle" /\ ByClient(req[r].call)
      => req[r].route = req[r].call.name

\* Two failed calls whose service errors were of different kinds are told
\* apart by the API client (spec 8, "Error-kind round-trip").
ClientTellsKindsApart ==
  \A r, s \in Requests :
    ( /\ req[r].stage = "done" /\ req[s].stage = "done"
      /\ req[r].input = Ok /\ req[s].input = Ok
      /\ req[r].err.class \in FluxKinds /\ req[s].err.class \in FluxKinds
      /\ req[r].err.class # req[s].err.class )
      => req[r].result # req[s].result

\* A handler's status code names the kind of the failure (spec 6: status
\* codes map one-to-one to error kinds): 404 only for the flux Missing
\* kind, and never 401, which is the transport's own Unauthorized.  At
\* stake are IsConnected's "cannot contact" 404 and the GitHub status
\* PostIntegrationsGithub passes on.
StatusMeansKind ==
  \A r \in Requests :
    req[r].stage \in {"answered", "done"} /\ req[r].route \in HandlerNames
      => /\ req[r].resp.code = 404 => req[r].err.class = "Missing"
         /\ req[r].resp.code # 401

\* A request that fails, in its arguments or in the service, is never
\* answered with a 2xx status: every early return of every handler writes
\* an error status (the handlers' error paths against their success
\* writes).
FailureNeverSucceeds ==
  \A r \in Requests :
    req[r].stage \in {"answered", "done"}
    /\ (req[r].input # Ok \/ req[r].err # NoError)
      => req[r].resp.code >= 400

=============================================================================
