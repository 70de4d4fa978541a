# TLA+ models of the flux remote-platform transport

This directory holds TLA+ models of the control-plane transport in `src/`:
- the connection-role-reversal session between the service and its daemons;
- the RPC layer the service uses over that session;
- the HTTP error envelope between the service and its API client;
- the structural diff oracle that the conformance tests rely on.

Each model is checked with TLC. `PROJECT.json` lists the components, the runs, the mutants, the map from each definition to the source lines it models, the findings and the hazards.

## The system

| Part | Source | State and operations |
|------|--------|----------------------|
| Role reversal | `api/api.go` `doRegister`, `RegisterV6` | The daemon dials `GET /v6/daemon`. The service upgrades the request to a websocket, wraps it in an RPC *client*, and blocks in `RegisterDaemon` until the daemon goes away. Then it closes the client. |
| Tenant registry | `service/server` (not in this repository) | Maps each tenant to its live session. `RegisterDaemon` adds an entry and removes it on return. API requests look the session up here. |
| RPC server | `remote/mock.go` `NewServer`, `ServeConn`, `RPCServer.*` | The daemon serves net/rpc jsonrpc on its end of the socket. `ListServices` puts a `*fluxerr.Error` (after `errors.Cause`) in `resp.Error` and returns nil. `Export` sets `resp.Error` but also returns the error. Every other method returns the error unchanged. When a method returns an error, net/rpc replaces the reply with the error string. |
| RPC client | `rpc.NewClientV6` (not here) | Keeps pending calls keyed by sequence number. A failed read fails every pending call. |
| HTTP envelope | `unnamed/part_000` `WriteError`, `ErrorResponse`, `JSONResponse` | `ErrorResponse` maps a kind to a status: Missing→404, UserConfigProblem→422, anything else→500 through `CoverAllError`. `WriteError` negotiates JSON or text only when an Accept header is present. |
| Handlers | `api/api.go` `HTTPService.*` | A parse failure gives 400. A service error goes through `ErrorResponse`. Success is a JSON result, except that `SyncNotify` answers 202, `LogEvent` answers 200 with no body, and `IsConnected` answers 204 when connected and 404 for UserConfigProblem. |
| API client | `http/client/client.go` | `executeRequest` treats 200, 201 and 204 as success and 401 as Unauthorized. Any other JSON response is decoded as a `BaseError`, and any other response becomes an error made from the status line and body text. `get` decodes the body, so an empty body is an error. `methodWithResp` accepts an empty body. |
| Diff oracle | `remote/mock.go` `Diff` … `sorted` | A reflect-driven recursive diff. It dispatches on the kind of the static type, compares struct fields (exported only), compares slices position by position and reports one overbite/underbite chunk, and sorts map chunks by path. |
| Conformance battery | `remote/mock.go` `MockPlatform`, `PlatformTestBattery` | Scripted answers and errors, compared through a transport with `Diff`. |
| Routes | `http/routes.go`, `service/http/routes.go` | Route names, paths and versions; the deprecated v1/v2 routes answer 410. |
| Instance config | `service/config.go`, `api/api.go` `GetConfig`, `SetConfig`, `PatchConfig` | `Patch` turns the typed config into an untyped map through JSON, runs `applyPatch`, and converts the result back through JSON. `applyPatch` treats null as delete, merges an object into the map at its key, and replaces the key for anything else. |
| Manifests, history | `service/status.go`, `service/history/db.go` | Out of the core (spec §1). |

How the parts interact:
1. An API request for a tenant looks the tenant's session up in the registry.
2. It calls the session's RPC client.
3. The request crosses the reversed socket to the daemon's `RPCServer`.
4. The answer comes back with its error in an envelope or as a bare string.
5. The handler writes the result or the error through the HTTP envelope.
6. The API client decodes it.

## Modules

- **`RoleReversal.tla`** models the session lifecycle, the registry and the RPC calls over the reversed connection.
  - Variables: `phase`, `inst` and `ws` per connection attempt (doRegister's progress and the websocket); `shutdown` (the RPC client's input loop has ended); `registry`; `reqs` and `resps` (the socket, each direction); `call` per caller; and `raised`, a history variable holding the error the daemon's platform returned for each call.
  - Actions: `doRegister`/`UpgradeFailed` (`websocket.Upgrade`), `RegisterDaemon`, `RegisterDaemonReturns`, `Disconnect` (the environment), `Lookup`, `Send`, `Receive`, `ClientShutdown`, and `Serve` (a goroutine of `ServeConn` running an `RPCServer` method).
  - The `RPCServer*` operators translate each method's error handling, and `NetRPCSend` translates net/rpc's `sendResponse`.
  - `RegisterDaemon` and the RPC client are not in this repository, so they follow spec §4.1, §4.2 and §5 and are marked spec_modelled. The registry uses the "evict the previous session" policy and removes an entry only if it still names the session being removed.
- **`Routes.tla`** holds the route tables as sequences in registration order.
  - `APIRoutes` is `AddAPIRoutes`; `ServiceRouter` is `NewServiceRouter`, ending with the NotFound route; `UpstreamRouter` is `NewUpstreamRouter`.
  - A route keeps its methods, its version segment and path, and its query keys. A request is a method, a path and a set of query keys; query values are not modelled.
  - `Serve` is mux's first-match dispatch, via `SelectInSeq`. It gives the deprecated handler (410), the NotFound route's handler (JSON-capable 404), the named handler, or mux's own text 404 when no route matches or the route has no handler.
  - `MakeURL` and `ClientRequests` give the requests each API client method builds.
- **`HTTPTransport.tla`** extends Routes and models one exchange per request.
  - A request is a *call*: an API client method with one of the requests it builds, an old client (v1, `/v4/release`), a caller of IsConnected, or an old daemon dialling `/v4/daemon` or `/v5/daemon`. Daemons' requests go to the upstream router and the rest to the service router.
  - Actions: `Send` (call, Accept header, whether the arguments parse; the router picks the handler), `Handle` (the handler, given the service's error), and `Receive` (the API client's decoding).
  - A request's `input` stands for the handler's early returns: arguments that parse, an argument that does not (400), History's malformed `before`/`limit` (handed to ErrorResponse, so 500), PostIntegrationsGithub's empty owner, repository or token (422), or GitHub refusing the key with status 401, 422 or a non-API error (500). GitHub's 404 is left out, because for a missing repository it agrees with the status table.
  - Every handler of `api.go` outside the config and registration ones is a case of `Handler`: the eight API handlers, IsConnected, History, Status, GenerateKeys and PostIntegrationsGithub.
  - Bodies are abstracted to what the client can tell apart: a result, an envelope, `{}`, help text, error text, or nothing.
- **`DiffAlgorithm.tla`** models the diff algorithm as operators (`diffValue`, `diffFields`, `diffElems`, `diffArrayOrSlice`, `diffMap`, `Diff`, `SortChunks`), which are mutually RECURSIVE.
  - Types are records with a `kind`. Paths are sequences of segments ordered as `strings.Compare` orders their text.
  - `NilDeref` is what the code does with the zero `reflect.Value` of a nil pointer.
  - `Patch` is a reference for what a chunk means. It is independent of the algorithm.
- **`Diff.tla`** extends DiffAlgorithm with a state machine that makes one comparison of two values drawn from the given types.
- **`Conformance.tla`** extends DiffAlgorithm with `MockPlatform` (`Mock`) and `PlatformTestBattery`, with one action per check of the battery, in the code's order.
  - `wrap` is the transport under test. It is chosen in Init, per operation: faithful, hidden (only unexported state lost), corrupt, dropError, failAll, or badArg.
  - `mockErr` holds the mock's error fields. The battery sets them one by one and never clears them.
  - `failed` and `fatal` are `t.Error` and `t.Fatal`.
- **`ConfigPatch.tla`** models the stored instance config and the three config handlers.
  - JSON values are tagged records: string, other scalar, null, or object.
  - `DecodeConfig` is `json.Unmarshal` into a zero `UnsafeInstanceConfig`: null leaves a value unchanged, unknown keys are ignored, and a wrong JSON type is an error.
  - `applyPatch` is RECURSIVE. It builds the result key by key, because each key of the patch touches only its own entry.
  - `MergePatch` is the RFC 7386 reference that the patch is checked against.
  - `GetConfig` answers the stored config: `HideSecrets` only converts it to `SafeInstanceConfig`, with the same fields.
  - The handlers' status is the only other state; what GetConfig wrote is not kept, because no property reads it.
- **`MC_*.tla`** hold the model values and the types used for checking.

## Runs

| Run | Expect | Checks | Bounds |
|-----|--------|--------|--------|
| roleReversal | pass | TypeOK; LiveSessionRegistered, RegistryNamesLiveSession (the registry names exactly the live session); ErrorKindPreserved (a ListServices error of a flux kind, or a plain one, reaches the caller with its kind) | 1 tenant, 2 connections, 2 callers, kinds {Missing, User}; 50k states |
| roleReversal_export | violation | ErrorKindPreserved with Export allowed | same |
| http | pass | TypeOK; SuccessRoundTrip (the client reports success exactly when the handler succeeded); HelpReachesClient (an error's envelope and help reach a JSON client); ClientReachesHandler (every request an API client method builds is served by the handler its route names); FailureNeverSucceeds (no request that failed in its arguments, the service or GitHub gets a 2xx) | 2 requests; calls of ListServices, ListImages, LogEvent, UpdatePolicies, SyncStatus, JobStatus, Export, History, Status, GenerateDeployKeys and PostIntegrationsGithub (SyncStatus shares the `/v6/sync` path with SyncNotify), an old v1 client, an old `/v4/release` client and a v4 daemon; 4 Accept values; every service error and every input; symmetry on requests; 203k states |
| http_syncnotify | violation | SuccessRoundTrip on SyncNotify | 2 requests |
| http_kinds | violation | ClientTellsKindsApart | 2 requests |
| http_isconnected | violation | StatusMeansKind (a handler writes 404 only for Missing, and never 401) on IsConnected | 2 requests |
| http_routes | violation | ClientReachesHandler on UpdateImages | every combination of service, exclude and message parameters |
| diff | pass | TypeOK (an error comes with no chunks); DiffPatchRoundTrip (applying the chunks in order to `a` gives `b` up to unexported state, and each chunk deletes what is there); DiffBlindOnlyToUnexported (Diff is empty exactly when the exported state agrees) | every pair of values of seven types: `[]int`, `map[int]int`, struct{A int; B *int}, map of that struct, `[][]int`, struct with an `interface{}` field, slice of struct{ID int; x int}; scalars {0,1}, keys {0,1}, slices up to length 2; 31k states |
| diff_nil | violation | DiffReflexive with nil pointers | `*int`, `*[]int` |
| conformance | pass | BatteryAcceptsFaithful (a faithful transport passes the battery); BatteryDetects (a transport that passes carries every operation in `Ops` faithfully, up to unexported state) | every treatment of ListServices and ListImages; the other operations are faithful |
| conformance_update | violation | BatteryDetects with UpdateManifests varying | every treatment of UpdateManifests |

| config | pass | PatchIsMergePatch (every patch inside the schema is applied as an RFC 7386 merge, for every reachable stored config); PatchKeepsUnaddressedFields (a successful patch leaves the fields it does not name alone) | the three notifier fields, strings {a, b, c}, one unknown key; request bodies two objects deep with strings, another scalar, null and {}; 193 states |

The bounds are enough for the following reasons:
- **roleReversal.** Two connections for one tenant produce every ordering of eviction against return, and two callers produce out-of-order responses. A third connection adds no new interleaving of the registry's single entry, and it did not finish within the time limit.
- **diff.** Slices of length 2 reach both an overbite and an underbite behind a changed prefix. Two keys reach a Removed chunk, an Added chunk and a recursed entry in one map. The nested types make the paths longer than one segment.

Findings from the violation runs, detailed in `PROJECT.json`:
- RPC errors other than ListServices's lose their kind.
- The API client reports every successful SyncNotify as an error (202 against 200/201/204).
- The client cannot tell error kinds apart.
- IsConnected reuses 404.
- `Diff` panics on a nil pointer.
- `Client.UpdateImages` with no service specs is answered 404 by the NotFound route. The UpdateImages route requires a `service` query parameter (routes.go:37), but the client adds one per spec, and the handler accepts zero.
- The battery calls `UpdateManifests` on the mock, not through the transport (mock.go:195). A transport that fails every UpdateManifests call, or corrupts its answer, passes.

Observations from reading the code, which no run keeps as a violation (every run slot is taken):
- PostIntegrationsGithub passes GitHub's 401 on (api.go:389), which the API client takes for a bad flux token. StatusMeansKind would catch it, but its violation run keeps the IsConnected case.
- The battery never scripts an error for Ping or SyncNotify (mock.go:161), so a transport that drops one passes; and it checks only Diff's error for SyncStatus (mock.go:215), so an answer differing in content passes. The conformance run keeps these operations faithful.
- The comment at routes.go:34 calls the ListServices namespace optional, but `Queries` makes the key mandatory; the API client always sends it.
- A patch that puts an object where the config holds a string is dropped silently, even though the comment at config.go:75 says such schema violations are caught. The rest of the patch is applied and the request answers 200. Lifting the schema condition of PatchIsMergePatch gives a one-step counterexample.
- `HideSecrets` hides nothing. `secretReplacement` is never used, and GetConfig returns the hook URL as stored.
- A `SetConfig` body of `null` decodes to the zero config and replaces the stored one.

## Fairness and liveness

No run checks liveness, and no specification assumes fairness. Whether a call through the reversed connection completes, and whether a closed session's doRegister returns, is decided by `RegisterDaemon` and the RPC client, which are not in this repository; a property about them would check the model taken from the spec, not the code. Diff's single `Compare` step is weakly fair, so a comparison is made.

## Not modelled

- **The config store** (`service.GetConfig`/`SetConfig`/`PatchConfig`) is not in this repository. It is taken to keep the patched config when `Patch` succeeds. JSON's case-insensitive key matching is left out, because the request bodies use the exact keys.
- **Manifest annotations** (`service/status.go`) are outside the core by spec §1. The code rewrites YAML text with regular expressions, so a model would be of strings, not of any state the transport holds.
- **History store** (`service/history/db.go`) is only an interface in this repository, with no implementation to translate.
- **Logging middleware** (`api.go`) only logs and calls the next handler; it changes no state a property could see.
- **Build files** (Dockerfile, CI) are not behaviour.
- **Router wiring.** `main` is not in this repository, so which router `NewHandler` is given is not known. `NewHandler` calls `r.Get(name).Handler` for RegisterDaemonV6 and LogEvent, which the service router lacks, and on that router it would panic at start-up. The model serves daemons with the upstream router.
- **Query values and endpoint joining in MakeURL.** Routing depends only on the keys, and `{var}` templates accept any value.
- **The logging middleware's wrappers** (`codeWriter`, `teeWriter`, `mustUnescape`) only record what the handler wrote for the log line.
- **Which error `diffMap` returns when several entries fail differently.** It depends on Go's map iteration order, and the model fixes one choice.
- **The JSON-encoding failure branches of `WriteError` and `JSONResponse`.** The errors and results passed to them always encode, so the fallback to a text 500 (part_000:79) is never taken.

## Plan

Done:
- **First sitting:** RoleReversal, HTTPTransport and Diff.
- **Second sitting:**
  - Conformance, the battery against every way a transport can treat a call;
  - Registry and the refinement (removed in the fifth sitting);
  - the split of DiffAlgorithm out of Diff;
  - ConfigPatch.

- **Third sitting:** Routes (route tables, first-match dispatch, MakeURL) composed into HTTPTransport.
- **Fourth sitting:** the remaining handlers (History, Status, GenerateKeys, PostIntegrationsGithub) and their early returns; StatusMeansKind in place of NotFoundMeansMissing; Diff checked on unexported fields again, as a property that holds (DiffBlindOnlyToUnexported).
- **Fifth sitting:** removed the properties that only restated a guard or followed from the spec-modelled registry and RPC client (CallsComplete, SessionEnds, RegistryRefined, OldClientsGetText, DiffReflexive in the diff run) with Registry.tla and the fairness; hazards now name only the properties that catch them.

Next:
1. **Annotations** models `updateAnnotations`' policy map (tagAll, then Add, then Remove) and its round trip through `policiesFrom`, as properties added to an existing run.
