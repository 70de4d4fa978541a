---------------------------- MODULE RoleReversal ----------------------------
(***************************************************************************)
(* The connection-role-reversal protocol between the flux service and its  *)
(* daemons, with the tenant registry and the RPC calls made over the       *)
(* reversed connection.                                                    *)
(*                                                                         *)
(*  - HTTPService.doRegister (api.go) upgrades a daemon's GET /v6/daemon   *)
(*    request to a websocket, wraps it in an RPC *client*, blocks in       *)
(*    RegisterDaemon until the daemon goes away, then closes the client.   *)
(*  - RegisterDaemon and the registry tenant -> live session live in       *)
(*    service/server, which is not in this repository: they follow the    *)
(*    spec (4.1), with the "evict the previous session" policy and a       *)
(*    removal that only deletes the entry if it still names this session. *)
(*  - Callers are the service's own API requests: they look a tenant's     *)
(*    session up, then call it through the RPC client (spec 4.2, 5).       *)
(*  - The daemon serves each request with rpc.Server.ServeConn and the     *)
(*    RPCServer methods (remote/rpc), whose error envelopes are modelled   *)
(*    exactly, including what net/rpc does with a non-nil returned error.  *)
(***************************************************************************)
EXTENDS Naturals, Sequences, FiniteSets

CONSTANTS
  Insts,      \* tenant (instance) identifiers, from the X-Scope-OrgID header
  Conns,      \* daemon connection attempts; each is used at most once
  Callers,    \* service-side API requests that call a daemon
  Ops,        \* RPC methods the callers may invoke
  Kinds,      \* fluxerr.Error types the daemon's platform may raise
  NoConn,     \* model value: no live session in the registry
  NoInst      \* model value: a connection that has not dialled yet

ASSUME NoConn \notin Conns /\ NoInst \notin Insts
ASSUME Ops \subseteq {"Ping", "Version", "Export", "ListServices",
                      "ListImages", "UpdateManifests", "SyncNotify",
                      "SyncStatus", "JobStatus", "PublicSSHKey"}

VARIABLES
  phase,     \* [Conns -> doRegister's progress]
  inst,      \* [Conns -> tenant the connection registered for]
  ws,        \* [Conns -> state of the upgraded websocket]
  shutdown,  \* [Conns -> has the RPC client's input loop terminated?]
  registry,  \* [Insts -> live session of the tenant, or NoConn]
  reqs,      \* [Conns -> requests written to the daemon, not yet served]
  resps,     \* [Conns -> responses written by the daemon, in stream order]
  call,      \* [Callers -> state of the caller's one RPC call]
  raised     \* [Callers -> what the daemon's platform returned] (history)

vars == <<phase, inst, ws, shutdown, registry, reqs, resps, call, raised>>

-----------------------------------------------------------------------------
(* Data.                                                                   *)

\* What a remote.Platform method returns as its error: nil, a
\* *fluxerr.Error, a *fluxerr.Error wrapped by errors.Wrap, or an
\* unclassified error.
NoKind == "none"
PlatformErrors ==
  {[class |-> "nil", kind |-> NoKind], [class |-> "plain", kind |-> NoKind]}
  \cup [class : {"flux", "wrapped"}, kind : Kinds]

\* A net/rpc response on the wire: the reply body (with the envelope field
\* of ExportResponse / ListServicesResponse), or only an error string.
Responses == [id : Callers, reply : BOOLEAN, envelope : Kinds \cup {NoKind},
              errmsg : BOOLEAN]

\* What a caller finally gets.
Results == {"ok", "TransportFailure", "NotConnected", "Server"} \cup Kinds

Phases == {"idle", "upgraded", "serving", "done", "rejected"}
CallStates == {"idle", "lookedup", "pending", "done"}

-----------------------------------------------------------------------------
(* The daemon side: RPCServer methods (remote/rpc) and net/rpc.            *)

\* errors.Cause: strip errors.Wrap layers.
Cause(e) == IF e.class = "wrapped" THEN [e EXCEPT !.class = "flux"] ELSE e

IsFluxErr(e) == e.class = "flux"

\* net/rpc's sendResponse: when the method returned an error, the reply is
\* replaced by invalidRequest and only the error string is sent.
NetRPCSend(id, replyEnvelope, returned) ==
  IF returned.class # "nil"
  THEN [id |-> id, reply |-> FALSE, envelope |-> NoKind, errmsg |-> TRUE]
  ELSE [id |-> id, reply |-> TRUE, envelope |-> replyEnvelope, errmsg |-> FALSE]

\* Mutation: the error is tested without errors.Cause, so a wrapped
\* *fluxerr.Error is returned and reaches the caller as a bare string.
RPCServerListServicesNoCause(id, e) ==
  IF IsFluxErr(e)
  THEN NetRPCSend(id, e.kind, [class |-> "nil", kind |-> NoKind])
  ELSE NetRPCSend(id, NoKind, e)

\* RPCServer.ListServices: a (possibly wrapped) *fluxerr.Error is put in
\* resp.Error and the method returns nil; any other error is returned.
RPCServerListServices(id, e) ==
  IF e.class # "nil" /\ IsFluxErr(Cause(e))
  THEN NetRPCSend(id, Cause(e).kind, [class |-> "nil", kind |-> NoKind])
  ELSE NetRPCSend(id, NoKind, e)

\* RPCServer.Export: resp.Error is set for an unwrapped *fluxerr.Error,
\* but the error is returned as well.
RPCServerExport(id, e) ==
  NetRPCSend(id, IF IsFluxErr(e) THEN e.kind ELSE NoKind, e)

\* Every other RPCServer method returns the platform's error as is.
RPCServerPlain(id, e) == NetRPCSend(id, NoKind, e)

\* net/rpc dispatches a call to the RPCServer method NewServer registered;
\* Ping and Version, like the rest, return the platform's error as is.
RPCServerCall(op, id, e) ==
  CASE op = "ListServices" -> RPCServerListServices(id, e)
    [] op = "Export"       -> RPCServerExport(id, e)
    [] OTHER               -> RPCServerPlain(id, e)

\* Mutation: a bare error string is passed up as it is, unclassified.
ClientDecodeUnclassified(r) ==
  IF r.errmsg THEN "errmsg"
  ELSE IF r.envelope # NoKind THEN r.envelope
  ELSE "ok"

\* The RPC client's decoding of a response (spec 4.2/4.4): an envelope is
\* reconstituted to its kind, a bare error string is the cover-all kind.
ClientDecode(r) ==
  IF r.errmsg THEN "Server"
  ELSE IF r.envelope # NoKind THEN r.envelope
  ELSE "ok"

-----------------------------------------------------------------------------
(* Initial state: no daemon has dialled, no caller has called.             *)

Init ==
  /\ phase    = [c \in Conns |-> "idle"]
  /\ inst     = [c \in Conns |-> NoInst]
  /\ ws       = [c \in Conns |-> "none"]
  /\ shutdown = [c \in Conns |-> FALSE]
  /\ registry = [i \in Insts |-> NoConn]
  /\ reqs     = [c \in Conns |-> {}]
  /\ resps    = [c \in Conns |-> <<>>]
  /\ call     = [k \in Callers |->
                   [state |-> "idle", inst |-> NoInst, conn |-> NoConn,
                    op |-> CHOOSE o \in Ops : TRUE, result |-> "ok"]]
  /\ raised   = [k \in Callers |-> [class |-> "nil", kind |-> NoKind]]

-----------------------------------------------------------------------------
(* The service side of the session: HTTPService.doRegister.                *)

\* A daemon's request for tenant i reaches doRegister; websocket.Upgrade
\* succeeds and the RPC client is made on the socket (rpc.NewClientV6).
doRegister(c, i) ==
  /\ phase[c] = "idle"
  /\ phase' = [phase EXCEPT ![c] = "upgraded"]
  /\ inst'  = [inst EXCEPT ![c] = i]
  /\ ws'    = [ws EXCEPT ![c] = "open"]
  /\ UNCHANGED <<shutdown, registry, reqs, resps, call, raised>>

\* websocket.Upgrade fails: doRegister writes 400 and returns.
UpgradeFailed(c, i) ==
  /\ phase[c] = "idle"
  /\ phase' = [phase EXCEPT ![c] = "rejected"]
  /\ inst'  = [inst EXCEPT ![c] = i]
  /\ UNCHANGED <<ws, shutdown, registry, reqs, resps, call, raised>>

\* RegisterDaemon makes the platform available: a previous live session of
\* the tenant is evicted (its RPC client closed, which closes its socket)
\* and the registry entry now names this session.
RegisterDaemon(c) ==
  LET old == registry[inst[c]] IN
  /\ phase[c] = "upgraded"
  /\ phase'    = [phase EXCEPT ![c] = "serving"]
  /\ registry' = [registry EXCEPT ![inst[c]] = c]
  /\ ws'       = IF old # NoConn THEN [ws EXCEPT ![old] = "closed"] ELSE ws
  /\ UNCHANGED <<inst, shutdown, reqs, resps, call, raised>>

\* Mutation: the tenant's entry is deleted whatever session it names.
RegisterDaemonReturnsDeletesEntry(c) ==
  /\ phase[c] = "serving"
  /\ ws[c] = "closed"
  /\ phase'    = [phase EXCEPT ![c] = "done"]
  /\ registry' = [registry EXCEPT ![inst[c]] = NoConn]
  /\ UNCHANGED <<inst, ws, shutdown, reqs, resps, call, raised>>

\* Mutation: the entry is left in place when the session ends.
RegisterDaemonReturnsKeepsEntry(c) ==
  /\ phase[c] = "serving"
  /\ ws[c] = "closed"
  /\ phase' = [phase EXCEPT ![c] = "done"]
  /\ UNCHANGED <<inst, ws, shutdown, registry, reqs, resps, call, raised>>

\* Mutation: only the session the registry still names returns, so an
\* evicted session's doRegister stays blocked.
RegisterDaemonReturnsIfRegistered(c) ==
  /\ phase[c] = "serving"
  /\ ws[c] = "closed"
  /\ registry[inst[c]] = c
  /\ phase'    = [phase EXCEPT ![c] = "done"]
  /\ registry' = [registry EXCEPT ![inst[c]] = NoConn]
  /\ UNCHANGED <<inst, ws, shutdown, reqs, resps, call, raised>>

\* The session's socket has failed or been closed: RegisterDaemon removes
\* its registry entry (only if it still names this session) and returns;
\* doRegister then calls rpcClient.Close(), closing the socket again,
\* which is harmless.
RegisterDaemonReturns(c) ==
  /\ phase[c] = "serving"
  /\ ws[c] = "closed"
  /\ phase'    = [phase EXCEPT ![c] = "done"]
  /\ registry' = IF registry[inst[c]] = c
                 THEN [registry EXCEPT ![inst[c]] = NoConn] ELSE registry
  /\ UNCHANGED <<inst, ws, shutdown, reqs, resps, call, raised>>

\* The daemon disconnects or the network drops the websocket.
Disconnect(c) ==
  /\ ws[c] = "open"
  /\ ws' = [ws EXCEPT ![c] = "closed"]
  /\ UNCHANGED <<phase, inst, shutdown, registry, reqs, resps, call, raised>>

-----------------------------------------------------------------------------
(* The RPC client on the service side and its callers.                     *)

\* A service API request for tenant i looks up the tenant's platform; with
\* no live session it fails with the "not connected" UserConfigProblem.
Lookup(k, i, o) ==
  /\ call[k].state = "idle"
  /\ call' = [call EXCEPT ![k] =
                IF registry[i] = NoConn
                THEN [state |-> "done", inst |-> i, conn |-> NoConn, op |-> o,
                      result |-> "NotConnected"]
                ELSE [state |-> "lookedup", inst |-> i, conn |-> registry[i],
                      op |-> o, result |-> "ok"]]
  /\ UNCHANGED <<phase, inst, ws, shutdown, registry, reqs, resps, raised>>

\* client.Call: the request is registered as pending and written to the
\* socket; on a shut-down client or a closed socket the call fails at once.
Send(k) ==
  LET c == call[k].conn IN
  /\ call[k].state = "lookedup"
  /\ IF ws[c] = "open" /\ ~shutdown[c]
     THEN /\ reqs' = [reqs EXCEPT ![c] = @ \cup {k}]
          /\ call' = [call EXCEPT ![k].state = "pending"]
     ELSE /\ call' = [call EXCEPT ![k].state = "done",
                                  ![k].result = "TransportFailure"]
          /\ UNCHANGED reqs
  /\ UNCHANGED <<phase, inst, ws, shutdown, registry, resps, raised>>

\* The client's input loop reads the next response and completes the
\* pending call whose sequence number it carries.
Receive(c) ==
  LET r == Head(resps[c]) IN
  /\ ws[c] = "open"
  /\ resps[c] # <<>>
  /\ resps' = [resps EXCEPT ![c] = Tail(@)]
  /\ call'  = IF call[r.id].state = "pending" /\ call[r.id].conn = c
              THEN [call EXCEPT ![r.id].state = "done",
                                ![r.id].result = ClientDecode(r)]
              ELSE call
  /\ UNCHANGED <<phase, inst, ws, shutdown, registry, reqs, raised>>

\* Mutation: the client is marked shut down but its pending calls are
\* not completed.
ClientShutdownKeepsPending(c) ==
  /\ ws[c] = "closed"
  /\ ~shutdown[c]
  /\ shutdown' = [shutdown EXCEPT ![c] = TRUE]
  /\ resps'    = [resps EXCEPT ![c] = <<>>]
  /\ UNCHANGED <<phase, inst, ws, registry, reqs, call, raised>>

\* The input loop's read fails once the socket is closed: every call still
\* pending on this client fails with a transport error, and the client is
\* shut down.
ClientShutdown(c) ==
  /\ ws[c] = "closed"
  /\ ~shutdown[c]
  /\ shutdown' = [shutdown EXCEPT ![c] = TRUE]
  /\ call' = [k \in Callers |->
                IF call[k].state = "pending" /\ call[k].conn = c
                THEN [call[k] EXCEPT !.state = "done",
                                     !.result = "TransportFailure"]
                ELSE call[k]]
  /\ resps' = [resps EXCEPT ![c] = <<>>]
  /\ UNCHANGED <<phase, inst, ws, registry, reqs, raised>>

-----------------------------------------------------------------------------
(* The daemon side: rpc.Server.ServeConn on the daemon's end of the socket *)
(* runs each request in its own goroutine, so requests are served in any   *)
(* order; the platform answers with any error of PlatformErrors.           *)

Serve(c, k, e) ==
  /\ ws[c] = "open"
  /\ k \in reqs[c]
  /\ reqs'   = [reqs EXCEPT ![c] = @ \ {k}]
  /\ resps'  = [resps EXCEPT ![c] = Append(@, RPCServerCall(call[k].op, k, e))]
  /\ raised' = [raised EXCEPT ![k] = e]
  /\ UNCHANGED <<phase, inst, ws, shutdown, registry, call>>

\* Every connection attempt and every caller has finished.
Finished ==
  /\ \A c \in Conns : \/ phase[c] = "done" /\ shutdown[c]
                      \/ phase[c] = "rejected"
  /\ \A k \in Callers : call[k].state = "done"
  /\ UNCHANGED vars

Next ==
  \/ \E c \in Conns, i \in Insts : doRegister(c, i) \/ UpgradeFailed(c, i)
  \/ \E c \in Conns : \/ RegisterDaemon(c)
                      \/ RegisterDaemonReturns(c)
                      \/ Disconnect(c)
                      \/ Receive(c)
                      \/ ClientShutdown(c)
  \/ \E k \in Callers, i \in Insts, o \in Ops : Lookup(k, i, o)
  \/ \E k \in Callers : Send(k)
  \/ \E c \in Conns, k \in Callers, e \in PlatformErrors : Serve(c, k, e)
  \/ Finished

Spec == Init /\ [][Next]_vars


-----------------------------------------------------------------------------
(* Properties.                                                             *)

TypeOK ==
  /\ phase    \in [Conns -> Phases]
  /\ inst     \in [Conns -> Insts \cup {NoInst}]
  /\ ws       \in [Conns -> {"none", "open", "closed"}]
  /\ shutdown \in [Conns -> BOOLEAN]
  /\ registry \in [Insts -> Conns \cup {NoConn}]
  /\ reqs     \in [Conns -> SUBSET Callers]
  /\ \A c \in Conns : resps[c] \in Seq(Responses)
  /\ call     \in [Callers -> [state : CallStates, inst : Insts \cup {NoInst},
                               conn : Conns \cup {NoConn}, op : Ops,
                               result : Results]]
  /\ raised   \in [Callers -> PlatformErrors]

\* A session whose daemon is still connected, and which RegisterDaemon has
\* made available, is the one the registry hands out for its tenant: a
\* reconnecting daemon's registration, the eviction of the session it
\* replaces and that session's own late removal of its entry never leave
\* a connected daemon unreachable (doRegister / RegisterDaemon).
LiveSessionRegistered ==
  \A c \in Conns : phase[c] = "serving" /\ ws[c] = "open"
                     => registry[inst[c]] = c

\* The registry never names a session whose doRegister has returned and
\* whose RPC client is closed (RegisterDaemon's clean-up).
RegistryNamesLiveSession ==
  \A i \in Insts : registry[i] # NoConn =>
                     /\ phase[registry[i]] = "serving"
                     /\ inst[registry[i]] = i

\* The result a caller receives is the one the daemon's platform produced
\* for that caller's own request, with the fluxerr kind it raised (or the
\* cover-all kind for an unclassified error), unless the transport failed
\* or the tenant was not connected (RPCServer methods, net/rpc, client).
ExpectedResult(e) ==
  CASE e.class \in {"flux", "wrapped"} -> e.kind
    [] e.class = "plain"               -> "Server"
    [] OTHER                           -> "ok"

ErrorKindPreserved ==
  \A k \in Callers :
    call[k].state = "done" /\ call[k].result \notin {"TransportFailure",
                                                     "NotConnected"}
      => call[k].result = ExpectedResult(raised[k])
=============================================================================
