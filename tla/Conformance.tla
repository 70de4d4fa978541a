----------------------------- MODULE Conformance ----------------------------
(***************************************************************************)
(* The conformance battery of remote/mock.go: PlatformTestBattery wraps a  *)
(* MockPlatform with scripted answers in a transport and checks, call by   *)
(* call, that the transport returns the mock's answers (reflect.DeepEqual  *)
(* and the Diff oracle of DiffAlgorithm) and surfaces the errors scripted  *)
(* into the mock.                                                          *)
(*                                                                         *)
(* The transport under test is unknown to the battery, so it is chosen in  *)
(* Init, per operation, among the ways a transport can treat a call:       *)
(*   faithful   the mock's answer and error                                *)
(*   hidden     the answer with only unexported state changed (what a JSON *)
(*              round trip does to the monotonic reading of a time.Time)  *)
(*   corrupt    an answer that differs in exported data                   *)
(*   dropError  the mock's answer, and no error                           *)
(*   failAll    an error, whatever the mock returned                      *)
(*   badArg     the arguments altered on the way to the mock              *)
(* Operations outside Ops are carried faithfully.  Answers are the         *)
(* battery's own scripted values, with strings as opaque scalars.          *)
(***************************************************************************)
EXTENDS DiffAlgorithm

CONSTANTS
  Ops     \* the operations whose treatment by the transport varies

PlatformOps == {"Ping", "ListServices", "ListImages", "UpdateManifests",
                "SyncNotify", "SyncStatus"}

ASSUME Ops \subseteq PlatformOps

VARIABLES
  wrap,     \* [PlatformOps -> how the transport treats each operation]
  mockErr,  \* [PlatformOps -> is the mock's XxxError field set?]
  pc,       \* the battery's next step, or "done"
  failed,   \* has t.Error been called?
  fatal     \* has t.Fatal been called?

vars == <<wrap, mockErr, pc, failed, fatal>>

-----------------------------------------------------------------------------
(* The scripted answers, as values of the types the platform returns.      *)

\* time.Time has no exported field; *time.Time points at one.
TimeT       == TStruct(<<Field("wall", FALSE, TScalar)>>)
ImageDescT  == TStruct(<<Field("ID", TRUE, TScalar),
                         Field("CreatedAt", TRUE, TPtr(TimeT))>>)
ContainerT  == TStruct(<<Field("Name", TRUE, TScalar),
                         Field("Current", TRUE, ImageDescT)>>)
ServicesT   == TSlice(TStruct(<<Field("ID", TRUE, TScalar),
                                Field("Containers", TRUE, TSlice(ContainerT)),
                                Field("Status", TRUE, TScalar)>>))
ImagesT     == TSlice(TStruct(<<Field("ID", TRUE, TScalar),
                                Field("Containers", TRUE, TSlice(ContainerT))>>))
SyncT       == TSlice(TScalar)

Now == <<"now">>

\* serviceAnswer: one service with one container created at &now, and a
\* zero ServiceStatus.
ServiceAnswer ==
  << <<"foobar/hello", << <<"frobnicator", <<"imageID", <<Now>> >> >> >>, "ok">>,
     <<"", <<>>, "">> >>
ImagesAnswer     == << <<"barfoo/yello", <<>> >> >>
SyncStatusAnswer == <<"commit 1", "commit 2", "commit 3">>
JobAnswer        == "job-id"

Answer(op) ==
  CASE op = "ListServices"    -> ServiceAnswer
    [] op = "ListImages"      -> ImagesAnswer
    [] op = "SyncStatus"      -> SyncStatusAnswer
    [] op = "UpdateManifests" -> JobAnswer
    [] OTHER                  -> <<>>

\* What a Go method returns beside an error it made itself: a zero value.
Zero(op) == IF op = "UpdateManifests" THEN "" ELSE <<>>

-----------------------------------------------------------------------------
(* MockPlatform: each method returns its XxxAnswer and XxxError field;     *)
(* UpdateManifests first runs UpdateManifestsArgTest, which fails unless   *)
(* the spec it is given is the battery's updateSpec.                       *)

\* Mutation: ListImages returns the ListServices error field (copy and
\* paste).
MockSharedError(op, argOk, errs) ==
  CASE op = "UpdateManifests" /\ ~argOk -> [ans |-> "", err |-> TRUE]
    [] op = "ListImages" -> [ans |-> Answer(op), err |-> errs["ListServices"]]
    [] OTHER             -> [ans |-> Answer(op), err |-> errs[op]]

Mock(op, argOk, errs) ==
  IF op = "UpdateManifests" /\ ~argOk
  THEN [ans |-> "", err |-> TRUE]
  ELSE [ans |-> Answer(op), err |-> errs[op]]

-----------------------------------------------------------------------------
(* The transport.                                                          *)

Behaviours(op) ==
  CASE op \notin Ops               -> {"faithful"}
    [] op \in {"Ping", "SyncNotify"} -> {"faithful", "dropError", "failAll"}
    [] op = "ListServices"         -> {"faithful", "hidden", "corrupt",
                                       "dropError", "failAll"}
    [] op = "UpdateManifests"      -> {"faithful", "corrupt", "dropError",
                                       "failAll", "badArg"}
    [] OTHER                       -> {"faithful", "corrupt", "dropError",
                                       "failAll"}

\* The answer with only time.Time's unexported state changed.
Hidden(op) == [ServiceAnswer EXCEPT ![1][2][1][2][2] = <<<<"now'">>>>]

\* Answers differing in exported data: a field changed, an element lost.
Corruptions(op) ==
  CASE op = "ListServices"    -> {[ServiceAnswer EXCEPT ![1][3] = "degraded"],
                                  SubSeq(ServiceAnswer, 1, 1)}
    [] op = "ListImages"      -> {[ImagesAnswer EXCEPT ![1][1] = "other"], <<>>}
    [] op = "SyncStatus"      -> {SubSeq(SyncStatusAnswer, 1, 2),
                                  [SyncStatusAnswer EXCEPT ![1] = "commit 0"]}
    [] op = "UpdateManifests" -> {"other-job"}
    [] OTHER                  -> {}

\* The results client.Op() may return, the mock's error fields being errs.
Call(op, errs) ==
  LET b == wrap[op]
      r == Mock(op, b # "badArg", errs)
  IN
  CASE b = "hidden"    -> {[ans |-> Hidden(op), err |-> r.err]}
    [] b = "corrupt"   -> {[ans |-> x, err |-> r.err] : x \in Corruptions(op)}
    [] b = "dropError" -> {[ans |-> r.ans, err |-> FALSE]}
    [] b = "failAll"   -> {[ans |-> Zero(op), err |-> TRUE]}
    [] OTHER           -> {r}

-----------------------------------------------------------------------------
(* PlatformTestBattery, one action per check.                              *)

\* Diff reports a difference or fails: "err != nil || len(diff) > 0".
DiffReports(t, x, y) ==
  LET d == Diff(t, x, t, y) IN d.err # "none" \/ d.chunks # <<>>

Init ==
  /\ wrap \in [PlatformOps -> UNION {Behaviours(op) : op \in PlatformOps}]
  /\ \A op \in PlatformOps : wrap[op] \in Behaviours(op)
  /\ mockErr = [op \in PlatformOps |-> FALSE]
  /\ pc = "Ping"
  /\ failed = FALSE
  /\ fatal = FALSE

\* client.Ping(): an error is fatal.
Ping ==
  /\ pc = "Ping"
  /\ \E r \in Call("Ping", mockErr) :
       /\ fatal' = r.err
       /\ pc' = IF r.err THEN "done" ELSE "ListServices"
  /\ UNCHANGED <<wrap, mockErr, failed>>

\* client.ListServices: an error is reported; an answer that is not
\* DeepEqual to the mock's is reported if Diff sees a difference, and is
\* fatal if it does not.
ListServices ==
  /\ pc = "ListServices"
  /\ \E r \in Call("ListServices", mockErr) :
       LET differs  == r.ans # ServiceAnswer
           reported == DiffReports(ServicesT, r.ans, ServiceAnswer)
       IN /\ failed' = (failed \/ r.err \/ (differs /\ reported))
          /\ fatal'  = (differs /\ ~reported)
          /\ pc'     = IF differs /\ ~reported THEN "done" ELSE "ListServicesError"
  /\ UNCHANGED <<wrap, mockErr>>

\* mock.ListServicesError is set; client.ListServices must fail.
ListServicesError ==
  LET errs == [mockErr EXCEPT !["ListServices"] = TRUE] IN
  /\ pc = "ListServicesError"
  /\ mockErr' = errs
  /\ \E r \in Call("ListServices", errs) : failed' = (failed \/ ~r.err)
  /\ pc' = "ListImages"
  /\ UNCHANGED <<wrap, fatal>>

\* Mutation: only Diff's error is checked, not its chunks.
ListImagesIgnoresChunks ==
  /\ pc = "ListImages"
  /\ \E r \in Call("ListImages", mockErr) :
       failed' = (failed \/ r.err \/
                  Diff(ImagesT, r.ans, ImagesT, ImagesAnswer).err # "none")
  /\ pc' = "ListImagesError"
  /\ UNCHANGED <<wrap, mockErr, fatal>>

\* client.ListImages: an error, or a Diff against the mock's answer that
\* fails or is not empty, is reported.
ListImages ==
  /\ pc = "ListImages"
  /\ \E r \in Call("ListImages", mockErr) :
       failed' = (failed \/ r.err \/ DiffReports(ImagesT, r.ans, ImagesAnswer))
  /\ pc' = "ListImagesError"
  /\ UNCHANGED <<wrap, mockErr, fatal>>

\* mock.ListImagesError is set; client.ListImages must fail.
ListImagesError ==
  LET errs == [mockErr EXCEPT !["ListImages"] = TRUE] IN
  /\ pc = "ListImagesError"
  /\ mockErr' = errs
  /\ \E r \in Call("ListImages", errs) : failed' = (failed \/ ~r.err)
  /\ pc' = "UpdateManifests"
  /\ UNCHANGED <<wrap, fatal>>

\* mock.UpdateManifests(updateSpec), called on the mock itself: its error
\* and its answer are checked.
UpdateManifests ==
  LET r == Mock("UpdateManifests", TRUE, mockErr) IN
  /\ pc = "UpdateManifests"
  /\ failed' = (failed \/ r.err \/ r.ans # JobAnswer)
  /\ pc' = "UpdateManifestsError"
  /\ UNCHANGED <<wrap, mockErr, fatal>>

\* mock.UpdateManifestsError is set; client.UpdateManifests must fail.
UpdateManifestsError ==
  LET errs == [mockErr EXCEPT !["UpdateManifests"] = TRUE] IN
  /\ pc = "UpdateManifestsError"
  /\ mockErr' = errs
  /\ \E r \in Call("UpdateManifests", errs) : failed' = (failed \/ ~r.err)
  /\ pc' = "SyncNotify"
  /\ UNCHANGED <<wrap, fatal>>

\* client.SyncNotify(): an error is reported.
SyncNotify ==
  /\ pc = "SyncNotify"
  /\ \E r \in Call("SyncNotify", mockErr) : failed' = (failed \/ r.err)
  /\ pc' = "SyncStatus"
  /\ UNCHANGED <<wrap, mockErr, fatal>>

\* client.SyncStatus("HEAD"): an error, or an error from Diff, is reported.
SyncStatus ==
  /\ pc = "SyncStatus"
  /\ \E r \in Call("SyncStatus", mockErr) :
       failed' = (failed \/ r.err \/
                  Diff(SyncT, SyncStatusAnswer, SyncT, r.ans).err # "none")
  /\ pc' = "done"
  /\ UNCHANGED <<wrap, mockErr, fatal>>

\* The battery has returned.
Done == pc = "done" /\ UNCHANGED vars

Next ==
  \/ Ping \/ ListServices \/ ListServicesError \/ ListImages
  \/ ListImagesError \/ UpdateManifests \/ UpdateManifestsError
  \/ SyncNotify \/ SyncStatus \/ Done

Spec == Init /\ [][Next]_vars

-----------------------------------------------------------------------------
(* Properties.                                                             *)

Passed == pc = "done" /\ ~failed /\ ~fatal

\* A transport that hands every call to the mock and every answer and
\* error back unchanged passes the battery: no check of
\* PlatformTestBattery fails on a faithful transport.
BatteryAcceptsFaithful ==
  (pc = "done" /\ \A op \in PlatformOps : wrap[op] = "faithful") => Passed

\* A transport that passes the battery carries every operation faithfully
\* (up to unexported state): no corrupted answer, dropped error, spurious
\* error or altered argument of an operation in Ops goes unnoticed by the
\* battery's DeepEqual, Diff and error checks (spec 4.5: "every call result
\* obtained through the wrapping must diff as empty ...").
BatteryDetects ==
  Passed => \A op \in Ops : wrap[op] \in {"faithful", "hidden"}
=============================================================================
