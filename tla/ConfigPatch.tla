---------------------------- MODULE ConfigPatch -----------------------------
(***************************************************************************)
(* Instance configuration (service/config.go) and the handlers that read   *)
(* and write it (api.go GetConfig, SetConfig, PatchConfig).                *)
(*                                                                         *)
(* JSON values are tagged records: a string, another scalar (a number, a   *)
(* bool or an array, which the config schema treats alike), null, or an    *)
(* object, whose fields are a function from keys to JSON values.  The      *)
(* typed config is InstanceConfig's one NotifierConfig, a function from    *)
(* its fields to strings.                                                  *)
(***************************************************************************)
EXTENDS FiniteSets, TLC

CONSTANTS
  Fields,      \* the fields of NotifierConfig (json tags)
  Strings,     \* the strings that requests carry
  OtherKey     \* a key that is not in the schema

Str(s)  == [t |-> "str", v |-> s]
Other   == [t |-> "other"]
Null    == [t |-> "null"]
Obj(f)  == [t |-> "obj", f |-> f]
NoKeys  == [k \in {} |-> Null]

ZeroConfig == [f \in Fields |-> ""]

VARIABLES
  config,   \* the instance's stored UnsafeInstanceConfig
  status    \* the HTTP status of the last request, 0 before any

vars == <<config, status>>

-----------------------------------------------------------------------------
(* json.Unmarshal into a zero UnsafeInstanceConfig: null leaves a value    *)
(* as it is, unknown keys are ignored, and a value of the wrong JSON type  *)
(* is an UnmarshalTypeError (the partly decoded value is discarded).       *)

DecodeString(v) ==
  CASE v.t = "str"  -> [ok |-> TRUE,  v |-> v.v]
    [] v.t = "null" -> [ok |-> TRUE,  v |-> ""]
    [] OTHER        -> [ok |-> FALSE, v |-> ""]

DecodeNotifier(v) ==
  LET Field(f) == IF f \in DOMAIN v.f THEN DecodeString(v.f[f])
                  ELSE [ok |-> TRUE, v |-> ""]
  IN
  CASE v.t = "null" -> [ok |-> TRUE, cfg |-> ZeroConfig]
    [] v.t = "obj"  -> [ok  |-> \A f \in Fields : Field(f).ok,
                        cfg |-> [f \in Fields |-> Field(f).v]]
    [] OTHER        -> [ok |-> FALSE, cfg |-> ZeroConfig]

DecodeConfig(v) ==
  LET r == IF v.t = "obj" /\ "slack" \in DOMAIN v.f
           THEN DecodeNotifier(v.f["slack"])
           ELSE [ok |-> v.t \in {"obj", "null"}, cfg |-> ZeroConfig]
  IN IF r.ok THEN r ELSE [ok |-> FALSE, cfg |-> ZeroConfig]

\* json.Marshal of the struct, unmarshalled into a map: every field is
\* present, none is omitted when empty.
toUntypedConfig(uic) ==
  [k \in {"slack"} |-> Obj([f \in Fields |-> Str(uic[f])])]

toUnsafeInstanceConfig(uc) == DecodeConfig(Obj(uc))

-----------------------------------------------------------------------------
(* applyPatch: each key of the patch is handled on its own, so the         *)
(* iteration order of the Go map does not matter and the result is built  *)
(* key by key.  null deletes; an object is merged into the map at that key *)
(* (made empty when the key is absent or null) and is dropped silently    *)
(* when the key holds a string or another scalar; anything else replaces. *)

RECURSIVE applyPatch(_, _)

\* Mutation: a null in the patch is ignored instead of deleting the key.
applyPatchNoDelete(uc, cp) ==
  LET Entry(k) ==
        IF k \notin DOMAIN cp \/ cp[k] = Null THEN uc[k]
        ELSE IF cp[k].t = "obj"
        THEN LET cur == IF k \notin DOMAIN uc \/ uc[k] = Null
                        THEN Obj(NoKeys) ELSE uc[k]
             IN IF cur.t = "obj" THEN Obj(applyPatch(cur.f, cp[k].f)) ELSE cur
        ELSE cp[k]
  IN [k \in (DOMAIN uc \cup {j \in DOMAIN cp : cp[j] # Null}) |-> Entry(k)]

\* Mutation: an object in the patch replaces the map at its key by a new
\* one instead of merging into it.
applyPatchResetsObject(uc, cp) ==
  LET Entry(k) ==
        IF k \notin DOMAIN cp THEN uc[k]
        ELSE IF cp[k].t = "obj"
        THEN LET cur == IF k \notin DOMAIN uc \/ uc[k] = Null \/ uc[k].t = "obj"
                        THEN Obj(NoKeys) ELSE uc[k]
             IN IF cur.t = "obj" THEN Obj(applyPatch(cur.f, cp[k].f)) ELSE cur
        ELSE cp[k]
  IN [k \in (DOMAIN uc \cup DOMAIN cp) \ {j \in DOMAIN cp : cp[j] = Null} |->
        Entry(k)]

applyPatch(uc, cp) ==
  LET Entry(k) ==
        IF k \notin DOMAIN cp THEN uc[k]
        ELSE IF cp[k].t = "obj"
        THEN LET cur == IF k \notin DOMAIN uc \/ uc[k] = Null
                        THEN Obj(NoKeys) ELSE uc[k]
             IN IF cur.t = "obj" THEN Obj(applyPatch(cur.f, cp[k].f)) ELSE cur
        ELSE cp[k]
  IN [k \in (DOMAIN uc \cup DOMAIN cp) \ {j \in DOMAIN cp : cp[j] = Null} |->
        Entry(k)]

\* UnsafeInstanceConfig.Patch: to the untyped map, patch, and back.
Patch(uic, cp) == toUnsafeInstanceConfig(applyPatch(toUntypedConfig(uic), cp))

-----------------------------------------------------------------------------
(* Request bodies: JSON values two objects deep over the schema's keys,    *)
(* an unknown key, the given strings, another scalar and null.            *)

Leaves == {Null, Other} \cup {Str(s) : s \in Strings}

ObjectsOver(keys, vals) ==
  UNION {{Obj(f) : f \in [d -> vals]} : d \in SUBSET keys}

NotifierBodies == Leaves \cup ObjectsOver(Fields, Leaves \cup {Obj(NoKeys)})

\* Top-level objects: slack alone, the unknown key alone, or both.
Bodies ==
  Leaves \cup ObjectsOver({"slack"}, NotifierBodies)
         \cup {Obj(OtherKey :> l) : l \in Leaves}
         \cup {Obj(("slack" :> n) @@ (OtherKey :> Str(s))) :
                  n \in NotifierBodies, s \in Strings}

PatchObjects == {b.f : b \in {x \in Bodies : x.t = "obj"}}

Init ==
  /\ config = ZeroConfig
  /\ status = 0

\* GetConfig: answers 200 with the config (HideSecrets gives a
\* SafeInstanceConfig with the same fields); the stored config is untouched.
GetConfig ==
  /\ status' = 200
  /\ UNCHANGED config

\* SetConfig: the body decoded into an UnsafeInstanceConfig is stored; a
\* body that does not decode is a 400.
SetConfig(body) ==
  LET r == DecodeConfig(body) IN
  /\ status' = IF r.ok THEN 200 ELSE 400
  /\ config' = IF r.ok THEN r.cfg ELSE config

\* PatchConfig: the body decodes into a ConfigPatch only if it is an object
\* or null (a nil map); the service patches the stored config and keeps it
\* unless Patch fails, whose plain error ErrorResponse answers with 500.
PatchConfig(body) ==
  LET cp == IF body.t = "obj" THEN body.f ELSE NoKeys
      r  == Patch(config, cp)
  IN
  /\ status' = CASE body.t \notin {"obj", "null"} -> 400
                 [] ~r.ok                         -> 500
                 [] OTHER                         -> 200
  /\ config' = IF body.t \in {"obj", "null"} /\ r.ok THEN r.cfg ELSE config

Next ==
  \/ GetConfig
  \/ \E body \in Bodies : SetConfig(body) \/ PatchConfig(body)

Spec == Init /\ [][Next]_vars

-----------------------------------------------------------------------------
(* Properties.                                                             *)

\* The JSON Merge Patch of RFC 7386, the reference for what a config patch
\* means: an object patch merges into the target (an object, or else {}),
\* null removes a key, anything else replaces the target.
RECURSIVE MergePatch(_, _)
MergePatch(target, patch) ==
  IF patch.t # "obj" THEN patch
  ELSE LET t    == IF target.t = "obj" THEN target.f ELSE NoKeys
           keep == (DOMAIN t \cup DOMAIN patch.f)
                     \ {k \in DOMAIN patch.f : patch.f[k] = Null}
       IN Obj([k \in keep |->
                 IF k \notin DOMAIN patch.f THEN t[k]
                 ELSE MergePatch(IF k \in DOMAIN t THEN t[k] ELSE Null,
                                 patch.f[k])])

\* A patch that stays inside the schema: slack is null or an object whose
\* keys are fields, each set to a string or null.
WellTyped(cp) ==
  /\ DOMAIN cp \subseteq {"slack"}
  /\ "slack" \in DOMAIN cp =>
       \/ cp["slack"] = Null
       \/ /\ cp["slack"].t = "obj"
          /\ \A f \in DOMAIN cp["slack"].f :
               f \in Fields /\ cp["slack"].f[f].t \in {"str", "null"}

\* Does the patch say anything about field f?
Addresses(cp, f) ==
  /\ "slack" \in DOMAIN cp
  /\ cp["slack"].t = "obj" => f \in DOMAIN cp["slack"].f

\* For every stored config the handlers can reach and every patch inside
\* the schema, UnsafeInstanceConfig.Patch (applyPatch between the two JSON
\* conversions) succeeds and gives the RFC 7386 merge of the patch into the
\* config.
PatchIsMergePatch ==
  \A cp \in {p \in PatchObjects : WellTyped(p)} :
    Patch(config, cp) =
      [ok |-> TRUE,
       cfg |-> DecodeConfig(MergePatch(Obj(toUntypedConfig(config)),
                                       Obj(cp))).cfg]

\* For every reachable config and every patch the PatchConfig handler
\* accepts, inside the schema or not, a successful Patch leaves every
\* NotifierConfig field the patch does not address as it was: the round
\* trip through untypedConfig and applyPatch loses nothing.
PatchKeepsUnaddressedFields ==
  \A cp \in PatchObjects :
    LET r == Patch(config, cp) IN
    r.ok => \A f \in Fields : ~Addresses(cp, f) => r.cfg[f] = config[f]
=============================================================================
