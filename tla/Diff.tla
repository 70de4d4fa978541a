-------------------------------- MODULE Diff --------------------------------
(***************************************************************************)
(* One comparison with the diff oracle (DiffAlgorithm): two values of the  *)
(* given types, and what Diff returns for them.  Values are drawn from     *)
(* small sets: scalars from Scalars, map keys from Keys (one-digit         *)
(* naturals, so %v prints one digit), slices up to MaxLen long, pointers   *)
(* nil only when NilPointers.                                              *)
(***************************************************************************)
EXTENDS DiffAlgorithm

CONSTANTS
  Scalars,      \* values of ground types
  Keys,         \* map keys
  MaxLen,       \* longest slice
  NilPointers,  \* whether pointers may be nil
  Types         \* the types of the values compared

ASSUME Keys \subseteq 0..9 /\ MaxLen \in 0..9
ASSUME NilPointers \in BOOLEAN

RECURSIVE Values(_), FieldValues(_)
Values(t) ==
  CASE t.kind = "scalar" -> Scalars
    [] t.kind = "slice"  -> UNION {[1..n -> Values(t.elem)] : n \in 0..MaxLen}
    [] t.kind = "map"    -> UNION {[K -> Values(t.elem)] : K \in SUBSET Keys}
    [] t.kind = "ptr"    -> {<<v>> : v \in Values(t.elem)}
                              \cup (IF NilPointers THEN {<<>>} ELSE {})
    [] t.kind = "struct" -> FieldValues(t.fields)
    [] OTHER             -> {Opaque}

\* The tuples of values of a sequence of fields.
FieldValues(fs) ==
  IF fs = <<>> THEN {<<>>}
  ELSE {<<v>> \o r : v \in Values(Head(fs).type), r \in FieldValues(Tail(fs))}

-----------------------------------------------------------------------------
(* One comparison, as the conformance battery makes it: two values, each   *)
(* of one of the Types, and the result of Diff on them.                    *)

VARIABLES typA, a, typB, b, result

vars == <<typA, a, typB, b, result>>

NoResult == [err |-> "pending", chunks |-> <<>>]

Init ==
  /\ typA \in Types /\ typB \in Types
  /\ a \in Values(typA) /\ b \in Values(typB)
  /\ result = NoResult

\* Diff(a, b), returning or panicking.
Compare ==
  /\ result = NoResult
  /\ result' = Diff(typA, a, typB, b)
  /\ UNCHANGED <<typA, a, typB, b>>

\* The comparison has been made; nothing further happens.
Compared == result # NoResult /\ UNCHANGED vars

Next == Compare \/ Compared

Spec == Init /\ [][Next]_vars /\ WF_vars(Compare)

-----------------------------------------------------------------------------
(* Properties.                                                             *)

TypeOK ==
  /\ typA \in Types /\ typB \in Types
  /\ a \in Values(typA) /\ b \in Values(typB)
  /\ result.err \in Errors \cup {"pending"}
  /\ result.err # "none" => result.chunks = <<>>

\* A value as far as its exported state goes: every unexported struct
\* field, at any depth, replaced by one placeholder.  The reference for
\* what Diff can see.  A chunk that did not apply stays Conflict.
RECURSIVE ExportedView(_, _)
ExportedView(t, v) ==
  CASE v = Conflict      -> v
    [] t.kind = "slice"  -> [i \in DOMAIN v |-> ExportedView(t.elem, v[i])]
    [] t.kind = "map"    -> [k \in DOMAIN v |-> ExportedView(t.elem, v[k])]
    [] t.kind = "ptr"    -> IF v = <<>> THEN v
                            ELSE <<ExportedView(t.elem, v[1])>>
    [] t.kind = "struct" ->
         [i \in DOMAIN v |-> IF t.fields[i].exported
                             THEN ExportedView(t.fields[i].type, v[i])
                             ELSE Opaque]
    [] OTHER             -> v

\* The chunks Diff returns account for the whole exported difference:
\* applying them in the order returned (positional for slices, sorted by
\* path for maps) to a yields b up to unexported state, and every chunk
\* deletes what a holds at its path.  This is what the conformance
\* battery relies on when it takes "no chunks" to mean "the transport
\* changed nothing".
DiffPatchRoundTrip ==
  result.err = "none" =>
    ExportedView(typA, PatchAll(a, typA, result.chunks)) = ExportedView(typA, b)

\* Diff is blind to unexported state and to nothing else: two values of
\* one type diff empty exactly when they agree on every exported field
\* (diffStruct's PkgPath test).  So two time.Time values, or any values
\* differing only in unexported fields, pass the battery's check as equal.
DiffBlindOnlyToUnexported ==
  result.err = "none" /\ typA = typB =>
    ((result.chunks = <<>>) <=> (ExportedView(typA, a) = ExportedView(typA, b)))

\* diff(v, v) is empty (spec §8), unless v holds an interface or func
\* value, which the code refuses to compare: diffValue never reports a
\* difference, an error or a panic for two equal values.
DiffReflexive ==
  (result # NoResult /\ typA = typB /\ a = b)
    => (result = Ok(<<>>) \/ result.err = "notImplemented")

=============================================================================
