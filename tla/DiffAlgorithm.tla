--------------------------- MODULE DiffAlgorithm ---------------------------
(***************************************************************************)
(* The structural diff oracle of remote/mock.go: Diff, diffValue,          *)
(* diffStruct, diffArrayOrSlice, diffMap and the sort of map chunks, as    *)
(* operators over type descriptors and values.                             *)
(*                                                                         *)
(* reflect.Type is modelled by a type descriptor (a record with a "kind"); *)
(* a value of a type is:                                                   *)
(*   scalar    a value compared with =                                     *)
(*   slice     a sequence of values of the element type                    *)
(*   map       a function from a set of keys to values                     *)
(*   struct    a tuple with one value per field, in declaration order      *)
(*   ptr       <<v>>, or <<>> for a nil pointer                            *)
(*   interface and func values are never looked into                       *)
(* A chunk's path is a sequence of path segments, each standing for the   *)
(* text the code appends to the path string: ".Name" for a field, "[n]"    *)
(* for a slice index or a map key (%d and %v of a one-digit number).       *)
(* The chunks of a map are sorted as strings.Compare sorts those texts.    *)
(***************************************************************************)
EXTENDS Naturals, Sequences, SequencesExt

CONSTANTS
  FieldOrder,   \* every field name, in the lexical order of ".Name"
  Conflict      \* a model value: the outcome of a chunk that does not apply

-----------------------------------------------------------------------------
(* Types, values, chunks.                                                  *)

TScalar     == [kind |-> "scalar"]
TSlice(t)   == [kind |-> "slice", elem |-> t]
TMap(t)     == [kind |-> "map", elem |-> t]
TPtr(t)     == [kind |-> "ptr", elem |-> t]
TInterface  == [kind |-> "interface"]
TFunc       == [kind |-> "func"]
Field(name, exported, t) == [name |-> name, exported |-> exported, type |-> t]
TStruct(fs) == [kind |-> "struct", fields |-> fs]

Opaque == "opaque"   \* the one value of an interface or func type here

FieldSeg(name) == [sep |-> ".", name |-> name, n |-> 0]
IndexSeg(n)    == [sep |-> "[", name |-> "", n |-> n]

Chunk(path, deleted, added) ==
  [path |-> path, deleted |-> deleted, added |-> added]

\* Changed, Added, Removed: the chunk constructors.
Changed(A, B, path) == Chunk(path, <<A>>, <<B>>)
Added(B, path)      == Chunk(path, <<>>, <<B>>)
Removed(A, path)    == Chunk(path, <<A>>, <<>>)

\* The result of a diff: chunks, or one of the errors the code returns
\* (ErrNotDiffable, "... not implemented", "both values must be maps"),
\* or a panic of the reflect package.
Ok(chunks) == [err |-> "none", chunks |-> chunks]
Fail(e)    == [err |-> e, chunks |-> <<>>]
Errors == {"none", "notDiffable", "notImplemented", "notMaps", "panic"}

-----------------------------------------------------------------------------
(* The order of chunk paths: strings.Compare on the formatted paths.       *)

FieldRank(name) == CHOOSE i \in 1..Len(FieldOrder) : FieldOrder[i] = name

\* "." sorts before "["; field names by FieldOrder; one-digit indices and
\* keys by value.  No field name is a prefix of another, so comparing
\* segment by segment is comparing the strings.
SegLess(s, u) ==
  CASE s.sep = "." /\ u.sep = "." -> FieldRank(s.name) < FieldRank(u.name)
    [] s.sep = "." /\ u.sep = "[" -> TRUE
    [] s.sep = "[" /\ u.sep = "." -> FALSE
    [] OTHER                      -> s.n < u.n

RECURSIVE PathLess(_, _)
PathLess(p, q) ==
  CASE p = <<>>           -> q # <<>>
    [] q = <<>>           -> FALSE
    [] Head(p) = Head(q)  -> PathLess(Tail(p), Tail(q))
    [] OTHER              -> SegLess(Head(p), Head(q))

\* sort.Sort(sorted(diffs)): the paths of one map's chunks are distinct,
\* so sorting the set of chunks gives the code's order.
SortChunks(chunks) ==
  SetToSortSeq(chunks, LAMBDA c, d : PathLess(c.path, d.path))


-----------------------------------------------------------------------------
(* The algorithm.                                                          *)

\* What diffValue does with the zero reflect.Value that reflect.Indirect
\* yields for a nil pointer, by the kind of the pointee: Len, Field and
\* Interface panic on it, Kind() is Invalid (so diffMap refuses it), and a
\* struct with no exported field is never touched.
RECURSIVE NilDeref(_)
NilDeref(t) ==
  CASE t.kind \in {"interface", "func"} -> Fail("notImplemented")
    [] t.kind = "ptr"    -> NilDeref(t.elem)
    [] t.kind = "map"    -> Fail("notMaps")
    [] t.kind = "struct" -> IF \E i \in 1..Len(t.fields) : t.fields[i].exported
                            THEN Fail("panic") ELSE Ok(<<>>)
    [] OTHER             -> Fail("panic")

\* Mutation: an error is returned together with the chunks gathered so
\* far ("return diffs, err").
ThenKeepsChunks(d, rest) ==
  IF d.err # "none" THEN d
  ELSE IF rest.err # "none" THEN [err |-> rest.err, chunks |-> d.chunks]
  ELSE Ok(d.chunks \o rest.chunks)

\* Concatenate a chunk list with the rest, the first error winning.
Then(d, rest) ==
  IF d.err # "none" THEN d
  ELSE IF rest.err # "none" THEN rest
  ELSE Ok(d.chunks \o rest.chunks)

RECURSIVE diffValue(_, _, _, _), diffFields(_, _, _, _, _),
          diffElems(_, _, _, _, _), diffArrayOrSlice(_, _, _, _),
          diffMap(_, _, _, _)

\* diffValue: dispatch on the kind of the static type.
diffValue(a, b, typ, path) ==
  CASE typ.kind = "slice"     -> diffArrayOrSlice(a, b, typ, path)
    [] typ.kind = "interface" -> Fail("notImplemented")
    [] typ.kind = "ptr"       -> IF a = <<>> \/ b = <<>>
                                 THEN NilDeref(typ.elem)
                                 ELSE diffValue(a[1], b[1], typ.elem, path)
    [] typ.kind = "struct"    -> diffFields(a, b, typ, path, 1)
    [] typ.kind = "map"       -> diffMap(a, b, typ.elem, path)
    [] typ.kind = "func"      -> Fail("notImplemented")
    [] OTHER                  -> IF a # b THEN Ok(<<Changed(a, b, path)>>)
                                 ELSE Ok(<<>>)

\* Mutation: unexported fields are compared too.
diffFieldsAll(a, b, typ, path, i) ==
  IF i > Len(typ.fields) THEN Ok(<<>>)
  ELSE LET f == typ.fields[i] IN
       Then(diffValue(a[i], b[i], f.type, Append(path, FieldSeg(f.name))),
            diffFields(a, b, typ, path, i + 1))

\* diffStruct: each exported field from the i-th on, in declaration order.
diffFields(a, b, typ, path, i) ==
  IF i > Len(typ.fields) THEN Ok(<<>>)
  ELSE LET f == typ.fields[i] IN
       IF ~f.exported THEN diffFields(a, b, typ, path, i + 1)
       ELSE Then(diffValue(a[i], b[i], f.type, Append(path, FieldSeg(f.name))),
                 diffFields(a, b, typ, path, i + 1))

\* diffArrayOrSlice's loop with the path index printed one too high.
diffElemsIndexFromOne(a, b, typ, path, i) ==
  IF i >= Len(a) \/ i >= Len(b) THEN Ok(<<>>)
  ELSE Then(diffValue(a[i + 1], b[i + 1], typ.elem, Append(path, IndexSeg(i + 1))),
            diffElems(a, b, typ, path, i + 1))

\* diffArrayOrSlice's loop: the elements at 0-based positions i.. up to
\* the shorter length.
diffElems(a, b, typ, path, i) ==
  IF i >= Len(a) \/ i >= Len(b) THEN Ok(<<>>)
  ELSE Then(diffValue(a[i + 1], b[i + 1], typ.elem, Append(path, IndexSeg(i))),
            diffElems(a, b, typ, path, i + 1))

\* diffArrayOrSlice: the common prefix element by element, then one chunk
\* with the overbite (deleted) or underbite (added) at the first index
\* past it.
diffArrayOrSlice(a, b, typ, path) ==
  LET common  == IF Len(a) < Len(b) THEN Len(a) ELSE Len(b)
      changed == diffElems(a, b, typ, path, 0)
      tail    == Append(path, IndexSeg(common))
  IN
  CASE changed.err # "none" -> changed
    [] common < Len(a) ->
         Ok(Append(changed.chunks, Chunk(tail, SubSeq(a, common + 1, Len(a)), <<>>)))
    [] common < Len(b) ->
         Ok(Append(changed.chunks, Chunk(tail, <<>>, SubSeq(b, common + 1, Len(b)))))
    [] OTHER -> changed

\* diffMap: keys of both recurse, keys of a only are Removed, keys of b
\* only are Added, and the chunks are sorted by path.  Go iterates a map in
\* no fixed order, so when entries fail differently the error returned
\* depends on that order; here a panic is taken first.
diffMap(a, b, elemTyp, path) ==
  LET both  == DOMAIN a \cap DOMAIN b
      sub   == [k \in both |-> diffValue(a[k], b[k], elemTyp,
                                         Append(path, IndexSeg(k)))]
      errs  == {sub[k].err : k \in both} \ {"none"}
  IN
  IF errs # {}
  THEN Fail(IF "panic" \in errs THEN "panic" ELSE CHOOSE e \in errs : TRUE)
  ELSE Ok(SortChunks(
         UNION {ToSet(sub[k].chunks) : k \in both}
         \cup {Removed(a[k], Append(path, IndexSeg(k))) : k \in DOMAIN a \ DOMAIN b}
         \cup {Added(b[k], Append(path, IndexSeg(k))) : k \in DOMAIN b \ DOMAIN a}))

\* Diff: values of different runtime types are not diffable.
Diff(typA, a, typB, b) ==
  IF typA # typB THEN Fail("notDiffable") ELSE diffValue(a, b, typA, <<>>)


-----------------------------------------------------------------------------
(* What a chunk means, as a reference: the value at Path loses Deleted and *)
(* gains Added.  Patch applies one chunk to a value of type t, and yields  *)
(* Conflict when the value does not hold what the chunk says it deletes.   *)

RECURSIVE Patch(_, _, _, _)
Patch(v, t, path, ch) ==
  LET seg  == Head(path)
      last == Len(path) = 1
  IN
  CASE v = Conflict -> Conflict
    [] t.kind = "ptr" -> IF v = <<>> THEN Conflict
                         ELSE <<Patch(v[1], t.elem, path, ch)>>
    [] path = <<>> ->                     \* a ground value replaced
         IF ch.deleted = <<v>> /\ Len(ch.added) = 1 THEN ch.added[1] ELSE Conflict
    [] t.kind = "struct" ->
         LET i == CHOOSE j \in 1..Len(t.fields) : t.fields[j].name = seg.name
         IN [v EXCEPT ![i] = Patch(v[i], t.fields[i].type, Tail(path), ch)]
    [] t.kind = "slice" /\ last /\ ch.added = <<>> ->      \* overbite
         IF SubSeq(v, seg.n + 1, Len(v)) = ch.deleted
         THEN SubSeq(v, 1, seg.n) ELSE Conflict
    [] t.kind = "slice" /\ last /\ ch.deleted = <<>> ->    \* underbite
         IF Len(v) = seg.n THEN v \o ch.added ELSE Conflict
    [] t.kind = "slice" ->
         IF seg.n < Len(v)
         THEN [v EXCEPT ![seg.n + 1] = Patch(v[seg.n + 1], t.elem, Tail(path), ch)]
         ELSE Conflict
    [] t.kind = "map" /\ last /\ ch.added = <<>> ->        \* Removed
         IF seg.n \in DOMAIN v /\ ch.deleted = <<v[seg.n]>>
         THEN [k \in DOMAIN v \ {seg.n} |-> v[k]] ELSE Conflict
    [] t.kind = "map" /\ last /\ ch.deleted = <<>> ->      \* Added
         IF seg.n \notin DOMAIN v /\ Len(ch.added) = 1
         THEN [k \in DOMAIN v \cup {seg.n} |-> IF k = seg.n THEN ch.added[1] ELSE v[k]]
         ELSE Conflict
    [] t.kind = "map" ->
         IF seg.n \in DOMAIN v
         THEN [v EXCEPT ![seg.n] = Patch(v[seg.n], t.elem, Tail(path), ch)]
         ELSE Conflict
    [] OTHER -> Conflict

\* Apply a chunk list in order.
PatchAll(v, t, chunks) == FoldLeft(LAMBDA acc, ch : Patch(acc, t, ch.path, ch), v, chunks)

=============================================================================
