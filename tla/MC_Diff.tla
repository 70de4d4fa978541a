------------------------------ MODULE MC_Diff ------------------------------
(* Types for checking Diff: one of each shape the code dispatches on, and  *)
(* nestings of them (a map of structs holding pointers, a slice of slices). *)
EXTENDS Diff

\* A struct of exported fields, one behind a pointer.
MCRecord == TStruct(<<Field("A", TRUE, TScalar), Field("B", TRUE, TPtr(TScalar))>>)

\* A struct with an interface field, like a field of type interface{}.
MCOpaque == TStruct(<<Field("ID", TRUE, TScalar), Field("X", TRUE, TInterface)>>)

\* A struct with an unexported field, like time.Time's wall clock.
MCHidden == TStruct(<<Field("ID", TRUE, TScalar), Field("x", FALSE, TScalar)>>)

MCTypes == {TSlice(TScalar), TMap(TScalar), MCRecord, TMap(MCRecord),
            TSlice(TSlice(TScalar)), MCOpaque, TSlice(MCHidden)}

MCPtrTypes == {TPtr(TScalar), TPtr(TSlice(TScalar))}

MCFieldOrder == <<"A", "B", "ID", "X", "x">>
=============================================================================
