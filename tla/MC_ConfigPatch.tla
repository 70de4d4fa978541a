--------------------------- MODULE MC_ConfigPatch ---------------------------
EXTENDS ConfigPatch

\* NotifierConfig's three string fields, and three strings besides "", so that
\* a patch can set, keep, clear or overwrite each field.
MCFields == {"hookURL", "username", "releaseTemplate"}
MCStrings == {"a", "b", "c"}
=============================================================================
