--------------------------- MODULE MC_Conformance ---------------------------
EXTENDS Conformance

\* The field names of the platform's answer types, in the lexical order of
\* ".Name".
MCFieldOrder == <<"Containers", "CreatedAt", "Current", "ID", "Name",
                  "Status", "wall">>
=============================================================================
