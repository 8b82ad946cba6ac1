---------------------------- MODULE MCSelfUpdate -----------------------------
EXTENDS SelfUpdate

CONSTANTS c1, k1

MCParts   == <<"docs", "VERSION", "dist">>
NoNewDocs == <<{"docs", "VERSION", "dist"}, {"VERSION", "dist"}>>   \* release 2 has none
OneCheck  == {c1}
OneClick  == {k1}
=============================================================================
