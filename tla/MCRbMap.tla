------------------------------ MODULE MCRbMap ------------------------------
EXTENDS RbMap
\* Five keys, each with a value of its own.
SettingsMC == {<<k, k>> : k \in 1 .. 5}
=============================================================================
