---- MODULE MCProviderInfo ----
EXTENDS ProviderInfo
\* Names of two lengths
MCSize == [c \in Clients |-> IF c = "b" THEN 3 ELSE 2]
====
