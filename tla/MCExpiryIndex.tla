---- MODULE MCExpiryIndex ----
EXTENDS ExpiryIndex
====
