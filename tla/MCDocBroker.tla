---- MODULE MCDocBroker ----
EXTENDS DocBroker
====
