---- MODULE MCPipe ----
EXTENDS Pipeline, TLC
====
