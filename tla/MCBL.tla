---- MODULE MCBL ----
EXTENDS BuildLog
====
