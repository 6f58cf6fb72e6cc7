----------------------------- MODULE MCProcIo -----------------------------
(* The descriptor tables of three processes over a two-entry file table.  *)
EXTENDS ProcIo

MCNames == {"a", "b", "x"}
MCDir   == {"a", "b"}

\* The states as the properties see them: a0 of every process is left out.
MCView == <<proctab, iotab, refcnt, inUse, file, held>>
====
