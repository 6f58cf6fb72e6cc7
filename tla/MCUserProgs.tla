---------------------------- MODULE MCUserProgs ----------------------------
(* The init programs over three processes, two descriptors each and a    *)
(* one-entry file table next to the console: init_ref_test's fork shares  *)
(* the entry, init2 holds the console and trek at once.                   *)
EXTENDS UserProgs

MCNames    == {"test.txt", "test_lock.txt", "trek", "x"}
MCDir      == {"test.txt", "test_lock.txt", "trek"}
MCPrograms == {"any", "init_ref_test", "init1", "init2", "lock_test"}

\* The states as the properties see them: no step reads a0 of the state
\* it starts from (a program tests the result of its own syscall only).
MCView == <<proctab, iotab, refcnt, inUse, file, held, upc, booted>>
====
