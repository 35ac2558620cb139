----------------------------- MODULE MCBenchLock -----------------------------
(* Three supervisors for TLC: two ingest benches, the second of which may   *)
(* run beside others unless a configuration says otherwise, and one that    *)
(* only retrieves.                                                          *)
EXTENDS BenchLock
CONSTANTS ingest1, ingest2, reader
MCBench   == {ingest1, ingest2, reader}
MCIngest  == {ingest1, ingest2}
MCAllowed == {ingest2}
=============================================================================
