------------------------------ MODULE MCInvoker ------------------------------
(* A compilation and a test, of which the binary and the checker are one file here,
   the input and the answer another, each locked twice; the cache has room for one
   of the smaller files.                                                        *)
EXTENDS InvokerJobs, TLC

CONSTANTS c1, t1, source, program, data

MCFiles == (c1 :> <<source>>) @@ (t1 :> <<program, data, data, program>>)
MCSizeOf == [f \in File |-> IF f = program THEN 3 ELSE 1]
=============================================================================
