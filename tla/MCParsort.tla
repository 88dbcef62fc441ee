----------------------------- MODULE MCParsort -----------------------------
(* Files of three values: one without elements, those of three sorted by     *)
(* five processes, those of four sorted by three.                            *)
EXTENDS Parsort

MCValues == {-1, 0, 1}
MCJobs == {<<0, 1>>, <<3, 1>>, <<4, 2>>}
=============================================================================
