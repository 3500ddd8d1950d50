------------------------------- MODULE MCPipe -------------------------------
(***************************************************************************)
(* Instances of Pipe for TLC: the fault configurations a run starts with.  *)
(***************************************************************************)
EXTENDS Pipe

NoFaults == [loss |-> FALSE, duplicate |-> FALSE, bandwidth |-> FALSE,
             latency |-> FALSE, min |-> 0, max |-> 0]

(* A network with no fault, or with duplication, at the start.             *)
PlainStart    == {NoFaults, [NoFaults EXCEPT !.duplicate = TRUE]}
(* Latency drawn from 0..2, or a throttle, or both.                        *)
DelayedStart  == {[NoFaults EXCEPT !.latency = TRUE, !.max = 2],
                  [NoFaults EXCEPT !.bandwidth = TRUE],
                  [NoFaults EXCEPT !.bandwidth = TRUE, !.latency = TRUE,
                                   !.max = 2]}
OneRange      == {<<1, 2>>}

=============================================================================
