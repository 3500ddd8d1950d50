-------------------------------- MODULE Link --------------------------------
(***************************************************************************)
(* What one direction of a connection promises its two ends, whatever      *)
(* faults are configured: a stream of whole units, each lost, delivered or *)
(* delivered twice in a row, read in order and without gaps, with an end   *)
(* of stream that comes after the last byte and only once.  Time, buffers, *)
(* timers and blocked calls are left out.                                  *)
(***************************************************************************)
EXTENDS Naturals, Sequences

CONSTANT Sizes   \* lengths of the units written

VARIABLES
    issued, \* units written
    sent,   \* unit of every byte accepted for delivery
    rcvd,   \* unit of every byte the reader was given
    ended,  \* the writer may write no more
    dead,   \* the reader may read no more
    eof     \* the reader was told the stream has ended

linkVars == <<issued, sent, rcvd, ended, dead, eof>>

LinkInit == /\ issued = 0 /\ sent = <<>> /\ rcvd = <<>>
            /\ ended = FALSE /\ dead = FALSE /\ eof = FALSE

(* A whole unit is lost, sent, or sent twice.                              *)
Send == /\ ~ended
        /\ issued' = issued + 1
        /\ \E size \in Sizes, copies \in 0..2 :
              sent' = sent \o [b \in 1..(copies * size) |-> issued + 1]
        /\ UNCHANGED <<rcvd, ended, dead, eof>>

(* The next bytes of the stream.                                           *)
Receive == /\ ~dead
           /\ \E n \in 0..(Len(sent) - Len(rcvd)) :
                 rcvd' = rcvd \o [b \in 1..n |-> sent[Len(rcvd) + b]]
           /\ UNCHANGED <<issued, sent, ended, dead, eof>>

ReportEOF == /\ ended /\ ~dead
             /\ rcvd = sent
             /\ eof' = TRUE
             /\ UNCHANGED <<issued, sent, rcvd, ended, dead>>

End == ended' = TRUE /\ UNCHANGED <<issued, sent, rcvd, dead, eof>>

Kill == ended' = TRUE /\ dead' = TRUE /\ UNCHANGED <<issued, sent, rcvd, eof>>

LinkNext == Send \/ Receive \/ ReportEOF \/ End \/ Kill

LinkSpec == LinkInit /\ [][LinkNext]_linkVars
=============================================================================
