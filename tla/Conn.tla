-------------------------------- MODULE Conn --------------------------------
(***************************************************************************)
(* The two ends of a connection: the Read and Write loops of conn.go with  *)
(* their deadlines (deadline.go), Close, and Network.Reset of this pair    *)
(* (reset.go).  The loops hold no lock from one check to the next, so each *)
(* check is an action.  A pipe is reduced to what the loops see of it:     *)
(* Pipe.tla has the rest.                                                  *)
(***************************************************************************)
EXTENDS Integers, Sequences

CONSTANTS
    Calls,     \* the <<end, operation>> pairs some goroutine calls
    Closers,   \* the ends whose user calls Close
    Room,      \* units a pipe admits before a Write blocks
    Deadlines, \* what the deadline setters are called with
    MaxCallbacks \* bound: callbacks of one deadline waiting for d.mu

ASSUME CallsAssumption == Calls \subseteq {"client", "server"} \X {"read", "write"}
ASSUME ClosersAssumption == Closers \subseteq {"client", "server"}
ASSUME RoomAssumption  == Room \in Nat \ {0}
ASSUME DeadlineAssumption == /\ Deadlines \subseteq {"zero", "past", "future"}
                             /\ MaxCallbacks \in Nat \ {0}

VARIABLES
    pipe,        \* by the end that writes into it
    partitioned, \* whether the pair is partitioned
    closed,      \* close(c.closed) has run
    closer,      \* how far Close has come
    reset,       \* close(c.resetCh) has run
    targets,     \* n.resetTargets of the pair, in order
    resetter,    \* the Reset call under way, and what it has left to do
    dl,          \* the deadlines: rd and wd of either end
    call,        \* the calls in progress
    result,      \* what the last call returned
    reacted      \* history: ends whose Close began after Reset signalled them

connVars == <<pipe, partitioned, closed, closer, reset, targets, resetter, dl,
              call, result, reacted>>

-----------------------------------------------------------------------------
Ends == {"client", "server"}
Peer(e) == IF e = "client" THEN "server" ELSE "client"

(* The pipe an operation of an end works on.                               *)
PipeOf(c) == IF c[2] = "read" THEN Peer(c[1]) ELSE c[1]

(* held: admitted and delayed; hidden from the reader like the rest of     *)
(* pipe.pending until released.                                            *)
NewPipe == [closed |-> FALSE, readClosed |-> FALSE, eofSeen |-> FALSE,
            held |-> 0, readable |-> 0]

(* t relative to the clock, the timer, the callbacks that wait for d.mu,   *)
(* and whether a setter found the end open and has yet to call set.        *)
NewDeadline == [t |-> "zero", timer |-> FALSE, callbacks |-> 0, setting |-> FALSE]
Expired(c) == dl[c].t = "past"

(* on: the channel the pipe gave, and whether it or the deadline's channel *)
(* was closed since.                                                       *)
Fresh(step) == [at |-> step, on |-> "none", woken |-> FALSE, bumped |-> FALSE]
NoCall      == Fresh("idle")

ConnInit ==
    /\ pipe = [e \in Ends |-> NewPipe] /\ partitioned = FALSE
    /\ closed = [e \in Ends |-> FALSE] /\ closer = [e \in Ends |-> "none"]
    /\ reset = [e \in Ends |-> FALSE]
    /\ targets = <<"client", "server">>
    /\ resetter = [at |-> "idle", todo |-> <<>>, aborts |-> <<>>]
    /\ dl = [c \in Calls |-> NewDeadline]
    /\ call = [c \in Calls |-> NoCall] /\ result = [c \in Calls |-> "none"]
    /\ reacted = {}

(* broadcastLocked on the pipe e writes.                                   *)
Broadcast(calls, e) ==
    [c \in Calls |-> IF PipeOf(c) = e /\ calls[c].on = "notify"
                     THEN [calls[c] EXCEPT !.woken = TRUE] ELSE calls[c]]

(* bumpLocked: whoever holds the current channel, and may yet select on    *)
(* it, is woken.                                                           *)
HoldsChannel(c) == call[c].at \in {"expired?", "try", "expired again?", "select"}
Bump(c) == call' = [call EXCEPT ![c].bumped = @ \/ HoldsChannel(c)]

-----------------------------------------------------------------------------
(* The loop of Read and Write, check by check.                             *)
GoTo(c, step) == call' = [call EXCEPT ![c].at = step] /\ UNCHANGED result
Restart(c, step) == call' = [call EXCEPT ![c] = Fresh(step)]
Return(c, r)  == /\ call' = [call EXCEPT ![c] = NoCall]
                 /\ result' = [result EXCEPT ![c] = r]

untouched == <<partitioned, closed, closer, reset, targets, resetter, dl, reacted>>

Begin(c) ==
    /\ call[c].at = "idle"
    /\ Restart(c, "closed?")
    /\ result' = [result EXCEPT ![c] = "none"]
    /\ UNCHANGED <<pipe, untouched>>

(* Before the pipe is tried, and again before its error is returned.       *)
CheckClosed(c) ==
    /\ \/ call[c].at = "closed?" /\ ~closed[c[1]] /\ GoTo(c, "reset?")
       \/ call[c].at = "closed again?" /\ ~closed[c[1]] /\ GoTo(c, "reset again?")
       \/ call[c].at \in {"closed?", "closed again?"} /\ closed[c[1]]
            /\ Return(c, "ErrClosed")
    /\ UNCHANGED <<pipe, untouched>>

PipeError(c) == IF c[2] = "read" THEN "EOF" ELSE "EPIPE"

(* Seeded fault: the error of the pipe is returned without a second look.  *)
CheckResetOnce(c) ==
    /\ \/ call[c].at = "reset?" /\ ~reset[c[1]] /\ GoTo(c, "snapshot")
       \/ call[c].at = "reset?" /\ reset[c[1]] /\ Return(c, "ECONNRESET")
       \/ call[c].at = "reset again?" /\ Return(c, PipeError(c))
    /\ UNCHANGED <<pipe, untouched>>

CheckReset(c) ==
    /\ \/ call[c].at = "reset?" /\ ~reset[c[1]] /\ GoTo(c, "snapshot")
       \/ call[c].at = "reset again?" /\ ~reset[c[1]] /\ Return(c, PipeError(c))
       \/ call[c].at \in {"reset?", "reset again?"} /\ reset[c[1]]
            /\ Return(c, "ECONNRESET")
    /\ UNCHANGED <<pipe, untouched>>

(* dch := d.channel().                                                     *)
Snapshot(c) ==
    /\ call[c].at = "snapshot"
    /\ GoTo(c, "expired?")
    /\ UNCHANGED <<pipe, untouched>>

(* Write looks once more before it waits.                                  *)
CheckExpired(c) ==
    /\ \/ call[c].at = "expired?" /\ ~Expired(c) /\ GoTo(c, "try")
       \/ call[c].at = "expired again?" /\ ~Expired(c) /\ GoTo(c, "select")
       \/ call[c].at \in {"expired?", "expired again?"} /\ Expired(c)
            /\ Return(c, "ErrDeadlineExceeded")
    /\ UNCHANGED <<pipe, untouched>>

Await(c, ch, step) ==
    call' = [call EXCEPT ![c].at = step, ![c].on = ch, ![c].woken = FALSE]

(* tryRead.                                                                *)
TryRead(c) ==
    LET p == pipe[PipeOf(c)]
    IN  /\ call[c].at = "try" /\ c[2] = "read"
        /\ \/ /\ p.readClosed
              /\ Restart(c, "closed again?")
              /\ UNCHANGED <<pipe, result>>
           \/ /\ ~p.readClosed /\ p.readable > 0
              /\ pipe' = [pipe EXCEPT ![PipeOf(c)].readable = @ - 1]
              /\ call' = [Broadcast(call, PipeOf(c)) EXCEPT ![c] = NoCall]
              /\ result' = [result EXCEPT ![c] = "data"]
           \/ /\ ~p.readClosed /\ p.readable = 0 /\ p.closed /\ p.held = 0
              /\ IF ~p.eofSeen /\ partitioned
                 THEN Await(c, "partition", "select") /\ UNCHANGED <<pipe, result>>
                 ELSE /\ pipe' = [pipe EXCEPT ![PipeOf(c)].eofSeen = TRUE]
                      /\ Restart(c, "closed again?")
                      /\ UNCHANGED result
           \/ /\ ~p.readClosed /\ p.readable = 0 /\ ~(p.closed /\ p.held = 0)
              /\ Await(c, "notify", "select")
              /\ UNCHANGED <<pipe, result>>
        /\ UNCHANGED untouched

(* Seeded fault: a full pipe admits one unit more.                         *)
HasRoomFor(p) == p.held + p.readable <= Room

HasRoom(p) == p.held + p.readable < Room

(* tryWrite: the unit is dropped, or it and maybe a duplicate, for which   *)
(* nobody looks for room, are made readable or held back; only in the last *)
(* case nobody is woken.                                                   *)
TryWrite(c) ==
    LET p == pipe[PipeOf(c)]
    IN  /\ call[c].at = "try" /\ c[2] = "write"
        /\ \/ /\ p.closed \/ p.readClosed
              /\ Restart(c, "closed again?")
              /\ UNCHANGED <<pipe, result>>
           \/ /\ ~p.closed /\ ~p.readClosed /\ HasRoom(p)
              /\ \/ /\ \/ UNCHANGED pipe
                       \/ /\ ~partitioned
                          /\ \E copies \in 1..2 : pipe' =
                                [pipe EXCEPT ![PipeOf(c)].readable = @ + copies]
                    /\ call' = [Broadcast(call, PipeOf(c)) EXCEPT ![c] = NoCall]
                 \/ /\ ~partitioned
                    /\ \E copies \in 1..2 :
                          pipe' = [pipe EXCEPT ![PipeOf(c)].held = @ + copies]
                    /\ call' = [call EXCEPT ![c] = NoCall]
              /\ result' = [result EXCEPT ![c] = "data"]
           \/ /\ ~p.closed /\ ~p.readClosed /\ ~HasRoom(p)
              /\ Await(c, "notify", "expired again?")
              /\ UNCHANGED <<pipe, result>>
        /\ UNCHANGED untouched

(* Seeded fault: the select waits for the pipe and the deadline only.      *)
SelectPipeOrDeadline(c) ==
    /\ call[c].at = "select"
    /\ call[c].woken \/ call[c].bumped
    /\ Restart(c, "closed?")
    /\ UNCHANGED <<pipe, untouched, result>>

(* The select at the foot of the loop.                                     *)
Select(c) ==
    /\ call[c].at = "select"
    /\ call[c].woken \/ call[c].bumped \/ closed[c[1]] \/ reset[c[1]]
    /\ Restart(c, "closed?")
    /\ UNCHANGED <<pipe, untouched, result>>

CallStep(c) ==
    \/ CheckClosed(c) \/ CheckReset(c) \/ Snapshot(c) \/ CheckExpired(c)
    \/ TryRead(c) \/ TryWrite(c) \/ Select(c)

-----------------------------------------------------------------------------
(* The setters: the check that the end is open, then, in a step of its     *)
(* own, set.                                                               *)
others == <<pipe, partitioned, closed, closer, reset, targets, resetter, result,
            reacted>>

SetDeadline(c) ==
    /\ ~dl[c].setting /\ ~closed[c[1]] /\ Deadlines # {}
    /\ dl' = [dl EXCEPT ![c].setting = TRUE]
    /\ UNCHANGED <<others, call>>

(* Seeded fault: set wakes nobody.                                         *)
SetSilently(c) ==
    /\ dl[c].setting
    /\ \E t \in Deadlines :
          dl' = [dl EXCEPT ![c].t = t, ![c].timer = (t = "future"),
                           ![c].setting = FALSE]
    /\ UNCHANGED <<others, call>>

Set(c) ==
    /\ dl[c].setting
    /\ \E t \in Deadlines :
          dl' = [dl EXCEPT ![c].t = t, ![c].timer = (t = "future"),
                           ![c].setting = FALSE]
    /\ Bump(c)
    /\ UNCHANGED others

(* The clock passes the deadline, the runtime launches the callback, the   *)
(* callback takes d.mu.                                                    *)
Elapse(c) ==
    /\ dl[c].t = "future"
    /\ dl' = [dl EXCEPT ![c].t = "past"]
    /\ UNCHANGED <<others, call>>

Launch(c) ==
    /\ dl[c].timer /\ Expired(c) /\ dl[c].callbacks < MaxCallbacks
    /\ dl' = [dl EXCEPT ![c].timer = FALSE, ![c].callbacks = @ + 1]
    /\ UNCHANGED <<others, call>>

(* Seeded fault: the callback wakes nobody.                                *)
FireSilently(c) ==
    /\ dl[c].callbacks > 0
    /\ dl' = [dl EXCEPT ![c].callbacks = @ - 1]
    /\ UNCHANGED <<others, call>>

Fire(c) ==
    /\ dl[c].callbacks > 0
    /\ dl' = [dl EXCEPT ![c].callbacks = @ - 1]
    /\ Bump(c)
    /\ UNCHANGED others

-----------------------------------------------------------------------------
(* Close, in the order of its statements; the two stops are one step.      *)
PipeClose(p) == [p EXCEPT !.closed = TRUE]
PipeAbort(p) == [p EXCEPT !.closed = TRUE, !.readClosed = TRUE,
                          !.held = 0, !.readable = 0]

CloseEnd(e) ==
    /\ closer[e] = "none" /\ e \in Closers
    /\ closed' = [closed EXCEPT ![e] = TRUE]
    /\ closer' = [closer EXCEPT ![e] = "deregister"]
    /\ reacted' = IF reset[e] THEN reacted \cup {e} ELSE reacted
    /\ UNCHANGED <<pipe, partitioned, reset, targets, resetter, dl, call, result>>

(* deregisterReset takes out the first entry that is this end.             *)
CloseDeregisters(e) ==
    /\ closer[e] = "deregister"
    /\ \/ \E i \in 1..Len(targets) :
             /\ targets[i] = e /\ \A j \in 1..(i - 1) : targets[j] # e
             /\ targets' = SubSeq(targets, 1, i - 1)
                             \o SubSeq(targets, i + 1, Len(targets))
       \/ (\A i \in 1..Len(targets) : targets[i] # e) /\ UNCHANGED targets
    /\ closer' = [closer EXCEPT ![e] = "write pipe"]
    /\ UNCHANGED <<pipe, partitioned, closed, reset, resetter, dl, call, result,
                   reacted>>

(* Seeded fault: the pipe is closed without a broadcast.                   *)
CloseWriteSilently(e) ==
    /\ closer[e] = "write pipe"
    /\ pipe' = [pipe EXCEPT ![e] = PipeClose(@)]
    /\ closer' = [closer EXCEPT ![e] = "read pipe"]
    /\ UNCHANGED <<partitioned, closed, reset, targets, resetter, dl, call, result,
                   reacted>>

CloseWritePipe(e) ==
    /\ closer[e] = "write pipe"
    /\ pipe' = [pipe EXCEPT ![e] = PipeClose(@)]
    /\ call' = IF pipe[e].closed THEN call ELSE Broadcast(call, e)
    /\ closer' = [closer EXCEPT ![e] = "read pipe"]
    /\ UNCHANGED <<partitioned, closed, reset, targets, resetter, dl, result, reacted>>

CloseReadPipe(e) ==
    /\ closer[e] = "read pipe"
    /\ pipe' = [pipe EXCEPT ![Peer(e)] = PipeAbort(@)]
    /\ call' = IF pipe[Peer(e)].readClosed THEN call ELSE Broadcast(call, Peer(e))
    /\ closer' = [closer EXCEPT ![e] = "stop"]
    /\ UNCHANGED <<partitioned, closed, reset, targets, resetter, dl, result, reacted>>

CloseStops(e) ==
    /\ closer[e] = "stop"
    /\ dl' = [c \in Calls |-> IF c[1] = e THEN [dl[c] EXCEPT !.timer = FALSE]
                                          ELSE dl[c]]
    /\ closer' = [closer EXCEPT ![e] = "done"]
    /\ UNCHANGED <<pipe, partitioned, closed, reset, targets, resetter, call, result,
                   reacted>>

(* Reset: take the targets, signal them all, then abort their pipes.  With *)
(* no target left a call changes nothing.                                  *)
Reset ==
    /\ resetter.at = "idle" /\ targets # <<>>
    /\ resetter' = [at |-> "signal", todo |-> targets, aborts |-> targets]
    /\ targets' = <<>>
    /\ UNCHANGED <<pipe, partitioned, closed, closer, reset, dl, call, result,
                   reacted>>

SignalReset ==
    /\ resetter.at = "signal"
    /\ reset' = [reset EXCEPT ![Head(resetter.todo)] = TRUE]
    /\ resetter' = [resetter EXCEPT
                      !.todo = Tail(@),
                      !.at = IF Len(resetter.todo) = 1 THEN "write pipe" ELSE "signal"]
    /\ UNCHANGED <<pipe, partitioned, closed, closer, targets, dl, call, result, reacted>>

AbortPipe(e) ==
    /\ pipe' = [pipe EXCEPT ![e] = PipeAbort(@)]
    /\ call' = IF pipe[e].readClosed THEN call ELSE Broadcast(call, e)

AbortReset ==
    /\ \/ /\ resetter.at = "write pipe"
          /\ AbortPipe(Head(resetter.aborts))
          /\ resetter' = [resetter EXCEPT !.at = "read pipe"]
       \/ /\ resetter.at = "read pipe"
          /\ AbortPipe(Peer(Head(resetter.aborts)))
          /\ resetter' = [resetter EXCEPT
                            !.aborts = Tail(@),
                            !.at = IF Len(resetter.aborts) = 1 THEN "idle"
                                                               ELSE "write pipe"]
    /\ UNCHANGED <<partitioned, closed, closer, reset, targets, dl, result, reacted>>

-----------------------------------------------------------------------------
(* The rest of the world: delayed units become readable, the pair is       *)
(* partitioned and healed.                                                 *)
Release(e) ==
    /\ pipe[e].held > 0
    /\ \E k \in 1..pipe[e].held :
          pipe' = [pipe EXCEPT ![e].held = @ - k, ![e].readable = @ + k]
    /\ call' = Broadcast(call, e)
    /\ UNCHANGED <<untouched, result>>

PartitionOrHeal ==
    /\ partitioned' = ~partitioned
    /\ call' = [c \in Calls |-> IF call[c].on = "partition"
                                THEN [call[c] EXCEPT !.woken = TRUE] ELSE call[c]]
    /\ UNCHANGED <<pipe, closed, closer, reset, targets, resetter, dl, result, reacted>>

CloseStep(e) == \/ CloseDeregisters(e) \/ CloseWritePipe(e) \/ CloseReadPipe(e)
                \/ CloseStops(e)
ResetStep == SignalReset \/ AbortReset

ConnNext ==
    \/ \E c \in Calls : \/ Begin(c) \/ CallStep(c) \/ SetDeadline(c)
                        \/ Set(c) \/ Elapse(c) \/ Launch(c) \/ Fire(c)
    \/ \E e \in Ends : CloseEnd(e) \/ CloseStep(e) \/ Release(e)
    \/ Reset \/ ResetStep
    \/ PartitionOrHeal

ConnSpec == ConnInit /\ [][ConnNext]_connVars

(* Calls that can run do, and due timers fire.  Close and Reset may stop   *)
(* halfway.                                                                *)
ConnFairness ==
    \A c \in Calls : /\ WF_connVars(CallStep(c))
                     /\ WF_connVars(Launch(c)) /\ WF_connVars(Fire(c))

ConnFairSpec == ConnSpec /\ ConnFairness

-----------------------------------------------------------------------------
Waits == {"idle", "closed?", "reset?", "snapshot", "expired?", "try",
          "closed again?", "reset again?", "expired again?", "select"}

PipeStates == [closed : BOOLEAN, readClosed : BOOLEAN, eofSeen : BOOLEAN,
               held : 0..(Room + 1), readable : 0..(Room + 1)]
DeadlineStates == [t : {"zero", "past", "future"}, timer : BOOLEAN,
                   callbacks : 0..MaxCallbacks, setting : BOOLEAN]
CloserStates == {"none", "deregister", "write pipe", "read pipe", "stop", "done"}
CallStates == [at : Waits, on : {"none", "notify", "partition"}, woken : BOOLEAN,
               bumped : BOOLEAN]

(* A pipe exceeds its bound by one duplicate at most.                      *)
ConnTypeOK ==
    /\ pipe \in [Ends -> PipeStates]
    /\ \A e \in Ends : pipe[e].held + pipe[e].readable <= Room + 1
    /\ partitioned \in BOOLEAN
    /\ closed \in [Ends -> BOOLEAN] /\ reset \in [Ends -> BOOLEAN]
    /\ closer \in [Ends -> CloserStates]
    /\ dl \in [Calls -> DeadlineStates] /\ call \in [Calls -> CallStates]

(* A Read reports EOF, and a Write a broken pipe, only when the peer has   *)
(* closed: neither this end's own Close nor a Reset, which abort the same  *)
(* pipes, can be mistaken for it.                                          *)
ErrorMeansPeerClosed ==
    \A c \in Calls : result[c] \in {"EOF", "EPIPE"} => closed[Peer(c[1])]

(* reset.go: the calls of both ends, in flight ones too, fail with         *)
(* ECONNRESET (an end closed locally aside): so no Read takes for a        *)
(* graceful EOF the Close with which the peer answered its own reset       *)
(* signal.                                                                 *)
ResetIsNoEOF ==
    \A c \in Calls : result[c] = "EOF" => Peer(c[1]) \notin reacted

(* A call waits in its select only while nothing it selects on has         *)
(* happened: with its deadline past, the timer or its callback is still to *)
(* come, or a channel it selects on is closed already.                     *)
DeadlineCovered ==
    \A c \in Calls : call[c].at \in {"try", "expired again?", "select"} /\ Expired(c)
                        => \/ dl[c].timer \/ dl[c].callbacks > 0
                           \/ call[c].bumped \/ closed[c[1]]

(* A call that waits for its pipe would wait again: data, room, EOF, close *)
(* and abort were all broadcast, and Heal too.                             *)
PipeWaitCovered ==
    \A c \in Calls :
        LET p == pipe[PipeOf(c)]
        IN  call[c].at = "select" /\ ~call[c].woken =>
              \/ /\ c[2] = "write" /\ ~p.closed /\ ~HasRoom(p)
              \/ /\ c[2] = "read" /\ call[c].on = "notify" /\ ~p.readClosed
                 /\ p.readable = 0 /\ ~(p.closed /\ p.held = 0)
              \/ call[c].on = "partition" /\ partitioned

(* Close and Reset end every call of the end.                              *)
EndUnblocks ==
    \A c \in Calls : (closed[c[1]] \/ reset[c[1]]) /\ call[c].at # "idle"
                       ~> call[c].at = "idle"

(* So does a deadline that passes and is not moved.                        *)
DeadlineUnblocks ==
    \A c \in Calls : Expired(c) /\ call[c].at # "idle"
                       ~> call[c].at = "idle" \/ ~Expired(c)
=============================================================================
