----------------------------- MODULE ConnProofs -----------------------------
(***************************************************************************)
(* Proofs about Conn, for every set of callers and closers, every capacity *)
(* of the pipes and every choice of deadlines.                             *)
(***************************************************************************)
EXTENDS Conn, TLAPS

-----------------------------------------------------------------------------
(* The inductive invariant, in named parts.                                *)

Results == {"none", "data", "EOF", "EPIPE", "ErrClosed", "ECONNRESET",
            "ErrDeadlineExceeded"}

In(s, e) == \E i \in 1..Len(s) : s[i] = e

(* The types of what ConnTypeOK leaves out, and the shape of a Reset under *)
(* way: the loops over its targets are never entered with none left, and   *)
(* the registry stays empty until it is through.                           *)
RegistryOK ==
    /\ result \in [Calls -> Results]
    /\ targets \in Seq(Ends)
    /\ resetter \in [at : {"idle", "signal", "write pipe", "read pipe"},
                     todo : Seq(Ends), aborts : Seq(Ends)]
    /\ resetter.at = "signal" => resetter.todo # <<>>
    /\ resetter.at # "idle" => resetter.aborts # <<>> /\ targets = <<>>

CloserClosed == \A e \in Ends : closer[e] # "none" => closed[e]

SomeClosed == closed["client"] \/ closed["server"]

(* Until a Close, an end is registered, about to be signalled, or reset.   *)
EndAccounted ==
    \A e \in Ends : \/ SomeClosed \/ reset[e] \/ In(targets, e)
                    \/ resetter.at = "signal" /\ In(resetter.todo, e)

(* A pipe is closed by a Close, or by a Reset that has signalled both ends.*)
PipeCause ==
    \A e \in Ends :
        /\ pipe[e].readClosed => pipe[e].closed
        /\ pipe[e].closed => SomeClosed \/ (reset["client"] /\ reset["server"])

(* What a call knows when it looks again, after its pipe gave an error.    *)
ErrorCause ==
    \A c \in Calls :
        /\ call[c].at = "closed again?" =>
              closed[Peer(c[1])] \/ closed[c[1]] \/ reset[c[1]]
        /\ call[c].at = "reset again?" => closed[Peer(c[1])] \/ reset[c[1]]

(* PipeWaitCovered, from the moment the channel was taken: a call waits on *)
(* channel ch of pipe p with good reason.                                  *)
WaitOK(c, ch, p, cut) ==
    \/ /\ c[2] = "write" /\ ch = "notify" /\ ~p.closed /\ ~HasRoom(p)
    \/ /\ c[2] = "read" /\ ch = "notify" /\ ~p.readClosed
       /\ p.readable = 0 /\ ~(p.closed /\ p.held = 0)
    \/ ch = "partition" /\ cut

WaitCovered ==
    \A c \in Calls :
        call[c].at \in {"expired again?", "select"} /\ ~call[c].woken
          => WaitOK(c, call[c].on, pipe[PipeOf(c)], partitioned)

(* A deadline ahead has its timer, unless Close stopped it.                *)
TimerSet == \A c \in Calls : dl[c].t = "future" => dl[c].timer \/ closed[c[1]]

ConnInv == /\ ConnTypeOK /\ RegistryOK /\ CloserClosed /\ EndAccounted /\ PipeCause
           /\ ErrorCause /\ ErrorMeansPeerClosed /\ WaitCovered
           /\ TimerSet /\ DeadlineCovered

-----------------------------------------------------------------------------
(* Facts about ends and sequences.                                         *)

(* Peer is an involution without a fixed point, and the pipe of a call is  *)
(* that of one of the two ends.                                            *)
LEMMA EndFacts ==
    /\ \A e \in Ends : Peer(e) \in Ends /\ Peer(e) # e /\ Peer(Peer(e)) = e
    /\ \A c \in Calls : c[1] \in Ends /\ c[2] \in {"read", "write"} /\ PipeOf(c) \in Ends
BY CallsAssumption DEF Ends, Peer, PipeOf

(* A call is known by its end and its operation.                           *)
LEMMA SameCall ==
    ASSUME NEW b \in Calls, NEW c \in Calls, b[1] = c[1], b[2] = c[2]
    PROVE  b = c
<1>1. b = <<b[1], b[2]>> /\ c = <<c[1], c[2]>>
  BY CallsAssumption
<1> QED
  BY <1>1

(* A sequence is empty exactly when its length is 0.                       *)
LEMMA EmptyIffLenZero ==
    ASSUME NEW S, NEW s \in Seq(S)
    PROVE  s = <<>> <=> Len(s) = 0
OBVIOUS

(* Nothing is in the empty sequence.                                       *)
LEMMA NothingInEmpty == \A e : ~In(<<>>, e)
<1>1. Len(<<>>) = 0
  OBVIOUS
<1>2. 1..0 = {}
  OBVIOUS
<1> QED
  BY <1>1, <1>2 DEF In

(* What is in a sequence is its head or in its tail.                       *)
LEMMA InTail ==
    ASSUME NEW S, NEW s \in Seq(S), s # <<>>
    PROVE  /\ Head(s) \in S /\ Tail(s) \in Seq(S) /\ Len(s) \in Nat \ {0}
           /\ Len(s) # 1 => Tail(s) # <<>>
           /\ \A e : In(s, e) /\ e # Head(s) => In(Tail(s), e)
           /\ Len(s) = 1 => \A e : In(s, e) => e = Head(s)
<1>1. /\ Head(s) \in S /\ Tail(s) \in Seq(S) /\ Len(s) \in Nat \ {0}
      /\ Len(Tail(s)) = Len(s) - 1 /\ Head(s) = s[1]
      /\ \A i \in 1..(Len(s) - 1) : Tail(s)[i] = s[i + 1]
  OBVIOUS
<1>2. Len(s) # 1 => Tail(s) # <<>>
  <2>1. Tail(s) = <<>> <=> Len(Tail(s)) = 0
    BY <1>1, EmptyIffLenZero
  <2> QED
    BY <1>1, <2>1
<1>3. ASSUME NEW e, In(s, e), e # Head(s)
      PROVE  In(Tail(s), e)
  <2>1. PICK i \in 1..Len(s) : s[i] = e
    BY <1>3 DEF In
  <2>2. i - 1 \in 1..Len(Tail(s)) /\ Tail(s)[i - 1] = e
    BY <1>1, <1>3, <2>1
  <2> QED
    BY <2>2 DEF In
<1>4. ASSUME Len(s) = 1, NEW e, In(s, e)
      PROVE  e = Head(s)
  <2>1. PICK i \in 1..Len(s) : s[i] = e
    BY <1>4 DEF In
  <2>2. i = 1
    BY <1>4
  <2> QED
    BY <1>1, <2>1, <2>2
<1> QED
  BY <1>1, <1>2, <1>3, <1>4

-----------------------------------------------------------------------------
LEMMA ConnInvInit == ConnInit => ConnInv
<1> SUFFICES ASSUME ConnInit PROVE ConnInv
  OBVIOUS
<1>1. ConnTypeOK
  <2>1. NewPipe \in PipeStates /\ NewPipe.held + NewPipe.readable <= Room + 1
    BY RoomAssumption DEF NewPipe, PipeStates
  <2>2. NewDeadline \in DeadlineStates /\ NoCall \in CallStates
    BY DeadlineAssumption DEF NewDeadline, DeadlineStates, NoCall, Fresh, CallStates, Waits
  <2> QED
    BY <2>1, <2>2 DEF ConnInit, ConnTypeOK, Ends, CloserStates
<1>2. RegistryOK
  BY DEF ConnInit, RegistryOK, Results, Ends
<1>3. In(targets, "client") /\ In(targets, "server")
  <2>1. targets = <<"client", "server">> /\ Len(targets) = 2
    BY DEF ConnInit
  <2> QED
    BY <2>1 DEF In
<1>4. CloserClosed /\ EndAccounted /\ PipeCause
  BY <1>3 DEF ConnInit, CloserClosed, EndAccounted, PipeCause, Ends, NewPipe
<1>5. ErrorCause /\ ErrorMeansPeerClosed /\ WaitCovered
  BY DEF ConnInit, ErrorCause, ErrorMeansPeerClosed, WaitCovered, NoCall, Fresh
<1>6. TimerSet /\ DeadlineCovered
  BY DEF ConnInit, TimerSet, DeadlineCovered, NoCall, Fresh, NewDeadline
<1> QED
  BY <1>1, <1>2, <1>4, <1>5, <1>6 DEF ConnInv


-----------------------------------------------------------------------------
(* A step of the loop that leaves its pipe alone: what is to be shown of   *)
(* the state r the call comes to, and of the result v.                     *)
LEMMA LoopStep ==
    ASSUME ConnInv, NEW c \in Calls, NEW r \in CallStates, NEW v \in Results,
           call' = [call EXCEPT ![c] = r],
           result' = [result EXCEPT ![c] = v],
           UNCHANGED <<pipe, untouched>>,
           v \in {"EOF", "EPIPE"} => closed[Peer(c[1])],
           r.at = "closed again?" =>
               closed[Peer(c[1])] \/ closed[c[1]] \/ reset[c[1]],
           r.at = "reset again?" => closed[Peer(c[1])] \/ reset[c[1]],
           r.at \in {"expired again?", "select"} /\ ~r.woken =>
               WaitOK(c, r.on, pipe[PipeOf(c)], partitioned),
           r.at \in {"try", "expired again?", "select"} /\ Expired(c) =>
               dl[c].timer \/ dl[c].callbacks > 0 \/ r.bumped \/ closed[c[1]]
    PROVE  ConnInv'
<1> USE DEF ConnInv
<1>1. /\ \A b \in Calls : b # c => call'[b] = call[b] /\ result'[b] = result[b]
      /\ call'[c] = r /\ result'[c] = v
      /\ call' \in [Calls -> CallStates] /\ result' \in [Calls -> Results]
  BY DEF ConnTypeOK, RegistryOK
<1>2. ConnTypeOK'
  BY <1>1 DEF ConnTypeOK, untouched
<1>3. RegistryOK'
  BY <1>1 DEF RegistryOK, untouched
<1>4. (CloserClosed /\ EndAccounted /\ PipeCause)'
  BY DEF CloserClosed, EndAccounted, PipeCause, SomeClosed, untouched
<1>5. (ErrorCause /\ ErrorMeansPeerClosed)'
  BY <1>1 DEF ErrorCause, ErrorMeansPeerClosed, untouched
<1>6. WaitCovered'
  BY <1>1 DEF WaitCovered, untouched
<1>7. (TimerSet /\ DeadlineCovered)'
  BY <1>1 DEF TimerSet, DeadlineCovered, Expired, untouched
<1> QED
  BY <1>2, <1>3, <1>4, <1>5, <1>6, <1>7

(* The places a step of the loop goes to.                                  *)
LEMMA WaitsAre ==
    /\ "idle" \in Waits /\ "closed?" \in Waits /\ "reset?" \in Waits
    /\ "snapshot" \in Waits /\ "expired?" \in Waits /\ "try" \in Waits
    /\ "closed again?" \in Waits /\ "reset again?" \in Waits
    /\ "expired again?" \in Waits /\ "select" \in Waits
BY DEF Waits

(* The three ways a step of the loop moves its call.                       *)
Moved(c, step, r) ==
    /\ r.at = step /\ r.on = call[c].on /\ r.woken = call[c].woken
    /\ r.bumped = call[c].bumped
    /\ call' = [call EXCEPT ![c] = r]
    /\ result[c] \in Results
    /\ result' = [result EXCEPT ![c] = result[c]]

LEMMA GoToFacts ==
    ASSUME ConnInv, NEW c \in Calls, NEW step \in Waits, GoTo(c, step)
    PROVE  \E r \in CallStates : Moved(c, step, r)
<1> DEFINE r == [call[c] EXCEPT !.at = step]
<1>1. /\ r \in CallStates /\ r.at = step /\ r.on = call[c].on
      /\ r.woken = call[c].woken /\ r.bumped = call[c].bumped
  BY DEF ConnInv, ConnTypeOK, CallStates
<1>2. /\ call' = [call EXCEPT ![c] = r] /\ result[c] \in Results
      /\ result' = [result EXCEPT ![c] = result[c]]
  BY DEF ConnInv, ConnTypeOK, RegistryOK, GoTo
<1>3. Moved(c, step, r)
  BY <1>1, <1>2 DEF Moved
<1> QED
  BY <1>1, <1>3

LEMMA FreshFacts ==
    ASSUME NEW step \in Waits
    PROVE  /\ Fresh(step) \in CallStates /\ Fresh(step).at = step
           /\ Fresh(step).woken = FALSE /\ Fresh(step).bumped = FALSE
BY DEF Fresh, CallStates

LEMMA SameResult ==
    ASSUME ConnInv, NEW c \in Calls, UNCHANGED result
    PROVE  result[c] \in Results /\ result' = [result EXCEPT ![c] = result[c]]
BY DEF ConnInv, RegistryOK

(* A call that returns ends well if it has reason to report what it does.  *)
LEMMA ReturnStep ==
    ASSUME ConnInv, NEW c \in Calls, NEW v \in Results, Return(c, v),
           UNCHANGED <<pipe, untouched>>,
           v \in {"EOF", "EPIPE"} => closed[Peer(c[1])]
    PROVE  ConnInv'
<1>1. /\ Fresh("idle") \in CallStates /\ Fresh("idle").at = "idle"
      /\ call' = [call EXCEPT ![c] = Fresh("idle")]
      /\ result' = [result EXCEPT ![c] = v]
  BY FreshFacts DEF Return, NoCall, Waits
<1> QED
  BY <1>1, LoopStep

LEMMA InvBegin ==
    ASSUME ConnInv, NEW c \in Calls, Begin(c)
    PROVE  ConnInv'
<1>1. /\ Fresh("closed?") \in CallStates /\ Fresh("closed?").at = "closed?"
      /\ call' = [call EXCEPT ![c] = Fresh("closed?")] /\ "none" \in Results
      /\ result' = [result EXCEPT ![c] = "none"] /\ UNCHANGED <<pipe, untouched>>
  BY FreshFacts DEF Begin, Restart, Results, Waits
<1> QED
  BY <1>1, LoopStep

LEMMA InvSelect ==
    ASSUME ConnInv, NEW c \in Calls, Select(c)
    PROVE  ConnInv'
<1>1. /\ Fresh("closed?") \in CallStates /\ Fresh("closed?").at = "closed?"
      /\ call' = [call EXCEPT ![c] = Fresh("closed?")]
      /\ result[c] \in Results /\ result' = [result EXCEPT ![c] = result[c]]
      /\ UNCHANGED <<pipe, untouched>>
  BY FreshFacts, SameResult DEF Select, Restart, Waits
<1>2. result[c] \in {"EOF", "EPIPE"} => closed[Peer(c[1])]
  BY DEF ConnInv, ErrorMeansPeerClosed
<1> QED
  BY <1>1, <1>2, LoopStep

LEMMA InvCheckClosed ==
    ASSUME ConnInv, NEW c \in Calls, CheckClosed(c)
    PROVE  ConnInv'
<1>0. UNCHANGED <<pipe, untouched>>
  BY DEF CheckClosed
<1>1. result[c] \in {"EOF", "EPIPE"} => closed[Peer(c[1])]
  BY DEF ConnInv, ErrorMeansPeerClosed
<1>2. CASE call[c].at = "closed?" /\ GoTo(c, "reset?")
  <2>1. PICK r \in CallStates : Moved(c, "reset?", r)
    BY <1>2, GoToFacts, WaitsAre
  <2> QED
    BY <1>0, <1>1, <2>1, LoopStep DEF Moved
<1>3. CASE call[c].at = "closed again?" /\ ~closed[c[1]] /\ GoTo(c, "reset again?")
  <2>1. PICK r \in CallStates : Moved(c, "reset again?", r)
    BY <1>3, GoToFacts, WaitsAre
  <2>2. closed[Peer(c[1])] \/ reset[c[1]]
    BY <1>3 DEF ConnInv, ErrorCause
  <2> QED
    BY <1>0, <1>1, <2>1, <2>2, LoopStep DEF Moved
<1>4. CASE Return(c, "ErrClosed")
  BY <1>0, <1>4, ReturnStep DEF Results
<1> QED
  BY <1>2, <1>3, <1>4 DEF CheckClosed

LEMMA InvCheckReset ==
    ASSUME ConnInv, NEW c \in Calls, CheckReset(c)
    PROVE  ConnInv'
<1>0. UNCHANGED <<pipe, untouched>>
  BY DEF CheckReset
<1>2. CASE call[c].at = "reset?" /\ GoTo(c, "snapshot")
  <2>1. PICK r \in CallStates : Moved(c, "snapshot", r)
    BY <1>2, GoToFacts, WaitsAre
  <2>2. result[c] \in {"EOF", "EPIPE"} => closed[Peer(c[1])]
    BY DEF ConnInv, ErrorMeansPeerClosed
  <2> QED
    BY <1>0, <2>1, <2>2, LoopStep DEF Moved
<1>3. CASE call[c].at = "reset again?" /\ ~reset[c[1]] /\ Return(c, PipeError(c))
  <2>1. closed[Peer(c[1])]
    BY <1>3 DEF ConnInv, ErrorCause
  <2>2. PipeError(c) \in Results
    BY DEF PipeError, Results
  <2> QED
    BY <1>0, <1>3, <2>1, <2>2, ReturnStep
<1>4. CASE Return(c, "ECONNRESET")
  BY <1>0, <1>4, ReturnStep DEF Results
<1> QED
  BY <1>2, <1>3, <1>4 DEF CheckReset

LEMMA InvSnapshot ==
    ASSUME ConnInv, NEW c \in Calls, Snapshot(c)
    PROVE  ConnInv'
<1>0. UNCHANGED <<pipe, untouched>>
  BY DEF Snapshot
<1>1. PICK r \in CallStates : Moved(c, "expired?", r)
  BY GoToFacts, WaitsAre DEF Snapshot
<1>2. result[c] \in {"EOF", "EPIPE"} => closed[Peer(c[1])]
  BY DEF ConnInv, ErrorMeansPeerClosed
<1> QED
  BY <1>0, <1>1, <1>2, LoopStep DEF Moved

LEMMA InvCheckExpired ==
    ASSUME ConnInv, NEW c \in Calls, CheckExpired(c)
    PROVE  ConnInv'
<1>0. UNCHANGED <<pipe, untouched>>
  BY DEF CheckExpired
<1>1. result[c] \in {"EOF", "EPIPE"} => closed[Peer(c[1])]
  BY DEF ConnInv, ErrorMeansPeerClosed
<1>2. CASE call[c].at = "expired?" /\ ~Expired(c) /\ GoTo(c, "try")
  <2>1. PICK r \in CallStates : Moved(c, "try", r)
    BY <1>2, GoToFacts, WaitsAre
  <2> QED
    BY <1>0, <1>1, <1>2, <2>1, LoopStep DEF Moved
<1>3. CASE call[c].at = "expired again?" /\ ~Expired(c) /\ GoTo(c, "select")
  <2>1. PICK r \in CallStates : Moved(c, "select", r)
    BY <1>3, GoToFacts, WaitsAre
  <2>2. ~call[c].woken => WaitOK(c, call[c].on, pipe[PipeOf(c)], partitioned)
    BY <1>3 DEF ConnInv, WaitCovered
  <2> QED
    BY <1>0, <1>1, <1>3, <2>1, <2>2, LoopStep DEF Moved
<1>4. CASE Return(c, "ErrDeadlineExceeded")
  BY <1>0, <1>4, ReturnStep DEF Results
<1> QED
  BY <1>2, <1>3, <1>4 DEF CheckExpired

-----------------------------------------------------------------------------
(* Steps that change a pipe, end calls or wake them.                       *)

(* What such a step makes of a call: it has returned with a result other   *)
(* than an error of the pipe, it has seen such an error, or it is where it *)
(* was, perhaps woken.                                                     *)
Finished(b) ==
    \/ call'[b].at = "idle" /\ result'[b] \notin {"EOF", "EPIPE"}
    \/ /\ call'[b].at = "closed again?" /\ result'[b] = result[b]
       /\ closed[Peer(b[1])] \/ closed[b[1]] \/ reset[b[1]]
Kept(b) == /\ call'[b].at = call[b].at /\ call'[b].on = call[b].on
           /\ call'[b].bumped = call[b].bumped
           /\ call[b].woken => call'[b].woken
           /\ result'[b] = result[b]

(* The part of the invariant that is not about the registry.               *)
CallsOK == /\ ConnTypeOK /\ PipeCause /\ ErrorCause /\ ErrorMeansPeerClosed
           /\ WaitCovered /\ TimerSet /\ DeadlineCovered

LEMMA BroadcastFacts ==
    ASSUME call \in [Calls -> CallStates], NEW e, NEW calls, calls = Broadcast(call, e)
    PROVE  /\ calls \in [Calls -> CallStates]
           /\ \A b \in Calls :
                /\ calls[b].at = call[b].at /\ calls[b].on = call[b].on
                /\ calls[b].bumped = call[b].bumped
                /\ call[b].woken => calls[b].woken
                /\ PipeOf(b) = e /\ call[b].on = "notify" => calls[b].woken
<1>1. ASSUME NEW b \in Calls, PipeOf(b) = e, call[b].on = "notify"
      PROVE  /\ calls[b] \in CallStates /\ calls[b].at = call[b].at
             /\ calls[b].on = call[b].on
             /\ calls[b].bumped = call[b].bumped /\ calls[b].woken
  <2>1. calls[b] = [call[b] EXCEPT !.woken = TRUE]
    BY <1>1 DEF Broadcast
  <2> QED
    BY <2>1 DEF CallStates
<1>2. ASSUME NEW b \in Calls, ~(PipeOf(b) = e /\ call[b].on = "notify")
      PROVE  calls[b] = call[b]
  BY <1>2 DEF Broadcast
<1>3. calls = [b \in Calls |-> calls[b]]
  BY DEF Broadcast
<1> QED
  BY <1>1, <1>2, <1>3

LEMMA PipeStep ==
    ASSUME ConnInv, NEW e \in Ends, NEW q \in PipeStates, q.held + q.readable <= Room + 1,
           pipe' = [pipe EXCEPT ![e] = q],
           q.readClosed => q.closed,
           q.closed => SomeClosed \/ (reset["client"] /\ reset["server"]),
           call' \in [Calls -> CallStates], closer' \in [Ends -> CloserStates],
           \A b \in Calls : Finished(b) \/ Kept(b),
           \A b \in Calls :
              /\ Kept(b) /\ ~call'[b].woken /\ PipeOf(b) = e
              /\ call[b].at \in {"expired again?", "select"}
              /\ WaitOK(b, call[b].on, pipe[e], partitioned)
              => WaitOK(b, call[b].on, q, partitioned),
           UNCHANGED <<partitioned, closed, reset, dl>>
    PROVE  CallsOK'
<1> USE DEF ConnInv, CallsOK
<1>0. /\ pipe'[e] = q /\ \A x \in Ends : x # e => pipe'[x] = pipe[x]
      /\ pipe' \in [Ends -> PipeStates]
  BY DEF ConnTypeOK
<1>1. ConnTypeOK'
  BY <1>0 DEF ConnTypeOK
<1>2. PipeCause'
  BY <1>0 DEF PipeCause, SomeClosed
<1>3. (ErrorCause /\ ErrorMeansPeerClosed)'
  BY DEF ErrorCause, ErrorMeansPeerClosed, Finished, Kept
<1>4. WaitCovered'
  <2> SUFFICES ASSUME NEW b \in Calls, call'[b].at \in {"expired again?", "select"},
                      ~call'[b].woken
               PROVE  WaitOK(b, call'[b].on, pipe'[PipeOf(b)], partitioned)
    BY DEF WaitCovered
  <2>1. /\ Kept(b) /\ call[b].at \in {"expired again?", "select"} /\ ~call[b].woken
        /\ call'[b].on = call[b].on
    BY DEF Finished, Kept
  <2>2. WaitOK(b, call[b].on, pipe[PipeOf(b)], partitioned)
    BY <2>1 DEF WaitCovered
  <2>3. CASE PipeOf(b) = e
    BY <1>0, <2>1, <2>2, <2>3
  <2>4. CASE PipeOf(b) # e
    BY <1>0, <2>1, <2>2, <2>4, EndFacts
  <2> QED
    BY <2>3, <2>4
<1>5. (TimerSet /\ DeadlineCovered)'
  BY DEF TimerSet, DeadlineCovered, Expired, Finished, Kept
<1> QED
  BY <1>1, <1>2, <1>3, <1>4, <1>5

(* The rest of the invariant, when the registry is left alone.             *)
LEMMA RegistryKept ==
    ASSUME ConnInv, CallsOK', result' \in [Calls -> Results],
           UNCHANGED <<closed, closer, reset, targets, resetter>>
    PROVE  ConnInv'
BY DEF ConnInv, CallsOK, RegistryOK, CloserClosed, EndAccounted, SomeClosed

(* A waiting call that was not woken by the broadcast does not mind.       *)
LEMMA BroadcastCovers ==
    ASSUME NEW b \in Calls, NEW ch, ch # "notify", NEW p, NEW q,
           WaitOK(b, ch, p, partitioned)
    PROVE  WaitOK(b, ch, q, partitioned)
BY DEF WaitOK

(* A call ends with data, and its pipe changes with a broadcast.           *)
LEMMA DataStep ==
    ASSUME ConnInv, NEW c \in Calls, NEW q \in PipeStates,
           q.held + q.readable <= Room + 1,
           q.closed = pipe[PipeOf(c)].closed,
           q.readClosed = pipe[PipeOf(c)].readClosed,
           pipe' = [pipe EXCEPT ![PipeOf(c)] = q],
           call' = [Broadcast(call, PipeOf(c)) EXCEPT ![c] = NoCall],
           result' = [result EXCEPT ![c] = "data"],
           UNCHANGED untouched
    PROVE  ConnInv'
<1> DEFINE e == PipeOf(c)
           calls == Broadcast(call, e)
<1>0. e \in Ends /\ call \in [Calls -> CallStates] /\ result \in [Calls -> Results]
  BY EndFacts DEF ConnInv, ConnTypeOK, RegistryOK
<1>1. /\ calls \in [Calls -> CallStates]
      /\ \A b \in Calls :
            /\ calls[b].at = call[b].at /\ calls[b].on = call[b].on
            /\ calls[b].bumped = call[b].bumped
            /\ call[b].woken => calls[b].woken
            /\ PipeOf(b) = e /\ call[b].on = "notify" => calls[b].woken
  BY <1>0, BroadcastFacts
<1>2. NoCall \in CallStates /\ NoCall.at = "idle"
  BY FreshFacts, WaitsAre DEF NoCall
<1>3. call' = [calls EXCEPT ![c] = NoCall]
  OBVIOUS
<1> HIDE DEF calls
<1>4. /\ call' \in [Calls -> CallStates] /\ call'[c] = NoCall
      /\ \A b \in Calls : b # c => call'[b] = calls[b]
  BY <1>1, <1>2, <1>3
<1>5. /\ result' \in [Calls -> Results] /\ result'[c] = "data"
      /\ \A b \in Calls : b # c => result'[b] = result[b]
  BY <1>0 DEF Results
<1>6. \A b \in Calls : Finished(b) \/ Kept(b)
  <2> SUFFICES ASSUME NEW b \in Calls PROVE Finished(b) \/ Kept(b)
    OBVIOUS
  <2>1. CASE b = c
    BY <1>2, <1>4, <1>5, <2>1 DEF Finished
  <2>2. CASE b # c
    BY <1>1, <1>4, <1>5, <2>2 DEF Kept
  <2> QED
    BY <2>1, <2>2
<1>7. ASSUME NEW b \in Calls, Kept(b), ~call'[b].woken, PipeOf(b) = e,
             call[b].at \in {"expired again?", "select"},
             WaitOK(b, call[b].on, pipe[e], partitioned)
      PROVE  WaitOK(b, call[b].on, q, partitioned)
  <2>1. b # c
    BY <1>2, <1>4, <1>7 DEF Kept
  <2>2. call[b].on # "notify"
    BY <1>1, <1>4, <1>7, <2>1
  <2> QED
    BY <1>7, <2>2, BroadcastCovers
<1>8. /\ q.readClosed => q.closed
      /\ q.closed => SomeClosed \/ (reset["client"] /\ reset["server"])
  BY <1>0 DEF ConnInv, PipeCause
<1>9. /\ UNCHANGED <<partitioned, closed, closer, reset, targets, resetter, dl>>
      /\ closer' \in [Ends -> CloserStates]
  BY DEF untouched, ConnInv, ConnTypeOK
<1>10. CallsOK'
  BY <1>0, <1>4, <1>6, <1>7, <1>8, <1>9, PipeStep
<1> QED
  BY <1>5, <1>9, <1>10, RegistryKept

(* What a call finds that takes a closed pipe for the reason to look again.*)
LEMMA SeesError ==
    ASSUME ConnInv, NEW c \in Calls, pipe[PipeOf(c)].closed \/ pipe[PipeOf(c)].readClosed
    PROVE  closed[Peer(c[1])] \/ closed[c[1]] \/ reset[c[1]]
<1>1. SomeClosed \/ (reset["client"] /\ reset["server"])
  BY EndFacts DEF ConnInv, PipeCause
<1> QED
  BY <1>1, EndFacts DEF SomeClosed, Ends, Peer

LEMMA LooksAgain ==
    ASSUME ConnInv, NEW c \in Calls, Restart(c, "closed again?"),
           pipe[PipeOf(c)].closed \/ pipe[PipeOf(c)].readClosed,
           UNCHANGED <<pipe, result, untouched>>
    PROVE  ConnInv'
<1>1. /\ Fresh("closed again?") \in CallStates
      /\ Fresh("closed again?").at = "closed again?"
  BY FreshFacts, WaitsAre
<1>2. call' = [call EXCEPT ![c] = Fresh("closed again?")]
  BY DEF Restart
<1>3. result[c] \in Results /\ result' = [result EXCEPT ![c] = result[c]]
  BY SameResult
<1>4. result[c] \in {"EOF", "EPIPE"} => closed[Peer(c[1])]
  BY DEF ConnInv, ErrorMeansPeerClosed
<1>5. closed[Peer(c[1])] \/ closed[c[1]] \/ reset[c[1]]
  BY SeesError
<1> QED
  BY <1>1, <1>2, <1>3, <1>4, <1>5, LoopStep

(* A call that finds nothing to do waits, and with good reason.            *)
LEMMA AwaitStep ==
    ASSUME ConnInv, NEW c \in Calls, NEW ch \in {"notify", "partition"},
           NEW step \in {"expired again?", "select"}, Await(c, ch, step),
           call[c].at = "try",
           WaitOK(c, ch, pipe[PipeOf(c)], partitioned),
           UNCHANGED <<pipe, result, untouched>>
    PROVE  ConnInv'
<1>0. call[c] \in CallStates /\ call \in [Calls -> CallStates]
  BY DEF ConnInv, ConnTypeOK
<1> DEFINE r == [call[c] EXCEPT !.at = step, !.on = ch, !.woken = FALSE]
<1>1. /\ r \in CallStates /\ r.at = step /\ r.on = ch /\ r.woken = FALSE
      /\ r.bumped = call[c].bumped
  BY <1>0 DEF CallStates, Waits
<1>2. call' = [call EXCEPT ![c] = r]
  BY <1>0 DEF Await
<1> HIDE DEF r
<1>3. result[c] \in Results /\ result' = [result EXCEPT ![c] = result[c]]
  BY SameResult
<1>4. result[c] \in {"EOF", "EPIPE"} => closed[Peer(c[1])]
  BY DEF ConnInv, ErrorMeansPeerClosed
<1>5. Expired(c) => dl[c].timer \/ dl[c].callbacks > 0 \/ r.bumped \/ closed[c[1]]
  BY <1>1 DEF ConnInv, DeadlineCovered
<1> QED
  BY <1>1, <1>2, <1>3, <1>4, <1>5, LoopStep

LEMMA InvTryRead ==
    ASSUME ConnInv, NEW c \in Calls, TryRead(c)
    PROVE  ConnInv'
<1> DEFINE e == PipeOf(c)
           p == pipe[e]
<1>0. /\ e \in Ends /\ p \in PipeStates /\ p.held + p.readable <= Room + 1
      /\ pipe \in [Ends -> PipeStates] /\ c[2] = "read" /\ call[c].at = "try"
      /\ UNCHANGED untouched
  BY EndFacts DEF ConnInv, ConnTypeOK, TryRead
<1>1. CASE p.readClosed /\ Restart(c, "closed again?") /\ UNCHANGED <<pipe, result>>
  BY <1>0, <1>1, LooksAgain
<1>2. CASE /\ ~p.readClosed /\ p.readable > 0
           /\ pipe' = [pipe EXCEPT ![e].readable = @ - 1]
           /\ call' = [Broadcast(call, e) EXCEPT ![c] = NoCall]
           /\ result' = [result EXCEPT ![c] = "data"]
  <2> DEFINE q == [p EXCEPT !.readable = @ - 1]
  <2>1. /\ q \in PipeStates /\ q.held + q.readable <= Room + 1 /\ q.closed = p.closed
        /\ q.readClosed = p.readClosed
    BY <1>0, <1>2, RoomAssumption DEF PipeStates
  <2>2. pipe' = [pipe EXCEPT ![e] = q]
    BY <1>0, <1>2
  <2> HIDE DEF q
  <2> QED
    BY <1>0, <1>2, <2>1, <2>2, DataStep
<1>3. CASE /\ ~p.readClosed /\ p.readable = 0 /\ p.closed /\ p.held = 0
           /\ ~p.eofSeen /\ partitioned
           /\ Await(c, "partition", "select") /\ UNCHANGED <<pipe, result>>
  <2>1. WaitOK(c, "partition", p, partitioned)
    BY <1>3 DEF WaitOK
  <2> QED
    BY <1>0, <1>3, <2>1, AwaitStep
<1>4. CASE /\ ~p.readClosed /\ p.readable = 0 /\ p.closed /\ p.held = 0
           /\ pipe' = [pipe EXCEPT ![e].eofSeen = TRUE]
           /\ Restart(c, "closed again?") /\ UNCHANGED result
  <2> DEFINE q == [p EXCEPT !.eofSeen = TRUE]
  <2>1. /\ q \in PipeStates /\ q.held = p.held /\ q.readable = p.readable
        /\ q.closed = p.closed /\ q.readClosed = p.readClosed
        /\ q.held + q.readable <= Room + 1
    BY <1>0, <1>4 DEF PipeStates
  <2>2. pipe' = [pipe EXCEPT ![e] = q]
    BY <1>0, <1>4
  <2> HIDE DEF q
  <2>3. /\ Fresh("closed again?") \in CallStates
        /\ Fresh("closed again?").at = "closed again?"
    BY FreshFacts, WaitsAre
  <2>4. /\ call' \in [Calls -> CallStates] /\ call'[c].at = "closed again?"
        /\ \A b \in Calls : b # c => call'[b] = call[b]
    BY <1>4, <2>3 DEF Restart, ConnInv, ConnTypeOK
  <2>5. closed[Peer(c[1])] \/ closed[c[1]] \/ reset[c[1]]
    BY <1>4, SeesError
  <2>6. \A b \in Calls : Finished(b) \/ Kept(b)
    BY <1>4, <2>4, <2>5 DEF Finished, Kept
  <2>7. /\ q.readClosed => q.closed
        /\ q.closed => SomeClosed \/ (reset["client"] /\ reset["server"])
    BY <1>0, <2>1 DEF ConnInv, PipeCause
  <2>8. ASSUME NEW b \in Calls, WaitOK(b, call[b].on, p, partitioned)
        PROVE  WaitOK(b, call[b].on, q, partitioned)
    BY <2>1, <2>8 DEF WaitOK, HasRoom
  <2>9. /\ UNCHANGED <<partitioned, closed, closer, reset, targets, resetter, dl>>
        /\ closer' \in [Ends -> CloserStates] /\ result' \in [Calls -> Results]
    BY <1>0, <1>4 DEF untouched, ConnInv, ConnTypeOK, RegistryOK
  <2>10. CallsOK'
    BY <1>0, <2>1, <2>2, <2>4, <2>6, <2>7, <2>8, <2>9, PipeStep
  <2> QED
    BY <2>9, <2>10, RegistryKept
<1>5. CASE /\ ~p.readClosed /\ p.readable = 0 /\ ~(p.closed /\ p.held = 0)
           /\ Await(c, "notify", "select") /\ UNCHANGED <<pipe, result>>
  <2>1. WaitOK(c, "notify", p, partitioned)
    BY <1>0, <1>5 DEF WaitOK
  <2> QED
    BY <1>0, <1>5, <2>1, AwaitStep
<1> QED
  BY <1>1, <1>2, <1>3, <1>4, <1>5 DEF TryRead

(* Held back, a unit wakes nobody: the reader would not see it yet.        *)
LEMMA HoldStep ==
    ASSUME ConnInv, NEW c \in Calls, c[2] = "write", NEW copies \in 1..2,
           ~pipe[PipeOf(c)].closed, ~pipe[PipeOf(c)].readClosed, HasRoom(pipe[PipeOf(c)]),
           pipe' = [pipe EXCEPT ![PipeOf(c)].held = @ + copies],
           call' = [call EXCEPT ![c] = NoCall],
           result' = [result EXCEPT ![c] = "data"],
           UNCHANGED untouched
    PROVE  ConnInv'
<1> DEFINE e == PipeOf(c)
           p == pipe[e]
           q == [p EXCEPT !.held = @ + copies]
<1>0. /\ e \in Ends /\ p \in PipeStates /\ p.held + p.readable < Room
      /\ pipe \in [Ends -> PipeStates]
  BY EndFacts DEF ConnInv, ConnTypeOK, HasRoom
<1>1. /\ q \in PipeStates /\ q.held + q.readable <= Room + 1 /\ q.readable = p.readable
      /\ q.closed = p.closed /\ q.readClosed = p.readClosed
  BY <1>0, RoomAssumption DEF PipeStates
<1>2. pipe' = [pipe EXCEPT ![e] = q]
  BY <1>0
<1> HIDE DEF q
<1>3. NoCall \in CallStates /\ NoCall.at = "idle"
  BY FreshFacts, WaitsAre DEF NoCall
<1>4. /\ call' \in [Calls -> CallStates] /\ call'[c] = NoCall
      /\ \A b \in Calls : b # c => call'[b] = call[b]
  BY <1>3 DEF ConnInv, ConnTypeOK
<1>5. /\ result' \in [Calls -> Results] /\ result'[c] = "data"
      /\ \A b \in Calls : b # c => result'[b] = result[b]
  BY DEF ConnInv, RegistryOK, Results
<1>6. \A b \in Calls : Finished(b) \/ Kept(b)
  BY <1>3, <1>4, <1>5 DEF Finished, Kept
<1>7. ASSUME NEW b \in Calls, Kept(b), PipeOf(b) = e,
             call[b].at \in {"expired again?", "select"},
             WaitOK(b, call[b].on, p, partitioned)
      PROVE  WaitOK(b, call[b].on, q, partitioned)
  <2>1. b # c
    BY <1>3, <1>4, <1>7 DEF Kept
  <2>2. b[2] # "write"
    BY <1>7, <2>1, SameCall DEF PipeOf
  <2> QED
    BY <1>1, <1>7, <2>2 DEF WaitOK
<1>8. /\ q.readClosed => q.closed
      /\ q.closed => SomeClosed \/ (reset["client"] /\ reset["server"])
  BY <1>1
<1>9. /\ UNCHANGED <<partitioned, closed, closer, reset, targets, resetter, dl>>
      /\ closer' \in [Ends -> CloserStates]
  BY DEF untouched, ConnInv, ConnTypeOK
<1>10. CallsOK'
  BY <1>0, <1>1, <1>2, <1>4, <1>6, <1>7, <1>8, <1>9, PipeStep
<1> QED
  BY <1>5, <1>9, <1>10, RegistryKept

LEMMA InvTryWrite ==
    ASSUME ConnInv, NEW c \in Calls, TryWrite(c)
    PROVE  ConnInv'
<1> DEFINE e == PipeOf(c)
           p == pipe[e]
<1>0. /\ e \in Ends /\ p \in PipeStates /\ p.held + p.readable <= Room + 1
      /\ pipe \in [Ends -> PipeStates] /\ c[2] = "write" /\ call[c].at = "try"
      /\ UNCHANGED untouched
  BY EndFacts DEF ConnInv, ConnTypeOK, TryWrite
<1>1. CASE /\ p.closed \/ p.readClosed
           /\ Restart(c, "closed again?") /\ UNCHANGED <<pipe, result>>
  BY <1>0, <1>1, LooksAgain
<1>2. CASE /\ UNCHANGED pipe
           /\ call' = [Broadcast(call, e) EXCEPT ![c] = NoCall]
           /\ result' = [result EXCEPT ![c] = "data"]
  <2>1. pipe' = [pipe EXCEPT ![e] = p]
    BY <1>0, <1>2
  <2> HIDE DEF p
  <2> QED
    BY <1>0, <1>2, <2>1, DataStep DEF p
<1>3. ASSUME NEW copies \in 1..2,
             HasRoom(p), pipe' = [pipe EXCEPT ![e].readable = @ + copies],
             call' = [Broadcast(call, e) EXCEPT ![c] = NoCall],
             result' = [result EXCEPT ![c] = "data"]
      PROVE  ConnInv'
  <2> DEFINE q == [p EXCEPT !.readable = @ + copies]
  <2>1. /\ q \in PipeStates /\ q.held + q.readable <= Room + 1 /\ q.closed = p.closed
        /\ q.readClosed = p.readClosed
    BY <1>0, <1>3, RoomAssumption DEF PipeStates, HasRoom
  <2>2. pipe' = [pipe EXCEPT ![e] = q]
    BY <1>0, <1>3
  <2> HIDE DEF q
  <2> QED
    BY <1>0, <1>3, <2>1, <2>2, DataStep
<1>4. ASSUME NEW copies \in 1..2, ~p.closed, ~p.readClosed, HasRoom(p),
             pipe' = [pipe EXCEPT ![e].held = @ + copies],
             call' = [call EXCEPT ![c] = NoCall],
             result' = [result EXCEPT ![c] = "data"]
      PROVE  ConnInv'
  BY <1>0, <1>4, HoldStep
<1>5. CASE /\ ~p.closed /\ ~p.readClosed /\ ~HasRoom(p)
           /\ Await(c, "notify", "expired again?") /\ UNCHANGED <<pipe, result>>
  <2>1. WaitOK(c, "notify", p, partitioned)
    BY <1>0, <1>5 DEF WaitOK
  <2> QED
    BY <1>0, <1>5, <2>1, AwaitStep
<1> QED
  BY <1>1, <1>2, <1>3, <1>4, <1>5 DEF TryWrite

-----------------------------------------------------------------------------
(* Close and Reset on a pipe.                                              *)

(* A pipe changes for good cause, and all who wait on it are woken unless  *)
(* the change is none of their business; no call returns.                  *)
LEMMA WakeStep ==
    ASSUME ConnInv, NEW e \in Ends, NEW q \in PipeStates, q.held + q.readable <= Room + 1,
           pipe' = [pipe EXCEPT ![e] = q],
           q.readClosed => q.closed,
           q.closed => SomeClosed \/ (reset["client"] /\ reset["server"]),
           \/ call' = Broadcast(call, e)
           \/ /\ call' = call
              /\ \A b \in Calls : /\ PipeOf(b) = e
                                  /\ WaitOK(b, call[b].on, pipe[e], partitioned)
                                  => WaitOK(b, call[b].on, q, partitioned),
           closer' \in [Ends -> CloserStates],
           UNCHANGED <<result, partitioned, closed, reset, dl>>
    PROVE  CallsOK'
<1>0. call \in [Calls -> CallStates]
  BY DEF ConnInv, ConnTypeOK
<1>1. CASE call' = Broadcast(call, e)
  <2>1. /\ call' \in [Calls -> CallStates]
        /\ \A b \in Calls :
              /\ call'[b].at = call[b].at /\ call'[b].on = call[b].on
              /\ call'[b].bumped = call[b].bumped
              /\ call[b].woken => call'[b].woken
              /\ PipeOf(b) = e /\ call[b].on = "notify" => call'[b].woken
    BY <1>0, <1>1, BroadcastFacts
  <2>2. \A b \in Calls : Kept(b)
    BY <2>1 DEF Kept
  <2>3. ASSUME NEW b \in Calls, ~call'[b].woken, PipeOf(b) = e,
               WaitOK(b, call[b].on, pipe[e], partitioned)
        PROVE  WaitOK(b, call[b].on, q, partitioned)
    BY <2>1, <2>3, BroadcastCovers
  <2> QED
    BY <2>1, <2>2, <2>3, PipeStep
<1>2. CASE /\ call' = call
           /\ \A b \in Calls : /\ PipeOf(b) = e
                               /\ WaitOK(b, call[b].on, pipe[e], partitioned)
                               => WaitOK(b, call[b].on, q, partitioned)
  <2>1. \A b \in Calls : Kept(b)
    BY <1>2 DEF Kept
  <2> QED
    BY <1>0, <1>2, <2>1, PipeStep
<1> QED
  BY <1>1, <1>2

(* pipe.close and pipe.abort.                                              *)
LEMMA CloseStates ==
    ASSUME NEW p \in PipeStates, p.held + p.readable <= Room + 1
    PROVE  /\ PipeClose(p) \in PipeStates /\ PipeClose(p).closed
           /\ PipeClose(p).held = p.held /\ PipeClose(p).readable = p.readable
           /\ PipeClose(p).readClosed = p.readClosed
           /\ PipeAbort(p) \in PipeStates /\ PipeAbort(p).closed
           /\ PipeAbort(p).held + PipeAbort(p).readable <= Room + 1
<1>1. /\ PipeClose(p) \in PipeStates /\ PipeClose(p).closed
      /\ PipeClose(p).held = p.held /\ PipeClose(p).readable = p.readable
      /\ PipeClose(p).readClosed = p.readClosed
  BY DEF PipeClose, PipeStates
<1>2. /\ 0 \in 0..(Room + 1) /\ 0 + 0 <= Room + 1
  BY RoomAssumption
<1>3. /\ PipeAbort(p) \in PipeStates /\ PipeAbort(p).closed
      /\ PipeAbort(p).held = 0 /\ PipeAbort(p).readable = 0
  BY <1>2 DEF PipeAbort, PipeStates
<1> QED
  BY <1>1, <1>2, <1>3

LEMMA AbortStep ==
    ASSUME ConnInv, NEW e \in Ends, AbortPipe(e),
           SomeClosed \/ (reset["client"] /\ reset["server"]),
           closer' \in [Ends -> CloserStates],
           UNCHANGED <<result, partitioned, closed, reset, dl>>
    PROVE  CallsOK'
<1>0. /\ pipe[e] \in PipeStates /\ pipe[e].held + pipe[e].readable <= Room + 1
      /\ pipe \in [Ends -> PipeStates]
      /\ pipe[e].readClosed => pipe[e].closed
  BY DEF ConnInv, ConnTypeOK, PipeCause
<1> DEFINE q == PipeAbort(pipe[e])
<1>1. q \in PipeStates /\ q.closed /\ q.held + q.readable <= Room + 1
  BY <1>0, CloseStates
<1>2. pipe' = [pipe EXCEPT ![e] = q]
  BY DEF AbortPipe
<1> HIDE DEF q
<1>3. CASE pipe[e].readClosed
  <2>1. call' = call
    BY <1>3 DEF AbortPipe
  <2>2. ASSUME NEW b \in Calls, WaitOK(b, call[b].on, pipe[e], partitioned)
        PROVE  WaitOK(b, call[b].on, q, partitioned)
    BY <1>0, <1>3, <2>2 DEF WaitOK
  <2> QED
    BY <1>1, <1>2, <2>1, <2>2, WakeStep
<1>4. CASE ~pipe[e].readClosed
  <2>1. call' = Broadcast(call, e)
    BY <1>4 DEF AbortPipe
  <2> QED
    BY <1>1, <1>2, <2>1, WakeStep
<1> QED
  BY <1>3, <1>4

(* The rest of the invariant, when only Close has moved on.                *)
LEMMA CloserMoves ==
    ASSUME ConnInv, CallsOK', NEW e \in Ends, closer[e] # "none",
           NEW s \in CloserStates, closer' = [closer EXCEPT ![e] = s],
           UNCHANGED <<result, closed, reset, targets, resetter>>
    PROVE  ConnInv'
<1>1. CloserClosed'
  BY DEF ConnInv, ConnTypeOK, CloserClosed
<1> QED
  BY <1>1 DEF ConnInv, CallsOK, RegistryOK, EndAccounted, SomeClosed

LEMMA CloserIsTyped ==
    ASSUME ConnInv, NEW e \in Ends, NEW s \in CloserStates,
           closer' = [closer EXCEPT ![e] = s]
    PROVE  closer' \in [Ends -> CloserStates]
BY DEF ConnInv, ConnTypeOK

LEMMA InvCloseWritePipe ==
    ASSUME ConnInv, NEW e \in Ends, CloseWritePipe(e)
    PROVE  ConnInv'
<1>0. /\ pipe[e] \in PipeStates /\ pipe[e].held + pipe[e].readable <= Room + 1
      /\ pipe \in [Ends -> PipeStates] /\ closer[e] = "write pipe" /\ SomeClosed
  BY DEF ConnInv, ConnTypeOK, CloserClosed, CloseWritePipe, SomeClosed, Ends
<1> DEFINE q == PipeClose(pipe[e])
<1>1. /\ q \in PipeStates /\ q.closed /\ q.held = pipe[e].held
      /\ q.readable = pipe[e].readable /\ q.readClosed = pipe[e].readClosed
  BY <1>0, CloseStates
<1>2. /\ pipe' = [pipe EXCEPT ![e] = q] /\ "read pipe" \in CloserStates
      /\ closer' = [closer EXCEPT ![e] = "read pipe"]
      /\ UNCHANGED <<partitioned, closed, reset, targets, resetter, dl, result>>
  BY DEF CloseWritePipe, CloserStates
<1> HIDE DEF q
<1>3. closer' \in [Ends -> CloserStates]
  BY <1>2, CloserIsTyped
<1>4. CallsOK'
  <2>1. CASE pipe[e].closed
    <3>1. call' = call
      BY <2>1 DEF CloseWritePipe
    <3>2. ASSUME NEW b \in Calls, WaitOK(b, call[b].on, pipe[e], partitioned)
          PROVE  WaitOK(b, call[b].on, q, partitioned)
      BY <1>1, <2>1, <3>2 DEF WaitOK
    <3> QED
      BY <1>0, <1>1, <1>2, <1>3, <3>1, <3>2, WakeStep
  <2>2. CASE ~pipe[e].closed
    <3>1. call' = Broadcast(call, e)
      BY <2>2 DEF CloseWritePipe
    <3> QED
      BY <1>0, <1>1, <1>2, <1>3, <3>1, WakeStep
  <2> QED
    BY <2>1, <2>2
<1> QED
  BY <1>0, <1>2, <1>4, CloserMoves

LEMMA InvCloseReadPipe ==
    ASSUME ConnInv, NEW e \in Ends, CloseReadPipe(e)
    PROVE  ConnInv'
<1>0. closer[e] = "read pipe" /\ SomeClosed /\ Peer(e) \in Ends
  BY EndFacts DEF ConnInv, ConnTypeOK, CloserClosed, CloseReadPipe, SomeClosed, Ends
<1>2. /\ AbortPipe(Peer(e)) /\ "stop" \in CloserStates
      /\ closer' = [closer EXCEPT ![e] = "stop"]
      /\ UNCHANGED <<partitioned, closed, reset, targets, resetter, dl, result>>
  BY DEF CloseReadPipe, CloserStates, AbortPipe
<1>3. closer' \in [Ends -> CloserStates]
  BY <1>2, CloserIsTyped
<1>4. CallsOK'
  BY <1>0, <1>2, <1>3, AbortStep
<1> QED
  BY <1>0, <1>2, <1>4, CloserMoves

(* A Reset that aborts has signalled both ends, or one was closed.         *)
LEMMA AbortCause ==
    ASSUME ConnInv, resetter.at \in {"write pipe", "read pipe"}
    PROVE  SomeClosed \/ (reset["client"] /\ reset["server"])
<1>1. targets = <<>>
  BY DEF ConnInv, RegistryOK
<1>2. \A e \in Ends : ~In(targets, e)
  BY <1>1, NothingInEmpty
<1> QED
  BY <1>2 DEF ConnInv, EndAccounted, Ends

LEMMA InvAbortReset ==
    ASSUME ConnInv, AbortReset
    PROVE  ConnInv'
<1>0. /\ resetter.at \in {"write pipe", "read pipe"} /\ resetter.aborts # <<>>
      /\ resetter.aborts \in Seq(Ends) /\ targets = <<>>
      /\ UNCHANGED <<partitioned, closed, closer, reset, targets, dl, result, reacted>>
      /\ closer' \in [Ends -> CloserStates]
  BY DEF AbortReset, ConnInv, RegistryOK, ConnTypeOK
<1>1. /\ Head(resetter.aborts) \in Ends /\ Tail(resetter.aborts) \in Seq(Ends)
      /\ Len(resetter.aborts) # 1 => Tail(resetter.aborts) # <<>>
  BY <1>0, InTail
<1>2. SomeClosed \/ (reset["client"] /\ reset["server"])
  BY <1>0, AbortCause
<1>3. \E e \in Ends : AbortPipe(e)
  BY <1>1, EndFacts DEF AbortReset
<1>4. CallsOK'
  BY <1>0, <1>2, <1>3, AbortStep
<1>5. RegistryOK'
  <2>1. CASE resetter' = [resetter EXCEPT !.at = "read pipe"]
    BY <1>0, <2>1 DEF ConnInv, RegistryOK
  <2>2. CASE resetter' = [resetter EXCEPT
                            !.aborts = Tail(@),
                            !.at = IF Len(resetter.aborts) = 1 THEN "idle"
                                                               ELSE "write pipe"]
    BY <1>0, <1>1, <2>2 DEF ConnInv, RegistryOK
  <2> QED
    BY <2>1, <2>2 DEF AbortReset
<1>6. CloserClosed' /\ EndAccounted'
  <2>1. \A e \in Ends : SomeClosed \/ reset[e]
    BY <1>2 DEF Ends
  <2> QED
    BY <1>0, <2>1 DEF ConnInv, CloserClosed, EndAccounted, SomeClosed
<1> QED
  BY <1>4, <1>5, <1>6 DEF ConnInv, CallsOK

(* A unit that is released wakes all.                                      *)
LEMMA InvRelease ==
    ASSUME ConnInv, NEW e \in Ends, Release(e)
    PROVE  ConnInv'
<1>0. /\ pipe[e] \in PipeStates /\ pipe[e].held + pipe[e].readable <= Room + 1
      /\ pipe \in [Ends -> PipeStates]
      /\ pipe[e].readClosed => pipe[e].closed
      /\ pipe[e].closed => SomeClosed \/ (reset["client"] /\ reset["server"])
  BY DEF ConnInv, ConnTypeOK, PipeCause
<1>1. PICK k \in 1..pipe[e].held :
         pipe' = [pipe EXCEPT ![e].held = @ - k, ![e].readable = @ + k]
  BY DEF Release
<1> DEFINE q == [pipe[e] EXCEPT !.held = @ - k, !.readable = @ + k]
<1>2. /\ q \in PipeStates /\ q.held + q.readable <= Room + 1
      /\ q.closed = pipe[e].closed /\ q.readClosed = pipe[e].readClosed
  <2>1. pipe[e].held \in 0..(Room + 1) /\ pipe[e].readable \in 0..(Room + 1)
    BY <1>0 DEF PipeStates
  <2>2. /\ pipe[e].held - k \in 0..(Room + 1) /\ pipe[e].readable + k \in 0..(Room + 1)
        /\ (pipe[e].held - k) + (pipe[e].readable + k) <= Room + 1
    BY <1>0, <2>1, RoomAssumption
  <2>3. q.held = pipe[e].held - k /\ q.readable = pipe[e].readable + k
    BY <1>0 DEF PipeStates
  <2> QED
    BY <1>0, <2>2, <2>3 DEF PipeStates
<1>3. pipe' = [pipe EXCEPT ![e] = q]
  BY <1>0, <1>1
<1> HIDE DEF q
<1>4. /\ UNCHANGED <<partitioned, closed, closer, reset, targets, resetter, dl, result>>
      /\ call' = Broadcast(call, e)
      /\ closer' \in [Ends -> CloserStates] /\ result' \in [Calls -> Results]
  BY DEF Release, untouched, ConnInv, ConnTypeOK, RegistryOK
<1>5. CallsOK'
  BY <1>0, <1>2, <1>3, <1>4, WakeStep
<1> QED
  BY <1>4, <1>5, RegistryKept

-----------------------------------------------------------------------------
(* The deadlines.                                                          *)

LEMMA DeadlineStep ==
    ASSUME ConnInv, NEW c \in Calls, NEW d \in DeadlineStates,
           dl' = [dl EXCEPT ![c] = d],
           call' = call \/ Bump(c),
           d.t = "future" => d.timer \/ closed[c[1]],
           call[c].at \in {"try", "expired again?", "select"} /\ d.t = "past" =>
              d.timer \/ d.callbacks > 0 \/ call'[c].bumped \/ closed[c[1]],
           UNCHANGED others
    PROVE  ConnInv'
<1>0. call \in [Calls -> CallStates] /\ dl \in [Calls -> DeadlineStates]
  BY DEF ConnInv, ConnTypeOK
<1>1. /\ call' \in [Calls -> CallStates]
      /\ \A b \in Calls : /\ call'[b].at = call[b].at /\ call'[b].on = call[b].on
                          /\ call'[b].woken = call[b].woken
                          /\ call[b].bumped => call'[b].bumped
  <2>1. CASE call' = call
    BY <1>0, <2>1
  <2>2. CASE Bump(c)
    <3>1. /\ \A b \in Calls : b # c => call'[b] = call[b]
          /\ call' = [b \in Calls |-> call'[b]]
      BY <1>0, <2>2 DEF Bump
    <3>2. /\ call'[c].at = call[c].at /\ call'[c].on = call[c].on
          /\ call'[c].woken = call[c].woken
          /\ call'[c].bumped = (call[c].bumped \/ HoldsChannel(c))
      BY <1>0, <2>2 DEF Bump, CallStates
    <3>3. call'[c] \in CallStates
      BY <1>0, <2>2 DEF Bump, CallStates, HoldsChannel
    <3> QED
      BY <1>0, <3>1, <3>2, <3>3
  <2> QED
    BY <2>1, <2>2
<1>2. /\ dl' \in [Calls -> DeadlineStates] /\ dl'[c] = d
      /\ \A b \in Calls : b # c => dl'[b] = dl[b]
  BY <1>0
<1>3. ConnTypeOK'
  BY <1>1, <1>2 DEF ConnInv, ConnTypeOK, others
<1>4. (RegistryOK /\ CloserClosed /\ EndAccounted /\ PipeCause)'
  BY DEF ConnInv, RegistryOK, CloserClosed, EndAccounted, PipeCause, SomeClosed, others
<1>5. (ErrorCause /\ ErrorMeansPeerClosed /\ WaitCovered)'
  BY <1>1 DEF ConnInv, ErrorCause, ErrorMeansPeerClosed, WaitCovered, others
<1>6. (TimerSet /\ DeadlineCovered)'
  BY <1>1, <1>2 DEF ConnInv, TimerSet, DeadlineCovered, Expired, others
<1> QED
  BY <1>3, <1>4, <1>5, <1>6 DEF ConnInv

(* A bump reaches every call that has the channel and may yet wait.        *)
LEMMA BumpReaches ==
    ASSUME ConnInv, NEW c \in Calls, Bump(c),
           call[c].at \in {"try", "expired again?", "select"}
    PROVE  call'[c].bumped
<1>1. HoldsChannel(c)
  BY DEF HoldsChannel
<1>2. call[c] \in CallStates /\ call \in [Calls -> CallStates]
  BY DEF ConnInv, ConnTypeOK
<1>3. call'[c].bumped = (call[c].bumped \/ HoldsChannel(c))
  BY <1>2 DEF Bump, CallStates
<1> QED
  BY <1>1, <1>3

LEMMA DeadlineFacts ==
    ASSUME ConnInv, NEW c \in Calls
    PROVE  /\ dl[c] \in DeadlineStates /\ dl \in [Calls -> DeadlineStates]
           /\ dl[c].t = "future" => dl[c].timer \/ closed[c[1]]
           /\ call[c].at \in {"try", "expired again?", "select"} /\ dl[c].t = "past" =>
                 dl[c].timer \/ dl[c].callbacks > 0 \/ call[c].bumped \/ closed[c[1]]
BY DEF ConnInv, ConnTypeOK, TimerSet, DeadlineCovered, Expired

LEMMA InvSetDeadline ==
    ASSUME ConnInv, NEW c \in Calls, SetDeadline(c)
    PROVE  ConnInv'
<1> DEFINE d == [dl[c] EXCEPT !.setting = TRUE]
<1>1. /\ d \in DeadlineStates /\ d.t = dl[c].t /\ d.timer = dl[c].timer
      /\ d.callbacks = dl[c].callbacks
  BY DeadlineFacts DEF DeadlineStates
<1>2. dl' = [dl EXCEPT ![c] = d] /\ UNCHANGED <<others, call>>
  BY DeadlineFacts DEF SetDeadline
<1> HIDE DEF d
<1> QED
  BY <1>1, <1>2, DeadlineFacts, DeadlineStep

LEMMA InvSet ==
    ASSUME ConnInv, NEW c \in Calls, Set(c)
    PROVE  ConnInv'
<1>1. PICK t \in Deadlines :
         dl' = [dl EXCEPT ![c].t = t, ![c].timer = (t = "future"), ![c].setting = FALSE]
  BY DEF Set
<1> DEFINE d == [dl[c] EXCEPT !.t = t, !.timer = (t = "future"), !.setting = FALSE]
<1>2. d \in DeadlineStates /\ d.t = t /\ d.timer = (t = "future")
  BY DeadlineFacts, DeadlineAssumption DEF DeadlineStates
<1>3. dl' = [dl EXCEPT ![c] = d] /\ Bump(c) /\ UNCHANGED others
  BY <1>1, DeadlineFacts DEF Set
<1> HIDE DEF d
<1> QED
  BY <1>2, <1>3, BumpReaches, DeadlineStep

LEMMA InvElapse ==
    ASSUME ConnInv, NEW c \in Calls, Elapse(c)
    PROVE  ConnInv'
<1> DEFINE d == [dl[c] EXCEPT !.t = "past"]
<1>1. d \in DeadlineStates /\ d.t = "past" /\ d.timer = dl[c].timer
  BY DeadlineFacts DEF DeadlineStates
<1>2. dl' = [dl EXCEPT ![c] = d] /\ UNCHANGED <<others, call>> /\ dl[c].t = "future"
  BY DeadlineFacts DEF Elapse
<1> HIDE DEF d
<1> QED
  BY <1>1, <1>2, DeadlineFacts, DeadlineStep

LEMMA InvLaunch ==
    ASSUME ConnInv, NEW c \in Calls, Launch(c)
    PROVE  ConnInv'
<1> DEFINE d == [dl[c] EXCEPT !.timer = FALSE, !.callbacks = @ + 1]
<1>1. d \in DeadlineStates /\ d.t = "past" /\ d.callbacks > 0
  <2>1. dl[c].callbacks \in 0..MaxCallbacks /\ dl[c].callbacks < MaxCallbacks
    BY DeadlineFacts DEF DeadlineStates, Launch
  <2>2. dl[c].callbacks + 1 \in 0..MaxCallbacks /\ dl[c].callbacks + 1 > 0
    BY <2>1, DeadlineAssumption
  <2> QED
    BY <2>2, DeadlineFacts DEF DeadlineStates, Launch, Expired
<1>2. dl' = [dl EXCEPT ![c] = d] /\ UNCHANGED <<others, call>>
  BY DeadlineFacts DEF Launch
<1> HIDE DEF d
<1> QED
  BY <1>1, <1>2, DeadlineStep

LEMMA InvFire ==
    ASSUME ConnInv, NEW c \in Calls, Fire(c)
    PROVE  ConnInv'
<1> DEFINE d == [dl[c] EXCEPT !.callbacks = @ - 1]
<1>1. d \in DeadlineStates /\ d.t = dl[c].t /\ d.timer = dl[c].timer
  <2>1. dl[c].callbacks \in 0..MaxCallbacks /\ dl[c].callbacks > 0
    BY DeadlineFacts DEF DeadlineStates, Fire
  <2>2. dl[c].callbacks - 1 \in 0..MaxCallbacks
    BY <2>1, DeadlineAssumption
  <2> QED
    BY <2>2, DeadlineFacts DEF DeadlineStates
<1>2. dl' = [dl EXCEPT ![c] = d] /\ Bump(c) /\ UNCHANGED others
  BY DeadlineFacts DEF Fire
<1> HIDE DEF d
<1> QED
  BY <1>1, <1>2, BumpReaches, DeadlineFacts, DeadlineStep

-----------------------------------------------------------------------------
(* The rest of Close and Reset, and partitions.                            *)

LEMMA InvCloseStops ==
    ASSUME ConnInv, NEW e \in Ends, CloseStops(e)
    PROVE  ConnInv'
<1>1. /\ closer[e] = "stop" /\ closed[e] /\ "done" \in CloserStates
      /\ closer' = [closer EXCEPT ![e] = "done"]
      /\ UNCHANGED <<pipe, partitioned, closed, reset, targets, resetter, call, result>>
  BY DEF ConnInv, CloserClosed, CloseStops, CloserStates
<1>2. ASSUME NEW b \in Calls
      PROVE  /\ dl'[b] \in DeadlineStates /\ dl'[b].t = dl[b].t
             /\ dl'[b].callbacks = dl[b].callbacks
             /\ dl[b].timer => dl'[b].timer \/ closed[b[1]]
  <2>1. dl[b] \in DeadlineStates
    BY DeadlineFacts
  <2>2. CASE b[1] = e
    BY <1>1, <2>1, <2>2 DEF CloseStops, DeadlineStates
  <2>3. CASE b[1] # e
    BY <2>1, <2>3 DEF CloseStops
  <2> QED
    BY <2>2, <2>3
<1>3. dl' \in [Calls -> DeadlineStates]
  <2>1. dl' = [b \in Calls |-> dl'[b]]
    BY DEF CloseStops
  <2> QED
    BY <1>2, <2>1
<1>4. closer' \in [Ends -> CloserStates]
  BY <1>1, CloserIsTyped
<1>5. ConnTypeOK'
  BY <1>1, <1>3, <1>4 DEF ConnInv, ConnTypeOK
<1>6. (PipeCause /\ ErrorCause /\ ErrorMeansPeerClosed /\ WaitCovered)'
  BY <1>1 DEF ConnInv, PipeCause, ErrorCause, ErrorMeansPeerClosed, WaitCovered, SomeClosed
<1>7. (TimerSet /\ DeadlineCovered)'
  BY <1>1, <1>2 DEF ConnInv, TimerSet, DeadlineCovered, Expired
<1> QED
  BY <1>1, <1>5, <1>6, <1>7, CloserMoves DEF CallsOK

LEMMA InvPartitionOrHeal ==
    ASSUME ConnInv, PartitionOrHeal
    PROVE  ConnInv'
<1>0. /\ call \in [Calls -> CallStates]
      /\ UNCHANGED <<pipe, closed, closer, reset, targets, resetter, dl, result>>
  BY DEF ConnInv, ConnTypeOK, PartitionOrHeal
<1>1. ASSUME NEW b \in Calls
      PROVE  /\ call'[b] \in CallStates
             /\ call'[b].at = call[b].at /\ call'[b].on = call[b].on
             /\ call'[b].bumped = call[b].bumped
             /\ call[b].woken => call'[b].woken
             /\ call[b].on = "partition" => call'[b].woken
  <2>1. CASE call[b].on = "partition"
    BY <1>0, <2>1 DEF PartitionOrHeal, CallStates
  <2>2. CASE call[b].on # "partition"
    BY <1>0, <2>2 DEF PartitionOrHeal
  <2> QED
    BY <2>1, <2>2
<1>2. call' \in [Calls -> CallStates]
  <2>1. call' = [b \in Calls |-> call'[b]]
    BY DEF PartitionOrHeal
  <2> QED
    BY <1>1, <2>1
<1>3. partitioned' \in BOOLEAN
  BY DEF PartitionOrHeal
<1>4. ConnTypeOK'
  BY <1>0, <1>2, <1>3 DEF ConnInv, ConnTypeOK
<1>5. (RegistryOK /\ CloserClosed /\ EndAccounted /\ PipeCause)'
  BY <1>0 DEF ConnInv, RegistryOK, CloserClosed, EndAccounted, PipeCause, SomeClosed
<1>6. (ErrorCause /\ ErrorMeansPeerClosed)'
  BY <1>0, <1>1 DEF ConnInv, ErrorCause, ErrorMeansPeerClosed
<1>7. WaitCovered'
  BY <1>0, <1>1 DEF ConnInv, WaitCovered, WaitOK
<1>8. (TimerSet /\ DeadlineCovered)'
  BY <1>0, <1>1 DEF ConnInv, TimerSet, DeadlineCovered, Expired
<1> QED
  BY <1>4, <1>5, <1>6, <1>7, <1>8 DEF ConnInv

(* More ends closed or reset, nothing else moved that a call looks at.     *)
LEMMA SignalsOnly ==
    ASSUME ConnInv, closed' \in [Ends -> BOOLEAN], reset' \in [Ends -> BOOLEAN],
           closer' \in [Ends -> CloserStates],
           \A e \in Ends : (closed[e] => closed'[e]) /\ (reset[e] => reset'[e]),
           UNCHANGED <<pipe, partitioned, dl, call, result>>
    PROVE  CallsOK'
<1>1. ConnTypeOK'
  BY DEF ConnInv, ConnTypeOK
<1>2. PipeCause'
  BY DEF ConnInv, PipeCause, SomeClosed, Ends
<1>3. (ErrorCause /\ ErrorMeansPeerClosed)'
  BY EndFacts DEF ConnInv, ErrorCause, ErrorMeansPeerClosed
<1>4. WaitCovered'
  BY DEF ConnInv, WaitCovered
<1>5. (TimerSet /\ DeadlineCovered)'
  BY EndFacts DEF ConnInv, TimerSet, DeadlineCovered, Expired
<1> QED
  BY <1>1, <1>2, <1>3, <1>4, <1>5 DEF CallsOK

LEMMA InvCloseEnd ==
    ASSUME ConnInv, NEW e \in Ends, CloseEnd(e)
    PROVE  ConnInv'
<1>1. /\ closed' = [closed EXCEPT ![e] = TRUE]
      /\ closer' = [closer EXCEPT ![e] = "deregister"] /\ "deregister" \in CloserStates
      /\ UNCHANGED <<pipe, partitioned, reset, targets, resetter, dl, call, result>>
  BY DEF CloseEnd, CloserStates
<1>2. /\ closed \in [Ends -> BOOLEAN] /\ reset \in [Ends -> BOOLEAN]
      /\ closer \in [Ends -> CloserStates]
  BY DEF ConnInv, ConnTypeOK
<1>3. /\ closed' \in [Ends -> BOOLEAN] /\ closer' \in [Ends -> CloserStates]
      /\ \A x \in Ends : closed[x] => closed'[x]
  BY <1>1, <1>2
<1>4. CallsOK'
  BY <1>1, <1>2, <1>3, SignalsOnly
<1>5. RegistryOK' /\ CloserClosed'
  BY <1>1, <1>2 DEF ConnInv, RegistryOK, CloserClosed
<1>6. EndAccounted'
  BY <1>1, <1>2, <1>3 DEF ConnInv, EndAccounted, SomeClosed, Ends
<1> QED
  BY <1>4, <1>5, <1>6 DEF ConnInv, CallsOK

LEMMA InvCloseDeregisters ==
    ASSUME ConnInv, NEW e \in Ends, CloseDeregisters(e)
    PROVE  ConnInv'
<1>1. /\ closer' = [closer EXCEPT ![e] = "write pipe"] /\ "write pipe" \in CloserStates
      /\ UNCHANGED <<pipe, partitioned, closed, reset, resetter, dl, call, result>>
      /\ closed[e] /\ SomeClosed
  BY DEF ConnInv, CloserClosed, CloseDeregisters, CloserStates, SomeClosed, Ends
<1>2. /\ closed \in [Ends -> BOOLEAN] /\ reset \in [Ends -> BOOLEAN]
      /\ closer \in [Ends -> CloserStates] /\ targets \in Seq(Ends)
  BY DEF ConnInv, ConnTypeOK, RegistryOK
<1>3. closer' \in [Ends -> CloserStates]
  BY <1>1, CloserIsTyped
<1>4. CallsOK'
  BY <1>1, <1>2, <1>3, SignalsOnly
<1>5. targets' \in Seq(Ends) /\ (targets = <<>> => targets' = <<>>)
  <2>1. CASE UNCHANGED targets
    BY <1>2, <2>1
  <2>2. CASE \E i \in 1..Len(targets) :
                targets' = SubSeq(targets, 1, i - 1) \o SubSeq(targets, i + 1, Len(targets))
    <3>1. PICK i \in 1..Len(targets) :
             targets' = SubSeq(targets, 1, i - 1) \o SubSeq(targets, i + 1, Len(targets))
      BY <2>2
    <3>2. Len(targets) # 0
      BY <1>2, <3>1
    <3>3. /\ SubSeq(targets, 1, i - 1) \in Seq(Ends)
          /\ SubSeq(targets, i + 1, Len(targets)) \in Seq(Ends)
      BY <1>2
    <3> QED
      BY <1>2, <3>1, <3>2, <3>3, EmptyIffLenZero
  <2> QED
    BY <2>1, <2>2 DEF CloseDeregisters
<1>6. RegistryOK'
  BY <1>1, <1>5 DEF ConnInv, RegistryOK
<1>7. CloserClosed' /\ EndAccounted'
  BY <1>1, <1>2 DEF ConnInv, CloserClosed, EndAccounted, SomeClosed
<1> QED
  BY <1>4, <1>6, <1>7 DEF ConnInv, CallsOK

LEMMA InvReset ==
    ASSUME ConnInv, Reset
    PROVE  ConnInv'
<1>1. /\ resetter' = [at |-> "signal", todo |-> targets, aborts |-> targets]
      /\ targets # <<>> /\ targets' = <<>> /\ resetter.at = "idle"
      /\ UNCHANGED <<pipe, partitioned, closed, closer, reset, dl, call, result>>
  BY DEF Reset
<1>2. /\ closed \in [Ends -> BOOLEAN] /\ reset \in [Ends -> BOOLEAN]
      /\ closer \in [Ends -> CloserStates] /\ targets \in Seq(Ends)
  BY DEF ConnInv, ConnTypeOK, RegistryOK
<1>3. CallsOK'
  BY <1>1, <1>2, SignalsOnly
<1>4. RegistryOK'
  <2>1. /\ resetter'.at = "signal" /\ resetter'.todo = targets
        /\ resetter'.aborts = targets
        /\ resetter' \in [at : {"idle", "signal", "write pipe", "read pipe"},
                          todo : Seq(Ends), aborts : Seq(Ends)]
    BY <1>1, <1>2
  <2>2. targets' \in Seq(Ends) /\ result' \in [Calls -> Results]
    <3>1. <<>> \in Seq(Ends)
      OBVIOUS
    <3>2. targets' = <<>> /\ result' = result
      BY <1>1
    <3>3. result \in [Calls -> Results]
      BY DEF ConnInv, RegistryOK
    <3> QED
      BY <3>1, <3>2, <3>3
  <2> QED
    BY <1>1, <2>1, <2>2 DEF RegistryOK
<1>5. CloserClosed' /\ EndAccounted'
  BY <1>1 DEF ConnInv, CloserClosed, EndAccounted, SomeClosed
<1> QED
  BY <1>3, <1>4, <1>5 DEF ConnInv, CallsOK

LEMMA InvSignalReset ==
    ASSUME ConnInv, SignalReset
    PROVE  ConnInv'
<1> DEFINE todo == resetter.todo
<1>0. /\ resetter.at = "signal" /\ todo # <<>> /\ todo \in Seq(Ends)
      /\ reset' = [reset EXCEPT ![Head(todo)] = TRUE]
      /\ resetter' = [resetter EXCEPT
                        !.todo = Tail(@),
                        !.at = IF Len(resetter.todo) = 1 THEN "write pipe" ELSE "signal"]
      /\ targets = <<>>
      /\ UNCHANGED <<pipe, partitioned, closed, closer, targets, dl, call, result>>
  BY DEF SignalReset, ConnInv, RegistryOK
<1>1. /\ Head(todo) \in Ends /\ Tail(todo) \in Seq(Ends)
      /\ Len(todo) # 1 => Tail(todo) # <<>>
      /\ \A e : In(todo, e) /\ e # Head(todo) => In(Tail(todo), e)
      /\ Len(todo) = 1 => \A e : In(todo, e) => e = Head(todo)
  BY <1>0, InTail
<1>2. /\ closed \in [Ends -> BOOLEAN] /\ reset \in [Ends -> BOOLEAN]
      /\ closer \in [Ends -> CloserStates]
  BY DEF ConnInv, ConnTypeOK
<1>3. /\ reset' \in [Ends -> BOOLEAN] /\ \A e \in Ends : reset[e] => reset'[e]
      /\ reset'[Head(todo)]
  BY <1>0, <1>1, <1>2
<1>4. CallsOK'
  BY <1>0, <1>2, <1>3, SignalsOnly
<1>5. /\ resetter'.todo = Tail(todo)
      /\ resetter'.at = IF Len(todo) = 1 THEN "write pipe" ELSE "signal"
      /\ resetter'.aborts = resetter.aborts
      /\ resetter' \in [at : {"idle", "signal", "write pipe", "read pipe"},
                        todo : Seq(Ends), aborts : Seq(Ends)]
  BY <1>0, <1>1 DEF ConnInv, RegistryOK
<1>6. RegistryOK'
  BY <1>0, <1>1, <1>5 DEF ConnInv, RegistryOK
<1>7. CloserClosed'
  BY <1>0 DEF ConnInv, CloserClosed
<1>8. EndAccounted'
  <2> SUFFICES ASSUME NEW e \in Ends, ~SomeClosed, ~reset'[e]
               PROVE  resetter'.at = "signal" /\ In(resetter'.todo, e)
    BY <1>0 DEF EndAccounted, SomeClosed
  <2>1. In(todo, e)
    BY <1>0, <1>3, NothingInEmpty DEF ConnInv, EndAccounted
  <2>2. e # Head(todo)
    BY <1>3
  <2> QED
    BY <1>1, <1>5, <2>1, <2>2
<1> QED
  BY <1>4, <1>6, <1>7, <1>8 DEF ConnInv, CallsOK

-----------------------------------------------------------------------------
LEMMA ConnInvNext ==
    ASSUME ConnInv, [ConnNext]_connVars
    PROVE  ConnInv'
<1>1. ASSUME NEW c \in Calls, Begin(c) \/ CallStep(c)
      PROVE  ConnInv'
  BY <1>1, InvBegin, InvCheckClosed, InvCheckReset, InvSnapshot, InvCheckExpired,
     InvTryRead, InvTryWrite, InvSelect DEF CallStep
<1>2. ASSUME NEW c \in Calls,
             SetDeadline(c) \/ Set(c) \/ Elapse(c) \/ Launch(c) \/ Fire(c)
      PROVE  ConnInv'
  BY <1>2, InvSetDeadline, InvSet, InvElapse, InvLaunch, InvFire
<1>3. ASSUME NEW e \in Ends, CloseEnd(e) \/ CloseStep(e) \/ Release(e)
      PROVE  ConnInv'
  BY <1>3, InvCloseEnd, InvCloseDeregisters, InvCloseWritePipe, InvCloseReadPipe,
     InvCloseStops, InvRelease DEF CloseStep
<1>4. CASE Reset \/ ResetStep \/ PartitionOrHeal
  BY <1>4, InvReset, InvSignalReset, InvAbortReset, InvPartitionOrHeal DEF ResetStep
<1>5. CASE UNCHANGED connVars
  <2>1. (ConnTypeOK /\ RegistryOK /\ CloserClosed /\ EndAccounted /\ PipeCause)'
    BY <1>5 DEF ConnInv, ConnTypeOK, RegistryOK, CloserClosed, EndAccounted, PipeCause,
                SomeClosed, connVars
  <2>2. (ErrorCause /\ ErrorMeansPeerClosed /\ WaitCovered /\ TimerSet /\ DeadlineCovered)'
    BY <1>5 DEF ConnInv, ErrorCause, ErrorMeansPeerClosed, WaitCovered, TimerSet,
                DeadlineCovered, Expired, connVars
  <2> QED
    BY <2>1, <2>2 DEF ConnInv
<1> QED
  BY <1>1, <1>2, <1>3, <1>4, <1>5 DEF ConnNext

(* The parts of the invariant that the runs check.                         *)
LEMMA ConnInvImplies ==
    ASSUME ConnInv
    PROVE  /\ ConnTypeOK /\ ErrorMeansPeerClosed /\ DeadlineCovered
           /\ PipeWaitCovered
<1>1. PipeWaitCovered
  BY DEF ConnInv, WaitCovered, WaitOK, PipeWaitCovered
<1> QED
  BY <1>1 DEF ConnInv

(* The inductive invariant holds in every reachable state.                 *)
THEOREM ConnInvariance == ConnSpec => []ConnInv
BY ConnInvInit, ConnInvNext, PTL DEF ConnSpec

(* The state of both ends, their pipes, deadlines and calls keeps its      *)
(* shape, and what a pipe holds never exceeds its capacity, however Reads, *)
(* Writes, Closes, deadline setters and a Reset interleave.                *)
THEOREM ConnTypeCorrect == ConnSpec => []ConnTypeOK
BY ConnInvariance, ConnInvImplies, PTL

(* A Read reports EOF, and a Write a broken pipe, only when the peer has   *)
(* closed: neither this end's own Close nor a Reset can be mistaken for it,*)
(* although both abort the same pipes while the call is between two checks.*)
THEOREM ErrorsMeanPeerClosed == ConnSpec => []ErrorMeansPeerClosed
BY ConnInvariance, ConnInvImplies, PTL

(* No wakeup of a pipe is lost: a call in its select that was not woken    *)
(* would have to wait again.                                               *)
THEOREM NoPipeWakeupLost == ConnSpec => []PipeWaitCovered
BY ConnInvariance, ConnInvImplies, PTL

(* No wakeup of a deadline is lost: a call on its way to its select, or in *)
(* it, whose deadline has passed has a timer or a callback still to come,  *)
(* or a channel it selects on is closed already.                           *)
THEOREM NoDeadlineWakeupLost == ConnSpec => []DeadlineCovered
BY ConnInvariance, ConnInvImplies, PTL

=============================================================================
