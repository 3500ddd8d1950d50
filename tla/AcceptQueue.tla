---------------------------- MODULE AcceptQueue -----------------------------
(***************************************************************************)
(* What the listeners of a Network promise, however dials, Accepts and     *)
(* Closes interleave: each is a FIFO queue of bounded capacity; the        *)
(* acceptor's end of a connection is queued at most once, by a listener    *)
(* that is open, and is then handed to one Accept, in order, or closed by  *)
(* the listener's Close.  Reservations, ordinals, names, addresses,        *)
(* partitions and locks are left out.                                      *)
(***************************************************************************)
EXTENDS Naturals, Sequences

CONSTANT Capacity  \* connections a listener holds for Accept

VARIABLES
    waiting,  \* by listener: the connections to accept, oldest first
    phase,    \* by listener: "open", "closed" while it drains, then "gone"
    ends      \* by connection: its acceptor's end, "new", "open" or "closed"

queueVars == <<waiting, phase, ends>>

QueueInit == waiting = <<>> /\ phase = <<>> /\ ends = <<>>

(* Nobody has the end yet, and no queue holds it.                          *)
Untouched(c) == /\ ends[c] = "new"
                /\ \A l \in DOMAIN waiting :
                      \A i \in DOMAIN waiting[l] : waiting[l][i] # c

NewListener == /\ waiting' = Append(waiting, <<>>)
               /\ phase' = Append(phase, "open")
               /\ UNCHANGED ends

NewConnection == ends' = Append(ends, "new") /\ UNCHANGED <<waiting, phase>>

Enqueue(l, c) == /\ phase[l] = "open" /\ Len(waiting[l]) < Capacity
                 /\ Untouched(c)
                 /\ waiting' = [waiting EXCEPT ![l] = Append(@, c)]
                 /\ UNCHANGED <<phase, ends>>

(* A connection that comes too late is closed at once.                     *)
TooLate(l, c) == /\ phase[l] # "open"
                 /\ Untouched(c)
                 /\ ends' = [ends EXCEPT ![c] = "closed"]
                 /\ UNCHANGED <<waiting, phase>>

(* The oldest connection leaves the queue, and its end becomes fate.       *)
Dequeue(l, fate) == /\ waiting[l] # <<>>
                    /\ waiting' = [waiting EXCEPT ![l] = Tail(@)]
                    /\ ends' = [ends EXCEPT ![Head(waiting[l])] = fate]
                    /\ UNCHANGED phase

TakeNext(l) == Dequeue(l, "open")

Discard(l)  == phase[l] = "closed" /\ Dequeue(l, "closed")

Shut(l)     == /\ phase[l] = "open"
               /\ phase' = [phase EXCEPT ![l] = "closed"]
               /\ UNCHANGED <<waiting, ends>>

Finish(l)   == /\ phase[l] = "closed" /\ waiting[l] = <<>>
               /\ phase' = [phase EXCEPT ![l] = "gone"]
               /\ UNCHANGED <<waiting, ends>>

(* Who accepted an end closes it.                                          *)
CloseEnd(c) == /\ ends[c] = "open"
               /\ ends' = [ends EXCEPT ![c] = "closed"]
               /\ UNCHANGED <<waiting, phase>>

QueueNext ==
    \/ NewListener \/ NewConnection
    \/ \E l \in DOMAIN waiting :
          \/ \E c \in DOMAIN ends : Enqueue(l, c) \/ TooLate(l, c)
          \/ TakeNext(l) \/ Discard(l) \/ Shut(l) \/ Finish(l)
    \/ \E c \in DOMAIN ends : CloseEnd(c)

QueueSpec == QueueInit /\ [][QueueNext]_queueVars
=============================================================================
