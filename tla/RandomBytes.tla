---------------------------- MODULE RandomBytes ----------------------------
(***************************************************************************)
(* randombytes of utils/randombytes.c: one loop over getrandom, one over a *)
(* device opened into a static descriptor, one over CryptGenRandom.  The   *)
(* operating system may interrupt a call, deliver less than was asked for, *)
(* or fail, which ends the process.                                        *)
(*                                                                         *)
(* The descriptor fd is shared by the threads without a lock.  A build may *)
(* read it again each time the code names it, or go on with the value that *)
(* open has just returned until another call may have changed the static.  *)
(***************************************************************************)
EXTENDS Integers

CONSTANTS Threads,
          MaxBytes,     \* bound: length of a request
          MaxChunk,     \* 1048576: what one CryptGenRandom is asked for
          MaxInterrupts \* bound: how often the system interrupts a call

CONSTANTS EINTR, EIO, EBADF     \* values of errno

NoFd == -1
Descriptor == 3
Variants == {"getrandom", "device", "windows"}

SizesAssumption == MaxBytes \in Nat /\ MaxChunk \in Nat

VARIABLES variant, rereads, \* chosen when the library is built
          fd,               \* the static descriptor
          pc, errno,        \* per thread
          own,              \* the descriptor a register may still hold, or none
          out, outlen,      \* what is left of the request
          request,          \* ghost: its length
          written,          \* ghost: how often each byte was written
          interrupts,       \* ghost: how often a call was interrupted
          stopped,          \* abort was called
          overwritten       \* ghost: an interrupted open took fd from the others

vars == <<variant, rereads, fd, pc, errno, own, out, outlen, request, written, interrupts,
          stopped, overwritten>>

osVars == <<variant, rereads, fd, interrupts, overwritten>>
bufferVars == <<out, outlen, request, written>>

Nothing == -2

(* The system interrupts a call now and then, and not for ever.            *)
Counted(error) ==
    /\ error = EINTR => interrupts < MaxInterrupts
    /\ interrupts' = interrupts + (IF error = EINTR THEN 1 ELSE 0)

Init ==
    /\ variant \in Variants /\ rereads \in BOOLEAN
    /\ fd = NoFd /\ interrupts = 0 /\ stopped = FALSE /\ overwritten = FALSE
    /\ pc = [t \in Threads |-> "idle"]
    /\ errno = [t \in Threads |-> 0]
    /\ own = [t \in Threads |-> Nothing]
    /\ out = [t \in Threads |-> 0] /\ outlen = out /\ request = out
    /\ written = [t \in Threads |-> [b \in 0 .. MaxBytes |-> 0]]

Goto(t, label) == pc' = [pc EXCEPT ![t] = label]

(* abort: no thread goes on. *)
Abort == stopped' = TRUE /\ UNCHANGED pc

Call(t, n) ==
    /\ pc[t] \in {"idle", "returned"}
    /\ out' = [out EXCEPT ![t] = 0]
    /\ outlen' = [outlen EXCEPT ![t] = n] /\ request' = [request EXCEPT ![t] = n]
    /\ written' = [written EXCEPT ![t] = [b \in 0 .. MaxBytes |-> 0]]
    /\ Goto(t, CASE variant = "getrandom" -> "loop"
                 [] variant = "device" -> "test"
                 [] variant = "windows" -> "acquire")
    /\ UNCHANGED <<osVars, errno, own, stopped>>

-----------------------------------------------------------------------------
(* The descriptor, as this thread reads it.                                *)
Seen(t) == IF rereads \/ own[t] = Nothing THEN fd ELSE own[t]

(* while(fd == -1) *)
TestFd(t) ==
    /\ pc[t] = "test"
    /\ Goto(t, IF Seen(t) = NoFd THEN "open" ELSE "loop")
    /\ UNCHANGED <<osVars, errno, own, bufferVars, stopped>>

(* fd = open("/dev/urandom", O_RDONLY) *)
Opened(t, value, error) ==
    /\ pc[t] = "open"
    /\ fd' = value
    /\ own' = [own EXCEPT ![t] = value]
    /\ errno' = [errno EXCEPT ![t] = error]
    /\ overwritten' = (overwritten \/ (value = NoFd /\ fd # NoFd))
    /\ Goto(t, "interrupted")
    /\ UNCHANGED <<variant, rereads, bufferVars, stopped>>

Open(t) ==
    \/ Opened(t, Descriptor, errno[t]) /\ UNCHANGED interrupts
    \/ \E error \in {EINTR, EIO} : Opened(t, NoFd, error) /\ Counted(error)

(* if(fd == -1 && errno == EINTR) continue; *)
TestInterrupted(t) ==
    /\ pc[t] = "interrupted"
    /\ Goto(t, IF Seen(t) = NoFd /\ errno[t] = EINTR THEN "test" ELSE "failed")
    /\ UNCHANGED <<osVars, errno, own, bufferVars, stopped>>

(* else if(fd == -1) abort(); *)
TestFailed(t) ==
    /\ pc[t] = "failed"
    /\ IF Seen(t) = NoFd THEN Abort ELSE Goto(t, "test") /\ UNCHANGED stopped
    /\ UNCHANGED <<osVars, errno, own, bufferVars>>

-----------------------------------------------------------------------------
(* The loop over outlen.  Only read needs a descriptor.                    *)
Unopened(t) == variant = "device" /\ Seen(t) = NoFd

(* Mutant: the pointer is not moved.                                       *)
Rewound(pointer, n) == pointer

(* out += ret *)
Advanced(pointer, n) == pointer + n

(* The system fills n bytes; out += n; outlen -= n.                        *)
Filled(t, n) ==
    /\ written' = [written EXCEPT ![t] =
                      [b \in DOMAIN @ |-> IF b \in out[t] .. out[t] + n - 1 THEN @[b] + 1 ELSE @[b]]]
    /\ out' = [out EXCEPT ![t] = Advanced(@, n)]
    /\ outlen' = [outlen EXCEPT ![t] = @ - n]
    /\ own' = [own EXCEPT ![t] = Nothing]
    /\ UNCHANGED <<osVars, pc, errno, request, stopped>>

(* Mutant: while(outlen >= 0). *)
AnyLength(n) == n >= 0

(* while(outlen > 0) *)
Wanted(n) == n > 0

(* getrandom and read deliver some of what is asked for.                   *)
Deliver(t) ==
    /\ pc[t] = "loop" /\ Wanted(outlen[t]) /\ variant # "windows" /\ ~Unopened(t)
    /\ \E n \in IF outlen[t] = 0 THEN {0} ELSE 1 .. outlen[t] : Filled(t, n)

(* CryptGenRandom delivers all of len.                                     *)
Generate(t) ==
    /\ pc[t] = "loop" /\ Wanted(outlen[t]) /\ variant = "windows"
    /\ Filled(t, IF outlen[t] > MaxChunk THEN MaxChunk ELSE outlen[t])

(* A call returns -1 with errno, or FALSE on Windows: it is made again     *)
(* only when it was interrupted.                                           *)
CallFails(t, error) ==
    /\ pc[t] = "loop" /\ Wanted(outlen[t])
    /\ errno' = [errno EXCEPT ![t] = error]
    /\ Counted(error)
    /\ IF error = EINTR THEN UNCHANGED <<pc, stopped>> ELSE Abort
    /\ own' = [own EXCEPT ![t] = Nothing]
    /\ UNCHANGED <<variant, rereads, fd, overwritten, bufferVars>>

Interrupted(t)   == variant # "windows" /\ ~Unopened(t) /\ CallFails(t, EINTR)
Failed(t)        == ~Unopened(t) /\ CallFails(t, EIO)
BadDescriptor(t) == Unopened(t) /\ CallFails(t, EBADF)

Return(t) ==
    /\ pc[t] = "loop" /\ ~Wanted(outlen[t])
    /\ Goto(t, IF variant = "windows" THEN "release" ELSE "returned")
    /\ own' = [own EXCEPT ![t] = Nothing]
    /\ UNCHANGED <<osVars, errno, bufferVars, stopped>>

(* CryptAcquireContext and CryptReleaseContext: they work or the process   *)
(* ends.                                                                   *)
Context(t) ==
    /\ pc[t] \in {"acquire", "release"}
    /\ \/ /\ Goto(t, IF pc[t] = "acquire" THEN "loop" ELSE "returned")
          /\ UNCHANGED <<errno, stopped>>
       \/ errno' = [errno EXCEPT ![t] = EIO] /\ Abort
    /\ UNCHANGED <<osVars, own, bufferVars>>

Step(t) ==
    \/ TestFd(t) \/ Open(t) \/ TestInterrupted(t) \/ TestFailed(t)
    \/ Deliver(t) \/ Generate(t) \/ BadDescriptor(t) \/ Return(t) \/ Context(t)

Next ==
    /\ ~stopped
    /\ \E t \in Threads :
           \/ Step(t) \/ Interrupted(t) \/ Failed(t)
           \/ \E n \in 0 .. MaxBytes : Call(t, n)

(* A thread that can go on does; no call has to fail.                      *)
Fairness == \A t \in Threads : WF_vars(~stopped /\ Step(t))

Spec == Init /\ [][Next]_vars /\ Fairness

-----------------------------------------------------------------------------
(* A request that returns has every byte written exactly once and none     *)
(* behind it, however the deliveries were cut and interrupted, and also    *)
(* where the interrupted open of one thread took the descriptor of the     *)
(* others: that stops the process and fills no buffer with anything else.  *)
(* Otherwise it is stopped only when the system has failed a call.         *)
FilledOrStopped ==
    /\ \A t \in Threads, b \in 0 .. MaxBytes :
           /\ written[t][b] <= IF b < request[t] THEN 1 ELSE 0
           /\ pc[t] = "returned" /\ b < request[t] => written[t][b] = 1
    /\ stopped => overwritten \/ \E t \in Threads : errno[t] = EIO

(* Interrupted and short calls do not keep a request from being filled.    *)
EventuallyFilled ==
    \A t \in Threads : pc[t] # "idle" ~> (pc[t] = "returned" \/ stopped)

=============================================================================
