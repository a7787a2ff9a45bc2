-------------------------------- MODULE Pipe --------------------------------
(***************************************************************************)
(* One pipe and the processes that read, write, vmsplice, poll and resize  *)
(* it and close their end (fs/pipe.c, fs/splice.c).                        *)
(*                                                                         *)
(* A step is one round of a process's loop under pipe->mutex.  Taking the  *)
(* mutex, falling asleep, and waking others after the mutex is dropped are *)
(* steps of their own.  A page holds Page bytes.                           *)
(***************************************************************************)
EXTENDS Integers, Sequences, FiniteSets

CONSTANTS
  Reader, Writer,          \* processes that read or write
  Unsplicer, Splicer,      \* processes that vmsplice from the pipe, to the pipe
  ReadPoll, WritePoll,     \* processes that poll for input, for room
  NonBlock,                \* those that set O_NONBLOCK or SPLICE_F_NONBLOCK
  Signals,                 \* those that may get a signal
  Data,                    \* what each may write or vmsplice
  Want,                    \* how much a read may ask for
  Page,                    \* the size of a page
  DefBuffers, Sizes,       \* first capacity, what F_SETPIPE_SZ may ask for, in pages
  None

Source == Writer \cup Splicer
Sink   == Reader \cup Unsplicer
Caller == Source \cup Sink
Poller == ReadPoll \cup WritePoll
Proc   == Caller \cup Poller
FMODE_READ == Sink \cup ReadPoll

ASSUME PipeAssumption ==
  /\ Page \in Nat \ {0} /\ Sizes \subseteq Nat \ {0} /\ DefBuffers \in Sizes
  /\ DOMAIN Data = Source /\ \A p \in Source : Data[p] \subseteq Seq(Nat) \ {<<>>}
  /\ Want \subseteq Nat \ {0}
  /\ None \notin Proc /\ IsFiniteSet(Proc)
  /\ Source \cap Sink = {} /\ Poller \cap Caller = {} /\ ReadPoll \cap WritePoll = {}
  /\ Writer \cap Splicer = {} /\ Reader \cap Unsplicer = {}

VARIABLES
  bufs, curbuf, nrbufs, buffers, \* the ring of buffers
  tmp_page,                      \* whether a page is kept for the next write
  readers, writers,              \* ends still open
  waiting_writers,
  mutex,                         \* who holds pipe->mutex
  wait,                          \* who is on pipe->wait and has not been woken
  pc,
  total_len,                     \* the size of the write; what is left of the read
  from,                          \* what is left of the write
  to,                            \* what the read has copied
  do_wakeup,
  sig,                           \* who has a signal pending
  untold                         \* who sleeps through a change that wakes nobody

ring == <<bufs, curbuf, nrbufs, buffers, tmp_page>>
call == <<total_len, from, to, do_wakeup>>
open == <<readers, writers>>
vars == <<ring, call, open, waiting_writers, mutex, wait, pc, sig, untold>>

Free == [off |-> 0, data |-> <<>>, anon |-> FALSE]

Init ==
  /\ bufs = [i \in 0 .. DefBuffers - 1 |-> Free] /\ curbuf = 0 /\ nrbufs = 0
  /\ buffers = DefBuffers /\ tmp_page = FALSE
  /\ readers = Cardinality(FMODE_READ) /\ writers = Cardinality(Proc \ FMODE_READ)
  /\ waiting_writers = 0 /\ mutex = None /\ wait = {} /\ sig = {} /\ untold = {}
  /\ pc = [p \in Proc |-> "out"]
  /\ total_len = [p \in Proc |-> 0] /\ from = [p \in Proc |-> <<>>]
  /\ to = [p \in Proc |-> <<>>] /\ do_wakeup = [p \in Proc |-> FALSE]

-----------------------------------------------------------------------------
Goto(p, l) == pc' = [pc EXCEPT ![p] = l]

(* pipe->wait after a wake-up whose key the pollers ps have asked for;     *)
(* callers are woken by any.                                               *)
Woken(ps) == wait \cap (Poller \ ps)

(* pipe_wait, where the queue is q by then.                                *)
Sleep(p, q) ==
  /\ Goto(p, "wait") /\ wait' = q \cup {p} /\ mutex' = None
  /\ UNCHANGED untold

Lock(p) ==
  /\ pc[p] \in {"lock", "relock"} /\ mutex = None
  /\ mutex' = p
  /\ Goto(p, IF pc[p] = "relock" THEN "loop"
             ELSE IF p \in Writer THEN "merge"
             ELSE IF p \in Unsplicer THEN "next" ELSE "loop")
  /\ waiting_writers' = IF pc[p] = "relock" /\ p \in Source
                        THEN waiting_writers - 1 ELSE waiting_writers
  /\ UNCHANGED <<ring, call, open, wait, sig, untold>>

(* schedule in pipe_wait returns.                                          *)
Resume(p) ==
  /\ pc[p] = "wait" /\ p \notin wait
  /\ Goto(p, "relock")
  /\ untold' = untold \ {p}
  /\ UNCHANGED <<ring, call, open, waiting_writers, mutex, wait, sig>>

(* The end of the call.                                                    *)
Return(p) ==
  /\ Goto(p, "out")
  /\ total_len' = [total_len EXCEPT ![p] = 0] /\ from' = [from EXCEPT ![p] = <<>>]
  /\ to' = [to EXCEPT ![p] = <<>>] /\ do_wakeup' = [do_wakeup EXCEPT ![p] = FALSE]
  /\ sig' = sig \ {p}
  /\ UNCHANGED <<ring, open, waiting_writers, untold>>

(* splice_from_pipe_end wakes the writers before the mutex is dropped.     *)
Unlock(p) ==
  /\ pc[p] = "unlock" /\ (p \in Unsplicer \/ ~ do_wakeup[p])
  /\ mutex' = None
  /\ wait' = IF do_wakeup[p] THEN Woken(Poller) ELSE wait
  /\ Return(p)

(* The other calls wake the other side after that.                         *)
UnlockFirst(p) ==
  /\ pc[p] = "unlock" /\ p \notin Unsplicer /\ do_wakeup[p]
  /\ mutex' = None
  /\ Goto(p, "wake")
  /\ UNCHANGED <<ring, call, open, waiting_writers, wait, sig, untold>>

(* A mutant: the pollers of the own side are woken.                        *)
WakeUpWrongKey(p) ==
  /\ pc[p] = "wake"
  /\ wait' = Woken(IF p \in Reader THEN ReadPoll
                   ELSE IF p \in Writer THEN WritePoll ELSE Poller)
  /\ Return(p)
  /\ UNCHANGED mutex

WakeUp(p) ==
  /\ pc[p] = "wake"
  /\ wait' = Woken(IF p \in Reader THEN WritePoll
                   ELSE IF p \in Writer THEN ReadPoll ELSE Poller)
  /\ Return(p)
  /\ UNCHANGED mutex

(* Leave the loop with nothing changed.                                    *)
Break(p) ==
  /\ Goto(p, "unlock")
  /\ UNCHANGED <<ring, call, open, waiting_writers, mutex, wait, sig, untold>>

-----------------------------------------------------------------------------
(* pipe_read, and vmsplice_to_user.                                        *)

Read(p) ==
  /\ pc[p] = "out"
  /\ Goto(p, "lock")
  /\ \E n \in Want : total_len' = [total_len EXCEPT ![p] = n]
  /\ UNCHANGED <<ring, from, to, do_wakeup, open, waiting_writers, mutex, wait, sig, untold>>

(* Up to total_len bytes of the first buffer.  A used up buffer is         *)
(* released; anon_pipe_buf_release keeps one page.                         *)
ReadBuffer(p) ==
  LET b     == bufs[curbuf]
      chars == IF Len(b.data) > total_len[p] THEN total_len[p] ELSE Len(b.data)
      left  == [b EXCEPT !.off = @ + chars, !.data = SubSeq(@, chars + 1, Len(@))]
      used  == chars = Len(b.data)
  IN
  /\ pc[p] = "loop" /\ nrbufs > 0
  /\ to' = [to EXCEPT ![p] = @ \o SubSeq(b.data, 1, chars)]
  /\ bufs' = [bufs EXCEPT ![curbuf] = IF used THEN Free ELSE left]
  /\ curbuf' = IF used THEN (curbuf + 1) % buffers ELSE curbuf
  /\ nrbufs' = IF used THEN nrbufs - 1 ELSE nrbufs
  /\ tmp_page' = (tmp_page \/ (used /\ b.anon))
  /\ do_wakeup' = [do_wakeup EXCEPT ![p] = @ \/ used]
  /\ total_len' = [total_len EXCEPT ![p] = @ - chars]
  /\ Goto(p, IF total_len[p] = chars THEN "unlock"
             ELSE IF p \in Unsplicer /\ nrbufs = 1 THEN "next" ELSE "loop")
  /\ UNCHANGED <<buffers, from, open, waiting_writers, mutex, wait, sig, untold>>

(* The bytes cannot be copied to the caller.                               *)
ReadFault(p) == pc[p] = "loop" /\ nrbufs > 0 /\ Break(p)

(* Syscall merging: even with some data or O_NONBLOCK, a read waits for a  *)
(* writer that sleeps.                                                     *)
ReadGivesUp(p) ==
  \/ writers = 0
  \/ waiting_writers = 0 /\ (to[p] # <<>> \/ p \in NonBlock)
  \/ p \in sig

ReadEnds(p) == pc[p] = "loop" /\ nrbufs = 0 /\ ReadGivesUp(p) /\ Break(p)

ReadWait(p) ==
  /\ pc[p] = "loop" /\ nrbufs = 0 /\ ~ ReadGivesUp(p)
  /\ Sleep(p, IF do_wakeup[p] THEN Woken(WritePoll) ELSE wait)
  /\ UNCHANGED <<ring, call, open, waiting_writers, sig>>

(* splice_from_pipe_next.                                                  *)
UnspliceNext(p) ==
  /\ pc[p] = "next"
  /\ Goto(p, IF p \in sig THEN "unlock" ELSE "loop")
  /\ UNCHANGED <<ring, call, open, waiting_writers, mutex, wait, sig, untold>>

UnspliceGivesUp(p) ==
  \/ writers = 0
  \/ waiting_writers = 0 /\ to[p] # <<>>
  \/ p \in NonBlock
  \/ p \in sig

UnspliceEnds(p) == pc[p] = "loop" /\ nrbufs = 0 /\ UnspliceGivesUp(p) /\ Break(p)

(* A mutant: the wake-up is forgotten.                                     *)
UnspliceWaitQuiet(p) ==
  /\ pc[p] = "loop" /\ nrbufs = 0 /\ ~ UnspliceGivesUp(p)
  /\ Sleep(p, wait)
  /\ do_wakeup' = [do_wakeup EXCEPT ![p] = FALSE]
  /\ UNCHANGED <<ring, total_len, from, to, open, waiting_writers, sig>>

UnspliceWait(p) ==
  /\ pc[p] = "loop" /\ nrbufs = 0 /\ ~ UnspliceGivesUp(p)
  /\ Sleep(p, IF do_wakeup[p] THEN Woken(Poller) ELSE wait)
  /\ do_wakeup' = [do_wakeup EXCEPT ![p] = FALSE]
  /\ UNCHANGED <<ring, total_len, from, to, open, waiting_writers, sig>>

-----------------------------------------------------------------------------
(* pipe_write, and vmsplice_to_pipe.                                       *)

Write(p) ==
  /\ pc[p] = "out"
  /\ Goto(p, "lock")
  /\ \E s \in Data[p] : /\ from' = [from EXCEPT ![p] = s]
                     /\ total_len' = [total_len EXCEPT ![p] = Len(s)]
  /\ UNCHANGED <<ring, to, do_wakeup, open, waiting_writers, mutex, wait, sig, untold>>

(* The bytes beyond full pages go to the last buffer, if they fit there.   *)
Chars(p) == total_len[p] % Page
LastBuf  == (curbuf + nrbufs - 1) % buffers
(* A mutant: what has been read of the page is not counted.                *)
CanMergeNoOffset(p) ==
  /\ nrbufs > 0 /\ Chars(p) # 0
  /\ bufs[LastBuf].anon
  /\ Len(bufs[LastBuf].data) + Chars(p) <= Page

CanMerge(p) ==
  /\ nrbufs > 0 /\ Chars(p) # 0
  /\ bufs[LastBuf].anon
  /\ bufs[LastBuf].off + Len(bufs[LastBuf].data) + Chars(p) <= Page

Rest(s, n) == SubSeq(s, n + 1, Len(s))

(* A mutant: as much as fits into the last page goes there.                *)
MergeSome(p) ==
  LET b     == bufs[LastBuf]
      room  == Page - b.off - Len(b.data)
      chars == IF Len(from[p]) > room THEN room ELSE Len(from[p])
  IN
  /\ pc[p] = "merge" /\ readers > 0 /\ nrbufs > 0 /\ b.anon /\ room > 0
  /\ bufs' = [bufs EXCEPT ![LastBuf].data = @ \o SubSeq(from[p], 1, chars)]
  /\ from' = [from EXCEPT ![p] = Rest(@, chars)]
  /\ do_wakeup' = [do_wakeup EXCEPT ![p] = TRUE]
  /\ Goto(p, IF Len(from[p]) = chars THEN "unlock" ELSE "loop")
  /\ UNCHANGED <<curbuf, nrbufs, buffers, tmp_page, total_len, to, open, waiting_writers,
                 mutex, wait, sig, untold>>

Merge(p) ==
  /\ pc[p] = "merge" /\ readers > 0 /\ CanMerge(p)
  /\ bufs' = [bufs EXCEPT ![LastBuf].data = @ \o SubSeq(from[p], 1, Chars(p))]
  /\ from' = [from EXCEPT ![p] = Rest(@, Chars(p))]
  /\ do_wakeup' = [do_wakeup EXCEPT ![p] = TRUE]
  /\ Goto(p, IF Len(from[p]) = Chars(p) THEN "unlock" ELSE "loop")
  /\ UNCHANGED <<curbuf, nrbufs, buffers, tmp_page, total_len, to, open, waiting_writers,
                 mutex, wait, sig, untold>>

NoMerge(p) ==
  /\ pc[p] = "merge" /\ readers > 0 /\ ~ CanMerge(p)
  /\ Goto(p, "loop")
  /\ UNCHANGED <<ring, call, open, waiting_writers, mutex, wait, sig, untold>>

(* EPIPE, or the bytes cannot be copied.                                   *)
MergeFails(p) == pc[p] = "merge" /\ (readers = 0 \/ CanMerge(p)) /\ Break(p)

HasRoom == nrbufs < buffers

(* The next n bytes, at offset o of a page, become the last buffer.        *)
InsertPage(p, n, o, anon) ==
  /\ pc[p] = "loop" /\ readers > 0 /\ HasRoom
  /\ bufs' = [bufs EXCEPT ![(curbuf + nrbufs) % buffers] =
                [off |-> o, data |-> SubSeq(from[p], 1, n), anon |-> anon]]
  /\ nrbufs' = nrbufs + 1
  /\ from' = [from EXCEPT ![p] = Rest(@, n)]
  /\ do_wakeup' = [do_wakeup EXCEPT ![p] = TRUE]
  /\ UNCHANGED <<curbuf, buffers, total_len, to, open, waiting_writers, mutex, wait, sig,
                 untold>>

(* A page of the data, or what is left of it.                              *)
Copied(p) == IF Len(from[p]) > Page THEN Page ELSE Len(from[p])

WritePage(p) ==
  /\ InsertPage(p, Copied(p), 0, TRUE)
  /\ tmp_page' = FALSE
  /\ Goto(p, IF Len(from[p]) = Copied(p) THEN "unlock" ELSE "loop")

(* A mutant: a failed copy is not reported.                                *)
WriteFaultQuiet(p) ==
  /\ pc[p] = "loop" /\ readers > 0 /\ HasRoom
  /\ tmp_page' = TRUE
  /\ Goto(p, "unlock")
  /\ UNCHANGED <<bufs, curbuf, nrbufs, buffers, call, open, waiting_writers, mutex, wait,
                 sig, untold>>

(* "Always wake up, even if the copy fails."  The page is kept.            *)
WriteFault(p) ==
  /\ pc[p] = "loop" /\ readers > 0 /\ HasRoom
  /\ tmp_page' = TRUE
  /\ do_wakeup' = [do_wakeup EXCEPT ![p] = TRUE]
  /\ Goto(p, "unlock")
  /\ UNCHANGED <<bufs, curbuf, nrbufs, buffers, total_len, from, to, open, waiting_writers,
                 mutex, wait, sig, untold>>

(* Those who read on for the sake of the last sleeping writer are not told *)
(* that it leaves without a byte.                                          *)
LeaveUntold(p) ==
  /\ Goto(p, "unlock")
  /\ untold' = IF do_wakeup[p] \/ waiting_writers > 0 THEN untold
               ELSE untold \cup (wait \cap Sink)
  /\ UNCHANGED <<ring, call, open, waiting_writers, mutex, wait, sig>>

(* alloc_page fails.                                                       *)
WriteNoMemory(p) ==
  /\ pc[p] = "loop" /\ readers > 0 /\ HasRoom /\ ~ tmp_page
  /\ LeaveUntold(p)

WriteGivesUp(p) == readers = 0 \/ (~ HasRoom /\ (p \in NonBlock \/ p \in sig))

WriteFails(p) == pc[p] = "loop" /\ WriteGivesUp(p) /\ Break(p)

WriteWait(p) ==
  /\ pc[p] = "loop" /\ ~ HasRoom /\ ~ WriteGivesUp(p)
  /\ waiting_writers' = waiting_writers + 1
  /\ Sleep(p, IF do_wakeup[p] THEN Woken(ReadPoll) ELSE wait)
  /\ do_wakeup' = [do_wakeup EXCEPT ![p] = FALSE]
  /\ UNCHANGED <<ring, total_len, from, to, open, sig>>

(* wait_for_space.                                                         *)
SpliceWait(p) ==
  /\ pc[p] = "loop" /\ ~ HasRoom /\ ~ WriteGivesUp(p)
  /\ waiting_writers' = waiting_writers + 1
  /\ Sleep(p, wait)
  /\ UNCHANGED <<ring, call, open, sig>>

(* A piece of the caller's data that lies within one of its pages; where   *)
(* the pieces end depends on the iovec.  iter_to_pipe stops when the pipe  *)
(* is full.                                                                *)
SplicePage(p) ==
  \E n \in 1 .. Copied(p) :
    /\ \E o \in 0 .. Page - n : InsertPage(p, n, o, FALSE)
    /\ UNCHANGED tmp_page
    /\ Goto(p, IF Len(from[p]) = n \/ nrbufs + 1 = buffers THEN "unlock" ELSE "loop")

(* iov_iter_get_pages fails.                                               *)
SpliceFault(p) ==
  /\ pc[p] = "loop" /\ readers > 0 /\ HasRoom
  /\ LeaveUntold(p)

-----------------------------------------------------------------------------
(* pipe_poll, without the mutex.  A poller is on the queue while it looks  *)
(* and off it from a wake-up until it looks again.                         *)

Ready(p) == \/ p \in FMODE_READ /\ (nrbufs > 0 \/ writers = 0)
            \/ p \notin FMODE_READ /\ (HasRoom \/ readers = 0)

Poll(p) ==
  /\ pc[p] = "out" \/ (pc[p] = "poll_wait" /\ p \notin wait)
  /\ Goto(p, "poll")
  /\ wait' = wait \cup {p} /\ untold' = untold \ {p}
  /\ UNCHANGED <<ring, call, open, waiting_writers, mutex, sig>>

PollFound(p) ==
  /\ pc[p] = "poll" /\ Ready(p)
  /\ Goto(p, "out")
  /\ wait' = wait \ {p}
  /\ UNCHANGED <<ring, call, open, waiting_writers, mutex, sig, untold>>

PollWait(p) ==
  /\ pc[p] = "poll" /\ ~ Ready(p)
  /\ Goto(p, "poll_wait")
  /\ UNCHANGED <<ring, call, open, waiting_writers, mutex, wait, sig, untold>>

-----------------------------------------------------------------------------
(* A mutant: nobody is woken when one side is gone.                        *)
CloseLastQuiet(p) ==
  /\ pc[p] = "out" /\ mutex = None
  /\ Goto(p, "closed")
  /\ readers' = IF p \in FMODE_READ THEN readers - 1 ELSE readers
  /\ writers' = IF p \in FMODE_READ THEN writers ELSE writers - 1
  /\ wait' = IF readers' > 0 /\ writers' > 0 THEN {} ELSE wait
  /\ UNCHANGED <<ring, call, waiting_writers, mutex, sig, untold>>

(* pipe_release.                                                           *)
Close(p) ==
  /\ pc[p] = "out" /\ mutex = None
  /\ Goto(p, "closed")
  /\ readers' = IF p \in FMODE_READ THEN readers - 1 ELSE readers
  /\ writers' = IF p \in FMODE_READ THEN writers ELSE writers - 1
  /\ wait' = IF readers' + writers' > 0 THEN {} ELSE wait
  /\ UNCHANGED <<ring, call, waiting_writers, mutex, sig, untold>>

(* A mutant: the buffers that have wrapped around are lost sight of.       *)
SetSizeNoTail(p) ==
  /\ pc[p] = "out" /\ mutex = None
  /\ \E n \in Sizes :
       /\ n >= nrbufs
       /\ buffers' = n
       /\ bufs' = [i \in 0 .. n - 1 |-> IF i < nrbufs THEN bufs[i] ELSE Free]
       /\ untold' = IF n > buffers THEN untold \cup (wait \ FMODE_READ) ELSE untold
  /\ curbuf' = 0
  /\ UNCHANGED <<nrbufs, tmp_page, call, open, waiting_writers, mutex, wait, pc, sig>>

(* pipe_set_size: the buffers are copied to the start of a new array.  No  *)
(* one is told of the room this makes.                                     *)
SetSize(p) ==
  LET end  == curbuf + nrbufs
      tail == IF end < buffers THEN 0 ELSE end % buffers
      head == nrbufs - tail
  IN
  /\ pc[p] = "out" /\ mutex = None
  /\ \E n \in Sizes :
       /\ n >= nrbufs
       /\ buffers' = n
       /\ bufs' = [i \in 0 .. n - 1 |-> IF i < head THEN bufs[curbuf + i]
                                        ELSE IF i < nrbufs THEN bufs[i - head] ELSE Free]
       /\ untold' = IF n > buffers THEN untold \cup (wait \ FMODE_READ) ELSE untold
  /\ curbuf' = 0
  /\ UNCHANGED <<nrbufs, tmp_page, call, open, waiting_writers, mutex, wait, pc, sig>>

(* A signal wakes a sleeping caller.  Elsewhere only the time when the     *)
(* code looks for one matters.                                             *)
Signal(p) ==
  /\ p \in Signals \ sig /\ pc[p] \in {"wait", "next", "loop"}
  /\ sig' = sig \cup {p}
  /\ wait' = wait \ {p}
  /\ UNCHANGED <<ring, call, open, waiting_writers, mutex, pc, untold>>

-----------------------------------------------------------------------------
(* What a process in a call does next.                                     *)
Proceed(p) ==
  \/ Resume(p) \/ Unlock(p) \/ UnlockFirst(p) \/ WakeUp(p)
  \/ p \in Sink /\ (ReadBuffer(p) \/ ReadFault(p))
  \/ p \in Reader /\ (ReadEnds(p) \/ ReadWait(p))
  \/ p \in Unsplicer /\ (UnspliceNext(p) \/ UnspliceEnds(p) \/ UnspliceWait(p))
  \/ p \in Source /\ WriteFails(p)
  \/ p \in Writer /\ \/ Merge(p) \/ NoMerge(p) \/ MergeFails(p)
                     \/ WritePage(p) \/ WriteFault(p) \/ WriteNoMemory(p) \/ WriteWait(p)
  \/ p \in Splicer /\ (SplicePage(p) \/ SpliceFault(p) \/ SpliceWait(p))

Next ==
  \/ \E p \in Caller : Lock(p) \/ Proceed(p) \/ Signal(p)
  \/ \E p \in Sink : Read(p)
  \/ \E p \in Source : Write(p)
  \/ \E p \in Poller : Poll(p) \/ PollFound(p) \/ PollWait(p)
  \/ \E p \in Proc : Close(p) \/ SetSize(p)

Spec == Init /\ [][Next]_vars

(* The scheduler runs whoever can run, and a mutex is handed to whoever    *)
(* has waited long enough.                                                 *)
FairSpec ==
  /\ Spec
  /\ \A p \in Caller : WF_vars(Proceed(p)) /\ SF_vars(Lock(p))

-----------------------------------------------------------------------------
Label == {"out", "lock", "merge", "next", "loop", "wait", "relock", "unlock", "wake",
          "poll", "poll_wait", "closed"}

Holding == {"merge", "next", "loop", "unlock"}

(* Who holds the mutex is where the code holds it; no page has more bytes  *)
(* than fit, a used buffer is not empty, and waiting_writers counts the    *)
(* writers between falling asleep and having the mutex again.              *)
TypeOK ==
  /\ buffers \in Sizes /\ nrbufs \in 0 .. buffers /\ curbuf \in 0 .. buffers - 1
  /\ DOMAIN bufs = 0 .. buffers - 1
  /\ \A i \in 0 .. buffers - 1 :
       /\ bufs[i].off + Len(bufs[i].data) <= Page
       /\ bufs[i].data # <<>> <=> \E k \in 0 .. nrbufs - 1 : i = (curbuf + k) % buffers
  /\ pc \in [Proc -> Label]
  /\ \A p \in Proc : pc[p] \in Holding <=> mutex = p
  /\ waiting_writers = Cardinality({p \in Source : pc[p] \in {"wait", "relock"}})

Asleep(p) == p \in wait /\ pc[p] \in {"wait", "poll_wait"}

(* A process that is going to wake those who wait for what it did.         *)
WillWake(q) == do_wakeup[q] /\ pc[q] \in {"next", "loop", "unlock", "wake"}

(* Nobody sleeps on a change: when there is data or the last writer is     *)
(* gone, a reader that sleeps is about to be woken by someone, and so is a *)
(* writer when there is room, unless the room comes from F_SETPIPE_SZ; so  *)
(* are pollers, although they look without the mutex.                      *)
WakeupComing ==
  \A p \in Proc :
    Asleep(p) /\ Ready(p) =>
      \/ p \in FMODE_READ /\ \E q \in Source : WillWake(q)
      \/ p \notin FMODE_READ /\ (p \in untold \/ \E q \in Sink : WillWake(q))

(* Syscall merging ends: a read that goes on only for the sake of a writer *)
(* asleep in the pipe (it has data, or must not block) does not sleep for  *)
(* ever when there is none, unless that writer has left by a path that     *)
(* wakes nobody.                                                           *)
MergingEnds ==
  \A p \in Reader :
    []<> ~ (/\ Asleep(p) /\ p \notin untold
            /\ waiting_writers = 0 /\ (to[p] # <<>> \/ p \in NonBlock))

(* When the other side is closed every call ends.                          *)
InCall(p) == pc[p] \notin {"out", "closed"}
HangupEndsCalls ==
  /\ \A p \in Sink : (InCall(p) /\ writers = 0) ~> pc[p] = "out"
  /\ \A p \in Source : (InCall(p) /\ readers = 0) ~> pc[p] = "out"

(* The contents of the pipe: those of the used buffers, one after another. *)
Pages == [k \in 1 .. nrbufs |-> bufs[(curbuf + k - 1) % buffers].data]
Flat(pages) ==
  LET upto[n \in 0 .. Len(pages)] == IF n = 0 THEN <<>> ELSE upto[n - 1] \o pages[n]
  IN  upto[Len(pages)]
Bytes == Flat(Pages)

Stream == INSTANCE ByteStream WITH
  stream <- Bytes,
  count  <- [p \in Proc |-> IF p \in Source THEN total_len[p] ELSE 0],
  todo   <- from,
  got    <- to,
  PIPE_BUF <- Page,
  Whole  <- Writer

(* The pipe is a stream: what is read is what was written, in order and    *)
(* once, across wrap-around, merging of small writes, partly read pages    *)
(* the pieces of a vmsplice and the copying of the ring by F_SETPIPE_SZ;   *)
(* and a write of at most a page is never torn, whoever else writes or     *)
(* sleeps.  A vmsplice may be, even a small one.                           *)
BytesInOrder == Stream!Spec
=============================================================================
