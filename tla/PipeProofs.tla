----------------------------- MODULE PipeProofs -----------------------------
(***************************************************************************)
(* No wake-up of a pipe is lost, whoever uses it and however many they     *)
(* are: WakeupComing is an invariant.                                      *)
(*                                                                         *)
(* It is inductive with four additions: the mutex is held where the code   *)
(* holds it; only those who sleep or poll are on the queue; readers and    *)
(* writers count the open ends, so that a hang-up that tells nobody has    *)
(* nobody to tell; and a vmsplice that has added a page and goes on has    *)
(* room, so it does not fall asleep with its wake-up undone.               *)
(***************************************************************************)
EXTENDS Pipe, FiniteSetTheorems, TLAPS

USE ZenonT(10)

Types ==
  /\ nrbufs \in Int /\ buffers \in Int
  /\ pc \in [Proc -> Label] /\ do_wakeup \in [Proc -> BOOLEAN] /\ wait \subseteq Proc

HolderKnown == \A p \in Proc : pc[p] \in Holding => mutex = p

QueueKnown ==
  \A p \in wait : \/ p \in Caller /\ pc[p] = "wait"
                  \/ p \in Poller /\ pc[p] \in {"poll", "poll_wait"}

Open(P) == {p \in P : pc[p] # "closed"}
EndsCounted ==
  readers = Cardinality(Open(FMODE_READ)) /\ writers = Cardinality(Open(Proc \ FMODE_READ))

SpliceHasRoom ==
  \A p \in Splicer :
    do_wakeup[p] => pc[p] \in {"unlock", "wake"} \/ (pc[p] = "loop" /\ HasRoom)

Control == Types /\ HolderKnown /\ QueueKnown /\ EndsCounted /\ SpliceHasRoom

(* WakeupComing for one process.                                           *)
Covered(p) ==
  Asleep(p) /\ Ready(p) =>
    \/ p \in FMODE_READ /\ \E q \in Source : WillWake(q)
    \/ p \notin FMODE_READ /\ (p \in untold \/ \E q \in Sink : WillWake(q))

WakeInv == Control /\ \A p \in Proc : Covered(p)

-----------------------------------------------------------------------------
(* Who is who.                                                             *)
LEMMA Sides ==
  /\ Caller \subseteq Proc /\ Poller \subseteq Proc /\ Source \subseteq Caller
  /\ Sink \subseteq Caller /\ Splicer \subseteq Source /\ Unsplicer \subseteq Sink
  /\ Reader \subseteq Sink /\ Writer \subseteq Source
  /\ Source \cap Sink = {} /\ Caller \cap Poller = {}
  /\ Sink \subseteq FMODE_READ /\ Source \cap FMODE_READ = {}
  /\ ReadPoll \subseteq FMODE_READ /\ WritePoll \cap FMODE_READ = {}
  /\ FMODE_READ \subseteq Proc /\ None \notin Proc /\ IsFiniteSet(Proc)
  BY PipeAssumption DEF Proc, Caller, Poller, Source, Sink, FMODE_READ

(* The shape of a step of p to label l, which leaves its do_wakeup at v    *)
(* and does not close an end.                                              *)
StepOf(p, l, v) ==
  /\ pc[p] # "closed" /\ l \in Label \ {"closed"} /\ pc' = [pc EXCEPT ![p] = l]
  /\ v \in BOOLEAN /\ do_wakeup' = [do_wakeup EXCEPT ![p] = v]
  /\ readers' = readers /\ writers' = writers
  /\ nrbufs' \in Int /\ buffers' \in Int
  /\ (nrbufs' = nrbufs /\ buffers' = buffers) \/ mutex \in {p, None}
  /\ mutex' = mutex \/ mutex \in {p, None}
  /\ l \in Holding => mutex' = p
  /\ wait' \subseteq wait \cup {p}
  /\ p \in wait' => \/ p \in Caller /\ l = "wait"
                    \/ p \in Poller /\ l \in {"poll", "poll_wait"}
  /\ p \in Splicer /\ v => l \in {"unlock", "wake"} \/ (l = "loop" /\ HasRoom')

(* What it leaves alone.                                                   *)
LEMMA StepFrame ==
  ASSUME Control, NEW p \in Proc, NEW l, NEW v, StepOf(p, l, v)
  PROVE  /\ pc'[p] = l /\ do_wakeup'[p] = v
         /\ \A q \in Proc \ {p} : pc'[q] = pc[q] /\ do_wakeup'[q] = do_wakeup[q]
  BY DEF Control, Types, StepOf

(* It keeps everything but WakeupComing.                                   *)
LEMMA StepControl ==
  ASSUME Control, NEW p \in Proc, NEW l, NEW v, StepOf(p, l, v)
  PROVE  Control'
<1>1. /\ pc'[p] = l /\ do_wakeup'[p] = v
      /\ \A q \in Proc \ {p} : pc'[q] = pc[q] /\ do_wakeup'[q] = do_wakeup[q]
  BY StepFrame
<1>2. Types'
  BY DEF Control, Types, StepOf
<1>3. HolderKnown'
  BY <1>1, Sides, SMT DEF Control, HolderKnown, StepOf
<1>4. QueueKnown'
  BY <1>1 DEF Control, Types, QueueKnown, StepOf
<1>5. EndsCounted'
  <2>1. \A P \in SUBSET Proc : Open(P)' = Open(P)
    BY <1>1 DEF StepOf, Open
  <2>2. QED
    BY <2>1, Sides DEF Control, EndsCounted, StepOf
<1>6. SpliceHasRoom'
  <2>1. SUFFICES ASSUME NEW q \in Splicer, do_wakeup'[q]
                 PROVE  pc'[q] \in {"unlock", "wake"} \/ (pc'[q] = "loop" /\ HasRoom')
    BY DEF SpliceHasRoom
  <2>2. CASE q = p
    BY <1>1, <2>1, <2>2 DEF StepOf
  <2>3. CASE q # p
    <3>1. q \in Proc /\ pc'[q] = pc[q] /\ do_wakeup[q]
      BY <1>1, <2>1, <2>3, Sides
    <3>2. pc[q] = "loop" => mutex = q /\ q # None
      BY <3>1, Sides DEF Control, HolderKnown, Holding
    <3>3. pc[q] \in {"unlock", "wake"} \/ (pc[q] = "loop" /\ HasRoom)
      BY <3>1 DEF Control, SpliceHasRoom
    <3>4. QED
      BY <2>3, <3>1, <3>2, <3>3 DEF StepOf, HasRoom
  <2>4. QED
    BY <2>2, <2>3
<1>7. QED
  BY <1>2, <1>3, <1>4, <1>5, <1>6 DEF Control

(* A process x that slept before and sleeps still is covered as before,    *)
(* unless the step is that of the process that was to wake it.             *)
LEMMA StillCovered ==
  ASSUME Control, NEW p \in Proc, NEW l, NEW v, StepOf(p, l, v),
         NEW x \in Proc \ {p}, Covered(x),
         Ready(x)' => Ready(x),
         x \in untold => x \in untold',
         \/ WillWake(p) => WillWake(p)'
         \/ x \in FMODE_READ /\ p \in Sink
         \/ x \notin FMODE_READ /\ p \in Source
         \/ p \in Poller
  PROVE  Covered(x)'
<1>1. /\ pc'[p] = l /\ do_wakeup'[p] = v
      /\ \A q \in Proc \ {p} : pc'[q] = pc[q] /\ do_wakeup'[q] = do_wakeup[q]
  BY StepFrame
<1>2. \A q \in Proc \ {p} : WillWake(q) => WillWake(q)'
  BY <1>1 DEF WillWake
<1>3. Asleep(x)' => Asleep(x)
  BY <1>1 DEF Asleep, StepOf
<1>4. CASE x \in FMODE_READ
  <2>1. (\E q \in Source : WillWake(q)) => (\E q \in Source : WillWake(q)')
    BY <1>2, <1>4, Sides
  <2>2. QED
    BY <1>3, <1>4, <2>1 DEF Covered
<1>5. CASE x \notin FMODE_READ
  <2>1. (\E q \in Sink : WillWake(q)) => (\E q \in Sink : WillWake(q)')
    BY <1>2, <1>5, Sides
  <2>2. QED
    BY <1>3, <1>5, <2>1 DEF Covered
<1>6. QED
  BY <1>4, <1>5

(* Steps that change neither the fill of the pipe nor the queue of others, *)
(* and by which p does not drop a wake-up.                                 *)
LEMMA QuietStep ==
  ASSUME WakeInv, NEW p \in Proc, NEW l, NEW v, StepOf(p, l, v),
         nrbufs' = nrbufs, buffers' = buffers,
         p \in wait' => l = "poll" \/ ~ Ready(p),
         \A x \in Proc \ {p} : x \in untold => x \in untold',
         WillWake(p) => WillWake(p)'
  PROVE  WakeInv'
<1>1. Control'
  BY StepControl DEF WakeInv
<1>2. pc'[p] = l
  BY StepFrame DEF WakeInv
<1>3. \A x \in Proc : Ready(x)' = Ready(x)
  BY DEF Ready, HasRoom, StepOf
<1>4. Covered(p)'
  BY <1>2, <1>3 DEF Covered, Asleep
<1>5. ASSUME NEW x \in Proc \ {p} PROVE Covered(x)'
  BY <1>3, StillCovered DEF WakeInv
<1>6. QED
  BY <1>1, <1>4, <1>5 DEF WakeInv

-----------------------------------------------------------------------------
(* Steps of a call that leave do_wakeup, the fill, the ends and the queue. *)
LEMMA PlainStep ==
  ASSUME WakeInv, NEW p \in Caller, NEW l \in Label \ {"closed", "wait", "poll_wait"},
         pc[p] # "closed", pc[p] # "wait" \/ p \notin wait, pc' = [pc EXCEPT ![p] = l],
         do_wakeup' = do_wakeup, readers' = readers, writers' = writers,
         nrbufs' = nrbufs, buffers' = buffers, wait' = wait,
         mutex' = mutex \/ mutex \in {p, None}, l \in Holding => mutex' = p,
         p \in Splicer /\ do_wakeup[p] => l \in {"unlock", "wake"},
         untold \ {p} \subseteq untold',
         WillWake(p) => l \in {"next", "loop", "unlock", "wake"}
  PROVE  WakeInv'
<1>1. p \in Proc /\ do_wakeup[p] \in BOOLEAN /\ nrbufs \in Int /\ buffers \in Int
  BY Sides DEF WakeInv, Control, Types
<1>2. do_wakeup' = [do_wakeup EXCEPT ![p] = do_wakeup[p]]
  BY <1>1 DEF WakeInv, Control, Types
<1>3. p \notin wait
  BY Sides DEF WakeInv, Control, QueueKnown
<1>4. StepOf(p, l, do_wakeup[p])
  BY <1>1, <1>2, <1>3 DEF StepOf
<1>5. pc'[p] = l /\ do_wakeup'[p] = do_wakeup[p]
  BY <1>1, <1>4, StepFrame DEF WakeInv
<1>6. WillWake(p) => WillWake(p)'
  BY <1>5 DEF WillWake
<1>7. QED
  BY <1>1, <1>3, <1>4, <1>6, QuietStep

LEMMA LockKeeps ==
  ASSUME WakeInv, NEW p \in Caller, Lock(p)
  PROVE  WakeInv'
<1>1. PICK l \in {"merge", "next", "loop"} : pc' = [pc EXCEPT ![p] = l]
  BY DEF Lock, Goto
<1>2. pc[p] \in {"lock", "relock"} /\ mutex = None /\ mutex' = p
  BY DEF Lock
<1>3. ~ WillWake(p) /\ ~ (p \in Splicer /\ do_wakeup[p])
  BY <1>2 DEF WillWake, WakeInv, Control, SpliceHasRoom
<1>4. UNCHANGED <<do_wakeup, readers, writers, nrbufs, buffers, wait, untold>>
  BY DEF Lock, ring, call, open
<1>5. l \in Label \ {"closed", "wait", "poll_wait"}
  BY DEF Label
<1>6. QED
  BY <1>1, <1>2, <1>3, <1>4, <1>5, PlainStep

LEMMA BreakKeeps ==
  ASSUME WakeInv, NEW p \in Caller, pc[p] \in {"merge", "loop"}, Break(p) \/ LeaveUntold(p)
  PROVE  WakeInv'
<1>1. /\ pc' = [pc EXCEPT ![p] = "unlock"] /\ untold \subseteq untold'
      /\ UNCHANGED <<do_wakeup, readers, writers, nrbufs, buffers, wait, mutex>>
  BY DEF Break, LeaveUntold, Goto, ring, call, open
<1>2. mutex = p
  BY Sides DEF WakeInv, Control, HolderKnown, Holding
<1>3. "unlock" \in Label \ {"closed", "wait", "poll_wait"}
  BY DEF Label
<1>4. QED
  BY <1>1, <1>2, <1>3, PlainStep

LEMMA UnlockFirstKeeps ==
  ASSUME WakeInv, NEW p \in Caller, UnlockFirst(p)
  PROVE  WakeInv'
<1>1. /\ pc[p] = "unlock" /\ pc' = [pc EXCEPT ![p] = "wake"]
      /\ UNCHANGED <<do_wakeup, readers, writers, nrbufs, buffers, wait, untold>>
  BY DEF UnlockFirst, Goto, ring, call, open
<1>2. mutex = p
  BY <1>1, Sides DEF WakeInv, Control, HolderKnown, Holding
<1>3. "wake" \in Label \ {"closed", "wait", "poll_wait"} /\ "wake" \notin Holding
  BY DEF Label, Holding
<1>4. QED
  BY <1>1, <1>2, <1>3, PlainStep

LEMMA EnterKeeps ==
  ASSUME WakeInv, NEW p \in Caller, Read(p) \/ Write(p)
  PROVE  WakeInv'
<1>1. /\ pc[p] = "out" /\ pc' = [pc EXCEPT ![p] = "lock"]
      /\ UNCHANGED <<do_wakeup, readers, writers, nrbufs, buffers, wait, mutex, untold>>
  BY DEF Read, Write, Goto, ring, call, open
<1>2. ~ WillWake(p) /\ ~ (p \in Splicer /\ do_wakeup[p])
  BY <1>1 DEF WillWake, WakeInv, Control, SpliceHasRoom
<1>3. "lock" \in Label \ {"closed", "wait", "poll_wait"} /\ "lock" \notin Holding
  BY DEF Label, Holding
<1>4. QED
  BY <1>1, <1>2, <1>3, PlainStep

LEMMA ResumeKeeps ==
  ASSUME WakeInv, NEW p \in Caller, Resume(p)
  PROVE  WakeInv'
<1>1. /\ pc[p] = "wait" /\ p \notin wait /\ pc' = [pc EXCEPT ![p] = "relock"]
      /\ untold' = untold \ {p}
      /\ UNCHANGED <<do_wakeup, readers, writers, nrbufs, buffers, wait, mutex>>
  BY DEF Resume, Goto, ring, call, open
<1>2. ~ WillWake(p) /\ ~ (p \in Splicer /\ do_wakeup[p])
  BY <1>1 DEF WillWake, WakeInv, Control, SpliceHasRoom
<1>3. "relock" \in Label \ {"closed", "wait", "poll_wait"} /\ "relock" \notin Holding
  BY DEF Label, Holding
<1>4. QED
  BY <1>1, <1>2, <1>3, PlainStep

LEMMA UnspliceNextKeeps ==
  ASSUME WakeInv, NEW p \in Unsplicer, UnspliceNext(p)
  PROVE  WakeInv'
<1>1. PICK l \in {"unlock", "loop"} : pc' = [pc EXCEPT ![p] = l]
  BY DEF UnspliceNext, Goto
<1>2. /\ pc[p] = "next"
      /\ UNCHANGED <<do_wakeup, readers, writers, nrbufs, buffers, wait, mutex, untold>>
  BY DEF UnspliceNext, ring, call, open
<1>3. p \in Caller /\ p \notin Splicer /\ mutex = p
  BY <1>2, Sides DEF WakeInv, Control, HolderKnown, Holding
<1>4. l \in Label \ {"closed", "wait", "poll_wait"}
  BY DEF Label
<1>5. QED
  BY <1>1, <1>2, <1>3, <1>4, PlainStep

LEMMA NoMergeKeeps ==
  ASSUME WakeInv, NEW p \in Writer, NoMerge(p)
  PROVE  WakeInv'
<1>1. /\ pc[p] = "merge" /\ pc' = [pc EXCEPT ![p] = "loop"]
      /\ UNCHANGED <<do_wakeup, readers, writers, nrbufs, buffers, wait, mutex, untold>>
  BY DEF NoMerge, Goto, ring, call, open
<1>2. p \in Caller /\ p \notin Splicer /\ mutex = p
  BY <1>1, Sides, PipeAssumption DEF WakeInv, Control, HolderKnown, Holding
<1>3. "loop" \in Label \ {"closed", "wait", "poll_wait"}
  BY DEF Label
<1>4. QED
  BY <1>1, <1>2, <1>3, PlainStep

-----------------------------------------------------------------------------
(* Steps that take note of a wake-up to be done.                           *)
LEMMA NotedStep ==
  ASSUME WakeInv, NEW p \in Caller, NEW l \in {"next", "loop", "unlock"},
         NEW v \in BOOLEAN, do_wakeup[p] => v,
         pc[p] \in {"merge", "loop"}, pc' = [pc EXCEPT ![p] = l],
         do_wakeup' = [do_wakeup EXCEPT ![p] = v],
         UNCHANGED <<readers, writers, buffers, wait, mutex, untold>>, nrbufs' \in Int,
         p \in Splicer => l = "unlock" \/ (l = "loop" /\ HasRoom'),
         \/ nrbufs' = nrbufs
         \/ p \in Sink /\ v /\ nrbufs > 0
         \/ p \in Source /\ v /\ HasRoom
  PROVE  WakeInv'
<1>1. p \in Proc /\ p \notin wait /\ mutex = p
  BY Sides DEF WakeInv, Control, QueueKnown, HolderKnown, Holding
<1>2. StepOf(p, l, v)
  <2>1. buffers \in Int
    BY DEF WakeInv, Control, Types
  <2>2. l \in Label \ {"closed"}
    BY DEF Label
  <2>3. QED
    BY <1>1, <2>1, <2>2 DEF StepOf
<1>3. pc'[p] = l /\ do_wakeup'[p] = v
  BY <1>1, <1>2, StepFrame DEF WakeInv
<1>4. WillWake(p) => WillWake(p)'
  BY <1>3 DEF WillWake
<1>5. CASE nrbufs' = nrbufs
  BY <1>1, <1>2, <1>4, <1>5, QuietStep
<1>6. CASE p \in Sink /\ v /\ nrbufs > 0
  <2>1. ASSUME NEW x \in Proc \ {p}, x \in FMODE_READ PROVE Covered(x)'
    <3>1. Ready(x)' => Ready(x)
      BY <1>6, <2>1 DEF Ready
    <3>2. QED
      BY <1>1, <1>2, <1>4, <3>1, StillCovered DEF WakeInv
  <2>2. ASSUME NEW x \in Proc \ {p}, x \notin FMODE_READ PROVE Covered(x)'
    BY <1>3, <1>6, <2>2 DEF Covered, WillWake
  <2>3. Covered(p)'
    BY <1>1 DEF Covered, Asleep
  <2>4. Control'
    BY <1>1, <1>2, StepControl DEF WakeInv
  <2>5. QED
    BY <2>1, <2>2, <2>3, <2>4 DEF WakeInv
<1>7. CASE p \in Source /\ v /\ HasRoom
  <2>1. ASSUME NEW x \in Proc \ {p}, x \notin FMODE_READ PROVE Covered(x)'
    <3>1. Ready(x)' => Ready(x)
      BY <1>7, <2>1 DEF Ready
    <3>2. QED
      BY <1>1, <1>2, <1>4, <3>1, StillCovered DEF WakeInv
  <2>2. ASSUME NEW x \in Proc \ {p}, x \in FMODE_READ PROVE Covered(x)'
    BY <1>3, <1>7, <2>2 DEF Covered, WillWake
  <2>3. Covered(p)'
    BY <1>1 DEF Covered, Asleep
  <2>4. Control'
    BY <1>1, <1>2, StepControl DEF WakeInv
  <2>5. QED
    BY <2>1, <2>2, <2>3, <2>4 DEF WakeInv
<1>8. QED
  BY <1>5, <1>6, <1>7

LEMMA ReadBufferKeeps ==
  ASSUME WakeInv, NEW p \in Sink, ReadBuffer(p)
  PROVE  WakeInv'
<1>1. p \in Caller /\ p \notin Splicer /\ nrbufs \in Int /\ do_wakeup[p] \in BOOLEAN
  BY Sides DEF WakeInv, Control, Types
<1>2. PICK l \in {"next", "loop", "unlock"} : pc' = [pc EXCEPT ![p] = l]
  BY DEF ReadBuffer, Goto
<1>3. pc[p] = "loop" /\ nrbufs > 0
  BY DEF ReadBuffer
<1>4. UNCHANGED <<readers, writers, buffers, wait, mutex, untold>>
  BY DEF ReadBuffer, open
<1>5. PICK used \in BOOLEAN :
        /\ do_wakeup' = [do_wakeup EXCEPT ![p] = @ \/ used]
        /\ nrbufs' = IF used THEN nrbufs - 1 ELSE nrbufs
  BY DEF ReadBuffer
<1>6. (do_wakeup[p] \/ used) \in BOOLEAN /\ nrbufs' \in Int
  BY <1>1, <1>5, SMT
<1>7. do_wakeup' = [do_wakeup EXCEPT ![p] = do_wakeup[p] \/ used]
  BY <1>5
<1>8. nrbufs' = nrbufs \/ (do_wakeup[p] \/ used)
  BY <1>5
<1>9. QED
  BY <1>1, <1>2, <1>3, <1>4, <1>6, <1>7, <1>8, NotedStep

LEMMA MergeKeeps ==
  ASSUME WakeInv, NEW p \in Writer, Merge(p) \/ WriteFault(p)
  PROVE  WakeInv'
<1>1. p \in Caller /\ p \notin Splicer /\ nrbufs \in Int
  BY Sides, PipeAssumption DEF WakeInv, Control, Types
<1>2. PICK l \in {"loop", "unlock"} : pc' = [pc EXCEPT ![p] = l]
  BY DEF Merge, WriteFault, Goto
<1>3. pc[p] \in {"merge", "loop"} /\ do_wakeup' = [do_wakeup EXCEPT ![p] = TRUE]
  BY DEF Merge, WriteFault
<1>4. UNCHANGED <<readers, writers, buffers, nrbufs, wait, mutex, untold>>
  BY DEF Merge, WriteFault, open
<1>5. QED
  BY <1>1, <1>2, <1>3, <1>4, NotedStep

LEMMA WritePageKeeps ==
  ASSUME WakeInv, NEW p \in Writer, WritePage(p)
  PROVE  WakeInv'
<1>1. p \in Caller /\ p \in Source /\ p \notin Splicer /\ nrbufs \in Int
  BY Sides, PipeAssumption DEF WakeInv, Control, Types
<1>2. PICK l \in {"loop", "unlock"} : pc' = [pc EXCEPT ![p] = l]
  BY DEF WritePage, Goto
<1>3. /\ pc[p] = "loop" /\ HasRoom /\ do_wakeup' = [do_wakeup EXCEPT ![p] = TRUE]
      /\ nrbufs' = nrbufs + 1
      /\ UNCHANGED <<readers, writers, buffers, wait, mutex, untold>>
  BY DEF WritePage, InsertPage, open
<1>4. nrbufs' \in Int
  BY <1>1, <1>3, SMT
<1>5. QED
  BY <1>1, <1>2, <1>3, <1>4, NotedStep

LEMMA SplicePageKeeps ==
  ASSUME WakeInv, NEW p \in Splicer, SplicePage(p)
  PROVE  WakeInv'
<1>1. p \in Caller /\ p \in Source /\ nrbufs \in Int /\ buffers \in Int
  BY Sides DEF WakeInv, Control, Types
<1>2. PICK l \in {"loop", "unlock"} :
        pc' = [pc EXCEPT ![p] = l] /\ (l = "loop" => nrbufs + 1 # buffers)
  BY DEF SplicePage, Goto
<1>3. /\ pc[p] = "loop" /\ HasRoom /\ do_wakeup' = [do_wakeup EXCEPT ![p] = TRUE]
      /\ nrbufs' = nrbufs + 1
      /\ UNCHANGED <<readers, writers, buffers, wait, mutex, untold>>
  BY DEF SplicePage, InsertPage, open
<1>4. nrbufs' \in Int /\ (l = "loop" => HasRoom')
  BY <1>1, <1>2, <1>3, SMT DEF HasRoom
<1>5. QED
  BY <1>1, <1>2, <1>3, <1>4, NotedStep

-----------------------------------------------------------------------------
(* Steps that wake the other side, or have nobody to wake.  They leave the *)
(* fill and the ends; p itself sleeps only if there is nothing for it.     *)
LEMMA WakingStep ==
  ASSUME WakeInv, NEW p \in Caller, NEW l \in {"out", "wait"}, NEW v \in BOOLEAN,
         pc[p] \notin {"closed", "wait"}, pc' = [pc EXCEPT ![p] = l],
         do_wakeup' = [do_wakeup EXCEPT ![p] = v],
         UNCHANGED <<readers, writers, nrbufs, buffers>>,
         mutex' = mutex \/ mutex = p,
         wait' \subseteq wait \cup {p}, p \in wait' => l = "wait" /\ ~ Ready(p),
         untold \ {p} \subseteq untold',
         p \in Splicer => ~ v,
         \/ ~ WillWake(p)
         \/ p \in Sink /\ wait' \ {p} \subseteq FMODE_READ
         \/ p \in Source /\ (wait' \ {p}) \cap FMODE_READ = {}
  PROVE  WakeInv'
<1>1. p \in Proc
  BY Sides
<1>2. StepOf(p, l, v)
  <2>1. buffers \in Int /\ nrbufs \in Int
    BY DEF WakeInv, Control, Types
  <2>2. l \in Label \ {"closed"} /\ l \notin Holding
    BY DEF Label, Holding
  <2>3. QED
    BY <2>1, <2>2 DEF StepOf
<1>3. Control'
  BY <1>1, <1>2, StepControl DEF WakeInv
<1>4. \A x \in Proc : Ready(x)' = Ready(x)
  BY DEF Ready, HasRoom
<1>5. Covered(p)'
  BY <1>1, <1>4 DEF Covered, Asleep
<1>6. ASSUME NEW x \in Proc \ {p} PROVE Covered(x)'
  <2>1. CASE x \notin wait'
    BY <2>1 DEF Covered, Asleep
  <2>2. CASE x \in wait'
    <3>1. \/ WillWake(p) => WillWake(p)'
          \/ x \in FMODE_READ /\ p \in Sink
          \/ x \notin FMODE_READ /\ p \in Source
      BY <2>2
    <3>2. QED
      BY <1>1, <1>2, <1>4, <3>1, StillCovered DEF WakeInv
  <2>3. QED
    BY <2>1, <2>2
<1>7. QED
  BY <1>3, <1>5, <1>6 DEF WakeInv

(* Nobody of the other side stays on the queue after a wake-up.            *)
LEMMA WokenSides ==
  ASSUME Control
  PROVE  /\ Woken(Poller) = {} /\ Woken(WritePoll) \subseteq wait \cap FMODE_READ
         /\ Woken(ReadPoll) \subseteq wait \ FMODE_READ
  BY Sides, PipeAssumption DEF Woken, Poller

LEMMA UnlockKeeps ==
  ASSUME WakeInv, NEW p \in Caller, Unlock(p)
  PROVE  WakeInv'
<1>1. /\ pc[p] = "unlock" /\ pc' = [pc EXCEPT ![p] = "out"]
      /\ do_wakeup' = [do_wakeup EXCEPT ![p] = FALSE]
      /\ UNCHANGED <<readers, writers, nrbufs, buffers, untold>>
  BY DEF Unlock, Return, Goto, ring, open
<1>2. mutex = p /\ p \notin wait
  BY <1>1, Sides DEF WakeInv, Control, HolderKnown, Holding, QueueKnown
<1>3. wait' \subseteq wait /\ (do_wakeup[p] => wait' = {} /\ p \in Sink)
  BY WokenSides, Sides DEF Unlock, WakeInv
<1>4. ~ WillWake(p) \/ (p \in Sink /\ wait' \ {p} \subseteq FMODE_READ)
  BY <1>3 DEF WillWake
<1>5. QED
  BY <1>1, <1>2, <1>3, <1>4, WakingStep

LEMMA WakeUpKeeps ==
  ASSUME WakeInv, NEW p \in Caller, WakeUp(p)
  PROVE  WakeInv'
<1>1. /\ pc[p] = "wake" /\ pc' = [pc EXCEPT ![p] = "out"]
      /\ do_wakeup' = [do_wakeup EXCEPT ![p] = FALSE]
      /\ UNCHANGED <<readers, writers, nrbufs, buffers, untold, mutex>>
  BY DEF WakeUp, Return, Goto, ring, open
<1>2. p \notin wait
  BY <1>1, Sides DEF WakeInv, Control, QueueKnown
<1>3. /\ wait' \subseteq wait
      /\ \/ p \in Sink /\ wait' \ {p} \subseteq FMODE_READ
         \/ p \in Source /\ (wait' \ {p}) \cap FMODE_READ = {}
  <2>1. CASE p \in Reader
    BY <2>1, WokenSides, Sides DEF WakeUp, WakeInv
  <2>2. CASE p \in Writer
    BY <2>2, WokenSides, Sides DEF WakeUp, WakeInv
  <2>3. CASE p \notin Reader /\ p \notin Writer
    BY <2>3, WokenSides DEF WakeUp, WakeInv, Caller
  <2>4. QED
    BY <2>1, <2>2, <2>3
<1>4. QED
  BY <1>1, <1>2, <1>3, WakingStep

LEMMA ReadWaitKeeps ==
  ASSUME WakeInv, NEW p \in Reader, ReadWait(p)
  PROVE  WakeInv'
<1>1. /\ pc[p] = "loop" /\ pc' = [pc EXCEPT ![p] = "wait"] /\ do_wakeup' = do_wakeup
      /\ UNCHANGED <<readers, writers, nrbufs, buffers>> /\ untold \ {p} \subseteq untold'
  BY DEF ReadWait, Sleep, Goto, ring, call, open
<1>2. /\ p \in Caller /\ p \in Sink /\ p \in FMODE_READ /\ p \notin Splicer /\ mutex = p
      /\ do_wakeup[p] \in BOOLEAN
  BY <1>1, Sides DEF WakeInv, Control, Types, HolderKnown, Holding
<1>3. ~ Ready(p)
  <2>1. nrbufs = 0 /\ writers # 0
    BY DEF ReadWait, ReadGivesUp
  <2>2. QED
    BY <1>2, <2>1, SMT DEF Ready
<1>4. do_wakeup' = [do_wakeup EXCEPT ![p] = do_wakeup[p]]
  BY <1>1 DEF WakeInv, Control, Types
<1>5. /\ wait' \subseteq wait \cup {p}
      /\ do_wakeup[p] => wait' \ {p} \subseteq FMODE_READ
  BY WokenSides DEF ReadWait, Sleep, WakeInv
<1>6. ~ WillWake(p) \/ (p \in Sink /\ wait' \ {p} \subseteq FMODE_READ)
  BY <1>2, <1>5 DEF WillWake
<1>7. QED
  BY <1>1, <1>2, <1>3, <1>4, <1>5, <1>6, WakingStep

LEMMA UnspliceWaitKeeps ==
  ASSUME WakeInv, NEW p \in Unsplicer, UnspliceWait(p)
  PROVE  WakeInv'
<1>1. /\ pc[p] = "loop" /\ pc' = [pc EXCEPT ![p] = "wait"]
      /\ do_wakeup' = [do_wakeup EXCEPT ![p] = FALSE]
      /\ UNCHANGED <<readers, writers, nrbufs, buffers>> /\ untold \ {p} \subseteq untold'
  BY DEF UnspliceWait, Sleep, Goto, ring, open
<1>2. p \in Caller /\ p \in Sink /\ p \in FMODE_READ /\ mutex = p
  BY <1>1, Sides DEF WakeInv, Control, HolderKnown, Holding
<1>3. ~ Ready(p)
  <2>1. nrbufs = 0 /\ writers # 0
    BY DEF UnspliceWait, UnspliceGivesUp
  <2>2. QED
    BY <1>2, <2>1, SMT DEF Ready
<1>4. /\ wait' \subseteq wait \cup {p}
      /\ do_wakeup[p] => wait' \ {p} \subseteq FMODE_READ
  BY WokenSides DEF UnspliceWait, Sleep, WakeInv
<1>5. ~ WillWake(p) \/ (p \in Sink /\ wait' \ {p} \subseteq FMODE_READ)
  BY <1>2, <1>4 DEF WillWake
<1>6. QED
  BY <1>1, <1>2, <1>3, <1>4, <1>5, WakingStep

LEMMA WriteWaitKeeps ==
  ASSUME WakeInv, NEW p \in Writer, WriteWait(p)
  PROVE  WakeInv'
<1>1. /\ pc[p] = "loop" /\ pc' = [pc EXCEPT ![p] = "wait"]
      /\ do_wakeup' = [do_wakeup EXCEPT ![p] = FALSE]
      /\ UNCHANGED <<readers, writers, nrbufs, buffers>> /\ untold \ {p} \subseteq untold'
  BY DEF WriteWait, Sleep, Goto, ring, open
<1>2. p \in Caller /\ p \in Source /\ p \notin FMODE_READ /\ mutex = p
  BY <1>1, Sides DEF WakeInv, Control, HolderKnown, Holding
<1>3. ~ Ready(p)
  BY <1>2 DEF Ready, WriteWait, WriteGivesUp
<1>4. /\ wait' \subseteq wait \cup {p}
      /\ do_wakeup[p] => (wait' \ {p}) \cap FMODE_READ = {}
  BY WokenSides DEF WriteWait, Sleep, WakeInv
<1>5. ~ WillWake(p) \/ (p \in Source /\ (wait' \ {p}) \cap FMODE_READ = {})
  BY <1>2, <1>4 DEF WillWake
<1>6. QED
  BY <1>1, <1>2, <1>3, <1>4, <1>5, WakingStep

(* wait_for_space wakes nobody: there is no wake-up to be done yet.        *)
LEMMA SpliceWaitKeeps ==
  ASSUME WakeInv, NEW p \in Splicer, SpliceWait(p)
  PROVE  WakeInv'
<1>1. /\ pc[p] = "loop" /\ pc' = [pc EXCEPT ![p] = "wait"] /\ do_wakeup' = do_wakeup
      /\ wait' = wait \cup {p} /\ ~ HasRoom
      /\ UNCHANGED <<readers, writers, nrbufs, buffers>> /\ untold \ {p} \subseteq untold'
  BY DEF SpliceWait, Sleep, Goto, ring, call, open
<1>2. p \in Caller /\ p \notin FMODE_READ /\ mutex = p
  BY <1>1, Sides DEF WakeInv, Control, HolderKnown, Holding
<1>3. ~ do_wakeup[p] /\ do_wakeup[p] \in BOOLEAN
  BY <1>1, <1>2, Sides DEF WakeInv, Control, Types, SpliceHasRoom
<1>4. ~ Ready(p)
  BY <1>1, <1>2 DEF Ready, SpliceWait, WriteGivesUp
<1>5. do_wakeup' = [do_wakeup EXCEPT ![p] = do_wakeup[p]]
  BY <1>1 DEF WakeInv, Control, Types
<1>6. ~ WillWake(p)
  BY <1>3 DEF WillWake
<1>7. QED
  BY <1>1, <1>2, <1>3, <1>4, <1>5, <1>6, WakingStep

-----------------------------------------------------------------------------
(* Signals, pollers and the other calls.                                   *)
LEMMA SignalKeeps ==
  ASSUME WakeInv, NEW p \in Caller, Signal(p)
  PROVE  WakeInv'
<1>1. /\ pc[p] \in {"wait", "next", "loop"} /\ wait' = wait \ {p}
      /\ UNCHANGED <<pc, do_wakeup, readers, writers, nrbufs, buffers, mutex, untold>>
  BY DEF Signal, ring, call, open
<1>2. /\ p \in Proc /\ do_wakeup[p] \in BOOLEAN /\ nrbufs \in Int /\ buffers \in Int
      /\ pc' = [pc EXCEPT ![p] = pc[p]] /\ do_wakeup' = [do_wakeup EXCEPT ![p] = do_wakeup[p]]
  BY <1>1, Sides DEF WakeInv, Control, Types
<1>3. pc[p] \in Holding => mutex = p
  BY <1>2 DEF WakeInv, Control, HolderKnown
<1>4. p \in Splicer /\ do_wakeup[p] => pc[p] \in {"unlock", "wake"} \/ (pc[p] = "loop" /\ HasRoom')
  BY <1>1 DEF WakeInv, Control, SpliceHasRoom, HasRoom
<1>5. pc[p] \in Label \ {"closed"}
  BY <1>1 DEF Label
<1>6. StepOf(p, pc[p], do_wakeup[p])
  BY <1>1, <1>2, <1>3, <1>4, <1>5 DEF StepOf
<1>7. WillWake(p)' = WillWake(p) /\ p \notin wait'
  BY <1>1 DEF WillWake
<1>8. QED
  BY <1>1, <1>2, <1>6, <1>7, QuietStep

LEMMA PollKeeps ==
  ASSUME WakeInv, NEW p \in Poller, Poll(p) \/ PollFound(p) \/ PollWait(p)
  PROVE  WakeInv'
<1>1. /\ UNCHANGED <<do_wakeup, readers, writers, nrbufs, buffers, mutex>>
      /\ wait' \subseteq wait \cup {p} /\ untold \ {p} \subseteq untold'
      /\ pc[p] \in {"out", "poll", "poll_wait"}
  BY DEF Poll, PollFound, PollWait, ring, call, open
<1>2. PICK l \in {"out", "poll", "poll_wait"} :
        /\ pc' = [pc EXCEPT ![p] = l]
        /\ p \in wait' => l = "poll" \/ (l = "poll_wait" /\ ~ Ready(p))
  BY DEF Poll, PollFound, PollWait, Goto
<1>3. /\ p \in Proc /\ p \notin Splicer /\ do_wakeup[p] \in BOOLEAN /\ nrbufs \in Int
      /\ buffers \in Int /\ do_wakeup' = [do_wakeup EXCEPT ![p] = do_wakeup[p]]
  BY <1>1, Sides DEF WakeInv, Control, Types
<1>4. l \in Label \ {"closed"} /\ l \notin Holding
  BY DEF Label, Holding
<1>5. StepOf(p, l, do_wakeup[p])
  BY <1>1, <1>2, <1>3, <1>4 DEF StepOf
<1>6. ~ WillWake(p)
  BY <1>1 DEF WillWake
<1>7. QED
  BY <1>1, <1>2, <1>3, <1>5, <1>6, QuietStep

LEMMA SetSizeKeeps ==
  ASSUME WakeInv, NEW p \in Proc, SetSize(p)
  PROVE  WakeInv'
<1>1. /\ pc[p] = "out" /\ mutex = None
      /\ UNCHANGED <<pc, do_wakeup, readers, writers, nrbufs, mutex, wait>>
  BY DEF SetSize, call, open
<1>2. PICK n \in Sizes : /\ buffers' = n
                        /\ untold' = IF n > buffers THEN untold \cup (wait \ FMODE_READ)
                                     ELSE untold
  BY DEF SetSize
<1>3. /\ do_wakeup[p] \in BOOLEAN /\ nrbufs \in Int /\ buffers \in Int /\ n \in Int
      /\ pc' = [pc EXCEPT ![p] = "out"] /\ do_wakeup' = [do_wakeup EXCEPT ![p] = do_wakeup[p]]
  BY <1>1, PipeAssumption, SMT DEF WakeInv, Control, Types
<1>4. p \notin wait /\ ~ (p \in Splicer /\ do_wakeup[p])
  BY <1>1 DEF WakeInv, Control, QueueKnown, SpliceHasRoom
<1>5. "out" \in Label \ {"closed"} /\ "out" \notin Holding
  BY DEF Label, Holding
<1>6. StepOf(p, "out", do_wakeup[p])
  BY <1>1, <1>2, <1>3, <1>4, <1>5 DEF StepOf
<1>7. Control'
  BY <1>6, StepControl DEF WakeInv
<1>8. Covered(p)'
  BY <1>1, <1>4 DEF Covered, Asleep
<1>9. ASSUME NEW x \in Proc \ {p} PROVE Covered(x)'
  <2>1. CASE x \in FMODE_READ \/ ~ (n > buffers)
    <3>1. Ready(x)' => Ready(x)
      BY <1>1, <1>2, <1>3, <2>1, SMT DEF Ready, HasRoom
    <3>2. WillWake(p)' = WillWake(p) /\ untold \subseteq untold'
      BY <1>1, <1>2 DEF WillWake
    <3>3. QED
      BY <1>6, <3>1, <3>2, StillCovered DEF WakeInv
  <2>2. CASE x \notin FMODE_READ /\ n > buffers
    BY <1>1, <1>2, <2>2 DEF Covered, Asleep
  <2>3. QED
    BY <2>1, <2>2
<1>10. QED
  BY <1>7, <1>8, <1>9 DEF WakeInv

(* The count of the open ends of one side follows a close.                 *)
LEMMA CloseCounts ==
  ASSUME Types, NEW p \in Proc, NEW P \in SUBSET Proc, pc[p] = "out",
         pc' = [pc EXCEPT ![p] = "closed"]
  PROVE  /\ Cardinality(Open(P)) \in Nat /\ Cardinality(Open(P)') \in Nat
         /\ Cardinality(Open(P)') = Cardinality(Open(P)) - (IF p \in P THEN 1 ELSE 0)
         /\ Cardinality(Open(P)') = 0 => Open(P)' = {}
<1>1. IsFiniteSet(Open(P)) /\ IsFiniteSet(Open(P)')
  <2>1. Open(P) \subseteq Proc /\ Open(P)' \subseteq Proc
    BY DEF Open
  <2>2. QED
    BY <2>1, Sides, FS_Subset
<1>2. Open(P)' = Open(P) \ {p}
  BY DEF Open, Types
<1>3. p \in Open(P) <=> p \in P
  BY DEF Open
<1>4. Cardinality(Open(P)) \in Nat /\ Cardinality(Open(P)') \in Nat
  BY <1>1, FS_CardinalityType
<1>5. Cardinality(Open(P)') = Cardinality(Open(P)) - (IF p \in P THEN 1 ELSE 0)
  <2>1. CASE p \in P
    BY <1>1, <1>2, <1>3, <2>1, FS_RemoveElement
  <2>2. CASE p \notin P
    <3>1. Open(P)' = Open(P)
      BY <1>2, <1>3, <2>2
    <3>2. QED
      BY <1>4, <2>2, <3>1, SMT
  <2>3. QED
    BY <2>1, <2>2
<1>6. Cardinality(Open(P)') = 0 => Open(P)' = {}
  BY <1>1, FS_EmptySet
<1>7. QED
  BY <1>4, <1>5, <1>6

(* A close wakes everybody, unless everybody has closed.                   *)
LEMMA CloseKeeps ==
  ASSUME WakeInv, NEW p \in Proc, Close(p)
  PROVE  WakeInv'
<1>1. /\ pc[p] = "out" /\ pc' = [pc EXCEPT ![p] = "closed"]
      /\ UNCHANGED <<do_wakeup, nrbufs, buffers, mutex, untold>>
  BY DEF Close, Goto, ring, call
<1>2. /\ readers' = readers - (IF p \in FMODE_READ THEN 1 ELSE 0)
      /\ writers' = writers - (IF p \in Proc \ FMODE_READ THEN 1 ELSE 0)
      /\ readers' = Cardinality(Open(FMODE_READ)') /\ readers' \in Nat
      /\ writers' = Cardinality(Open(Proc \ FMODE_READ)') /\ writers' \in Nat
  <2>1. FMODE_READ \in SUBSET Proc /\ (Proc \ FMODE_READ) \in SUBSET Proc
    BY Sides
  <2>2. /\ readers = Cardinality(Open(FMODE_READ))
        /\ writers = Cardinality(Open(Proc \ FMODE_READ)) /\ Types
    BY DEF WakeInv, Control, EndsCounted
  <2>3. /\ readers \in Nat
        /\ Cardinality(Open(FMODE_READ)') = readers - (IF p \in FMODE_READ THEN 1 ELSE 0)
        /\ Cardinality(Open(FMODE_READ)') \in Nat
    BY <1>1, <2>1, <2>2, CloseCounts
  <2>4. /\ writers \in Nat
        /\ Cardinality(Open(Proc \ FMODE_READ)')
             = writers - (IF p \in Proc \ FMODE_READ THEN 1 ELSE 0)
        /\ Cardinality(Open(Proc \ FMODE_READ)') \in Nat
    BY <1>1, <2>1, <2>2, CloseCounts
  <2>5. /\ readers' = readers - (IF p \in FMODE_READ THEN 1 ELSE 0)
        /\ writers' = writers - (IF p \in Proc \ FMODE_READ THEN 1 ELSE 0)
    BY <2>3, <2>4, SMT DEF Close
  <2>6. QED
    BY <2>3, <2>4, <2>5
<1>3. pc'[p] = "closed" /\ \A q \in Proc \ {p} : pc'[q] = pc[q]
  BY <1>1 DEF WakeInv, Control, Types
<1>4. p \notin wait /\ wait' \subseteq wait
  BY <1>1 DEF WakeInv, Control, QueueKnown, Close
<1>5. Control'
  <2>1. Types'
    BY <1>1, <1>4 DEF WakeInv, Control, Types, Label
  <2>2. HolderKnown'
    BY <1>1, <1>3 DEF WakeInv, Control, HolderKnown, Holding
  <2>3. QueueKnown'
    BY <1>3, <1>4 DEF WakeInv, Control, Types, QueueKnown
  <2>4. EndsCounted'
    BY <1>2 DEF EndsCounted, Open
  <2>5. SpliceHasRoom'
    <3>1. HasRoom' = HasRoom
      BY <1>1 DEF HasRoom
    <3>2. QED
      BY <1>1, <1>3, <3>1, Sides DEF WakeInv, Control, SpliceHasRoom
  <2>6. QED
    BY <2>1, <2>2, <2>3, <2>4, <2>5 DEF Control
<1>6. ASSUME NEW x \in Proc PROVE ~ Asleep(x)'
  <2>1. CASE readers' + writers' > 0
    BY <2>1 DEF Close, Asleep
  <2>2. CASE ~ (readers' + writers' > 0)
    <3>1. readers' = 0 /\ writers' = 0
      <4>1. readers' \in Nat /\ writers' \in Nat
        BY <1>2
      <4>2. \A m, n \in Nat : ~ (m + n > 0) => m = 0 /\ n = 0
        BY SMT
      <4>3. QED
        BY <2>2, <4>1, <4>2, Zenon
    <3>2. Open(FMODE_READ)' = {} /\ Open(Proc \ FMODE_READ)' = {}
      <4>1. FMODE_READ \in SUBSET Proc /\ (Proc \ FMODE_READ) \in SUBSET Proc /\ Types
        BY Sides DEF WakeInv, Control
      <4>2. \A P \in SUBSET Proc : Cardinality(Open(P)') = 0 => Open(P)' = {}
        BY <1>1, <4>1, CloseCounts
      <4>3. QED
        BY <1>2, <3>1, <4>1, <4>2
    <3>3. pc'[x] = "closed"
      BY <3>2 DEF Open
    <3>4. QED
      BY <3>3 DEF Asleep
  <2>3. QED
    BY <2>1, <2>2
<1>7. QED
  BY <1>5, <1>6 DEF WakeInv, Covered

-----------------------------------------------------------------------------
LEMMA WakeInvInit ==
  Init => WakeInv
<1>1. SUFFICES ASSUME Init PROVE WakeInv
  OBVIOUS
<1>2. Types
  <2>1. DefBuffers \in Nat
    BY PipeAssumption
  <2>2. DefBuffers \in Int /\ 0 \in Int
    BY <2>1, SMT
  <2>3. QED
    BY <1>1, <2>2 DEF Init, Types, Label
<1>3. HolderKnown /\ QueueKnown /\ SpliceHasRoom
  BY <1>1, Sides DEF Init, HolderKnown, Holding, QueueKnown, SpliceHasRoom
<1>4. EndsCounted
  <2>1. Open(FMODE_READ) = FMODE_READ /\ Open(Proc \ FMODE_READ) = Proc \ FMODE_READ
    BY <1>1, Sides DEF Init, Open
  <2>2. QED
    BY <1>1, <2>1 DEF Init, EndsCounted
<1>5. \A p \in Proc : Covered(p)
  BY <1>1 DEF Init, Covered, Asleep
<1>6. QED
  BY <1>2, <1>3, <1>4, <1>5 DEF WakeInv, Control

LEMMA ProceedKeeps ==
  ASSUME WakeInv, NEW p \in Caller, Proceed(p)
  PROVE  WakeInv'
<1>1. CASE Resume(p) \/ Unlock(p) \/ UnlockFirst(p) \/ WakeUp(p)
  BY <1>1, ResumeKeeps, UnlockKeeps, UnlockFirstKeeps, WakeUpKeeps
<1>2. CASE p \in Sink /\ ReadBuffer(p)
  BY <1>2, ReadBufferKeeps
<1>3. CASE ReadFault(p) \/ ReadEnds(p) \/ UnspliceEnds(p) \/ WriteFails(p) \/ MergeFails(p)
  BY <1>3, BreakKeeps DEF ReadFault, ReadEnds, UnspliceEnds, WriteFails, MergeFails
<1>4. CASE WriteNoMemory(p) \/ SpliceFault(p)
  BY <1>4, BreakKeeps DEF WriteNoMemory, SpliceFault
<1>5. CASE p \in Reader /\ ReadWait(p)
  BY <1>5, ReadWaitKeeps
<1>6. CASE p \in Unsplicer /\ (UnspliceNext(p) \/ UnspliceWait(p))
  BY <1>6, UnspliceNextKeeps, UnspliceWaitKeeps
<1>7. CASE p \in Writer /\ (Merge(p) \/ NoMerge(p) \/ WritePage(p) \/ WriteFault(p) \/ WriteWait(p))
  BY <1>7, MergeKeeps, NoMergeKeeps, WritePageKeeps, WriteWaitKeeps
<1>8. CASE p \in Splicer /\ (SplicePage(p) \/ SpliceWait(p))
  BY <1>8, SplicePageKeeps, SpliceWaitKeeps
<1>9. QED
  BY <1>1, <1>2, <1>3, <1>4, <1>5, <1>6, <1>7, <1>8 DEF Proceed

LEMMA WakeInvStep ==
  WakeInv /\ [Next]_vars => WakeInv'
<1>1. SUFFICES ASSUME WakeInv, [Next]_vars PROVE WakeInv'
  OBVIOUS
<1>2. ASSUME NEW p \in Caller, Lock(p) \/ Proceed(p) \/ Signal(p) PROVE WakeInv'
  BY <1>1, <1>2, LockKeeps, ProceedKeeps, SignalKeeps
<1>3. ASSUME NEW p \in Sink, Read(p) PROVE WakeInv'
  BY <1>1, <1>3, Sides, EnterKeeps
<1>4. ASSUME NEW p \in Source, Write(p) PROVE WakeInv'
  BY <1>1, <1>4, Sides, EnterKeeps
<1>5. ASSUME NEW p \in Poller, Poll(p) \/ PollFound(p) \/ PollWait(p) PROVE WakeInv'
  BY <1>1, <1>5, PollKeeps
<1>6. ASSUME NEW p \in Proc, Close(p) \/ SetSize(p) PROVE WakeInv'
  BY <1>1, <1>6, CloseKeeps, SetSizeKeeps
<1>7. CASE UNCHANGED vars
  <2>1. UNCHANGED <<nrbufs, buffers, pc, do_wakeup, wait, mutex, readers, writers, untold>>
    BY <1>7 DEF vars, ring, call, open
  <2>2. QED
    BY <1>1, <2>1 DEF WakeInv, Control, Types, HolderKnown, QueueKnown, EndsCounted, Open,
         SpliceHasRoom, HasRoom, Covered, Asleep, Ready, WillWake
<1>8. QED
  BY <1>1, <1>2, <1>3, <1>4, <1>5, <1>6, <1>7 DEF Next

(* No wake-up is lost: whatever the processes, their calls, the sizes of   *)
(* pages and pipe, nobody sleeps on a change of fs/pipe.c that nobody is   *)
(* about to announce.                                                      *)
THEOREM WakeupNeverLost == Spec => []WakeupComing
<1>1. WakeInv => WakeupComing
  BY DEF WakeInv, Covered, WakeupComing
<1>2. QED
  BY WakeInvInit, WakeInvStep, <1>1, PTL DEF Spec

(* pipe->mutex excludes: no two processes are between __pipe_lock and      *)
(* __pipe_unlock.                                                          *)
THEOREM PipeMutex ==
  Spec => [](\A p, q \in Proc : pc[p] \in Holding /\ pc[q] \in Holding => p = q)
<1>1. WakeInv => \A p, q \in Proc : pc[p] \in Holding /\ pc[q] \in Holding => p = q
  BY DEF WakeInv, Control, HolderKnown
<1>2. QED
  BY WakeInvInit, WakeInvStep, <1>1, PTL DEF Spec
=============================================================================
