----------------------------- MODULE ByteStream -----------------------------
(***************************************************************************)
(* What a pipe promises: bytes come out in the order in which they went    *)
(* in, each once, and a write of at most a page (PIPE_BUF) is not mixed    *)
(* with another.  This last is no promise for vmsplice.                    *)
(***************************************************************************)
EXTENDS Naturals, Sequences

CONSTANTS Proc, Data, PIPE_BUF,
          Whole   \* the processes whose small writes are not torn

VARIABLES
  stream, \* the bytes written and not yet read
  count,  \* the size of the write each process is in, 0 if in none
  todo,   \* the part of it that is still to be sent
  got     \* the bytes its read has got so far

svars == <<stream, count, todo, got>>

Init ==
  /\ stream = <<>> /\ count = [p \in Proc |-> 0]
  /\ todo = [p \in Proc |-> <<>>] /\ got = [p \in Proc |-> <<>>]

Begin(p) ==
  /\ p \in DOMAIN Data /\ count[p] = 0
  /\ \E s \in Data[p] : /\ count' = [count EXCEPT ![p] = Len(s)]
                     /\ todo' = [todo EXCEPT ![p] = s]
  /\ UNCHANGED <<stream, got>>

(* A small write is sent whole.                                            *)
Send(p) ==
  \E k \in 1 .. Len(todo[p]) :
    /\ p \in Whole /\ count[p] <= PIPE_BUF => k = count[p]
    /\ stream' = stream \o SubSeq(todo[p], 1, k)
    /\ todo' = [todo EXCEPT ![p] = SubSeq(@, k + 1, Len(@))]
    /\ UNCHANGED <<count, got>>

(* All sent, or a failure.                                                 *)
End(p) ==
  /\ count' = [count EXCEPT ![p] = 0] /\ todo' = [todo EXCEPT ![p] = <<>>]
  /\ UNCHANGED <<stream, got>>

Receive(p) ==
  \E k \in 1 .. Len(stream) :
    /\ got' = [got EXCEPT ![p] = @ \o SubSeq(stream, 1, k)]
    /\ stream' = SubSeq(stream, k + 1, Len(stream))
    /\ UNCHANGED <<count, todo>>

(* The bytes are the caller's.                                             *)
Return(p) ==
  got' = [got EXCEPT ![p] = <<>>] /\ UNCHANGED <<stream, count, todo>>

Next == \E p \in Proc : Begin(p) \/ Send(p) \/ End(p) \/ Receive(p) \/ Return(p)

Spec == Init /\ [][Next]_svars
=============================================================================
