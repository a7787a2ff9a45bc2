------------------------ MODULE AsidAllocatorProofs ------------------------
(***************************************************************************)
(* IndInv is an inductive invariant of AsidAllocator, and implies the      *)
(* properties the model checker checks on small instances, for any number  *)
(* of CPUs, ASIDs (more of them than CPUs), processes and generations.     *)
(*                                                                         *)
(* The steps that end a switch or flush the TLB are in AsidSwitchProofs.   *)
(* Here: new_context where it lets a process keep its id or its index, or  *)
(* gives it an index known to be free; the search for a free index, and    *)
(* the rollover when there is none; and the theorems.                      *)
(***************************************************************************)
EXTENDS AsidSwitchProofs, FiniteSetTheorems, WellFoundedInduction

USE ZenonT(20)

(* What a CPU finds when it takes cpu_asid_lock.                           *)
LEMMA TakeLockFacts ==
  ASSUME IndInv, NEW c \in CPU, NEW l \in Locked, TakeLock(c, l), scan' = scan
  PROVE  /\ pc[c] = "lock" /\ lock' = c /\ pc' = [pc EXCEPT ![c] = l]
         /\ pc'[c] = l /\ \A d \in CPU : d # c => pc'[d] = pc[d]
         /\ ~ Scanning /\ scan = 0 /\ IssueGen = asid_generation
         /\ \A d \in CPU : pc[d] \notin Locked
         /\ Switching(c) /\ next[c] \in MM
         /\ Scanning' <=> l = "flush_context"
         /\ LockInv'
         /\ pc' \in [CPU -> Label] /\ lock' \in CPU \cup {NoCpu}
<1>1. /\ pc[c] = "lock" /\ lock' = c /\ pc' = [pc EXCEPT ![c] = l] /\ lock = NoCpu
      /\ pc \in [CPU -> Label] /\ LockInv /\ CpuControl(c)
  BY CpuInv DEF TakeLock, Goto, IndInv, TypeOK, ControlInv
<1>2. ~ Scanning
  BY <1>1, CpuFacts DEF Scanning
<1>3. \A d \in CPU : pc[d] \notin Locked
  BY <1>1, CpuFacts DEF LockInv
<1>4. Switching(c) /\ next[c] \in MM
  BY <1>1 DEF CpuControl, Switching
<1>5. pc'[c] = l /\ \A d \in CPU : d # c => pc'[d] = pc[d]
  BY <1>1
<1>6. Scanning' <=> l = "flush_context"
  BY <1>1, <1>5 DEF Scanning
<1>7. LockInv' /\ scan = 0
  BY <1>1, <1>2, <1>3, <1>5 DEF LockInv
<1>8. pc' \in [CPU -> Label] /\ lock' \in CPU \cup {NoCpu}
  BY <1>1 DEF Label
<1>9. QED
  BY <1>1, <1>2, <1>3, <1>4, <1>5, <1>6, <1>7, <1>8 DEF IssueGen

(* The mm has an id of this generation.                                    *)
LEMMA KeepCurrentInv ==
  ASSUME IndInv, NEW c \in CPU, KeepCurrent(c)
  PROVE  IndInv'
<1>1. /\ TakeLock(c, "activate") /\ "activate" \in Locked
      /\ UNCHANGED <<asid_generation, asid_map, cur_idx, active_asids, reserved_asids>>
      /\ UNCHANGED <<tlb_flush_pending, context_id, scan, active_mm, next, old_active_asid>>
      /\ UNCHANGED <<ttbr0, tlb>>
      /\ asid' = [asid EXCEPT ![c] = context_id[next[c]]]
      /\ Generation(context_id[next[c]]) = asid_generation
  BY DEF KeepCurrent, IsCurrent, mmuVars, Locked
<1>2. /\ pc'[c] = "activate" /\ \A d \in CPU : d # c => pc'[d] = pc[d]
      /\ ~ Scanning /\ (Scanning' <=> "activate" = "flush_context")
      /\ IssueGen = asid_generation
      /\ \A d \in CPU : pc[d] \notin Locked
      /\ Switching(c) /\ next[c] \in MM /\ LockInv'
      /\ pc' \in [CPU -> Label] /\ lock' \in CPU \cup {NoCpu}
  BY <1>1, TakeLockFacts
<1>3. ~ Scanning' /\ IssueGen' = IssueGen
  BY <1>1, <1>2 DEF IssueGen
<1>4. TypeOK /\ TypeOK'
  <2>1. TypeOK
    BY DEF IndInv
  <2>2. asid' \in [CPU -> ContextId]
    BY <1>1, <1>2, <2>1 DEF TypeOK
  <2>3. QED
    BY <1>1, <1>2, <2>1, <2>2 DEF TypeOK
<1>5. OthersUnchanged(c) /\ asid'[c] = context_id'[next[c]]
  <2>1. /\ asid'[c] = context_id[next[c]]
        /\ \A d \in CPU : d # c => asid'[d] = asid[d]
    BY <1>1, <1>4 DEF TypeOK
  <2>2. QED
    BY <1>1, <1>2, <2>1 DEF OthersUnchanged
<1>6. IdInv'
  <2>1. IdInv
    BY DEF IndInv
  <2>2. QED
    BY <1>1, <1>3, <2>1 DEF IdInv
<1>7. HeldInv'
  <2>1. HeldInv
    BY DEF IndInv
  <2>2. \A k : Unissued(k)' = Unissued(k)
    BY <1>1, <1>3 DEF Unissued
  <2>3. \A d \in CPU : ActiveId(d)' /\ ReservedId(d)'
    BY <1>1, <1>2, <1>3, <2>1, <2>2 DEF HeldInv, ActiveId, ReservedId
  <2>4. ReservedOnce' /\ MapInv'
    BY <1>1, <1>3, <2>1 DEF HeldInv, ReservedOnce, MapInv
  <2>5. QED
    BY <2>3, <2>4 DEF HeldInv
<1>8. \A d \in CPU : KeepsClaim(d) /\ KeepsCurrent(d)
  <2>1. \A e : Exclusive(e) => Exclusive(e)'
    <3>1. \A m, k : MayRunUnder(m, k)' = MayRunUnder(m, k)
      BY <1>1, <1>3 DEF MayRunUnder
    <3>2. QED
      BY <1>1, <1>2, <3>1 DEF Exclusive
  <2>2. \A d \in CPU : CpuCall(d) /\ Held(d)' = Held(d)
    BY <1>1, CpuInv DEF Held
  <2>3. \A d \in CPU : KeepsClaim(d)
    BY <1>1, <2>1, <2>2, SMT DEF KeepsClaim, CpuCall
  <2>4. QED
    BY <1>1, <1>3, <1>4, <2>3, SMT DEF KeepsCurrent, TypeOK
<1>9. /\ pc'[c] \in Locked /\ pc'[c] # "flush_context"
      /\ Generation(asid'[c]) = asid_generation'
      /\ active_mm'[c] = active_mm[c] /\ next'[c] = next[c]
      /\ ttbr0'[c] = ttbr0[c] /\ tlb'[c] = tlb[c]
  BY <1>1, <1>2, <1>5
<1>10. QED
  BY <1>2, <1>4, <1>5, <1>6, <1>7, <1>8, <1>9, LockedStep

(* The reserved id of the mm moves to the current generation: nobody else  *)
(* is on record under its index, and every CPU that runs the mm follows.   *)
LEMMA KeepReservedInv ==
  ASSUME IndInv, NEW c \in CPU, KeepReserved(c)
  PROVE  IndInv'
<1> DEFINE n   == next[c]
           id  == context_id[n]
           k   == asid2idx(id)
           new == <<asid_generation, k>>
<1>1. /\ TakeLock(c, "activate") /\ "activate" \in Locked
      /\ UNCHANGED <<asid_generation, asid_map, cur_idx, active_asids, tlb_flush_pending>>
      /\ UNCHANGED <<scan, active_mm, next, old_active_asid, ttbr0, tlb>>
      /\ asid' = [asid EXCEPT ![c] = new]
      /\ context_id' = [context_id EXCEPT ![n] = new]
      /\ reserved_asids' = [i \in CPU |-> IF reserved_asids[i] = id THEN new
                                          ELSE reserved_asids[i]]
      /\ id # NoAsid /\ Generation(id) # asid_generation
      /\ \E r \in CPU : reserved_asids[r] = id
  BY DEF KeepReserved, SetContextId, check_update_reserved_asid, mmuVars, Locked, IsCurrent,
         ReservedHit
<1>2. /\ pc'[c] = "activate" /\ \A d \in CPU : d # c => pc'[d] = pc[d]
      /\ ~ Scanning /\ (Scanning' <=> "activate" = "flush_context")
      /\ IssueGen = asid_generation
      /\ \A d \in CPU : pc[d] \notin Locked
      /\ Switching(c) /\ next[c] \in MM /\ LockInv'
      /\ pc' \in [CPU -> Label] /\ lock' \in CPU \cup {NoCpu}
  BY <1>1, TakeLockFacts
<1>3. /\ ~ Scanning' /\ IssueGen' = IssueGen /\ asid_generation \in Nat \ {0}
      /\ TypeOK /\ IdInv /\ HeldInv
  BY <1>1, <1>2 DEF IssueGen, IndInv, TypeOK
<1>4. PICK r \in CPU : reserved_asids[r] = id
  BY <1>1
<1>5. /\ id \in ContextId /\ k \in Index /\ k # 0 /\ k \in asid_map
      /\ Generation(id) \in Nat /\ Generation(id) < asid_generation
      /\ Unissued(k)
  <2>1. id \in ContextId /\ ReservedId(r)
    BY <1>2, <1>4, IdTypes, CpuInv
  <2>2. k \in Index /\ Generation(id) \in 1 .. IssueGen /\ k # 0 /\ k \in asid_map
    BY <1>1, <1>2, <1>4, <2>1, IdParts DEF ReservedId
  <2>3. Generation(id) \in Nat /\ Generation(id) < asid_generation
    BY <1>1, <1>2, <1>3, <2>2, SMT
  <2>4. QED
    BY <1>1, <1>2, <1>4, <2>1, <2>2, <2>3 DEF ReservedId
<1>6. \A d \in CPU : reserved_asids[d] # NoAsid /\ asid2idx(reserved_asids[d]) = k
                       => reserved_asids[d] = id
  BY <1>1, <1>3, <1>4 DEF HeldInv, ReservedOnce
<1>7. /\ new \in ContextId /\ Generation(new) = asid_generation /\ asid2idx(new) = k
      /\ new # NoAsid
      /\ \A m \in MM : context_id[m] # new
      /\ \A d \in CPU : active_asids[d] # new
  BY <1>2, <1>3, <1>5 DEF ContextId, Generation, asid2idx, NoAsid, Unissued
<1>8. /\ context_id'[n] = new /\ \A m \in MM : m # n => context_id'[m] = context_id[m]
      /\ asid'[c] = new /\ \A d \in CPU : d # c => asid'[d] = asid[d]
      /\ \A d \in CPU : \/ reserved_asids[d] = id /\ reserved_asids'[d] = new
                        \/ reserved_asids[d] # id /\ reserved_asids'[d] = reserved_asids[d]
  <2>1. context_id'[n] = new /\ \A m \in MM : m # n => context_id'[m] = context_id[m]
    BY <1>1, <1>2, <1>3 DEF TypeOK
  <2>2. asid'[c] = new /\ \A d \in CPU : d # c => asid'[d] = asid[d]
    BY <1>1, <1>3 DEF TypeOK
  <2>3. QED
    BY <1>1, <2>1, <2>2
<1> HIDE DEF new, k, id, n
<1>9. OthersUnchanged(c)
  BY <1>1, <1>2, <1>8 DEF OthersUnchanged
<1>10. \A m \in MM : asid2idx(context_id'[m]) = asid2idx(context_id[m])
  BY <1>7, <1>8 DEF k, id
<1>11. TypeOK'
  <2>1. n \in MM
    BY <1>2 DEF n
  <2>2. context_id' \in [MM -> ContextId] /\ asid' \in [CPU -> ContextId]
    BY <1>1, <1>3, <1>7, <2>1 DEF TypeOK
  <2>3. reserved_asids' \in [CPU -> ContextId]
    BY <1>1, <1>3, <1>7 DEF TypeOK
  <2>4. QED
    BY <1>1, <1>2, <1>3, <2>2, <2>3 DEF TypeOK
<1>12. IdInv'
  <2>1. ASSUME NEW m \in MM, context_id'[m] # NoAsid
        PROVE  /\ Generation(context_id'[m]) \in 1 .. IssueGen'
               /\ asid2idx(context_id'[m]) # 0
               /\ Generation(context_id'[m]) = asid_generation' =>
                    asid2idx(context_id'[m]) \in asid_map'
    <3>1. CASE m = n
      BY <1>1, <1>2, <1>3, <1>5, <1>7, <1>8, <3>1, SMT
    <3>2. CASE m # n
      BY <1>1, <1>3, <1>8, <2>1, <3>2, SMT DEF IdInv
    <3>3. QED
      BY <3>1, <3>2
  <2>2. \A x, y \in MM : context_id'[x] = context_id'[y] /\ context_id'[x] # NoAsid => x = y
    BY <1>3, <1>7, <1>8, SMT DEF IdInv
  <2>3. QED
    BY <1>3, <2>1, <2>2 DEF IdInv
<1>13. HeldInv'
  <2>1. ASSUME NEW d \in CPU PROVE ActiveId(d)'
    BY <1>1, <1>2, <1>3 DEF HeldInv, ActiveId
  <2>2. ASSUME NEW d \in CPU PROVE ReservedId(d)'
    <3>1. CASE reserved_asids[d] = id
      BY <1>1, <1>2, <1>3, <1>5, <1>7, <1>8, <3>1, SMT DEF ReservedId
    <3>2. CASE reserved_asids[d] # id
      <4>1. reserved_asids'[d] = reserved_asids[d] /\ ReservedId(d)
        BY <1>3, <1>8, <3>2 DEF HeldInv
      <4>2. ASSUME reserved_asids[d] # NoAsid, Unissued(asid2idx(reserved_asids[d]))
            PROVE  Unissued(asid2idx(reserved_asids[d]))'
        <5>1. asid2idx(reserved_asids[d]) # k
          BY <1>6, <3>2, <4>2
        <5>2. new # <<IssueGen, asid2idx(reserved_asids[d])>>
          BY <1>7, <5>1, IdParts
        <5>3. \A m \in MM : context_id'[m] # <<IssueGen, asid2idx(reserved_asids[d])>>
          <6>1. \A m \in MM : context_id'[m] = context_id[m] \/ context_id'[m] = new
            BY <1>8
          <6>2. QED
            BY <4>2, <5>2, <6>1 DEF Unissued
        <5>4. QED
          BY <1>1, <1>3, <4>1, <4>2, <5>3 DEF Unissued
      <4>3. QED
        BY <1>1, <1>2, <1>3, <4>1, <4>2 DEF ReservedId
    <3>3. QED
      BY <3>1, <3>2
  <2>3. ReservedOnce'
    <3>1. ReservedOnce
      BY <1>3 DEF HeldInv
    <3>2. QED
      BY <1>6, <1>7, <1>8, <3>1, SMT DEF ReservedOnce
  <2>4. MapInv'
    BY <1>3 DEF MapInv
  <2>5. QED
    BY <2>1, <2>2, <2>3, <2>4 DEF HeldInv
<1>14. ASSUME NEW m \in MM, NEW j, MayRunUnder(m, j)'
       PROVE  MayRunUnder(m, j)
  <2>1. CASE m = n
    BY <1>1, <1>4, <1>10, <1>14, <2>1 DEF MayRunUnder, id
  <2>2. CASE m # n
    <3>1. context_id'[m] = context_id[m]
      BY <1>8, <2>2
    <3>2. \A d \in CPU : reserved_asids'[d] = context_id[m] =>
                          reserved_asids[d] = context_id[m]
      BY <1>7, <1>8
    <3>3. QED
      BY <1>3, <1>14, <3>1, <3>2 DEF MayRunUnder
  <2>3. QED
    BY <2>1, <2>2
<1>15. ASSUME NEW d \in CPU
       PROVE  KeepsClaim(d) /\ KeepsCurrent(d)
  <2>1. \A e : Exclusive(e) => Exclusive(e)'
    BY <1>1, <1>2, <1>14 DEF Exclusive
  <2>2. ASSUME Committed(d) \in MM
        PROVE  Held(d)' = context_id'[Committed(d)] /\ Held(d)' # NoAsid
    <3>1. Held(d) = context_id[Committed(d)] /\ Held(d) # NoAsid
      <4>1. CpuCall(d)
        BY CpuInv
      <4>2. QED
        BY <2>2, <4>1 DEF CpuCall
    <3>2. active_asids'[d] = active_asids[d] /\ ActiveId(d)
      BY <1>1, <1>3 DEF HeldInv
    <3>3. CASE Committed(d) = n
      <4>1. Held(d) = id
        BY <3>1, <3>3 DEF id
      <4>2. active_asids[d] = NoAsid
        BY <1>1, <1>2, <3>2, <4>1 DEF Held, ActiveId
      <4>3. reserved_asids[d] = id
        BY <4>1, <4>2 DEF Held
      <4>4. reserved_asids'[d] = new
        BY <1>8, <4>3
      <4>5. QED
        BY <1>7, <1>8, <3>2, <3>3, <4>2, <4>4 DEF Held
    <3>4. CASE Committed(d) # n
      <4>1. context_id'[Committed(d)] = context_id[Committed(d)]
        BY <1>8, <2>2, <3>4
      <4>2. n \in MM
        BY <1>2 DEF n
      <4>3. Held(d) # id
        BY <1>1, <1>3, <2>2, <3>1, <3>4, <4>2 DEF IdInv, id
      <4>4. QED
        BY <1>8, <3>1, <3>2, <4>1, <4>3 DEF Held
    <3>5. QED
      BY <3>3, <3>4
  <2>3. KeepsClaim(d)
    BY <1>1, <1>10, <2>1, <2>2 DEF KeepsClaim
  <2>4. \A m \in MM : \/ context_id'[m] = context_id[m]
                     \/ Generation(context_id[m]) < asid_generation
    BY <1>5, <1>8 DEF id
  <2>5. \A m \in MM : Generation(context_id[m]) = IssueGen => context_id'[m] = context_id[m]
    BY <1>1, <1>2, <1>8 DEF id
  <2>6. KeepsCurrent(d)
    BY <1>1, <1>3, <2>4, <2>5, SMT DEF KeepsCurrent
  <2>7. QED
    BY <2>3, <2>6
<1>16. /\ pc'[c] \in Locked /\ pc'[c] # "flush_context"
       /\ asid'[c] = context_id'[next[c]] /\ Generation(asid'[c]) = asid_generation'
       /\ active_mm'[c] = active_mm[c] /\ next'[c] = next[c]
       /\ ttbr0'[c] = ttbr0[c] /\ tlb'[c] = tlb[c]
  BY <1>1, <1>2, <1>7, <1>8 DEF n
<1>17. QED
  BY <1>2, <1>9, <1>11, <1>12, <1>13, <1>15, <1>16, LockedStep

(* A process with no id that counts gets an index whose bit was clear: no  *)
(* CPU is on record under it, and no TLB without a queued flush holds it.  *)
LEMMA FreshIndexInv ==
  ASSUME IndInv, NEW c \in CPU, NEW k \in Index \ {0}, k \notin asid_map,
         TakeLock(c, "activate"),
         ~ IsCurrent(context_id[next[c]]),
         context_id[next[c]] = NoAsid \/ ~ ReservedHit(context_id[next[c]]),
         asid_map' = asid_map \cup {k}, cur_idx' \in Index \ {0},
         SetContextId(c, <<asid_generation, k>>),
         UNCHANGED <<asid_generation, active_asids, reserved_asids, tlb_flush_pending>>,
         UNCHANGED <<scan, active_mm, next, old_active_asid, ttbr0, tlb>>
  PROVE  IndInv'
<1> DEFINE n   == next[c]
           id  == context_id[n]
           new == <<asid_generation, k>>
<1>1. /\ "activate" \in Locked /\ scan' = scan
      /\ asid' = [asid EXCEPT ![c] = new]
      /\ context_id' = [context_id EXCEPT ![n] = new]
  BY DEF SetContextId, Locked
<1>2. /\ pc'[c] = "activate" /\ \A d \in CPU : d # c => pc'[d] = pc[d]
      /\ ~ Scanning /\ (Scanning' <=> "activate" = "flush_context")
      /\ IssueGen = asid_generation
      /\ \A d \in CPU : pc[d] \notin Locked
      /\ Switching(c) /\ next[c] \in MM /\ LockInv'
      /\ pc' \in [CPU -> Label] /\ lock' \in CPU \cup {NoCpu}
  BY <1>1, TakeLockFacts
<1>3. /\ ~ Scanning' /\ IssueGen' = IssueGen /\ asid_generation \in Nat \ {0}
      /\ TypeOK /\ IdInv /\ HeldInv
  BY <1>1, <1>2 DEF IssueGen, IndInv, TypeOK
<1>4. /\ new \in ContextId /\ Generation(new) = asid_generation /\ asid2idx(new) = k
      /\ new # NoAsid
  BY <1>3 DEF ContextId, Generation, asid2idx, NoAsid
<1>5. Generation(id) \in Nat /\ Generation(id) < asid_generation
  <2>1. Generation(id) # asid_generation
    BY DEF IsCurrent
  <2>2. CASE id = NoAsid
    BY <1>3, <2>2, SMT DEF NoAsid, Generation
  <2>3. CASE id # NoAsid
    BY <1>2, <1>3, <2>1, <2>3, SMT DEF IdInv
  <2>4. QED
    BY <2>2, <2>3
<1>6. \A m \in MM : context_id[m] # new
  BY <1>3, <1>4 DEF IdInv
<1>7. \A d \in CPU : Committed(d) # n
  <2> SUFFICES ASSUME NEW d \in CPU, Committed(d) = n
               PROVE  FALSE
    OBVIOUS
  <2>1. Held(d) = id /\ id # NoAsid /\ ActiveId(d)
    BY <1>2, CpuInv, SMT DEF CpuCall
  <2>2. CASE active_asids[d] # NoAsid
    BY <1>2, <2>1, <2>2 DEF Held, ActiveId, IsCurrent
  <2>3. CASE active_asids[d] = NoAsid
    BY <2>1, <2>3 DEF Held, ReservedHit
  <2>4. QED
    BY <2>2, <2>3
<1>8. /\ context_id'[n] = new /\ \A m \in MM : m # n => context_id'[m] = context_id[m]
      /\ asid'[c] = new /\ \A d \in CPU : d # c => asid'[d] = asid[d]
  <2>1. context_id'[n] = new /\ \A m \in MM : m # n => context_id'[m] = context_id[m]
    BY <1>1, <1>2, <1>3 DEF TypeOK
  <2>2. asid'[c] = new /\ \A d \in CPU : d # c => asid'[d] = asid[d]
    BY <1>1, <1>3 DEF TypeOK
  <2>3. QED
    BY <2>1, <2>2
<1> HIDE DEF new, id, n
<1>9. OthersUnchanged(c)
  BY <1>2, <1>8 DEF OthersUnchanged
<1>10. TypeOK'
  <2>1. n \in MM
    BY <1>2 DEF n
  <2>2. context_id' \in [MM -> ContextId] /\ asid' \in [CPU -> ContextId]
    BY <1>1, <1>3, <1>4, <2>1 DEF TypeOK
  <2>3. QED
    BY <1>1, <1>2, <1>3, <2>2 DEF TypeOK
<1>11. IdInv'
  <2>1. ASSUME NEW m \in MM, context_id'[m] # NoAsid
        PROVE  /\ Generation(context_id'[m]) \in 1 .. IssueGen'
               /\ asid2idx(context_id'[m]) # 0
               /\ Generation(context_id'[m]) = asid_generation' =>
                    asid2idx(context_id'[m]) \in asid_map'
    <3>1. CASE m = n
      BY <1>2, <1>3, <1>4, <1>8, <3>1, SMT
    <3>2. CASE m # n
      BY <1>3, <1>8, <2>1, <3>2 DEF IdInv
    <3>3. QED
      BY <3>1, <3>2
  <2>2. \A x, y \in MM : context_id'[x] = context_id'[y] /\ context_id'[x] # NoAsid => x = y
    BY <1>3, <1>6, <1>8 DEF IdInv
  <2>3. QED
    BY <1>3, <2>1, <2>2 DEF IdInv
<1>12. HeldInv'
  <2>1. ASSUME NEW d \in CPU PROVE ActiveId(d)'
    BY <1>2, <1>3 DEF HeldInv, ActiveId
  <2>2. ASSUME NEW d \in CPU PROVE ReservedId(d)'
    <3>1. ReservedId(d)
      BY <1>3 DEF HeldInv
    <3>2. ASSUME reserved_asids[d] # NoAsid, Unissued(asid2idx(reserved_asids[d]))
          PROVE  Unissued(asid2idx(reserved_asids[d]))'
      <4>1. asid2idx(reserved_asids[d]) # k
        BY <1>2, <3>1, <3>2 DEF ReservedId
      <4>2. new # <<IssueGen, asid2idx(reserved_asids[d])>>
        BY <1>4, <4>1, IdParts, SMT
      <4>3. \A m \in MM : context_id'[m] = context_id[m] \/ context_id'[m] = new
        BY <1>8
      <4>4. \A m \in MM : context_id'[m] # <<IssueGen, asid2idx(reserved_asids[d])>>
        BY <3>2, <4>2, <4>3 DEF Unissued
      <4>5. QED
        BY <1>3, <3>2, <4>4 DEF Unissued
    <3>3. QED
      BY <1>2, <1>3, <3>1, <3>2 DEF ReservedId
  <2>3. ReservedOnce' /\ MapInv'
    BY <1>3 DEF HeldInv, ReservedOnce, MapInv
  <2>4. QED
    BY <2>1, <2>2, <2>3 DEF HeldInv
<1>13. ASSUME NEW m \in MM, NEW j, MayRunUnder(m, j)'
       PROVE  (m = n /\ j = k) \/ MayRunUnder(m, j)
  <2>1. CASE m = n
    BY <1>4, <1>8, <1>13, <2>1 DEF MayRunUnder
  <2>2. CASE m # n
    BY <1>3, <1>8, <1>13, <2>2 DEF MayRunUnder
  <2>3. QED
    BY <2>1, <2>2
<1>14. ASSUME NEW d \in CPU
       PROVE  KeepsClaim(d) /\ KeepsCurrent(d)
  <2>1. ASSUME NEW e, Exclusive(e)
        PROVE  Exclusive(e)'
    <3>1. e[1] \in asid_map /\ \A m \in MM : MayRunUnder(m, e[1]) => m = e[2]
      BY <1>2, <2>1 DEF Exclusive
    <3>2. \A m \in MM : MayRunUnder(m, e[1])' => m = e[2]
      BY <1>13, <3>1
    <3>3. QED
      BY <3>1, <3>2 DEF Exclusive
  <2>2. Committed(d) \in MM => /\ context_id'[Committed(d)] = context_id[Committed(d)]
                               /\ Held(d) = context_id[Committed(d)] /\ Held(d) # NoAsid
    BY <1>7, <1>8, CpuInv DEF CpuCall
  <2>3. Held(d)' = Held(d)
    BY DEF Held
  <2>4. KeepsClaim(d)
    BY <2>1, <2>2, <2>3 DEF KeepsClaim
  <2>5. \A m \in MM : \/ context_id'[m] = context_id[m]
                     \/ Generation(context_id[m]) < asid_generation
    BY <1>5, <1>8 DEF id
  <2>6. \A m \in MM : Generation(context_id[m]) = IssueGen => context_id'[m] = context_id[m]
    BY <1>2, <1>5, <1>8, SMT DEF id
  <2>7. KeepsCurrent(d)
    BY <1>3, <2>5, <2>6, SMT DEF KeepsCurrent
  <2>8. QED
    BY <2>4, <2>7
<1>15. /\ pc'[c] \in Locked /\ pc'[c] # "flush_context"
       /\ asid'[c] = context_id'[next[c]] /\ Generation(asid'[c]) = asid_generation'
       /\ active_mm'[c] = active_mm[c] /\ next'[c] = next[c]
       /\ ttbr0'[c] = ttbr0[c] /\ tlb'[c] = tlb[c]
  BY <1>1, <1>2, <1>4, <1>8 DEF n
<1>16. QED
  BY <1>2, <1>9, <1>10, <1>11, <1>12, <1>14, <1>15, LockedStep

(* The index of an earlier generation is free, and taken again.            *)
LEMMA ReuseIndexInv ==
  ASSUME IndInv, NEW c \in CPU, ReuseIndex(c)
  PROVE  IndInv'
<1> DEFINE id == context_id[next[c]]
           k  == asid2idx(id)
<1>1. /\ TakeLock(c, "activate") /\ ~ IsCurrent(id) /\ id # NoAsid /\ ~ ReservedHit(id)
      /\ k \notin asid_map /\ asid_map' = asid_map \cup {k}
      /\ SetContextId(c, <<asid_generation, k>>)
      /\ UNCHANGED <<asid_generation, active_asids, reserved_asids, tlb_flush_pending>>
      /\ UNCHANGED <<scan, active_mm, next, old_active_asid, ttbr0, tlb>>
      /\ cur_idx' = cur_idx /\ scan' = scan /\ "activate" \in Locked
  BY DEF ReuseIndex, mmuVars, Locked
<1>2. next[c] \in MM
  BY <1>1, TakeLockFacts
<1>3. k \in Index \ {0} /\ cur_idx' \in Index \ {0}
  <2>1. id \in ContextId /\ IdInv /\ cur_idx \in Index \ {0}
    BY <1>2 DEF IndInv, TypeOK
  <2>2. QED
    BY <1>1, <1>2, <2>1, IdParts DEF IdInv
<1>4. QED
  BY <1>1, <1>3, FreshIndexInv

-----------------------------------------------------------------------------
(* The search for a free index in new_context, and the rollover when there *)
(* is none: what find_next_zero_bit returns, that a rollover leaves an     *)
(* index free, and that the steps of flush_context keep IndInv.            *)

(* A set of natural numbers has a least element.                           *)
LEMMA LeastNatural ==
  ASSUME NEW S \in SUBSET Nat, S # {}
  PROVE  \E k \in S : \A j \in S : k <= j
<1> DEFINE R == {ss \in Nat \X Nat : ss[1] < ss[2]}
<1>1. IsWellFoundedOn(R, Nat)
  BY NatLessThanWellFounded DEF OpToRel
<1>2. \A i, j \in Nat : <<i, j>> \in R <=> i < j
  OBVIOUS
<1> HIDE DEF R
<1>3. PICK k \in S : \A j \in S : ~ (<<j, k>> \in R)
  BY <1>1, WFMin
<1>4. ASSUME NEW j \in S PROVE k <= j
  <2>1. ~ (<<j, k>> \in R)
    BY <1>3
  <2>2. j \in Nat /\ k \in Nat
    OBVIOUS
  <2>3. ~ (j < k)
    BY <1>2, <2>1, <2>2
  <2>4. QED
    BY <2>2, <2>3, SMT
<1>5. QED
  BY <1>4

(* find_next_zero_bit returns a clear bit at or after start if there is    *)
(* one, and the size of the map otherwise.                                 *)
LEMMA FindNextZeroBit ==
  ASSUME NEW start \in Nat
  PROVE  /\ FreeFrom(start) = {} => find_next_zero_bit(start) = NumUserAsids
         /\ FreeFrom(start) # {} => find_next_zero_bit(start) \in FreeFrom(start)
         /\ find_next_zero_bit(start) # NumUserAsids => FreeFrom(start) # {}
<1>1. ASSUME FreeFrom(start) # {}
      PROVE  find_next_zero_bit(start) \in FreeFrom(start)
  <2>1. FreeFrom(start) \in SUBSET Nat
    BY AsidAssumption, CpuAssumption, SMT DEF FreeFrom, Index
  <2>2. \E k \in FreeFrom(start) : \A j \in FreeFrom(start) : k <= j
    BY <1>1, <2>1, LeastNatural
  <2>3. QED
    BY <1>1, <2>2 DEF find_next_zero_bit
<1>2. QED
  BY <1>1 DEF find_next_zero_bit

(* When every CPU has been visited, the bits set are at most as many as    *)
(* the CPUs, so one of the indices from 1 on is free.                      *)
LEMMA FreeAfterRollover ==
  ASSUME TypeOK,
         asid_map = {asid2idx(reserved_asids[i]) : i \in 0 .. NumCpus - 1}
  PROVE  FreeFrom(1) # {}
<1> DEFINE S == 1 .. NumUserAsids - 1
<1> DEFINE f == [k \in S |-> CHOOSE i \in CPU : asid2idx(reserved_asids[i]) = k]
<1> SUFFICES ASSUME FreeFrom(1) = {} PROVE FALSE
  OBVIOUS
<1>1. S \subseteq asid_map
  BY AsidAssumption, SMT DEF FreeFrom, Index
<1>2. \A k \in S : \E i \in CPU : asid2idx(reserved_asids[i]) = k
  BY <1>1 DEF CPU
<1>3. \A k \in S : f[k] \in CPU /\ asid2idx(reserved_asids[f[k]]) = k
  BY <1>2
<1>4. f \in [S -> CPU]
  BY <1>3
<1>5. IsFiniteSet(S) /\ Cardinality(S) = NumUserAsids - 1
  BY FS_Interval, AsidAssumption, CpuAssumption, SMT
<1>6. IsFiniteSet(CPU) /\ Cardinality(CPU) = NumCpus
  BY FS_Interval, CpuAssumption, SMT DEF CPU
<1> HIDE DEF S, f
<1>7. Cardinality(CPU) < Cardinality(S)
  BY <1>5, <1>6, AsidAssumption, CpuAssumption
<1>8. \E x, y \in S : x # y /\ f[x] = f[y]
  BY <1>4, <1>5, <1>6, <1>7, FS_PigeonHole, SMT
<1>9. QED
  BY <1>3, <1>8

-----------------------------------------------------------------------------
(* The steps that search, and the rollover.                                *)

(* The search from cur_idx finds a clear bit.                              *)
LEMMA AllocateIndexInv ==
  ASSUME IndInv, NEW c \in CPU, AllocateIndex(c)
  PROVE  IndInv'
<1> DEFINE k == find_next_zero_bit(cur_idx)
<1>1. cur_idx \in Nat /\ cur_idx # 0
  BY ZeroTypes DEF IndInv, TypeOK
<1>2. k \in FreeFrom(cur_idx)
  BY <1>1, FindNextZeroBit DEF AllocateIndex
<1>3. k \in Index \ {0} /\ k \notin asid_map
  BY <1>1, <1>2, ZeroTypes, SMT DEF FreeFrom
<1>4. k % NumUserAsids = k
  BY <1>3, AsidAssumption, CpuAssumption, SMT DEF Index
<1>5. /\ asid_map' = asid_map \cup {k} /\ cur_idx' = k
      /\ SetContextId(c, <<asid_generation, k % NumUserAsids>>)
      /\ TakeLock(c, "activate") /\ NeedsNewIndex(context_id[next[c]])
      /\ UNCHANGED <<asid_generation, active_asids, reserved_asids, tlb_flush_pending>>
      /\ UNCHANGED <<scan, active_mm, next, old_active_asid, ttbr0, tlb>>
  BY DEF AllocateIndex, TakeIndex, mmuVars
<1> HIDE DEF k
<1>6. SetContextId(c, <<asid_generation, k>>)
  BY <1>4, <1>5
<1>7. /\ ~ IsCurrent(context_id[next[c]])
      /\ context_id[next[c]] = NoAsid \/ ~ ReservedHit(context_id[next[c]])
  BY <1>5 DEF NeedsNewIndex
<1>8. cur_idx' \in Index \ {0}
  BY <1>3, <1>5
<1>9. QED
  BY <1>3, <1>5, <1>6, <1>7, <1>8, FreshIndexInv

(* A rollover begins: nothing of the new generation exists yet.            *)
LEMMA RolloverInv ==
  ASSUME IndInv, NEW c \in CPU, Rollover(c)
  PROVE  IndInv'
<1>1. /\ TakeLock(c, "flush_context") /\ "flush_context" \in Locked
      /\ NeedsNewIndex(context_id[next[c]])
      /\ UNCHANGED <<cur_idx, active_asids, reserved_asids, tlb_flush_pending, context_id>>
      /\ UNCHANGED <<scan, active_mm, next, asid, old_active_asid, ttbr0, tlb>>
      /\ asid_generation' = asid_generation + 1
      /\ asid_map' = {}
  BY DEF Rollover, localVars, mmuVars, Locked
<1>2. /\ pc'[c] = "flush_context" /\ \A d \in CPU : d # c => pc'[d] = pc[d]
      /\ ~ Scanning /\ (Scanning' <=> "flush_context" = "flush_context")
      /\ scan = 0 /\ IssueGen = asid_generation
      /\ \A d \in CPU : pc[d] \notin Locked
      /\ Switching(c) /\ next[c] \in MM /\ LockInv'
      /\ pc' \in [CPU -> Label] /\ lock' \in CPU \cup {NoCpu}
  BY <1>1, TakeLockFacts
<1>3. /\ Scanning' /\ IssueGen' = IssueGen /\ asid_generation \in Nat \ {0}
      /\ TypeOK /\ IdInv /\ HeldInv
  BY <1>1, <1>2, SMT DEF IssueGen, IndInv, TypeOK
<1>4. OthersUnchanged(c)
  BY <1>1, <1>2 DEF OthersUnchanged
<1>5. TypeOK'
  BY <1>1, <1>2, <1>3, SMT DEF TypeOK
<1>6. IdInv'
  <2>1. \A m \in MM : context_id[m] # NoAsid => Generation(context_id[m]) # asid_generation'
    BY <1>1, <1>2, <1>3, SMT DEF IdInv
  <2>2. QED
    BY <1>1, <1>3, <2>1 DEF IdInv
<1>7. HeldInv'
  <2>1. \A d \in CPU : d >= scan'
    BY <1>1, <1>2, CpuFacts, SMT
  <2>2. \A k : Unissued(k)' = Unissued(k)
    BY <1>1, <1>3 DEF Unissued
  <2>3. \A d \in CPU : ActiveId(d)'
    BY <1>1, <1>3, <2>1 DEF HeldInv, ActiveId
  <2>4. \A d \in CPU : ReservedId(d)'
    BY <1>1, <1>3, <2>2 DEF HeldInv, ReservedId
  <2>5. ReservedOnce'
    BY <1>1, <1>3 DEF HeldInv, ReservedOnce
  <2>6. MapInv'
    BY <1>1, <1>2, SMT DEF MapInv
  <2>7. QED
    BY <2>3, <2>4, <2>5, <2>6 DEF HeldInv
<1>8. ASSUME NEW d \in CPU
      PROVE  KeepsClaim(d) /\ KeepsCurrent(d)
  <2>1. \A m, k : MayRunUnder(m, k)' = MayRunUnder(m, k)
    BY <1>1, <1>3 DEF MayRunUnder
  <2>2. \A e : Exclusive(e) => Exclusive(e)'
    BY <1>3, <2>1 DEF Exclusive
  <2>3. CpuCall(d) /\ Held(d)' = Held(d)
    BY <1>1, CpuInv DEF Held
  <2>4. KeepsClaim(d)
    BY <1>1, <2>2, <2>3 DEF KeepsClaim, CpuCall
  <2>5. KeepsCurrent(d)
    BY <1>1, <1>3, SMT DEF KeepsCurrent
  <2>6. QED
    BY <2>4, <2>5
<1>9. /\ Generation(context_id'[next[c]]) # IssueGen'
      /\ context_id'[next[c]] # NoAsid => ~ ReservedHit(context_id[next[c]])'
  BY <1>1, <1>2, <1>3 DEF NeedsNewIndex, IsCurrent, ReservedHit
<1>10. /\ pc'[c] \in Locked /\ pc'[c] # "activate"
       /\ active_mm'[c] = active_mm[c] /\ next'[c] = next[c]
       /\ ttbr0'[c] = ttbr0[c] /\ tlb'[c] = tlb[c]
  BY <1>1, <1>2
<1>11. QED
  BY <1>2, <1>4, <1>5, <1>6, <1>7, <1>8, <1>9, <1>10, LockedStep

(* What the CPU inside flush_context knows.                                *)
LEMMA ScanFacts ==
  ASSUME IndInv, NEW c \in CPU, pc[c] = "flush_context"
  PROVE  /\ lock = c /\ Scanning /\ Switching(c) /\ next[c] \in MM
         /\ \A d \in CPU : d # c => pc[d] \notin Locked
         /\ IssueGen = asid_generation - 1 /\ asid_generation \in Nat \ {0}
         /\ TypeOK /\ IdInv /\ HeldInv /\ LockInv
         /\ Generation(context_id[next[c]]) # IssueGen
         /\ context_id[next[c]] # NoAsid => ~ ReservedHit(context_id[next[c]])
<1>1. /\ TypeOK /\ IdInv /\ HeldInv /\ LockInv /\ CpuControl(c) /\ CpuCall(c)
      /\ "flush_context" \in Locked
  BY CpuInv DEF IndInv, ControlInv, Locked
<1>2. lock = c /\ \A d \in CPU : d # c => pc[d] \notin Locked
  BY <1>1 DEF LockInv
<1>3. Scanning /\ Switching(c) /\ next[c] \in MM
  BY <1>1, <1>2 DEF Scanning, Switching, CpuControl
<1>4. IssueGen = asid_generation - 1 /\ asid_generation \in Nat \ {0}
  BY <1>1, <1>3 DEF IssueGen, TypeOK
<1>5. QED
  BY <1>1, <1>2, <1>3, <1>4 DEF CpuCall

(* flush_context visits one CPU: the id it was on record under is now its  *)
(* reserved one.                                                           *)
LEMMA FlushContextCpuInv ==
  ASSUME IndInv, NEW c \in CPU, FlushContextCpu(c)
  PROVE  IndInv'
<1> DEFINE s == scan
<1>1. /\ pc[c] = "flush_context" /\ s \in CPU
      /\ active_asids' = [active_asids EXCEPT ![s] = NoAsid]
      /\ reserved_asids' = [reserved_asids EXCEPT ![s] = Held(s)]
      /\ asid_map' = asid_map \cup {asid2idx(Held(s))}
      /\ scan' = s + 1
      /\ UNCHANGED <<asid_generation, cur_idx, tlb_flush_pending, context_id, lock, pc>>
      /\ UNCHANGED <<active_mm, next, asid, old_active_asid, ttbr0, tlb>>
  BY DEF FlushContextCpu, localVars, mmuVars
<1>2. /\ Scanning /\ Switching(c) /\ next[c] \in MM
      /\ \A d \in CPU : d # c => pc[d] \notin Locked
      /\ IssueGen = asid_generation - 1 /\ asid_generation \in Nat \ {0}
      /\ TypeOK /\ IdInv /\ HeldInv /\ LockInv
      /\ Generation(context_id[next[c]]) # IssueGen
      /\ context_id[next[c]] # NoAsid => ~ ReservedHit(context_id[next[c]])
  BY <1>1, ScanFacts
<1>3. Scanning' /\ IssueGen' = IssueGen
  BY <1>1, <1>2 DEF Scanning, IssueGen
<1>4. /\ Held(s) \in ContextId /\ asid2idx(Held(s)) \in Index
      /\ s \in Nat /\ s + 1 \in 0 .. NumCpus
  <2>1. Held(s) \in ContextId
    BY <1>1, IdTypes
  <2>2. QED
    BY <1>1, <2>1, IdParts, CpuAssumption, SMT DEF CPU
<1>5. /\ active_asids'[s] = NoAsid /\ reserved_asids'[s] = Held(s)
      /\ \A d \in CPU : d # s => /\ active_asids'[d] = active_asids[d]
                                 /\ reserved_asids'[d] = reserved_asids[d]
  BY <1>1, <1>2 DEF TypeOK
<1>6. TypeOK'
  <2>1. active_asids' \in [CPU -> ContextId]
    BY <1>1, <1>2, ZeroTypes DEF TypeOK
  <2>2. reserved_asids' \in [CPU -> ContextId]
    BY <1>1, <1>2, <1>4 DEF TypeOK
  <2>3. asid_map' \in SUBSET Index /\ scan' \in 0 .. NumCpus
    BY <1>1, <1>2, <1>4 DEF TypeOK
  <2>4. QED
    BY <1>1, <1>2, <2>1, <2>2, <2>3 DEF TypeOK
<1> HIDE DEF s
<1>7. LockInv' /\ IdInv' /\ OthersUnchanged(c)
  <2>1. LockInv'
    BY <1>1, <1>2, <1>3 DEF LockInv
  <2>2. IdInv'
    BY <1>1, <1>2, <1>3 DEF IdInv
  <2>3. QED
    BY <1>1, <2>1, <2>2 DEF OthersUnchanged
<1>8. ASSUME NEW d \in CPU
      PROVE  Held(d)' = Held(d)
  <2>1. CASE d = s
    BY <1>5, <2>1 DEF Held
  <2>2. CASE d # s
    BY <1>5, <2>2 DEF Held
  <2>3. QED
    BY <2>1, <2>2
<1>9. HeldInv'
  <2>1. ASSUME NEW d \in CPU PROVE ActiveId(d)'
    <3>1. CASE d = s
      BY <1>5, <3>1 DEF ActiveId
    <3>2. CASE d # s
      <4>1. ActiveId(d) /\ active_asids'[d] = active_asids[d]
        BY <1>2, <1>5, <3>2 DEF HeldInv
      <4>2. active_asids[d] # NoAsid => d >= scan'
        <5>1. active_asids[d] # NoAsid => d >= s
          BY <1>2, <4>1 DEF ActiveId, s
        <5>2. QED
          BY <1>1, <1>4, <3>2, <5>1, CpuFacts, SMT
      <4>3. QED
        BY <1>1, <1>3, <4>1, <4>2 DEF ActiveId
    <3>3. QED
      BY <3>1, <3>2
  <2>2. \A k : Unissued(k) => Unissued(k)'
    <3> SUFFICES ASSUME NEW k, Unissued(k) PROVE Unissued(k)'
      OBVIOUS
    <3>1. NoAsid # <<IssueGen, k>>
      BY <1>2 DEF NoAsid, IdInv
    <3>2. \A d \in CPU : active_asids'[d] = active_asids[d] \/ active_asids'[d] = NoAsid
      BY <1>5
    <3>3. QED
      BY <1>1, <1>3, <3>1, <3>2 DEF Unissued
  <2>3. ASSUME NEW d \in CPU, reserved_asids'[d] = reserved_asids[d]
        PROVE  ReservedId(d)'
    BY <1>1, <1>2, <1>3, <2>2, <2>3 DEF HeldInv, ReservedId
  <2>4. ASSUME NEW d \in CPU, d = s, active_asids[d] # NoAsid
        PROVE  ReservedId(d)'
    <3>1. reserved_asids'[d] = active_asids[d] /\ ActiveId(d)
      BY <1>2, <1>5, <2>4 DEF Held, HeldInv
    <3>2. IssueGen \in Nat \ {0}
      BY <1>2 DEF IdInv
    <3>3. /\ Generation(reserved_asids'[d]) = IssueGen
          /\ asid2idx(reserved_asids'[d]) # 0
      BY <2>4, <3>1 DEF ActiveId
    <3>4. /\ Generation(reserved_asids'[d]) \in 1 .. IssueGen'
          /\ ~ (Generation(reserved_asids'[d]) < IssueGen')
      BY <1>3, <3>2, <3>3, SMT
    <3>5. QED
      BY <1>3, <3>3, <3>4 DEF ReservedId
  <2>5. ASSUME NEW d \in CPU PROVE ReservedId(d)'
    <3>1. CASE d = s /\ active_asids[d] # NoAsid
      BY <2>4, <3>1
    <3>2. CASE ~ (d = s /\ active_asids[d] # NoAsid)
      <4>1. reserved_asids'[d] = reserved_asids[d]
        BY <1>5, <3>2 DEF Held
      <4>2. QED
        BY <2>3, <4>1
    <3>3. QED
      BY <3>1, <3>2
  <2>6. ReservedOnce'
    <3> SUFFICES ASSUME NEW i \in CPU, NEW j \in CPU,
                        reserved_asids'[i] # NoAsid, reserved_asids'[j] # NoAsid,
                        asid2idx(reserved_asids'[i]) = asid2idx(reserved_asids'[j])
                 PROVE  reserved_asids'[i] = reserved_asids'[j]
      BY DEF ReservedOnce
    <3>1. ReservedOnce /\ ActiveId(s) /\ active_asids[s] \in ContextId
      BY <1>1, <1>2 DEF HeldInv, TypeOK
    <3>2. ASSUME NEW d \in CPU, active_asids[s] # NoAsid, reserved_asids[d] # NoAsid,
                 asid2idx(active_asids[s]) = asid2idx(reserved_asids[d])
          PROVE  active_asids[s] = reserved_asids[d]
      <4>1. /\ Generation(active_asids[s]) = IssueGen
            /\ \E x \in CPU : active_asids[x] = active_asids[s]
        BY <1>1, <3>1, <3>2 DEF ActiveId
      <4>2. QED
        BY <3>1, <3>2, <4>1, LatestIsReserved
    <3>3. CASE active_asids[s] = NoAsid
      BY <1>5, <3>1, <3>3, SMT DEF Held, ReservedOnce
    <3>4. CASE active_asids[s] # NoAsid
      <4>1. reserved_asids'[s] = active_asids[s]
        BY <1>5, <3>4 DEF Held
      <4>2. CASE i = s /\ j # s
        BY <1>5, <3>2, <3>4, <4>1, <4>2
      <4>3. CASE i # s /\ j = s
        BY <1>5, <3>2, <3>4, <4>1, <4>3
      <4>4. CASE i # s /\ j # s
        BY <1>5, <3>1, <4>4 DEF ReservedOnce
      <4>5. QED
        BY <4>2, <4>3, <4>4
    <3>5. QED
      BY <3>3, <3>4
  <2>7. MapInv'
    <3>1. asid_map = {asid2idx(reserved_asids[i]) : i \in 0 .. s - 1}
      BY <1>2 DEF HeldInv, MapInv, s
    <3>2. 0 .. scan' - 1 = (0 .. s - 1) \cup {s}
      BY <1>1, <1>4, SMT
    <3>3. 0 .. s - 1 \subseteq CPU /\ \A i \in 0 .. s - 1 : i # s
      BY <1>1, <1>4, CpuAssumption, SMT DEF CPU
    <3>4. \A i \in 0 .. s - 1 : reserved_asids'[i] = reserved_asids[i]
      BY <1>5, <3>3
    <3>5. asid_map' = {asid2idx(reserved_asids'[i]) : i \in 0 .. scan' - 1}
      BY <1>1, <1>5, <3>1, <3>2, <3>4, SMT
    <3>6. QED
      BY <3>5 DEF MapInv
  <2>8. QED
    BY <2>1, <2>5, <2>6, <2>7 DEF HeldInv
<1>10. ASSUME NEW m \in MM, NEW j, MayRunUnder(m, j)'
       PROVE  MayRunUnder(m, j)
  <2>1. ASSUME NEW d \in CPU, reserved_asids'[d] = context_id[m], context_id[m] # NoAsid
        PROVE  \/ Generation(context_id[m]) = IssueGen
               \/ \E i \in CPU : reserved_asids[i] = context_id[m]
    <3>1. CASE d = s /\ active_asids[s] # NoAsid
      <4>1. ActiveId(s) /\ Held(s) = active_asids[s]
        BY <1>1, <1>2, <3>1 DEF HeldInv, Held
      <4>2. QED
        BY <1>5, <2>1, <3>1, <4>1 DEF ActiveId
    <3>2. CASE ~ (d = s /\ active_asids[s] # NoAsid)
      BY <1>1, <1>5, <2>1, <3>2 DEF Held
    <3>3. QED
      BY <3>1, <3>2
  <2>2. QED
    BY <1>1, <1>3, <1>10, <2>1 DEF MayRunUnder
<1>11. ASSUME NEW d \in CPU
       PROVE  KeepsClaim(d) /\ KeepsCurrent(d)
  <2>1. \A e : Exclusive(e) => Exclusive(e)'
    BY <1>3, <1>10 DEF Exclusive
  <2>2. CpuCall(d) /\ Held(d)' = Held(d)
    BY <1>8, CpuInv
  <2>3. KeepsClaim(d)
    BY <1>1, <2>1, <2>2 DEF KeepsClaim, CpuCall
  <2>4. active_asids'[d] # NoAsid => active_asids'[d] = active_asids[d]
    BY <1>5
  <2>5. KeepsCurrent(d)
    BY <1>1, <1>2, <1>3, <2>4, SMT DEF KeepsCurrent
  <2>6. QED
    BY <2>3, <2>5
<1>12. context_id'[next[c]] # NoAsid => ~ ReservedHit(context_id[next[c]])'
  <2>1. ASSUME context_id[next[c]] # NoAsid, NEW d \in CPU
        PROVE  reserved_asids'[d] # context_id[next[c]]
    <3>1. reserved_asids[d] # context_id[next[c]] /\ reserved_asids[s] # context_id[next[c]]
      BY <1>1, <1>2, <2>1 DEF ReservedHit
    <3>2. active_asids[s] # NoAsid => active_asids[s] # context_id[next[c]]
      BY <1>1, <1>2 DEF HeldInv, ActiveId
    <3>3. QED
      BY <1>5, <3>1, <3>2 DEF Held
  <2>2. QED
    BY <1>1, <2>1 DEF ReservedHit
<1>13. /\ pc'[c] \in Locked /\ pc'[c] # "activate"
       /\ Generation(context_id'[next[c]]) # IssueGen'
       /\ active_mm'[c] = active_mm[c] /\ next'[c] = next[c]
       /\ ttbr0'[c] = ttbr0[c] /\ tlb'[c] = tlb[c]
  BY <1>1, <1>2, <1>3 DEF Locked
<1>14. QED
  BY <1>2, <1>6, <1>7, <1>9, <1>11, <1>12, <1>13, LockedStep

(* Every CPU was visited: a free index exists, nobody is active, every TLB *)
(* will be flushed before its CPU activates an id of the new generation.   *)
LEMMA AllocateAfterRolloverInv ==
  ASSUME IndInv, NEW c \in CPU, AllocateAfterRollover(c)
  PROVE  IndInv'
<1> DEFINE n   == next[c]
           id  == context_id[n]
           k   == find_next_zero_bit(1)
           new == <<asid_generation, k>>
<1>1. /\ pc[c] = "flush_context" /\ scan = NumCpus /\ scan' = 0
      /\ pc' = [pc EXCEPT ![c] = "activate"]
      /\ tlb_flush_pending' = CPU
      /\ TakeIndex(c, k)
      /\ UNCHANGED <<asid_generation, active_asids, reserved_asids, lock, active_mm>>
      /\ UNCHANGED <<next, old_active_asid, ttbr0, tlb>>
  BY DEF AllocateAfterRollover, Goto, mmuVars
<1>2. /\ lock = c /\ Scanning /\ Switching(c) /\ n \in MM
      /\ \A d \in CPU : d # c => pc[d] \notin Locked
      /\ IssueGen = asid_generation - 1 /\ asid_generation \in Nat \ {0}
      /\ TypeOK /\ IdInv /\ HeldInv /\ LockInv
      /\ id # NoAsid => ~ ReservedHit(id)
  BY <1>1, ScanFacts
<1>3. k \in Index \ {0} /\ k \notin asid_map
  <2>1. asid_map = {asid2idx(reserved_asids[i]) : i \in 0 .. NumCpus - 1}
    BY <1>1, <1>2 DEF HeldInv, MapInv
  <2>2. FreeFrom(1) # {}
    BY <1>2, <2>1, FreeAfterRollover
  <2>3. k \in FreeFrom(1)
    BY <2>2, FindNextZeroBit
  <2>4. QED
    BY <2>3, ZeroTypes, SMT DEF FreeFrom
<1>4. k % NumUserAsids = k
  BY <1>3, AsidAssumption, CpuAssumption, SMT DEF Index
<1> HIDE DEF k
<1>5. /\ asid_map' = asid_map \cup {k} /\ cur_idx' = k
      /\ asid' = [asid EXCEPT ![c] = new]
      /\ context_id' = [context_id EXCEPT ![n] = new]
  <2>1. asid_map' = asid_map \cup {k} /\ cur_idx' = k /\ SetContextId(c, new)
    BY <1>1, <1>4 DEF TakeIndex
  <2>2. QED
    BY <2>1 DEF SetContextId
<1>6. /\ pc'[c] = "activate" /\ \A d \in CPU : d # c => pc'[d] = pc[d]
      /\ asid'[c] = new /\ \A d \in CPU : d # c => asid'[d] = asid[d]
  <2>1. pc'[c] = "activate" /\ \A d \in CPU : d # c => pc'[d] = pc[d]
    BY <1>1, <1>2 DEF TypeOK
  <2>2. asid'[c] = new /\ \A d \in CPU : d # c => asid'[d] = asid[d]
    BY <1>2, <1>5 DEF TypeOK
  <2>3. QED
    BY <2>1, <2>2
<1>7. context_id'[n] = new /\ \A m \in MM : m # n => context_id'[m] = context_id[m]
  BY <1>2, <1>5 DEF TypeOK
<1>8. ~ Scanning' /\ IssueGen' = asid_generation
  <2>1. ~ Scanning'
    BY <1>1, <1>2, <1>6 DEF Scanning
  <2>2. QED
    BY <1>1, <2>1 DEF IssueGen
<1>9. \A d \in CPU : active_asids[d] = NoAsid
  BY <1>1, <1>2, CpuAssumption, SMT DEF HeldInv, ActiveId, CPU
<1>10. /\ new \in ContextId /\ Generation(new) = asid_generation /\ asid2idx(new) = k
       /\ new # NoAsid
  BY <1>2, <1>3 DEF ContextId, Generation, asid2idx, NoAsid
<1>11. \A m \in MM : /\ Generation(context_id[m]) \in Nat
                     /\ Generation(context_id[m]) < asid_generation
                     /\ context_id[m] # new
  <2>1. Generation(NoAsid) = 0
    BY DEF NoAsid, Generation
  <2>2. \A m \in MM : /\ Generation(context_id[m]) \in Nat
                      /\ Generation(context_id[m]) < asid_generation
    BY <1>2, <2>1, SMT DEF IdInv
  <2>3. QED
    BY <1>2, <1>10, <2>2, SMT
<1> HIDE DEF new, id, n
<1>12. \A d \in CPU : Committed(d) # n
  <2> SUFFICES ASSUME NEW d \in CPU, Committed(d) = n
               PROVE  FALSE
    OBVIOUS
  <2>1. Held(d) = id /\ id # NoAsid
    BY <1>2, CpuInv DEF CpuCall, id
  <2>2. reserved_asids[d] = id
    BY <1>9, <2>1 DEF Held
  <2>3. QED
    BY <1>2, <2>1, <2>2 DEF ReservedHit
<1>13. OthersUnchanged(c) /\ LockInv'
  <2>1. OthersUnchanged(c)
    BY <1>1, <1>6 DEF OthersUnchanged
  <2>2. \A d \in CPU : pc'[d] \in Locked <=> pc[d] \in Locked
    BY <1>1, <1>6 DEF Locked
  <2>3. LockInv'
    BY <1>1, <1>2, <1>8, <2>2 DEF LockInv
  <2>4. QED
    BY <2>1, <2>3
<1>14. TypeOK'
  <2>1. pc' \in [CPU -> Label] /\ scan' \in 0 .. NumCpus
    BY <1>1, <1>2, CpuAssumption, SMT DEF TypeOK, Label, Locked
  <2>2. context_id' \in [MM -> ContextId] /\ asid' \in [CPU -> ContextId]
    BY <1>2, <1>5, <1>10 DEF TypeOK
  <2>3. asid_map' \in SUBSET Index /\ cur_idx' \in Index \ {0}
    BY <1>2, <1>3, <1>5 DEF TypeOK
  <2>4. QED
    BY <1>1, <1>2, <2>1, <2>2, <2>3 DEF TypeOK
<1>15. IdInv'
  <2>1. ASSUME NEW m \in MM, context_id'[m] # NoAsid
        PROVE  /\ Generation(context_id'[m]) \in 1 .. IssueGen'
               /\ asid2idx(context_id'[m]) # 0
               /\ Generation(context_id'[m]) = asid_generation' =>
                    asid2idx(context_id'[m]) \in asid_map'
    <3>1. CASE m = n
      BY <1>2, <1>3, <1>5, <1>7, <1>8, <1>10, <3>1, SMT
    <3>2. CASE m # n
      <4>1. context_id'[m] = context_id[m] /\ Generation(context_id[m]) < asid_generation
        BY <1>7, <1>11, <3>2
      <4>2. QED
        BY <1>1, <1>2, <1>8, <2>1, <4>1, SMT DEF IdInv
    <3>3. QED
      BY <3>1, <3>2
  <2>2. \A x, y \in MM : context_id'[x] = context_id'[y] /\ context_id'[x] # NoAsid => x = y
    BY <1>2, <1>7, <1>11 DEF IdInv
  <2>3. QED
    BY <1>2, <1>8, <2>1, <2>2 DEF IdInv
<1>16. HeldInv'
  <2>1. ASSUME NEW d \in CPU PROVE ActiveId(d)'
    BY <1>1, <1>9 DEF ActiveId
  <2>2. ASSUME NEW d \in CPU PROVE ReservedId(d)'
    <3> DEFINE r == reserved_asids[d]
    <3> SUFFICES ASSUME r # NoAsid PROVE ReservedId(d)'
      BY <1>1 DEF ReservedId
    <3>1. ReservedId(d)
      BY <1>2 DEF HeldInv
    <3>2. /\ Generation(r) \in 1 .. IssueGen'
          /\ asid2idx(r) # 0
      BY <1>2, <1>8, <3>1, SMT DEF ReservedId
    <3>3. asid2idx(r) \in asid_map
      BY <1>1, <1>2 DEF HeldInv, MapInv, CPU
    <3>4. Unissued(asid2idx(r))'
      <4>1. new # <<asid_generation, asid2idx(r)>>
        BY <1>3, <1>10, <3>3, IdParts
      <4>2. \A m \in MM : context_id[m] # <<asid_generation, asid2idx(r)>>
        <5>1. \A m \in MM : Generation(context_id[m]) # asid_generation
          BY <1>2, <1>11, SMT
        <5>2. QED
          BY <5>1, SMT DEF Generation
      <4>3. \A m \in MM : context_id'[m] = context_id[m] \/ context_id'[m] = new
        BY <1>7
      <4>4. \A m \in MM : context_id'[m] # <<asid_generation, asid2idx(r)>>
        BY <4>1, <4>2, <4>3
      <4>5. NoAsid # <<asid_generation, asid2idx(r)>>
        BY <1>2 DEF NoAsid
      <4>6. QED
        BY <1>1, <1>8, <1>9, <4>4, <4>5 DEF Unissued
    <3>5. QED
      BY <1>1, <1>5, <3>2, <3>3, <3>4 DEF ReservedId
  <2>3. ReservedOnce' /\ MapInv'
    BY <1>1, <1>2, <1>8 DEF HeldInv, ReservedOnce, MapInv
  <2>4. QED
    BY <2>1, <2>2, <2>3 DEF HeldInv
<1>17. ASSUME NEW d \in CPU
       PROVE  KeepsClaim(d) /\ KeepsCurrent(d)
  <2>1. Committed(d) \in MM => /\ context_id'[Committed(d)] = context_id[Committed(d)]
                               /\ Held(d) = context_id[Committed(d)] /\ Held(d) # NoAsid
    BY <1>7, <1>12, CpuInv DEF CpuCall
  <2>2. Held(d)' = Held(d)
    BY <1>1 DEF Held
  <2>3. KeepsClaim(d)
    BY <1>1, <2>1, <2>2 DEF KeepsClaim
  <2>4. active_asids'[d] = NoAsid
    BY <1>1, <1>9
  <2>5. KeepsCurrent(d)
    BY <1>1, <1>2, <1>11, <2>4, SMT DEF KeepsCurrent
  <2>6. QED
    BY <2>3, <2>5
<1>18. /\ pc'[c] \in Locked /\ pc'[c] # "flush_context"
       /\ asid'[c] = context_id'[next[c]] /\ Generation(asid'[c]) = asid_generation'
       /\ active_mm'[c] = active_mm[c] /\ next'[c] = next[c]
       /\ ttbr0'[c] = ttbr0[c] /\ tlb'[c] = tlb[c]
  BY <1>1, <1>6, <1>7, <1>10 DEF n, Locked
<1>19. QED
  BY <1>2, <1>13, <1>14, <1>15, <1>16, <1>17, <1>18, LockedStep

-----------------------------------------------------------------------------
(* After boot no CPU runs a process and no id has been issued.             *)
LEMMA InitInv == Init => IndInv
<1> SUFFICES ASSUME Init PROVE IndInv
  OBVIOUS
<1>1. TypeOK
  BY ZeroTypes, CpuAssumption, SMT DEF Init, TypeOK, Label, NoCpu
<1>2. ~ Scanning /\ IssueGen = 1
  BY CpuFacts DEF Init, Scanning, IssueGen
<1>3. \A c \in CPU : pc[c] = "run" /\ active_mm[c] = InitMm /\ next[c] = InitMm
  BY DEF Init
<1>4. \A c \in CPU : /\ active_asids[c] = NoAsid /\ reserved_asids[c] = NoAsid
                     /\ ttbr0[c] = NoTables /\ tlb[c] = {}
  BY DEF Init
<1>5. \A m \in MM : context_id[m] = NoAsid
  BY DEF Init
<1>6. LockInv
  <2>1. scan = 0 /\ lock \notin CPU
    BY CpuFacts DEF Init
  <2>2. QED
    BY <1>3, <2>1 DEF LockInv, Locked
<1>7. ASSUME NEW c \in CPU
      PROVE  CpuControl(c) /\ CpuCall(c) /\ CpuTlb(c) /\ ActiveId(c) /\ ReservedId(c)
  <2>1. /\ ~ Switching(c) /\ pc[c] \notin Install /\ pc[c] \notin Fast
        /\ InitMm \notin MM /\ Committed(c) \notin MM
    BY <1>3, MmAssumption DEF Switching, Fast, Locked, Install, Committed
  <2>2. CpuControl(c)
    BY <1>3, <1>4, <2>1 DEF CpuControl
  <2>3. CpuCall(c)
    BY <1>3, <2>1 DEF CpuCall
  <2>4. CpuTlb(c)
    <3>1. \A e \in Cached(c) : e[1] = 0
      BY <1>4, SMT DEF Cached, NoTables
    <3>2. ttbr0[c][2] \notin MM
      BY <1>4, MmAssumption, SMT DEF NoTables
    <3>3. QED
      BY <1>4, <2>1, <3>1, <3>2 DEF CpuTlb
  <2>5. ActiveId(c) /\ ReservedId(c)
    BY <1>4 DEF ActiveId, ReservedId
  <2>6. QED
    BY <2>2, <2>3, <2>4, <2>5
<1>8. IdInv /\ ReservedOnce /\ MapInv
  BY <1>2, <1>4, <1>5, SMT DEF IdInv, ReservedOnce, MapInv
<1>9. QED
  BY <1>1, <1>6, <1>7, <1>8 DEF IndInv, ControlInv, HeldInv, CallInv, TlbInv

(* A step that changes nothing.                                            *)
LEMMA StutterInv ==
  ASSUME IndInv, UNCHANGED vars
  PROVE  IndInv'
<1>1. /\ UNCHANGED allocVars
      /\ UNCHANGED <<asid_generation, asid_map, cur_idx, active_asids, reserved_asids>>
      /\ UNCHANGED <<tlb_flush_pending, context_id, lock, scan, pc, active_mm, next>>
      /\ UNCHANGED <<asid, old_active_asid, ttbr0, tlb>>
  BY DEF vars, allocVars, localVars, mmuVars
<1>2. Scanning' = Scanning
  BY <1>1 DEF Scanning
<1>3. TypeOK'
  BY <1>1 DEF IndInv, TypeOK
<1>4. LockInv'
  BY <1>1, <1>2 DEF IndInv, ControlInv, LockInv
<1>5. PICK c \in CPU : TRUE
  BY CpuAssumption, SMT DEF CPU
<1>6. OthersUnchanged(c)
  BY <1>1 DEF OthersUnchanged
<1>7. /\ IssueGen' = IssueGen /\ Held(c)' = Held(c)
      /\ \A e : Exclusive(e)' = Exclusive(e)
      /\ \A id : ReservedHit(id)' = ReservedHit(id)
  BY <1>1, <1>2, AllocFrame
<1>8. /\ Switching(c)' = Switching(c) /\ Committed(c)' = Committed(c)
      /\ Cached(c)' = Cached(c) /\ Hits(c)' = Hits(c)
  BY <1>1 DEF Switching, Committed, Cached, Hits
<1>9. CpuControl(c) /\ CpuCall(c) /\ CpuTlb(c)
  BY CpuInv
<1>10. CpuControl(c)'
  BY <1>1, <1>8, <1>9 DEF CpuControl
<1>11. CpuCall(c)'
  BY <1>1, <1>7, <1>8, <1>9 DEF CpuCall
<1>12. CpuTlb(c)'
  BY <1>1, <1>7, <1>8, <1>9 DEF CpuTlb
<1>13. QED
  BY <1>1, <1>2, <1>3, <1>4, <1>6, <1>10, <1>11, <1>12, CpuStep

(* Every step of every CPU, every table walk and every exit preserves the  *)
(* invariant.                                                              *)
LEMMA NextInv == IndInv /\ [Next]_vars => IndInv'
<1> SUFFICES ASSUME IndInv, [Next]_vars PROVE IndInv'
  OBVIOUS
<1>1. ASSUME NEW c \in CPU, Start(c)
      PROVE  IndInv'
  BY <1>1, SwitchMmInv, SwitchToInitMmInv, InstallIdmapInv, CpuResumeInv DEF Start
<1>2. ASSUME NEW c \in CPU, EnterSlowPath(c)
      PROVE  IndInv'
  BY <1>2, KeepCurrentInv, KeepReservedInv, ReuseIndexInv, AllocateIndexInv, RolloverInv
     DEF EnterSlowPath
<1>3. ASSUME NEW c \in CPU, Continue(c)
      PROVE  IndInv'
  BY <1>2, <1>3, ReadActiveInv, ReadGenerationInv, CmpxchgActiveInv, FlushContextCpuInv,
     AllocateAfterRolloverInv, ActivateInv, SetReservedTtbr0Inv, WriteTtbr0Inv,
     InstallIdmapFlushInv, UninstallIdmapInv, UninstallIdmapFlushInv
     DEF Continue
<1>4. QED
  BY <1>1, <1>3, StutterInv, TableWalkInv, RecycleMmInv DEF Next

-----------------------------------------------------------------------------
(* The theorems.                                                           *)

(* IndInv is an invariant of the ASID allocator.                           *)
THEOREM Invariance == Spec => []IndInv
  BY InitInv, NextInv, PTL DEF Spec

(* Type correctness: in particular the two searches of new_context never   *)
(* set a bit outside asid_map.                                             *)
THEOREM TypeCorrect == Spec => []TypeOK
<1>1. IndInv => TypeOK
  BY DEF IndInv
<1>2. QED
  BY <1>1, Invariance, PTL

(* While a CPU translates with the page tables of a process, its TLB       *)
(* answers with nothing cached from other page tables.                     *)
THEOREM TlbIsolated == Spec => []TlbIsolation
<1>1. IndInv => TlbIsolation
  BY DEF IndInv, TlbInv, CpuTlb, TlbIsolation
<1>2. QED
  BY <1>1, Invariance, PTL

(* The id on record for a CPU is that of the mm it runs or is installing,  *)
(* and its index is the one in TTBR0.                                      *)
THEOREM RecordedIdRight == Spec => []CommittedIdHeld
<1>1. ASSUME IndInv PROVE CommittedIdHeld
  <2>1. ASSUME NEW c \in CPU, pc[c] \in Install
        PROVE  Held(c) = context_id[next[c]]
    <3>1. CpuControl(c) /\ CpuCall(c)
      BY <1>1, CpuInv
    <3>2. next[c] \in MM /\ Committed(c) = next[c]
      BY <2>1, <3>1 DEF CpuControl, Committed
    <3>3. QED
      BY <3>1, <3>2 DEF CpuCall
  <2>2. ASSUME NEW c \in CPU, pc[c] = "run", active_mm[c] \in MM
        PROVE  /\ Held(c) = context_id[active_mm[c]]
               /\ ttbr0[c] = <<asid2idx(Held(c)), active_mm[c]>>
    <3>1. CpuControl(c) /\ CpuCall(c) /\ Committed(c) = active_mm[c]
      BY <1>1, <2>2, CpuInv DEF Committed, Install
    <3>2. QED
      BY <2>2, <3>1 DEF CpuControl, CpuCall
  <2>3. QED
    BY <2>1, <2>2 DEF CommittedIdHeld
<1>2. QED
  BY <1>1, Invariance, PTL

(* Two CPUs that are done switching run two processes under two ASIDs.     *)
THEOREM AsidsUnique == Spec => []RunningAsidsUnique
<1>1. ASSUME IndInv PROVE RunningAsidsUnique
  <2> SUFFICES ASSUME NEW c \in CPU, NEW d \in CPU,
                      pc[c] = "run", ttbr0[c][2] \in MM, pc[d] = "run", ttbr0[d][2] \in MM,
                      ttbr0[c][1] = ttbr0[d][1]
               PROVE  ttbr0[c][2] = ttbr0[d][2]
    BY DEF RunningAsidsUnique
  <2>1. ASSUME NEW i \in CPU, pc[i] = "run", ttbr0[i][2] \in MM
        PROVE  /\ active_mm[i] \in MM
               /\ ttbr0[i][1] = asid2idx(context_id[active_mm[i]])
               /\ ttbr0[i][2] = active_mm[i]
               /\ Held(i) = context_id[active_mm[i]] /\ Held(i) # NoAsid
    <3>1. NoTables[2] \notin MM
      BY MmAssumption DEF NoTables
    <3>2. CpuControl(i) /\ CpuCall(i) /\ Committed(i) = active_mm[i]
      BY <1>1, <2>1, CpuInv DEF Committed, Install
    <3>3. /\ active_mm[i] \in MM
          /\ ttbr0[i] = <<asid2idx(context_id[active_mm[i]]), active_mm[i]>>
      BY <2>1, <3>1, <3>2 DEF CpuControl
    <3>4. QED
      BY <3>2, <3>3, SMT DEF CpuCall
  <2>2. Held(c) = Held(d)
    BY <1>1, <2>1, HeldConsistent, SMT
  <2>3. QED
    BY <1>1, <2>1, <2>2, SMT DEF IndInv, IdInv
<1>2. QED
  BY <1>1, Invariance, PTL

(* "We have more ASIDs than CPUs, so this will always succeed": the search *)
(* after a rollover finds an index, for any number of CPUs.                *)
THEOREM SearchSucceeds == Spec => []RolloverFindsIndex
<1>1. ASSUME IndInv PROVE RolloverFindsIndex
  <2> SUFFICES ASSUME NEW c \in CPU, pc[c] = "flush_context", scan = NumCpus
               PROVE  find_next_zero_bit(1) \in Index \ {0}
    BY DEF RolloverFindsIndex
  <2>1. Scanning /\ TypeOK /\ HeldInv
    BY <1>1, ScanFacts
  <2>2. asid_map = {asid2idx(reserved_asids[i]) : i \in 0 .. NumCpus - 1}
    BY <2>1 DEF HeldInv, MapInv
  <2>3. FreeFrom(1) # {}
    BY <2>1, <2>2, FreeAfterRollover
  <2>4. find_next_zero_bit(1) \in FreeFrom(1)
    BY <2>3, FindNextZeroBit
  <2>5. QED
    BY <2>4, ZeroTypes, SMT DEF FreeFrom
<1>2. QED
  BY <1>1, Invariance, PTL

(* A step that gives a process an id leaves every register and every       *)
(* running CPU alone.                                                      *)
LEMMA IdChangeIsQuiet ==
  ASSUME TypeOK, [Next]_vars
  PROVE  \/ context_id' = context_id
         \/ /\ UNCHANGED <<ttbr0, active_mm>>
            /\ \A c \in CPU : pc[c] = "run" => pc'[c] = "run"
<1>1. CASE UNCHANGED vars
  BY <1>1 DEF vars, allocVars
<1>2. ASSUME NEW c \in CPU, Start(c) \/ TableWalk(c)
      PROVE  context_id' = context_id
  BY <1>2 DEF Start, TableWalk, SwitchMm, SwitchToInitMm, InstallIdmap, CpuResume, allocVars
<1>3. ASSUME NEW c \in CPU, EnterSlowPath(c)
      PROVE  /\ UNCHANGED <<ttbr0, active_mm>>
             /\ \A d \in CPU : pc[d] = "run" => pc'[d] = "run"
  <2>1. UNCHANGED <<ttbr0, active_mm>> /\ pc[c] = "lock" /\ \E l : pc' = [pc EXCEPT ![c] = l]
    BY <1>3 DEF EnterSlowPath, KeepCurrent, KeepReserved, ReuseIndex, AllocateIndex, Rollover,
       TakeLock, Goto, mmuVars
  <2>2. QED
    BY <2>1 DEF TypeOK
<1>4. ASSUME NEW c \in CPU, AllocateAfterRollover(c)
      PROVE  /\ UNCHANGED <<ttbr0, active_mm>>
             /\ \A d \in CPU : pc[d] = "run" => pc'[d] = "run"
  BY <1>4 DEF AllocateAfterRollover, Goto, mmuVars, TypeOK
<1>5. ASSUME NEW c \in CPU, Continue(c), ~ EnterSlowPath(c), ~ AllocateAfterRollover(c)
      PROVE  context_id' = context_id
  BY <1>5 DEF Continue, ReadActive, ReadGeneration, CmpxchgActive, FlushContextCpu, Activate,
     SetReservedTtbr0, WriteTtbr0, InstallIdmapFlush, UninstallIdmap, UninstallIdmapFlush,
          allocVars
<1>6. ASSUME NEW m \in Mortal, RecycleMm(m)
      PROVE  UNCHANGED <<ttbr0, active_mm, pc>>
  BY <1>6 DEF RecycleMm
<1>7. QED
  BY <1>1, <1>2, <1>3, <1>4, <1>5, <1>6 DEF Next

(* The ASID of a process never changes under a CPU that runs it.           *)
THEOREM RunningAsidNeverChanges == Spec => RunningAsidStable
<1>1. ASSUME IndInv, IndInv', [Next]_vars, NEW c \in CPU, pc[c] = "run", active_mm[c] \in MM
      PROVE  asid2idx(context_id'[active_mm[c]]) = asid2idx(context_id[active_mm[c]])
  <2>1. CASE context_id' = context_id
    BY <2>1
  <2>2. CASE UNCHANGED <<ttbr0, active_mm>> /\ pc'[c] = "run"
    <3>1. ttbr0[c] = <<asid2idx(context_id[active_mm[c]]), active_mm[c]>>
      <4>1. CpuControl(c)
        BY <1>1, CpuInv
      <4>2. QED
        BY <1>1, <4>1 DEF CpuControl
    <3>2. ttbr0[c] = <<asid2idx(context_id'[active_mm[c]]), active_mm[c]>>
      <4>1. CpuControl(c)'
        BY <1>1 DEF IndInv, ControlInv
      <4>2. pc'[c] = "run" /\ active_mm'[c] = active_mm[c] /\ ttbr0'[c] = ttbr0[c]
        BY <2>2
      <4>3. QED
        BY <1>1, <4>1, <4>2 DEF CpuControl
    <3>3. QED
      BY <3>1, <3>2, SMT
  <2>3. QED
    BY <1>1, <2>1, <2>2, IdChangeIsQuiet DEF IndInv
<1> DEFINE Stable == \A c \in CPU : pc[c] = "run" /\ active_mm[c] \in MM =>
                       asid2idx(context_id'[active_mm[c]]) = asid2idx(context_id[active_mm[c]])
<1>2. IndInv /\ IndInv' /\ [Next]_vars => [Stable]_vars
  BY <1>1
<1> HIDE DEF Stable
<1>3. Spec => [][Stable]_vars
  BY <1>2, Invariance, PTL DEF Spec
<1>4. QED
  BY <1>3 DEF Stable, RunningAsidStable
=============================================================================
