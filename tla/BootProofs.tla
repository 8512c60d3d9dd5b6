----------------------------- MODULE BootProofs -----------------------------
(***************************************************************************)
(* Proofs about Boot, for any number of cores and any assignment.          *)
(*                                                                         *)
(* The argument follows the boot processor around its loop.  Progressed    *)
(* says which cores have been started (those before idx, and idx itself    *)
(* once it has its SIPI).  MailboxOK says what is in the store buffer and  *)
(* in memory at each point of the loop: after the fence the mailbox holds  *)
(* exactly what is meant for core idx and AP_READY is 0, and it stays so   *)
(* until that core acknowledges.  Earlier confirms that the stacks already *)
(* in use are older than the one in the mailbox.                           *)
(***************************************************************************)
EXTENDS Boot, TLAPS

Progressed ==
  /\ \A c \in AP : c < idx => ap[c] \in {"off", "rust", "entry"}
  /\ \A c \in AP : c > idx => ap[c] = "off"
  /\ bsp \in {"fence", "init", "sipi", "wait"} => idx \in AP
  /\ bsp \in {"loop", "fence", "init"} /\ idx \in AP => ap[idx] = "off"
  /\ bsp = "sipi" => ap[idx] = "init"
  /\ bsp = "wait" => ap[idx] \in {"startup", "stack", "pushed", "rust", "entry"}
  /\ bsp \in {"idle", "entry"} => idx = NumCores

Clear   == Store("AP_READY", 0)
Stack   == Store("AP_STACK_ADDR", stacks)
Index   == Store("AP_IDX", idx)
Ready   == memory["AP_READY"]
Mailed  == memory["AP_STACK_ADDR"] = stacks /\ memory["AP_IDX"] = idx

MailboxOK ==
  /\ bsp \in {"loop", "idle", "entry"} => buffer = <<Clear>> \/ (buffer = <<>> /\ Ready = 0)
  /\ bsp = "fence" =>
       \/ buffer = <<Clear, Stack, Index>>
       \/ buffer = <<Stack, Index>> /\ Ready = 0
       \/ buffer = <<Index>> /\ Ready = 0 /\ memory["AP_STACK_ADDR"] = stacks
       \/ buffer = <<>> /\ Ready = 0 /\ Mailed
  /\ bsp \in {"init", "sipi", "wait"} => buffer = <<>> /\ Mailed
  /\ bsp \in {"init", "sipi"} => Ready = 0
  /\ bsp = "wait" => (Ready = 1 <=> ap[idx] \in {"rust", "entry"})

Earlier ==
  bsp \in {"fence", "init", "sipi", "wait"} =>
    /\ stacks > 0
    /\ \A c \in AP \ {idx} : ap[c] \in OnStack => rsp[c] < stacks

IInv ==
  /\ TypeOK
  /\ Progressed
  /\ MailboxOK
  /\ Earlier
  /\ StacksAreDistinct
  /\ IdsAreOwn

\* Nothing has been started at first.
LEMMA InitInv == Init => IInv
  BY BootAssumption DEF Init, IInv, TypeOK, Progressed, MailboxOK, Earlier,
     StacksAreDistinct, IdsAreOwn, Cell, AP, Ready, OnStack, HasId

\* A load of AP_READY behind an empty store buffer reads memory.
LEMMA LoadEmpty == buffer = <<>> => Load("AP_READY") = Ready
<1> SUFFICES ASSUME buffer = <<>> PROVE Load("AP_READY") = Ready
  OBVIOUS
<1>1. Len(buffer) = 0
  OBVIOUS
<1>2. Buffered("AP_READY") = {}
  BY <1>1 DEF Buffered
<1> QED
  BY <1>2 DEF Load, Ready

\* Every step of the boot processor, of its store buffer and of every other
\* core keeps the invariant.
LEMMA NextInv == IInv /\ [Next]_vars => IInv'
<1> SUFFICES ASSUME TypeOK, Progressed, MailboxOK, Earlier, StacksAreDistinct, IdsAreOwn,
                    [Next]_vars
             PROVE  /\ TypeOK' /\ Progressed' /\ MailboxOK'
                    /\ Earlier' /\ StacksAreDistinct' /\ IdsAreOwn'
  BY DEF IInv
<1> DEFINE Goal == /\ TypeOK' /\ Progressed' /\ MailboxOK'
                   /\ Earlier' /\ StacksAreDistinct' /\ IdsAreOwn'
<1> USE BootAssumption DEF AP
<1>1. CASE SkipCore
  <2>1. TypeOK' /\ Earlier' /\ StacksAreDistinct' /\ IdsAreOwn'
    BY <1>1 DEF SkipCore, TypeOK, Earlier, StacksAreDistinct, IdsAreOwn
  <2>2. Progressed'
    BY <1>1 DEF SkipCore, TypeOK, Progressed
  <2>3. MailboxOK'
    BY <1>1 DEF SkipCore, MailboxOK, Clear, Ready
  <2> QED
    BY <2>1, <2>2, <2>3
<1>2. CASE WriteMailbox
  <2>1. TypeOK'
    <3>1. Store("AP_STACK_ADDR", stacks + 1) \in [cell : Cell, value : Nat]
      BY DEF TypeOK, Store, Cell
    <3>2. Store("AP_IDX", idx) \in [cell : Cell, value : Nat]
      BY DEF TypeOK, Store, Cell
    <3>3. buffer' \in Seq([cell : Cell, value : Nat])
      BY <1>2, <3>1, <3>2 DEF WriteMailbox, TypeOK
    <3> QED
      BY <1>2, <3>3 DEF WriteMailbox, TypeOK
  <2>2. Progressed'
    BY <1>2 DEF WriteMailbox, Progressed, TypeOK
  <2>3. MailboxOK'
    <3>1. bsp' = "fence" /\ buffer' = buffer \o <<Stack', Index'>> /\ Ready' = Ready
      BY <1>2 DEF WriteMailbox, Stack, Index, Ready, Store
    <3>2. buffer = <<Clear>> \/ (buffer = <<>> /\ Ready = 0)
      BY <1>2 DEF WriteMailbox, MailboxOK
    <3>3. buffer' = <<Clear, Stack', Index'>> \/ (buffer' = <<Stack', Index'>> /\ Ready' = 0)
      <4>1. ASSUME NEW x, NEW y, NEW z PROVE <<x>> \o <<y, z>> = <<x, y, z>>
        <5> DEFINE l == <<x>> \o <<y, z>>
        <5>1. l \in Seq({x, y, z}) /\ Len(l) = 3
          OBVIOUS
        <5>2. l[1] = x /\ l[2] = y /\ l[3] = z
          OBVIOUS
        <5>3. <<x, y, z>> \in Seq({x, y, z}) /\ Len(<<x, y, z>>) = 3
          OBVIOUS
        <5> HIDE DEF l
        <5>4. \A i \in 1 .. 3 : l[i] = <<x, y, z>>[i]
          BY <5>2
        <5>5. l = [i \in 1 .. 3 |-> l[i]] /\ <<x, y, z>> = [i \in 1 .. 3 |-> <<x, y, z>>[i]]
          BY <5>1, <5>3
        <5> QED
          BY <5>4, <5>5 DEF l
      <4>2. \A y, z : <<>> \o <<y, z>> = <<y, z>>
        OBVIOUS
      <4> QED
        BY <3>1, <3>2, <4>1, <4>2
    <3>4. Clear' = Clear
      BY DEF Clear, Store
    <3> QED
      BY <3>1, <3>3, <3>4 DEF MailboxOK
  <2>4. Earlier'
    BY <1>2 DEF WriteMailbox, StacksAreDistinct, Earlier, TypeOK
  <2>5. StacksAreDistinct' /\ IdsAreOwn'
    BY <1>2 DEF WriteMailbox, StacksAreDistinct, IdsAreOwn, TypeOK
  <2> QED
    BY <2>1, <2>2, <2>3, <2>4, <2>5
<1>3. CASE Fence
  <2>1. TypeOK' /\ Progressed' /\ Earlier' /\ StacksAreDistinct' /\ IdsAreOwn'
    BY <1>3 DEF Fence, TypeOK, Progressed, Earlier, StacksAreDistinct, IdsAreOwn
  <2>2. MailboxOK'
    BY <1>3 DEF Fence, MailboxOK, Ready, Mailed
  <2> QED
    BY <2>1, <2>2
<1>4. CASE SendInit
  BY <1>4 DEF SendInit, TypeOK, Progressed, MailboxOK, Earlier, StacksAreDistinct,
              IdsAreOwn, Ready, Mailed, OnStack, HasId
<1>5. CASE SendSipi
  BY <1>5 DEF SendSipi, TypeOK, Progressed, MailboxOK, Earlier, StacksAreDistinct,
              IdsAreOwn, Ready, Mailed, OnStack, HasId
<1>6. CASE AwaitReady
  <2>1. buffer = <<>> /\ Ready = 1 /\ ap[idx] \in {"rust", "entry"} /\ idx \in AP
    BY <1>6, LoadEmpty DEF AwaitReady, MailboxOK, Progressed
  <2>2. buffer' = <<Clear>>
    BY <1>6, <2>1 DEF AwaitReady, Clear
  <2>3. Clear \in [cell : Cell, value : Nat]
    BY DEF Clear, Store, Cell
  <2>4. TypeOK'
    BY <1>6, <2>1, <2>2, <2>3 DEF AwaitReady, TypeOK
  <2>5. Progressed'
    BY <1>6, <2>1 DEF AwaitReady, Progressed, TypeOK
  <2>6. MailboxOK'
    <3>1. bsp' = "loop" /\ buffer' = <<Clear'>> /\ Clear' = Clear
      BY <1>6, <2>2 DEF AwaitReady, Clear, Store
    <3> QED
      BY <2>2, <3>1 DEF MailboxOK
  <2>7. Earlier' /\ StacksAreDistinct' /\ IdsAreOwn'
    BY <1>6 DEF AwaitReady, Earlier, StacksAreDistinct, IdsAreOwn
  <2> QED
    BY <2>4, <2>5, <2>6, <2>7
<1>7. CASE LoopDone
  BY <1>7 DEF LoopDone, TypeOK, Progressed, MailboxOK, Earlier, StacksAreDistinct,
              IdsAreOwn, Clear, Ready
<1>8. CASE Drain
  <2>1. buffer \in Seq([cell : Cell, value : Nat]) /\ buffer # <<>>
    BY <1>8 DEF Drain, TypeOK
  <2>2. /\ Head(buffer) \in [cell : Cell, value : Nat]
        /\ Tail(buffer) \in Seq([cell : Cell, value : Nat])
    <3> DEFINE S == [cell : Cell, value : Nat]
    <3> HIDE DEF S
    <3>1. \A b \in Seq(S) : b # <<>> => Head(b) \in S /\ Tail(b) \in Seq(S)
      OBVIOUS
    <3> QED
      BY <2>1, <3>1 DEF S
  <2>3. TypeOK'
    BY <1>8, <2>2 DEF Drain, TypeOK
  <2>4. Progressed' /\ Earlier' /\ StacksAreDistinct' /\ IdsAreOwn'
    BY <1>8 DEF Drain, Progressed, Earlier, StacksAreDistinct, IdsAreOwn
  <2>5. MailboxOK'
    <3>1. CASE buffer = <<Clear>>
      BY <1>8, <3>1 DEF Drain, MailboxOK, Clear, Stack, Index, Store, Ready, Mailed, TypeOK, Cell
    <3>2. CASE buffer = <<Clear, Stack, Index>>
      BY <1>8, <3>2 DEF Drain, MailboxOK, Clear, Stack, Index, Store, Ready, Mailed, TypeOK, Cell
    <3>3. CASE buffer = <<Stack, Index>>
      BY <1>8, <3>3 DEF Drain, MailboxOK, Clear, Stack, Index, Store, Ready, Mailed, TypeOK, Cell
    <3>4. CASE buffer = <<Index>>
      BY <1>8, <3>4 DEF Drain, MailboxOK, Clear, Stack, Index, Store, Ready, Mailed, TypeOK, Cell
    <3> QED
      BY <2>1, <3>1, <3>2, <3>3, <3>4 DEF MailboxOK, TypeOK
  <2> QED
    BY <2>3, <2>4, <2>5
<1>9. ASSUME NEW c \in AP, ApStep(c) PROVE Goal
  <2>c. ap[c] \in {"startup", "stack", "pushed"} => c = idx /\ bsp = "wait"
    <3> SUFFICES ASSUME ap[c] \in {"startup", "stack", "pushed"} PROVE c = idx /\ bsp = "wait"
      OBVIOUS
    <3>1. c \in Int /\ idx \in Int
      BY DEF TypeOK
    <3>2. ~(c < idx) /\ ~(c > idx)
      BY DEF Progressed
    <3>3. c = idx
      BY <3>1, <3>2
    <3> QED
      BY <3>3 DEF Progressed, TypeOK
  <2>1. CASE LoadStack(c)
    <3>1. c = idx /\ bsp = "wait" /\ memory["AP_STACK_ADDR"] = stacks
      BY <2>1, <2>c DEF LoadStack, MailboxOK, Mailed
    <3>2. stacks \in Nat /\ stacks > 0
      BY <3>1 DEF TypeOK, Earlier
    <3> QED
      BY <2>1, <3>1, <3>2 DEF LoadStack, TypeOK, Progressed, MailboxOK, Earlier,
         StacksAreDistinct, IdsAreOwn, Ready, Mailed, OnStack, HasId, Cell
  <2>2. CASE PushIdx(c)
    <3>1. c = idx /\ bsp = "wait" /\ memory["AP_IDX"] = idx
      BY <2>2, <2>c DEF PushIdx, MailboxOK, Mailed
    <3> QED
      BY <2>2, <3>1 DEF PushIdx, TypeOK, Progressed, MailboxOK, Earlier,
         StacksAreDistinct, IdsAreOwn, Ready, Mailed, OnStack, HasId, Cell
  <2>3. CASE SetReady(c)
    <3>1. c = idx /\ bsp = "wait"
      BY <2>3, <2>c DEF SetReady
    <3> QED
      BY <2>3, <3>1 DEF SetReady, TypeOK, Progressed, MailboxOK, Earlier,
         StacksAreDistinct, IdsAreOwn, Ready, Mailed, OnStack, HasId, Cell
  <2>4. CASE ApEntry(c)
    <3>1. ap[c] = "rust" /\ core_id[c] = c
      BY <2>4 DEF ApEntry, IdsAreOwn, HasId
    <3>2. c \in 0 .. NumCores - 1
      OBVIOUS
    <3>3. ap' = [ap EXCEPT ![c] = "entry"]
      BY <2>4, <3>1, <3>2 DEF ApEntry
    <3>4. UNCHANGED <<bsp, idx, stacks, memory, buffer, rsp, core_id>>
      BY <2>4 DEF ApEntry
    <3>5. TypeOK' /\ Progressed'
      BY <3>1, <3>3, <3>4 DEF TypeOK, Progressed
    <3>6. MailboxOK'
      <4>1. Clear' = Clear /\ Stack' = Stack /\ Index' = Index /\ Ready' = Ready /\ Mailed' = Mailed
        BY <3>4 DEF Clear, Stack, Index, Store, Ready, Mailed
      <4>2. idx \in AP => (ap'[idx] \in {"rust", "entry"} <=> ap[idx] \in {"rust", "entry"})
        BY <3>1, <3>3 DEF TypeOK
      <4>3. bsp = "wait" => idx \in AP
        BY DEF Progressed
      <4> QED
        BY <3>4, <4>1, <4>2, <4>3 DEF MailboxOK
    <3>7. Earlier' /\ StacksAreDistinct' /\ IdsAreOwn'
      BY <3>1, <3>3, <3>4 DEF Earlier, StacksAreDistinct, IdsAreOwn, OnStack, HasId, TypeOK
    <3> QED
      BY <3>5, <3>6, <3>7
  <2> QED
    BY <1>9, <2>1, <2>2, <2>3, <2>4 DEF ApStep
<1>10. CASE UNCHANGED vars
  BY <1>10 DEF vars, TypeOK, Progressed, MailboxOK, Earlier, StacksAreDistinct,
               IdsAreOwn, Clear, Stack, Index, Ready, Mailed
<1> QED
  BY <1>1, <1>2, <1>3, <1>4, <1>5, <1>6, <1>7, <1>8, <1>9, <1>10 DEF Next, BspStep

\* However many cores are brought up through the one mailbox, and however
\* late the boot processor's stores reach memory, no two of them are ever
\* given the same stack.
THEOREM StacksNeverShared == Spec => []StacksAreDistinct
  BY InitInv, NextInv, PTL DEF Spec, IInv

\* Every core gets the core id of its own place in the MADT.
THEOREM IdsNeverMixed == Spec => []IdsAreOwn
  BY InitInv, NextInv, PTL DEF Spec, IInv

\* The shape of the state, including that no core panics over a core id that
\* is out of range.
THEOREM BootTypeCorrect == Spec => []TypeOK
  BY InitInv, NextInv, PTL DEF Spec, IInv
=============================================================================
