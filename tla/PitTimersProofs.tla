-------------------------- MODULE PitTimersProofs --------------------------
(***************************************************************************)
(* Proofs about PitTimers, for any number of cores, any bytes and periods, *)
(* any queue capacity and any bounds.                                      *)
(***************************************************************************)
EXTENDS PitTimers, WellFoundedInduction, TLAPS

-----------------------------------------------------------------------------
(* The helpers.                                                            *)

\* A wheel that is not empty has a soonest timer.
LEMMA SoonestExists ==
  ASSUME NEW w \in SUBSET RunningTimer, w # {}
  PROVE  \E t \in w : \A u \in w : elapses_at(t) <= elapses_at(u)
<1> DEFINE T == {elapses_at(t) : t \in w}
<1>1. T \subseteq Nat /\ T # {}
  BY DEF elapses_at, RunningTimer
<1>2. PICK x \in T : \A y \in T : ~(<<y, x>> \in OpToRel(<, Nat))
  BY <1>1, NatLessThanWellFounded, WFMin, Zenon
<1>3. ASSUME NEW y \in T
      PROVE  x <= y
  <2>1. x \in Nat /\ y \in Nat
    BY <1>1
  <2>2. y < x => <<y, x>> \in OpToRel(<, Nat)
    BY <2>1 DEF OpToRel
  <2>3. ~(y < x)
    BY <1>2, <2>2, Zenon
  <2> QED
    BY <2>1, <2>3
<1> QED
  BY <1>3

\* schedule_interrupt never yields a time in the past.
LEMMA ScheduleType ==
  ASSUME now \in Nat, NEW when \in Nat
  PROVE  schedule_interrupt(when) \in Nat \cup {Stopped}
<1> DEFINE d == Distance(when, now)
           count == d \div Grain
<1>1. Grain \in Nat /\ Grain > 0
  BY PitAssumption
<1>2. d \in Nat
  BY DEF Distance
<1>3. count \in Nat
  BY <1>1, <1>2
<1>4. count * Grain \in Nat
  BY <1>1, <1>3
<1>5. now + count * Grain \in Nat
  BY <1>4
<1> QED
  BY <1>5 DEF schedule_interrupt

\* update_interrupt_timer sets the local APIC timer to a time or stops it.
LEMMA UpdateType ==
  ASSUME now \in Nat, NEW w \in SUBSET RunningTimer, NEW old \in Nat \cup {Stopped}
  PROVE  update_interrupt_timer(old, w) \in Nat \cup {Stopped}
<1>1. CASE w = {}
  BY <1>1 DEF update_interrupt_timer
<1>2. CASE w # {}
  <2> DEFINE soonest == CHOOSE t \in w : \A u \in w : elapses_at(t) <= elapses_at(u)
  <2>1. soonest \in w
    BY <1>2, SoonestExists
  <2>2. elapses_at(soonest) \in Nat
    BY <2>1 DEF elapses_at, RunningTimer
  <2>3. schedule_interrupt(elapses_at(soonest)) \in Nat \cup {Stopped}
    BY <2>2, ScheduleType
  <2> QED
    BY <1>2, <2>3 DEF update_interrupt_timer
<1> QED
  BY <1>1, <1>2

\* Options of one value and of none.
LEMMA OptionTypes ==
  /\ \A S : None \in Option(S)
  /\ \A S : \A x \in S : Some(x) \in Option(S) /\ Head(Some(x)) = x /\ Some(x) # None
  /\ \A S : \A o \in Option(S) : o # None => Head(o) \in S
<1>1. \A S : <<>> \in Seq(S) /\ Len(<<>>) <= 1
  OBVIOUS
<1>2. \A S : \A x \in S : <<x>> \in Seq(S) /\ Len(<<x>>) <= 1 /\ Head(<<x>>) = x /\ <<x>> # <<>>
  OBVIOUS
<1>3. ASSUME NEW S, NEW o \in Seq(S), Len(o) <= 1, o # <<>>
      PROVE  Head(o) \in S
  BY <1>3
<1> QED
  BY <1>1, <1>2, <1>3 DEF None, Some, Option

\* Removing timers, and expiring them, leaves timers.
LEMMA WheelTypes ==
  ASSUME NEW w \in SUBSET RunningTimer
  PROVE  /\ \A id : remove_timer(w, id) \in SUBSET RunningTimer
         /\ expire_elapsed_timers(w) \in SUBSET RunningTimer
<1>1. \A t \in RunningTimer : reset(t) \in RunningTimer
  BY DEF reset, elapses_at, RunningTimer
<1> QED
  BY <1>1 DEF remove_timer, expire_elapsed_timers

-----------------------------------------------------------------------------
(* Type correctness.                                                       *)

\* The types of a channel's state.
ChannelState ==
  [mode : {0, 2}, access : AccessMode, lo_byte : Option(Nat),
   start_counter : Option(Nat), start_time : Nat, timer : Option(TimerId)]

\* A channel that has been reset is one.
LEMMA ResetType ==
  ASSUME NEW mode \in {0, 2}, NEW access \in AccessMode
  PROVE  ResetChannel(mode, access) \in ChannelState
<1>1. None \in Option(Nat) /\ None \in Option(TimerId)
  BY OptionTypes
<1> QED
  BY <1>1 DEF ResetChannel, ChannelState

\* Nothing is armed and nothing counts at the start.
LEMMA InitType == Init => TypeOK
<1> SUFFICES ASSUME Init PROVE TypeOK
  OBVIOUS
<1>1. <<>> \in Seq(TimerId)
  OBVIOUS
<1>2. ResetChannel(0, "LoByte") \in ChannelState
  BY ResetType DEF AccessMode
<1>3. channel \in [Channel -> ChannelState]
  BY <1>2 DEF Init
<1>4. queue \in [Core -> Seq(TimerId)] /\ \A c \in Core : Len(queue[c]) <= MaxPendingMsg
  BY <1>1, PitAssumption DEF Init
<1>5. /\ now \in Nat
      /\ pc \in [Core -> {"guest", "exit", "panic", "unreachable"}]
      /\ wheel \in [Core -> SUBSET RunningTimer]
      /\ counter \in [Core -> Nat]
      /\ apic \in [Core -> Nat \cup {Stopped}]
      /\ irr \in [Core -> BOOLEAN]
  BY DEF Init, Stopped
<1> QED
  BY <1>3, <1>4, <1>5 DEF TypeOK, ChannelState

\* The types of the messages and of the wheels after cancel_timer.
LEMMA CancelType ==
  ASSUME TypeOK, NEW c \in Core, NEW id \in TimerId, cancel_timer(c, id)
  PROVE  /\ wheel' \in [Core -> SUBSET RunningTimer]
         /\ apic' \in [Core -> Nat \cup {Stopped}]
         /\ queue' \in [Core -> Seq(TimerId)]
         /\ \A d \in Core : Len(queue'[d]) <= MaxPendingMsg
<1>1. CASE id.core = c
  <2> DEFINE w == remove_timer(wheel[c], id)
  <2>1. w \in SUBSET RunningTimer
    BY WheelTypes DEF TypeOK
  <2>2. update_interrupt_timer(apic[c], w) \in Nat \cup {Stopped}
    BY <2>1, UpdateType DEF TypeOK
  <2>3. /\ wheel' = [wheel EXCEPT ![c] = w]
        /\ apic' = [apic EXCEPT ![c] = update_interrupt_timer(apic[c], w)]
        /\ UNCHANGED queue
    BY <1>1 DEF cancel_timer
  <2> HIDE DEF w
  <2> QED
    BY <2>1, <2>2, <2>3 DEF TypeOK
<1>2. CASE id.core # c
  <2>1. /\ queue' = IF Len(queue[id.core]) < MaxPendingMsg
                    THEN [queue EXCEPT ![id.core] = Append(@, id)] ELSE queue
        /\ UNCHANGED <<wheel, apic>>
    BY <1>2 DEF cancel_timer
  <2>2. id.core \in Core
    BY DEF TimerId
  <2>3. CASE Len(queue[id.core]) < MaxPendingMsg
    <3>1. queue[id.core] \in Seq(TimerId)
      BY <2>2 DEF TypeOK
    <3>2. Append(queue[id.core], id) \in Seq(TimerId)
          /\ Len(Append(queue[id.core], id)) = Len(queue[id.core]) + 1
      BY <3>1
    <3>3. Len(queue[id.core]) + 1 <= MaxPendingMsg
      BY <2>3, <3>1, PitAssumption
    <3> QED
      BY <2>1, <2>2, <2>3, <3>2, <3>3 DEF TypeOK
  <2>4. CASE ~(Len(queue[id.core]) < MaxPendingMsg)
    BY <2>1, <2>4 DEF TypeOK
  <2> QED
    BY <2>3, <2>4
<1> QED
  BY <1>1, <1>2

\* SetCounter sets timers and counters to values of their types.
LEMMA SetCounterType ==
  ASSUME TypeOK, NEW c \in Core, NEW ch \in Channel, NEW n \in Nat, SetCounter(c, ch, n)
  PROVE  /\ wheel' \in [Core -> SUBSET RunningTimer]
         /\ counter' \in [Core -> Nat]
         /\ apic' \in [Core -> Nat \cup {Stopped}]
         /\ channel' \in [Channel -> ChannelState]
<1>1. channel \in [Channel -> ChannelState]
  BY DEF TypeOK, ChannelState
<1>2. Some(n) \in Option(Nat)
  BY OptionTypes
<1>3. CASE n = 0
  BY <1>1, <1>3 DEF SetCounter, TypeOK
<1>4. CASE n # 0 /\ ch = 2
  <2>1. channel' = [channel EXCEPT ![ch].start_counter = Some(n), ![ch].start_time = now]
    BY <1>4 DEF SetCounter
  <2>2. UNCHANGED <<wheel, counter, apic>>
    BY <1>4 DEF SetCounter
  <2>3. channel' \in [Channel -> ChannelState]
    BY ZenonT(30), <1>1, <1>2, <2>1 DEF ChannelState, TypeOK
  <2> QED
    BY <2>2, <2>3 DEF TypeOK
<1>5. CASE n # 0 /\ ch = 0
  <2> DEFINE t == [timer_id |-> new_timer_id(c), periodic |-> channel[ch].mode = 2,
                   started |-> now, duration |-> n]
             id == [core |-> c, timer_id |-> new_timer_id(c)]
  <2>1. t \in RunningTimer /\ id \in TimerId
    BY DEF RunningTimer, TimerId, new_timer_id, TypeOK
  <2>2. /\ wheel' = [wheel EXCEPT ![c] = wheel[c] \cup {t}]
        /\ counter' = [counter EXCEPT ![c] = counter[c] + 1]
        /\ apic' = [apic EXCEPT ![c] = update_interrupt_timer(apic[c], wheel[c] \cup {t})]
        /\ channel' = [channel EXCEPT ![ch].start_counter = Some(n), ![ch].start_time = now,
                                      ![ch].timer = Some(id)]
    BY <1>5 DEF SetCounter, register_timer
  <2> HIDE DEF t, id
  <2>3. wheel[c] \cup {t} \in SUBSET RunningTimer
    BY <2>1 DEF TypeOK
  <2>4. update_interrupt_timer(apic[c], wheel[c] \cup {t}) \in Nat \cup {Stopped}
    BY <2>3, UpdateType DEF TypeOK
  <2>5. Some(id) \in Option(TimerId)
    BY <2>1, OptionTypes
  <2>6. channel' \in [Channel -> ChannelState]
    <3> DEFINE x == [channel EXCEPT ![ch].start_counter = Some(n), ![ch].start_time = now]
    <3>1. x \in [Channel -> ChannelState]
      BY <1>1, <1>2 DEF ChannelState, TypeOK
    <3>2. channel' = [x EXCEPT ![ch].timer = Some(id)]
      BY <2>2
    <3> HIDE DEF x
    <3> QED
      BY <2>5, <3>1, <3>2 DEF ChannelState
  <2> QED
    BY <2>2, <2>3, <2>4, <2>6 DEF TypeOK
<1> QED
  BY <1>3, <1>4, <1>5 DEF Channel

\* No step leaves the types.
LEMMA NextType == TypeOK /\ [Next]_vars => TypeOK'
<1> SUFFICES ASSUME TypeOK, [Next]_vars PROVE TypeOK'
  OBVIOUS
<1> DEFINE PcOK == pc' \in [Core -> {"guest", "exit", "panic", "unreachable"}]
<1>1. CASE Tick
  <2>1. now' \in Nat /\ UNCHANGED <<pc, wheel, counter, queue, channel>>
    BY <1>1 DEF Tick, TypeOK
  <2>2. irr' \in [Core -> BOOLEAN]
    BY <1>1 DEF Tick, TypeOK
  <2>3. apic' \in [Core -> Nat \cup {Stopped}]
    BY <1>1 DEF Tick, TypeOK
  <2> QED
    BY <2>1, <2>2, <2>3 DEF TypeOK
<1>2. ASSUME NEW c \in Core, TimerInterrupt(c) \/ OtherExit(c)
      PROVE  TypeOK'
  <2>1. PcOK
    BY <1>2 DEF TimerInterrupt, OtherExit, Leave, TypeOK
  <2>2. irr' \in [Core -> BOOLEAN]
    BY <1>2 DEF TimerInterrupt, OtherExit, TypeOK
  <2> QED
    BY <1>2, <2>1, <2>2 DEF TimerInterrupt, OtherExit, TypeOK
<1>3. ASSUME NEW c \in Core, HandleIpc(c)
      PROVE  TypeOK'
  <2> DEFINE w == {t \in wheel[c] :
                     \A i \in DOMAIN queue[c] : t \in remove_timer(wheel[c], queue[c][i])}
  <2>1. w \in SUBSET RunningTimer
    BY DEF TypeOK
  <2>2. update_interrupt_timer(apic[c], w) \in Nat \cup {Stopped}
    BY <2>1, UpdateType DEF TypeOK
  <2>3. /\ wheel' = [wheel EXCEPT ![c] = w]
        /\ apic' = [apic EXCEPT ![c] = update_interrupt_timer(apic[c], w)]
        /\ queue' = [queue EXCEPT ![c] = <<>>]
        /\ UNCHANGED <<now, counter, irr, channel>>
    BY <1>3 DEF HandleIpc
  <2> HIDE DEF w
  <2>4. PcOK
    BY <1>3 DEF HandleIpc, Leave, TypeOK
  <2>5. <<>> \in Seq(TimerId) /\ Len(<<>>) <= MaxPendingMsg
    BY PitAssumption
  <2>6. queue' \in [Core -> Seq(TimerId)] /\ \A d \in Core : Len(queue'[d]) <= MaxPendingMsg
    BY <2>3, <2>5 DEF TypeOK
  <2>7. wheel' \in [Core -> SUBSET RunningTimer] /\ apic' \in [Core -> Nat \cup {Stopped}]
    BY <2>1, <2>2, <2>3 DEF TypeOK
  <2> QED
    BY <2>3, <2>4, <2>6, <2>7 DEF TypeOK
<1>4. ASSUME NEW c \in Core, Finish(c)
      PROVE  TypeOK'
  <2> DEFINE w == expire_elapsed_timers(wheel[c])
  <2>1. w \in SUBSET RunningTimer
    BY WheelTypes DEF TypeOK
  <2>2. update_interrupt_timer(apic[c], w) \in Nat \cup {Stopped}
    BY <2>1, UpdateType DEF TypeOK
  <2>3. /\ wheel' = [wheel EXCEPT ![c] = w]
        /\ apic' = [apic EXCEPT ![c] = update_interrupt_timer(apic[c], w)]
        /\ pc' = [pc EXCEPT ![c] = "guest"]
        /\ UNCHANGED <<now, counter, irr, queue, channel>>
    BY <1>4 DEF Finish
  <2> HIDE DEF w
  <2> QED
    BY <2>1, <2>2, <2>3 DEF TypeOK
<1>5. ASSUME NEW c \in Core, NEW ch \in Channel, NEW mode \in {0, 2}, NEW access \in AccessMode,
             ModeControl(c, ch, mode, access)
      PROVE  TypeOK'
  <2>1. channel' \in [Channel -> ChannelState]
    <3>1. channel' = [channel EXCEPT ![ch] = ResetChannel(mode, access)]
      BY <1>5 DEF ModeControl
    <3>2. channel \in [Channel -> ChannelState]
      BY DEF TypeOK, ChannelState
    <3> QED
      BY <3>1, <3>2, ResetType
  <2>2. PcOK /\ UNCHANGED <<now, counter, irr>>
    BY <1>5 DEF ModeControl, Leave, TypeOK
  <2>3. CASE channel[ch].timer = None
    BY <1>5, <2>1, <2>2, <2>3 DEF ModeControl, TypeOK, ChannelState
  <2>4. CASE channel[ch].timer # None
    <3>1. cancel_timer(c, Head(channel[ch].timer))
      BY <1>5, <2>4 DEF ModeControl
    <3>2. Head(channel[ch].timer) \in TimerId
      BY <2>4, OptionTypes DEF TypeOK
    <3>3. /\ wheel' \in [Core -> SUBSET RunningTimer]
          /\ apic' \in [Core -> Nat \cup {Stopped}]
          /\ queue' \in [Core -> Seq(TimerId)]
          /\ \A d \in Core : Len(queue'[d]) <= MaxPendingMsg
      BY <3>1, <3>2, CancelType
    <3> QED
      BY <2>1, <2>2, <3>3 DEF TypeOK, ChannelState
  <2> QED
    BY <2>3, <2>4
<1>6. ASSUME NEW c \in Core, NEW ch \in Channel, NEW byte \in Nat, WriteCounter(c, ch, byte)
      PROVE  TypeOK'
  <2>1. PcOK /\ UNCHANGED <<now, irr, queue>>
    BY <1>6 DEF WriteCounter, Leave, TypeOK
  <2> DEFINE lo == channel[ch].lo_byte
             Counted == /\ wheel' \in [Core -> SUBSET RunningTimer]
                        /\ counter' \in [Core -> Nat]
                        /\ apic' \in [Core -> Nat \cup {Stopped}]
                        /\ channel' \in [Channel -> ChannelState]
  <2>2. Radix \in Nat
    BY PitAssumption
  <2>3. byte * Radix \in Nat
    BY <2>2
  <2>4. Counted
    <3>1. CASE SetCounter(c, ch, byte) \/ SetCounter(c, ch, byte * Radix)
      BY <2>3, <3>1, SetCounterType
    <3>2. CASE lo # None /\ SetCounter(c, ch, byte * Radix + Head(lo))
      <4>1. Head(lo) \in Nat
        BY <3>2, OptionTypes DEF TypeOK
      <4>2. byte * Radix + Head(lo) \in Nat
        BY <2>3, <4>1
      <4> QED
        BY <3>2, <4>2, SetCounterType
    <3>3. CASE /\ channel' = [channel EXCEPT ![ch].lo_byte = Some(byte)]
               /\ UNCHANGED <<wheel, counter, apic>>
      <4>1. Some(byte) \in Option(Nat)
        BY OptionTypes
      <4>2. channel \in [Channel -> ChannelState]
        BY DEF TypeOK, ChannelState
      <4>3. channel' \in [Channel -> ChannelState]
        BY <3>3, <4>1, <4>2 DEF ChannelState
      <4> QED
        BY <3>3, <4>3 DEF TypeOK
    <3> QED
      BY <1>6, <3>1, <3>2, <3>3 DEF WriteCounter
  <2> QED
    BY <2>1, <2>4 DEF TypeOK, ChannelState
<1>7. ASSUME NEW c \in Core, Unsupported(c) \/ \E ch \in Channels : WriteLatched(c, ch)
      PROVE  TypeOK'
  <2>1. PcOK
    BY <1>7 DEF Unsupported, WriteLatched, TypeOK
  <2> QED
    BY <1>7, <2>1 DEF Unsupported, WriteLatched, TypeOK
<1>8. CASE UNCHANGED vars
  BY <1>8 DEF vars, TypeOK
<1> QED
  BY <1>1, <1>2, <1>3, <1>4, <1>5, <1>6, <1>7, <1>8, PitAssumption
  DEF Next, GuestExit, ForcedExit

\* Timer ids, queues and counters keep their types, whatever the guest writes
\* and however late timers and messages are handled; a queue never holds more
\* than MAX_PENDING_MSG messages.
THEOREM PitTypeCorrect == Spec => []TypeOK
  BY InitType, NextType, PTL DEF Spec

-----------------------------------------------------------------------------
(* The inductive invariant.  Ids are given out in order, so no timer and   *)
(* no message has the id that is next; a message about the current timer   *)
(* would need the PIT to have forgotten the timer when it was sent.        *)

\* The ids of timers and of messages are old ones, and no two timers of a
\* wheel have the same.
IdsFresh ==
  /\ \A c \in Core : \A t \in wheel[c] : t.timer_id < counter[c]
  /\ \A c \in Core : \A t, u \in wheel[c] : t.timer_id = u.timer_id => t = u
  /\ \A c \in Core : \A i \in 1 .. Len(queue[c]) : queue[c][i].timer_id < counter[c]

\* The timer is the one that channel 0 was programmed for.
Follows(t, ch) ==
  /\ t.duration = Head(ch.start_counter)
  /\ t.duration > 0
  /\ t.periodic <=> ch.mode = 2
  /\ t.periodic => \E k \in Nat : t.started = ch.start_time + k * t.duration
  /\ ~t.periodic => t.started = ch.start_time

\* The current timer of a channel: its id is an old one that no message names,
\* and it runs or has been removed when its time was over.
CurrentOK(ch) ==
  ch.timer # None =>
    LET id == Head(ch.timer) IN
      /\ ch.start_counter # None
      /\ id.timer_id < counter[id.core]
      /\ \A i \in 1 .. Len(queue[id.core]) : queue[id.core][i].timer_id # id.timer_id
      /\ \/ \E t \in wheel[id.core] : t.timer_id = id.timer_id /\ Follows(t, ch)
         \/ /\ ch.mode = 0
            /\ now > ch.start_time + Head(ch.start_counter)
            /\ \A t \in wheel[id.core] : t.timer_id # id.timer_id

TimersInv == IdsFresh /\ CurrentOK(channel[0]) /\ channel[2].timer = None

\* The timers that are left of those of a wheel have the wheel's ids.
LEMMA IdsOfSubset ==
  ASSUME TypeOK, IdsFresh, NEW c \in Core, NEW w \in SUBSET wheel[c],
         wheel' = [wheel EXCEPT ![c] = w], UNCHANGED counter,
         \A d \in Core : \A i \in 1 .. Len(queue'[d]) : queue'[d][i].timer_id < counter[d]
  PROVE  IdsFresh'
  BY DEF IdsFresh, TypeOK

LEMMA InitTimers == Init => TimersInv
<1> SUFFICES ASSUME Init PROVE TimersInv
  OBVIOUS
<1>1. IdsFresh
  BY DEF Init, IdsFresh
<1>2. channel[0].timer = None /\ channel[2].timer = None
  BY DEF Init, ResetChannel, Channel
<1> QED
  BY <1>1, <1>2 DEF TimersInv, CurrentOK

\* Steps that touch neither timers nor messages nor the PIT; time may pass.
LEMMA QuietTimers ==
  ASSUME TypeOK, TimersInv, now' \in Nat, now' >= now,
         UNCHANGED <<wheel, counter, queue, channel>>
  PROVE  TimersInv'
<1>1. IdsFresh' /\ channel'[2].timer = None
  BY DEF TimersInv, IdsFresh
<1>2. CASE channel[0].timer = None
  BY <1>1, <1>2 DEF TimersInv, CurrentOK
<1>3. CASE channel[0].timer # None
  <2> DEFINE id == Head(channel[0].timer)
  <2>1. /\ channel[0].start_counter # None
        /\ id.timer_id < counter'[id.core]
        /\ \A i \in 1 .. Len(queue'[id.core]) : queue'[id.core][i].timer_id # id.timer_id
    BY <1>3 DEF TimersInv, CurrentOK
  <2>2. CASE \E t \in wheel[id.core] : t.timer_id = id.timer_id /\ Follows(t, channel[0])
    BY <1>1, <2>1, <2>2 DEF TimersInv, CurrentOK
  <2>3. CASE /\ channel[0].mode = 0
             /\ now > channel[0].start_time + Head(channel[0].start_counter)
             /\ \A t \in wheel[id.core] : t.timer_id # id.timer_id
    <3>1. Head(channel[0].start_counter) \in Nat
      BY <1>3, OptionTypes DEF TimersInv, CurrentOK, TypeOK, Channel
    <3>2. now' > channel[0].start_time + Head(channel[0].start_counter)
      BY <2>3, <3>1 DEF TypeOK, Channel
    <3> QED
      BY <1>1, <2>1, <2>3, <3>2 DEF TimersInv, CurrentOK
  <2> QED
    BY <1>3, <2>2, <2>3 DEF TimersInv, CurrentOK
<1> QED
  BY <1>2, <1>3

\* handle_ipc removes no timer but those that messages name.
LEMMA HandleIpcTimers ==
  ASSUME TypeOK, TimersInv, NEW c \in Core, HandleIpc(c)
  PROVE  TimersInv'
<1> DEFINE w == {t \in wheel[c] :
                   \A i \in DOMAIN queue[c] : t \in remove_timer(wheel[c], queue[c][i])}
<1>1. /\ wheel' = [wheel EXCEPT ![c] = w]
      /\ queue' = [queue EXCEPT ![c] = <<>>]
      /\ UNCHANGED <<now, counter, channel>>
  BY DEF HandleIpc
<1>2. \A t \in wheel[c] :
        (\A i \in 1 .. Len(queue[c]) : queue[c][i].timer_id # t.timer_id) => t \in w
  <2>1. queue[c] \in Seq(TimerId)
    BY DEF TypeOK
  <2>2. DOMAIN queue[c] = 1 .. Len(queue[c])
    BY <2>1
  <2> QED
    BY <2>2 DEF remove_timer
<1>3. w \subseteq wheel[c]
  OBVIOUS
<1> HIDE DEF w
<1>4. \A d \in Core : queue'[d] = IF d = c THEN <<>> ELSE queue[d]
  BY <1>1 DEF TypeOK
<1>5. \A d \in Core : wheel'[d] = IF d = c THEN w ELSE wheel[d]
  BY <1>1 DEF TypeOK
<1>6. \A d \in Core : \A i \in 1 .. Len(queue'[d]) : queue'[d][i].timer_id < counter[d]
  BY <1>4 DEF TimersInv, IdsFresh
<1>7. IdsFresh' /\ channel'[2].timer = None
  BY <1>1, <1>3, <1>6, IdsOfSubset DEF TimersInv
<1>8. CASE channel[0].timer # None
  <2> DEFINE id == Head(channel[0].timer)
  <2>1. id.core \in Core
    BY <1>8, OptionTypes DEF TypeOK, Channel, TimerId
  <2>2. /\ channel[0].start_counter # None
        /\ id.timer_id < counter'[id.core]
        /\ \A i \in 1 .. Len(queue'[id.core]) : queue'[id.core][i].timer_id # id.timer_id
    <3>1. /\ channel[0].start_counter # None
          /\ id.timer_id < counter[id.core]
          /\ \A i \in 1 .. Len(queue[id.core]) : queue[id.core][i].timer_id # id.timer_id
      BY <1>8 DEF TimersInv, CurrentOK
    <3>2. queue'[id.core] = <<>> \/ queue'[id.core] = queue[id.core]
      BY <1>4, <2>1
    <3>3. 1 .. Len(<<>>) = {}
      OBVIOUS
    <3> HIDE DEF id
    <3> QED
      BY <1>1, <3>1, <3>2, <3>3
  <2>3. CASE \E t \in wheel[id.core] : t.timer_id = id.timer_id /\ Follows(t, channel[0])
    <3>1. PICK t \in wheel[id.core] : t.timer_id = id.timer_id /\ Follows(t, channel[0])
      BY <2>3
    <3>2. t \in wheel'[id.core]
      BY SMTT(30), <1>2, <1>5, <1>8, <2>1, <3>1 DEF TimersInv, CurrentOK
    <3> QED
      BY <1>1, <1>7, <2>2, <3>1, <3>2 DEF TimersInv, CurrentOK
  <2>4. CASE /\ channel[0].mode = 0
             /\ now > channel[0].start_time + Head(channel[0].start_counter)
             /\ \A t \in wheel[id.core] : t.timer_id # id.timer_id
    <3>1. wheel'[id.core] \subseteq wheel[id.core]
      BY <1>3, <1>5, <2>1
    <3> QED
      BY <1>1, <1>7, <2>2, <2>4, <3>1 DEF TimersInv, CurrentOK
  <2> QED
    BY <1>8, <2>3, <2>4 DEF TimersInv, CurrentOK
<1>9. CASE channel[0].timer = None
  BY <1>1, <1>7, <1>9 DEF TimersInv, CurrentOK
<1> QED
  BY <1>8, <1>9

\* Where the timers of a wheel come from after expire_elapsed_timers.
LEMMA ExpiredFrom ==
  ASSUME NEW w \in SUBSET RunningTimer, NEW t \in expire_elapsed_timers(w)
  PROVE  \E u \in w : /\ u.timer_id = t.timer_id
                      /\ (t = u /\ ~elapsed(u)) \/ (t = reset(u) /\ elapsed(u) /\ u.periodic)
<1>1. \A u \in RunningTimer : reset(u).timer_id = u.timer_id
  BY DEF reset, RunningTimer
<1> QED
  BY <1>1 DEF expire_elapsed_timers

\* The end of an exit keeps a periodic timer on the multiples of its period,
\* and removes the one-shot timers whose time is over.
LEMMA FinishTimers ==
  ASSUME TypeOK, TimersInv, NEW c \in Core, Finish(c)
  PROVE  TimersInv'
<1> DEFINE w == expire_elapsed_timers(wheel[c])
<1>1. /\ wheel' = [wheel EXCEPT ![c] = w]
      /\ UNCHANGED <<now, counter, queue, channel>>
  BY DEF Finish
<1>2. wheel[c] \in SUBSET RunningTimer /\ now \in Nat
  BY DEF TypeOK
<1>3. \A t \in w : \E u \in wheel[c] :
        /\ u.timer_id = t.timer_id
        /\ (t = u /\ ~elapsed(u)) \/ (t = reset(u) /\ elapsed(u) /\ u.periodic)
  BY <1>2, ExpiredFrom
<1>4. \A u \in wheel[c] :
        /\ ~elapsed(u) => u \in w
        /\ elapsed(u) /\ u.periodic => reset(u) \in w
  BY DEF expire_elapsed_timers
<1> HIDE DEF w
<1>5. \A d \in Core : wheel'[d] = IF d = c THEN w ELSE wheel[d]
  BY <1>1 DEF TypeOK
<1>6. \A t \in w : t.timer_id < counter[c]
  BY <1>3 DEF TimersInv, IdsFresh
<1>7. \A t, u \in w : t.timer_id = u.timer_id => t = u
  BY <1>3 DEF TimersInv, IdsFresh
<1>8. IdsFresh' /\ channel'[2].timer = None
  BY <1>1, <1>5, <1>6, <1>7 DEF TimersInv, IdsFresh
<1>9. CASE channel[0].timer # None
  <2> DEFINE id == Head(channel[0].timer)
  <2>1. id.core \in Core
    BY <1>9, OptionTypes DEF TypeOK, Channel, TimerId
  <2>2. /\ channel[0].start_counter # None
        /\ id.timer_id < counter'[id.core]
        /\ \A i \in 1 .. Len(queue'[id.core]) : queue'[id.core][i].timer_id # id.timer_id
    BY <1>1, <1>9 DEF TimersInv, CurrentOK
  <2>3. CASE id.core # c
    <3>1. wheel'[id.core] = wheel[id.core]
      BY <1>5, <2>1, <2>3
    <3> QED
      BY <1>1, <1>8, <1>9, <2>2, <3>1 DEF TimersInv, CurrentOK
  <2>4. CASE id.core = c /\ \E t \in wheel[c] : t.timer_id = id.timer_id /\ Follows(t, channel[0])
    <3>1. PICK t \in wheel[c] : t.timer_id = id.timer_id /\ Follows(t, channel[0])
      BY <2>4
    <3>2. t \in RunningTimer
      BY <1>2
    <3>3. CASE ~elapsed(t)
      BY <1>1, <1>4, <1>5, <1>8, <2>2, <2>4, <3>1, <3>3 DEF TimersInv, CurrentOK
    <3>4. CASE elapsed(t) /\ t.periodic
      <4>1. reset(t) \in wheel'[id.core]
        BY <1>4, <1>5, <2>4, <3>4
      <4>2. /\ reset(t).timer_id = t.timer_id
            /\ reset(t).duration = t.duration
            /\ reset(t).periodic = t.periodic
            /\ reset(t).started = t.started + t.duration
        BY <3>2 DEF reset, elapses_at, RunningTimer
      <4>3. PICK k \in Nat : t.started = channel[0].start_time + k * t.duration
        BY <3>1, <3>4 DEF Follows
      <4>4. channel[0].start_time \in Nat /\ t.duration \in Nat
        BY <3>2 DEF TypeOK, Channel, RunningTimer
      <4>5. t.started + t.duration = channel[0].start_time + (k + 1) * t.duration
        <5>1. \A d \in Nat : (k + 1) * d = k * d + d /\ k * d \in Nat
          OBVIOUS
        <5>2. /\ (k + 1) * t.duration = k * t.duration + t.duration
              /\ k * t.duration \in Nat
          BY <4>4, <5>1
        <5> QED
          BY <4>3, <4>4, <5>2
      <4>6. Follows(reset(t), channel[0])
        BY <3>1, <3>4, <4>2, <4>5 DEF Follows
      <4> QED
        BY <1>1, <1>8, <2>2, <3>1, <4>1, <4>2, <4>6 DEF TimersInv, CurrentOK
    <3>5. CASE elapsed(t) /\ ~t.periodic
      <4>1. channel[0].mode = 0
        BY <3>1, <3>5 DEF Follows, TypeOK, Channel
      <4>2. t.started = channel[0].start_time /\ t.duration = Head(channel[0].start_counter)
        BY <3>1, <3>5 DEF Follows
      <4>3. now > channel[0].start_time + Head(channel[0].start_counter)
        BY <1>2, <3>2, <3>5, <4>2 DEF elapsed, RunningTimer
      <4>4. \A u \in w : u.timer_id # id.timer_id
        BY <1>3, <3>1, <3>5 DEF TimersInv, IdsFresh
      <4> QED
        BY <1>1, <1>5, <1>8, <2>2, <2>4, <4>1, <4>3, <4>4 DEF TimersInv, CurrentOK
    <3> QED
      BY <3>3, <3>4, <3>5
  <2>5. CASE /\ id.core = c
             /\ channel[0].mode = 0
             /\ now > channel[0].start_time + Head(channel[0].start_counter)
             /\ \A t \in wheel[id.core] : t.timer_id # id.timer_id
    <3>1. \A t \in wheel'[id.core] : t.timer_id # id.timer_id
      BY <1>3, <1>5, <2>5
    <3> QED
      BY <1>1, <1>8, <2>2, <2>5, <3>1 DEF TimersInv, CurrentOK
  <2> QED
    BY <1>9, <2>3, <2>4, <2>5 DEF TimersInv, CurrentOK
<1>10. CASE channel[0].timer = None
  BY <1>1, <1>8, <1>10 DEF TimersInv, CurrentOK
<1> QED
  BY <1>9, <1>10

\* Steps that leave channel 0's timer and counter alone.
LEMMA KeepsChannel ==
  ASSUME TypeOK, TimersInv, UNCHANGED <<now, wheel, counter, queue>>,
         channel'[0].mode = channel[0].mode, channel'[0].timer = channel[0].timer,
         channel'[0].start_counter = channel[0].start_counter,
         channel'[0].start_time = channel[0].start_time,
         channel'[2].timer = None
  PROVE  TimersInv'
<1>1. IdsFresh'
  BY DEF TimersInv, IdsFresh
<1>2. \A t : Follows(t, channel'[0]) <=> Follows(t, channel[0])
  BY DEF Follows
<1> QED
  BY <1>1, <1>2 DEF TimersInv, CurrentOK

\* A mode control word ends the PIT's interest in the timer, at once on this
\* core and with a message on another.
LEMMA ModeControlTimers ==
  ASSUME TypeOK, TimersInv, NEW c \in Core, NEW ch \in Channel, NEW mode \in {0, 2},
         NEW access \in AccessMode, ModeControl(c, ch, mode, access)
  PROVE  TimersInv'
<1>1. /\ channel' = [channel EXCEPT ![ch] = ResetChannel(mode, access)]
      /\ UNCHANGED <<now, counter>>
  BY DEF ModeControl
<1>2. ResetChannel(mode, access).timer = None
  BY DEF ResetChannel
<1>3. channel \in [Channel -> ChannelState]
  BY DEF TypeOK, ChannelState
<1>4. channel'[2].timer = None
  BY <1>1, <1>2, <1>3 DEF TimersInv, Channel
<1>5. CASE ch = 2
  <2>1. channel'[0] = channel[0]
    BY <1>1, <1>3, <1>5 DEF Channel
  <2>2. UNCHANGED <<wheel, queue>>
    BY <1>5 DEF ModeControl, TimersInv
  <2> QED
    BY <1>1, <1>4, <2>1, <2>2, KeepsChannel
<1>6. CASE ch = 0
  <2>1. channel'[0].timer = None
    BY <1>1, <1>2, <1>3, <1>6 DEF Channel
  <2>2. CASE channel[0].timer = None
    <3>1. UNCHANGED <<wheel, queue>>
      BY <1>6, <2>2 DEF ModeControl
    <3>2. IdsFresh'
      BY <1>1, <3>1 DEF TimersInv, IdsFresh
    <3> QED
      BY <1>4, <2>1, <3>2 DEF TimersInv, CurrentOK
  <2>3. CASE channel[0].timer # None
    <3> DEFINE id == Head(channel[0].timer)
    <3>1. cancel_timer(c, id)
      BY <1>6, <2>3 DEF ModeControl
    <3>2. id \in TimerId /\ id.core \in Core
      BY <2>3, OptionTypes DEF TypeOK, Channel, TimerId
    <3>3. id.timer_id < counter[id.core]
      BY <2>3 DEF TimersInv, CurrentOK
    <3> HIDE DEF id
    <3>4. CASE id.core = c
      <4>1. /\ wheel' = [wheel EXCEPT ![c] = remove_timer(wheel[c], id)]
            /\ UNCHANGED queue
        BY <3>1, <3>4 DEF cancel_timer
      <4>2. remove_timer(wheel[c], id) \in SUBSET wheel[c]
        BY DEF remove_timer
      <4>3. \A d \in Core : \A i \in 1 .. Len(queue'[d]) : queue'[d][i].timer_id < counter[d]
        BY <4>1 DEF TimersInv, IdsFresh
      <4>4. IdsFresh'
        BY <1>1, <4>1, <4>2, <4>3, IdsOfSubset DEF TimersInv
      <4> QED
        BY <1>4, <2>1, <4>4 DEF TimersInv, CurrentOK
    <3>5. CASE id.core # c
      <4>1. UNCHANGED wheel
        BY <3>1, <3>5 DEF cancel_timer
      <4>2. \/ UNCHANGED queue
            \/ queue' = [queue EXCEPT ![id.core] = Append(queue[id.core], id)]
        BY <3>1, <3>5 DEF cancel_timer
      <4>3. ASSUME NEW d \in Core, NEW i \in 1 .. Len(queue'[d])
            PROVE  queue'[d][i].timer_id < counter[d]
        <5>1. CASE queue'[d] = queue[d]
          BY <4>3, <5>1 DEF TimersInv, IdsFresh
        <5>2. CASE d = id.core /\ queue'[d] = Append(queue[d], id)
          <6>1. queue[d] \in Seq(TimerId)
            BY DEF TypeOK
          <6>2. queue'[d][i] = id \/ (i \in 1 .. Len(queue[d]) /\ queue'[d][i] = queue[d][i])
            BY <3>2, <4>3, <5>2, <6>1
          <6> QED
            BY <3>3, <5>2, <6>2 DEF TimersInv, IdsFresh
        <5> QED
          BY <3>2, <4>2, <5>1, <5>2 DEF TypeOK
      <4>4. IdsFresh'
        BY <1>1, <4>1, <4>3 DEF TimersInv, IdsFresh
      <4> QED
        BY <1>4, <2>1, <4>4 DEF TimersInv, CurrentOK
    <3> QED
      BY <3>4, <3>5
  <2> QED
    BY <2>2, <2>3
<1> QED
  BY <1>5, <1>6 DEF Channel

\* A new timer has an id that no timer and no message has.
LEMMA SetCounterTimers ==
  ASSUME TypeOK, TimersInv, NEW c \in Core, NEW ch \in Channel, NEW n \in Nat,
         SetCounter(c, ch, n), UNCHANGED <<now, queue>>
  PROVE  TimersInv'
<1>1. channel \in [Channel -> ChannelState]
  BY DEF TypeOK, ChannelState
<1>2. CASE n = 0
  <2>1. UNCHANGED <<wheel, counter, channel>>
    BY <1>2 DEF SetCounter
  <2> QED
    BY <2>1, QuietTimers DEF TypeOK
<1>3. CASE n # 0 /\ ch = 2
  <2>1. /\ channel' = [channel EXCEPT ![ch].start_counter = Some(n), ![ch].start_time = now]
        /\ UNCHANGED <<wheel, counter>>
    BY <1>3 DEF SetCounter
  <2>2. channel'[0] = channel[0] /\ channel'[2].timer = channel[2].timer
    BY <1>1, <1>3, <2>1 DEF Channel, ChannelState
  <2> QED
    BY <2>1, <2>2, KeepsChannel DEF TimersInv
<1>4. CASE n # 0 /\ ch = 0
  <2> DEFINE t == [timer_id |-> counter[c], periodic |-> channel[0].mode = 2,
                   started |-> now, duration |-> n]
             id == [core |-> c, timer_id |-> counter[c]]
  <2>1. /\ wheel' = [wheel EXCEPT ![c] = wheel[c] \cup {t}]
        /\ counter' = [counter EXCEPT ![c] = counter[c] + 1]
        /\ channel' = [channel EXCEPT ![ch].start_counter = Some(n), ![ch].start_time = now,
                                      ![ch].timer = Some(id)]
    BY <1>4 DEF SetCounter, register_timer, new_timer_id
  <2>2. id \in TimerId /\ id.core = c /\ id.timer_id = counter[c]
    BY DEF TimerId, TypeOK
  <2>3. /\ t.timer_id = counter[c] /\ t.duration = n /\ t.started = now
        /\ t.periodic <=> channel[0].mode = 2
    OBVIOUS
  <2> HIDE DEF t, id
  <2>4. /\ channel'[0].mode = channel[0].mode /\ channel'[0].start_counter = Some(n)
        /\ channel'[0].start_time = now /\ channel'[0].timer = Some(id)
        /\ channel'[2] = channel[2]
    BY <1>1, <1>4, <2>1 DEF Channel, ChannelState
  <2>5. Head(Some(n)) = n /\ Some(n) # None /\ Head(Some(id)) = id
    BY <2>2, OptionTypes
  <2>6. /\ counter \in [Core -> Nat]
        /\ \A d \in Core : counter'[d] = IF d = c THEN counter[c] + 1 ELSE counter[d]
        /\ \A d \in Core : wheel'[d] = IF d = c THEN wheel[c] \cup {t} ELSE wheel[d]
    BY <2>1 DEF TypeOK
  <2>7. IdsFresh'
    <3>1. \A d \in Core : \A u \in wheel[d] : u.timer_id \in Nat
      BY DEF TypeOK, RunningTimer
    <3>2. ASSUME NEW d \in Core, NEW i \in 1 .. Len(queue[d])
          PROVE  queue[d][i].timer_id \in Nat
      <4>1. queue[d] \in Seq(TimerId)
        BY DEF TypeOK
      <4>2. queue[d][i] \in TimerId
        BY <3>2, <4>1
      <4> QED
        BY <4>2 DEF TimerId
    <3>3. ASSUME NEW d \in Core
          PROVE  \A u \in wheel'[d] : u.timer_id < counter'[d]
      BY <2>3, <2>6, <3>1 DEF TimersInv, IdsFresh
    <3>4. ASSUME NEW d \in Core, NEW u \in wheel'[d], NEW v \in wheel'[d],
                 u.timer_id = v.timer_id
          PROVE  u = v
      BY <2>3, <2>6, <3>1, <3>4 DEF TimersInv, IdsFresh
    <3>5. ASSUME NEW d \in Core, NEW i \in 1 .. Len(queue'[d])
          PROVE  queue'[d][i].timer_id < counter'[d]
      BY <2>6, <3>2, <3>5 DEF TimersInv, IdsFresh
    <3> QED
      BY <3>3, <3>4, <3>5 DEF IdsFresh
  <2>8. Follows(t, channel'[0])
    <3>1. n > 0
      BY <1>4
    <3>2. now \in Nat
      BY DEF TypeOK
    <3>3. now = now + 0 * n
      BY <3>2
    <3> QED
      BY <2>3, <2>4, <2>5, <3>1, <3>3 DEF Follows
  <2>9. \A i \in 1 .. Len(queue'[c]) : queue'[c][i].timer_id # id.timer_id
    BY <2>2, <2>6 DEF TimersInv, IdsFresh
  <2>10. t \in wheel'[c] /\ id.timer_id < counter'[c] /\ t.timer_id = id.timer_id
    BY <2>2, <2>3, <2>6
  <2>11. CurrentOK(channel[0])'
    BY <2>2, <2>4, <2>5, <2>8, <2>9, <2>10 DEF CurrentOK
  <2> QED
    BY <2>4, <2>7, <2>11 DEF TimersInv
<1> QED
  BY <1>2, <1>3, <1>4 DEF Channel

\* A byte for a counter sets it, or is kept as its low byte.
LEMMA WriteCounterTimers ==
  ASSUME TypeOK, TimersInv, NEW c \in Core, NEW ch \in Channel, NEW byte \in Nat,
         WriteCounter(c, ch, byte)
  PROVE  TimersInv'
<1> DEFINE lo == channel[ch].lo_byte
<1>1. UNCHANGED <<now, queue>>
  BY DEF WriteCounter
<1>2. Radix \in Nat
  BY PitAssumption
<1>3. byte * Radix \in Nat
  BY <1>2
<1>4. CASE SetCounter(c, ch, byte) \/ SetCounter(c, ch, byte * Radix)
  BY <1>1, <1>3, <1>4, SetCounterTimers
<1>5. CASE lo # None /\ SetCounter(c, ch, byte * Radix + Head(lo))
  <2>1. Head(lo) \in Nat
    BY <1>5, OptionTypes DEF TypeOK
  <2>2. byte * Radix + Head(lo) \in Nat
    BY <1>3, <2>1
  <2> QED
    BY <1>1, <1>5, <2>2, SetCounterTimers
<1>6. CASE /\ channel' = [channel EXCEPT ![ch].lo_byte = Some(byte)]
           /\ UNCHANGED <<wheel, counter, apic>>
  <2>1. channel \in [Channel -> ChannelState]
    BY DEF TypeOK, ChannelState
  <2>2. /\ channel'[0].mode = channel[0].mode /\ channel'[0].timer = channel[0].timer
        /\ channel'[0].start_counter = channel[0].start_counter
        /\ channel'[0].start_time = channel[0].start_time
        /\ channel'[2].timer = channel[2].timer
    BY <1>6, <2>1 DEF Channel, ChannelState
  <2> QED
    BY <1>1, <1>6, <2>2, KeepsChannel DEF TimersInv
<1> QED
  BY <1>4, <1>5, <1>6 DEF WriteCounter

\* The invariant is inductive.
LEMMA NextTimers == TypeOK /\ TimersInv /\ [Next]_vars => TimersInv'
<1> SUFFICES ASSUME TypeOK, TimersInv, [Next]_vars PROVE TimersInv'
  OBVIOUS
<1>1. now \in Nat
  BY DEF TypeOK
<1>2. CASE Tick
  BY <1>1, <1>2, QuietTimers DEF Tick
<1>3. ASSUME NEW c \in Core,
             \/ TimerInterrupt(c) \/ OtherExit(c) \/ Unsupported(c)
             \/ \E ch \in Channels : WriteLatched(c, ch)
      PROVE  TimersInv'
  <2>1. UNCHANGED <<now, wheel, counter, queue, channel>>
    BY <1>3 DEF TimerInterrupt, OtherExit, Unsupported, WriteLatched
  <2> QED
    BY <1>1, <2>1, QuietTimers
<1>4. CASE UNCHANGED vars
  BY <1>1, <1>4, QuietTimers DEF vars
<1> QED
  BY <1>2, <1>3, <1>4, HandleIpcTimers, FinishTimers, ModeControlTimers,
     WriteCounterTimers, PitAssumption
  DEF Next, GuestExit, ForcedExit

LEMMA TimersInvariant == Spec => [](TypeOK /\ TimersInv)
<1>1. Init => TypeOK /\ TimersInv
  BY InitType, InitTimers
<1>2. TypeOK /\ TimersInv /\ [Next]_vars => (TypeOK /\ TimersInv)'
  BY NextType, NextTimers
<1> QED
  BY <1>1, <1>2, PTL DEF Spec

-----------------------------------------------------------------------------
(* What follows.                                                           *)

\* A cancellation that comes late, for a timer that is gone, or twice, never
\* takes the timer that the PIT has set since.
THEOREM CurrentTimerNeverCancelled == Spec => []CurrentTimerKept
<1>1. TypeOK /\ TimersInv => CurrentTimerKept
  BY DEF TimersInv, CurrentOK, CurrentTimerKept
<1> QED
  BY <1>1, TimersInvariant, PTL

\* Multiples leave no remainder.
LEMMA MultipleMod ==
  ASSUME NEW k \in Nat, NEW d \in Nat, d > 0
  PROVE  (k * d) % d = 0 /\ k * d \in Nat
<1> DEFINE q == (k * d) \div d
           r == (k * d) % d
<1>1. k * d \in Nat
  OBVIOUS
<1>2. q \in Nat /\ r \in 0 .. d - 1 /\ k * d = d * q + r
  BY <1>1
<1> HIDE DEF q, r
<1>3. CASE k > q
  <2>1. k * d >= (q + 1) * d
    BY <1>2, <1>3
  <2>2. (q + 1) * d = d * q + d
    BY <1>2
  <2> QED
    BY <1>2, <2>1, <2>2
<1>4. CASE q > k
  <2>1. d * q >= d * (k + 1)
    BY <1>2, <1>4
  <2>2. d * (k + 1) = k * d + d
    OBVIOUS
  <2> QED
    BY <1>1, <1>2, <2>1, <2>2
<1>5. CASE k = q
  <2>1. k * d = d * q
    BY <1>2, <1>5
  <2>2. r = 0
    BY <1>1, <1>2, <2>1
  <2> QED
    BY <1>1, <2>2 DEF r
<1> QED
  BY <1>2, <1>3, <1>4, <1>5

\* A periodic timer stays on the multiples of its period, however late its
\* expiries are noticed and however often.
THEOREM PeriodsNeverDrift == Spec => []NoDrift
<1>1. ASSUME TypeOK, TimersInv, NEW c \in Core, NEW t \in wheel[c], Current(c, t), t.periodic
      PROVE  (t.started - channel[0].start_time) % t.duration = 0
  <2> DEFINE id == [core |-> c, timer_id |-> t.timer_id]
  <2>1. t \in RunningTimer
    BY <1>1 DEF TypeOK
  <2>2. id \in TimerId
    BY <2>1 DEF TimerId, RunningTimer
  <2>3. Head(channel[0].timer) = id /\ channel[0].timer # None
    BY <1>1, <2>2, OptionTypes DEF Current
  <2>4. PICK u \in wheel[c] : u.timer_id = t.timer_id /\ Follows(u, channel[0])
    BY SMTT(30), <1>1, <2>3 DEF TimersInv, CurrentOK
  <2>5. u = t
    BY <1>1, <2>4 DEF TimersInv, IdsFresh
  <2>6. PICK k \in Nat : t.started = channel[0].start_time + k * t.duration
    BY <1>1, <2>4, <2>5 DEF Follows
  <2>7. t.duration \in Nat /\ t.duration > 0 /\ channel[0].start_time \in Nat
    BY <1>1, <2>1, <2>4, <2>5 DEF Follows, RunningTimer, TypeOK, Channel
  <2>8. (k * t.duration) % t.duration = 0 /\ k * t.duration \in Nat
    BY <2>7, MultipleMod
  <2>9. t.started - channel[0].start_time = k * t.duration
    BY <2>6, <2>7, <2>8
  <2> QED
    BY <2>7, <2>8, <2>9
<1>2. TypeOK /\ TimersInv => NoDrift
  BY <1>1 DEF NoDrift
<1> QED
  BY <1>2, TimersInvariant, PTL
=============================================================================
