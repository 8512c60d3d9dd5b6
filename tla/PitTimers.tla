----------------------------- MODULE PitTimers -----------------------------
(***************************************************************************)
(* The timers of one VM: the timer wheel of each core and the local APIC   *)
(* timer that drives it (time.rs, apic.rs), and the emulated PIT, the only *)
(* device that sets timers (virtdev/pit.rs).                               *)
(*                                                                         *)
(* The PIT belongs to the VM; a timer belongs to the core that was running *)
(* the guest when the counter was written.  A guest that reprograms the    *)
(* PIT from another core makes that core send a CancelTimer message, which *)
(* races with the timer.                                                   *)
(*                                                                         *)
(* Time passes at any point, also inside exits.  One unit of now is a tick *)
(* of the PIT; the local APIC timer counts in steps of Grain of them.      *)
(***************************************************************************)
EXTENDS Integers, Sequences, FiniteSets, FiniteSetsExt

CONSTANTS
  Core,           \* the cores of the VM
  Channels,       \* channels guests use
  Accesses,       \* access modes guests use
  Bytes,          \* bytes guests write to a counter
  Radix,          \* weight of a counter's high byte, 256 in the code
  Grain,          \* resolution of the local APIC timer
  MaxPendingMsg,  \* MAX_PENDING_MSG
  Disciplined,    \* guests program a counter once per mode control word
  MaxTime,        \* bound on the time in a behaviour
  MaxTimers       \* bound on the number of timers the guest sets

Channel == {0, 2}

AccessMode == {"LatchCount", "LoByte", "HiByte", "Word"}

ASSUME PitAssumption ==
  /\ Channels \subseteq Channel
  /\ Accesses \subseteq AccessMode
  /\ Bytes \subseteq Nat
  /\ Radix \in Nat \ {0}
  /\ Grain \in Nat \ {0}
  /\ MaxPendingMsg \in Nat \ {0}
  /\ Disciplined \in BOOLEAN
  /\ MaxTime \in Nat
  /\ MaxTimers \in Nat

VARIABLES
  now,       \* the global TimeSource
  pc,        \* "guest", "exit", or where the core stopped for good
  wheel,     \* TimerWheel.timers of each core
  counter,   \* TimerWheel.counter of each core
  apic,      \* when the local APIC timer will fire, or Stopped
  irr,       \* whether the TIMER vector is pending on each core
  queue,     \* CancelTimer messages for each core
  channel    \* Pit8254.channel0 and channel2

vars == <<now, pc, wheel, counter, apic, irr, queue, channel>>

Stopped == -1

\* Option<T> as a sequence of at most one element.
None      == <<>>
Some(x)   == <<x>>
Option(S) == {s \in Seq(S) : Len(s) <= 1}

TimerId == [core : Core, timer_id : Nat]

RunningTimer == [timer_id : Nat, periodic : BOOLEAN, started : Nat, duration : Nat]

elapses_at(t) == t.started + t.duration

\* Mutant: a periodic timer restarts when its expiry is noticed.
reset_Now(t) == [t EXCEPT !.started = now]

\* RunningTimer::reset of a periodic timer.
reset(t) == [t EXCEPT !.started = elapses_at(t)]

\* elapsed: now() - started > duration.
elapsed(t) == now - t.started > t.duration

Distance(x, y) == IF x >= y THEN x - y ELSE y - x

(***************************************************************************)
(* schedule_interrupt: when the local APIC timer will fire.  Subtracting   *)
(* instants yields their distance, the conversion to ticks rounds down,    *)
(* and a count of zero stops the timer.                                    *)
(***************************************************************************)
schedule_interrupt(when) ==
  LET count == Distance(when, now) \div Grain
  IN  IF count = 0 THEN Stopped ELSE now + count * Grain

\* update_interrupt_timer: the local APIC timer is set for the soonest timer
\* of the wheel.  An empty wheel leaves it alone.
update_interrupt_timer(old, w) ==
  IF w = {} THEN old
  ELSE LET soonest == CHOOSE t \in w : \A u \in w : elapses_at(t) <= elapses_at(u)
       IN  schedule_interrupt(elapses_at(soonest))

ResetChannel(mode, access) ==
  [mode |-> mode, access |-> access, lo_byte |-> None, start_counter |-> None,
   start_time |-> 0, timer |-> None]

Init ==
  /\ now = 0
  /\ pc = [c \in Core |-> "guest"]
  /\ wheel = [c \in Core |-> {}]
  /\ counter = [c \in Core |-> 0]
  /\ apic = [c \in Core |-> Stopped]
  /\ irr = [c \in Core |-> FALSE]
  /\ queue = [c \in Core |-> <<>>]
  /\ channel = [ch \in Channel |-> ResetChannel(0, "LoByte")]

-----------------------------------------------------------------------------
\* Time passes; a local APIC timer whose count reaches zero raises TIMER.
Tick ==
  /\ now < MaxTime
  /\ now' = now + 1
  /\ irr' = [c \in Core |-> irr[c] \/ apic[c] = now + 1]
  /\ apic' = [c \in Core |-> IF apic[c] = now + 1 THEN Stopped ELSE apic[c]]
  /\ UNCHANGED <<pc, wheel, counter, queue, channel>>

\* The core leaves the guest; the exit is finished by Finish.
Leave(c) ==
  /\ pc[c] = "guest"
  /\ pc' = [pc EXCEPT ![c] = "exit"]

\* The TIMER interrupt, whose own handling is empty.
TimerInterrupt(c) ==
  /\ Leave(c)
  /\ irr[c]
  /\ irr' = [irr EXCEPT ![c] = FALSE]
  /\ UNCHANGED <<now, wheel, counter, apic, queue, channel>>

\* Any other exit that has nothing to do with the PIT.
OtherExit(c) ==
  /\ Leave(c)
  /\ UNCHANGED <<now, wheel, counter, apic, irr, queue, channel>>

remove_timer(w, id) == {t \in w : t.timer_id # id.timer_id}

\* Mutant: messages are left in the queue until it is full.
HandleIpc_WhenFull(c) ==
  LET w == {t \in wheel[c] : \A i \in DOMAIN queue[c] : t \in remove_timer(wheel[c], queue[c][i])}
  IN
  /\ Leave(c)
  /\ Len(queue[c]) = MaxPendingMsg
  /\ queue' = [queue EXCEPT ![c] = <<>>]
  /\ wheel' = [wheel EXCEPT ![c] = w]
  /\ apic' = [apic EXCEPT ![c] = update_interrupt_timer(@, w)]
  /\ UNCHANGED <<now, counter, irr, channel>>

\* handle_ipc: every queued CancelTimer removes its timer, if it is still
\* there.
HandleIpc(c) ==
  LET w == {t \in wheel[c] : \A i \in DOMAIN queue[c] : t \in remove_timer(wheel[c], queue[c][i])}
  IN
  /\ Leave(c)
  /\ queue[c] # <<>>
  /\ queue' = [queue EXCEPT ![c] = <<>>]
  /\ wheel' = [wheel EXCEPT ![c] = w]
  /\ apic' = [apic EXCEPT ![c] = update_interrupt_timer(@, w)]
  /\ UNCHANGED <<now, counter, irr, channel>>

\* expire_elapsed_timers: expired one-shot timers are removed, expired
\* periodic ones reset, and the local APIC timer is set anew.
expire_elapsed_timers(w) ==
  {t \in w : ~elapsed(t)} \cup {reset(t) : t \in {u \in w : elapsed(u) /\ u.periodic}}

\* The end of handle_vmexit.
Finish(c) ==
  LET w == expire_elapsed_timers(wheel[c]) IN
  /\ pc[c] = "exit"
  /\ pc' = [pc EXCEPT ![c] = "guest"]
  /\ wheel' = [wheel EXCEPT ![c] = w]
  /\ apic' = [apic EXCEPT ![c] = update_interrupt_timer(@, w)]
  /\ UNCHANGED <<now, counter, irr, queue, channel>>

-----------------------------------------------------------------------------
(* Pit8254::on_port_write                                                  *)

\* Mutant: the message is sent whether or not there is room for it.
cancel_timer_Unbounded(c, id) ==
  /\ id.core # c
  /\ queue' = [queue EXCEPT ![id.core] = Append(@, id)]
  /\ UNCHANGED <<wheel, apic>>

(***************************************************************************)
(* cancel_timer: a timer of this core is removed at once, for another      *)
(* core's a message is sent.  on_port_write ignores the error of a full    *)
(* queue.                                                                  *)
(***************************************************************************)
cancel_timer(c, id) ==
  \/ /\ id.core = c
     /\ LET w == remove_timer(wheel[c], id) IN
          /\ wheel' = [wheel EXCEPT ![c] = w]
          /\ apic' = [apic EXCEPT ![c] = update_interrupt_timer(@, w)]
     /\ UNCHANGED queue
  \/ /\ id.core # c
     /\ queue' = IF Len(queue[id.core]) < MaxPendingMsg
                 THEN [queue EXCEPT ![id.core] = Append(@, id)] ELSE queue
     /\ UNCHANGED <<wheel, apic>>

\* Mutant: the channel is reset without stopping its timer.
ModeControl_NoCancel(c, ch, mode, access) ==
  /\ Leave(c)
  /\ channel' = [channel EXCEPT ![ch] = ResetChannel(mode, access)]
  /\ UNCHANGED <<now, counter, irr, wheel, apic, queue>>

\* A mode control word: stop the channel's timer and reset the channel.
ModeControl(c, ch, mode, access) ==
  /\ Leave(c)
  /\ channel' = [channel EXCEPT ![ch] = ResetChannel(mode, access)]
  /\ \/ channel[ch].timer = None /\ UNCHANGED <<wheel, apic, queue>>
     \/ channel[ch].timer # None /\ cancel_timer(c, Head(channel[ch].timer))
  /\ UNCHANGED <<now, counter, irr>>

\* BCD mode, other operating modes and channel 1 are errors, and an error
\* stops the core.
Unsupported(c) ==
  /\ ~Disciplined
  /\ pc[c] = "guest"
  /\ pc' = [pc EXCEPT ![c] = "panic"]
  /\ UNCHANGED <<now, wheel, counter, apic, irr, queue, channel>>

\* Mutant: timer ids count the running timers.
new_timer_id_Reuse(c) == Cardinality(wheel[c])

\* The id register_timer gives to a timer.
new_timer_id(c) == counter[c]

\* register_timer of set_oneshot_timer and set_periodic_timer.
register_timer(c, periodic, duration) ==
  LET t == [timer_id |-> new_timer_id(c), periodic |-> periodic, started |-> now,
            duration |-> duration]
  IN
  /\ wheel' = [wheel EXCEPT ![c] = @ \cup {t}]
  /\ counter' = [counter EXCEPT ![c] = @ + 1]
  /\ apic' = [apic EXCEPT ![c] = update_interrupt_timer(@, wheel[c] \cup {t})]

TimersSet == MapThenSumSet(LAMBDA c : counter[c], Core)

(***************************************************************************)
(* A counter gets the value n.  Zero is ignored.  Only channel 0 has       *)
(* timers: a one-shot one in mode 0 and a periodic one in mode 2.          *)
(***************************************************************************)
SetCounter(c, ch, n) ==
  \/ /\ n = 0
     /\ UNCHANGED <<wheel, counter, apic, channel>>
  \/ /\ n # 0
     /\ ch = 0
     /\ TimersSet < MaxTimers
     /\ register_timer(c, channel[ch].mode = 2, n)
     /\ channel' = [channel EXCEPT ![ch].start_counter = Some(n), ![ch].start_time = now,
                                   ![ch].timer = Some([core |-> c, timer_id |-> new_timer_id(c)])]
  \/ /\ n # 0
     /\ ch = 2
     /\ channel' = [channel EXCEPT ![ch].start_counter = Some(n), ![ch].start_time = now]
     /\ UNCHANGED <<wheel, counter, apic>>

\* What a guest that programs its counters by the book refrains from.
MayWriteCounter(ch) ==
  Disciplined => channel[ch].start_counter = None /\ channel[ch].access # "LatchCount"

\* A byte written to a counter.  In word access the first byte is kept as
\* the low one, and stays the low one for all that follow.
WriteCounter(c, ch, byte) ==
  LET access == channel[ch].access
      lo     == channel[ch].lo_byte
  IN
  /\ MayWriteCounter(ch)
  /\ access # "LatchCount"
  /\ Leave(c)
  /\ \/ access = "LoByte" /\ SetCounter(c, ch, byte)
     \/ access = "HiByte" /\ SetCounter(c, ch, byte * Radix)
     \/ access = "Word" /\ lo # None /\ SetCounter(c, ch, byte * Radix + Head(lo))
     \/ /\ access = "Word" /\ lo = None
        /\ channel' = [channel EXCEPT ![ch].lo_byte = Some(byte)]
        /\ UNCHANGED <<wheel, counter, apic>>
  /\ UNCHANGED <<now, irr, queue>>

\* A byte written to a counter whose count was latched: the match on the
\* access mode has no arm for it.
WriteLatched(c, ch) ==
  /\ MayWriteCounter(ch)
  /\ channel[ch].access = "LatchCount"
  /\ pc[c] = "guest"
  /\ pc' = [pc EXCEPT ![c] = "unreachable"]
  /\ UNCHANGED <<now, wheel, counter, apic, irr, queue, channel>>

-----------------------------------------------------------------------------
GuestExit(c) ==
  \/ OtherExit(c)
  \/ Unsupported(c)
  \/ \E ch \in Channels :
       \/ \E mode \in {0, 2}, access \in Accesses : ModeControl(c, ch, mode, access)
       \/ \E byte \in Bytes : WriteCounter(c, ch, byte)
       \/ WriteLatched(c, ch)

ForcedExit(c) == TimerInterrupt(c) \/ HandleIpc(c)

Next ==
  \/ Tick
  \/ \E c \in Core : GuestExit(c) \/ ForcedExit(c) \/ Finish(c)

Spec == Init /\ [][Next]_vars

-----------------------------------------------------------------------------
(* Properties                                                              *)

\* The shape of the state.
TypeOK ==
  /\ now \in Nat
  /\ pc \in [Core -> {"guest", "exit", "panic", "unreachable"}]
  /\ wheel \in [Core -> SUBSET RunningTimer]
  /\ counter \in [Core -> Nat]
  /\ apic \in [Core -> Nat \cup {Stopped}]
  /\ irr \in [Core -> BOOLEAN]
  /\ queue \in [Core -> Seq(TimerId)]
  /\ \A c \in Core : Len(queue[c]) <= MaxPendingMsg
  /\ channel \in [Channel -> [mode : {0, 2}, access : AccessMode, lo_byte : Option(Nat),
                             start_counter : Option(Nat), start_time : Nat,
                             timer : Option(TimerId)]]

Current(c, t) == channel[0].timer = Some([core |-> c, timer_id |-> t.timer_id])

Cancelled(c, t) == \E i \in 1 .. Len(queue[c]) : queue[c][i].timer_id = t.timer_id

\* The timer the PIT refers to is never cancelled by mistake: it is in its
\* wheel, unless it is a one-shot timer whose time is over.  Cancellations
\* arrive late, from other cores and for timers that are gone, and the ids
\* must keep them apart from the timer set since.
CurrentTimerKept ==
  channel[0].timer # None =>
    LET id == Head(channel[0].timer) IN
      \/ \E t \in wheel[id.core] : t.timer_id = id.timer_id
      \/ /\ channel[0].mode = 0
         /\ now > channel[0].start_time + Head(channel[0].start_counter)

\* A periodic timer does not drift, however late its expiries are noticed:
\* it stays on the multiples of its period.
NoDrift ==
  \A c \in Core : \A t \in wheel[c] : Current(c, t) /\ t.periodic =>
    (t.started - channel[0].start_time) % t.duration = 0

\* "Stop any running timers": every timer in a wheel is the PIT's current one
\* or has its cancellation on the way.
NoStrayTimer ==
  \A c \in Core : \A t \in wheel[c] : Current(c, t) \/ Cancelled(c, t)

\* "generate an interrupt ... at the requested time": a guest never runs with
\* a timer in the wheel of its core and nothing to wake the core for it.
TimerArmed ==
  \A c \in Core :
    pc[c] = "guest" /\ wheel[c] # {} => irr[c] \/ apic[c] # Stopped

\* unreachable!(): no write to a counter finds it in latch mode.
NeverUnreachable == \A c \in Core : pc[c] # "unreachable"

\* Exits end, and a core that keeps entering its guest takes the interrupt
\* that tells it of its messages: one that is pending at a VM entry ends the
\* guest's run at once.
Fairness == \A c \in Core : SF_vars(HandleIpc(c)) /\ WF_vars(Finish(c))

FairSpec == Spec /\ Fairness

\* Every CancelTimer takes effect: a timer that has been replaced while it
\* was running on another core does not stay in that core's wheel for ever.
CancelTakesEffect ==
  \A c \in Core, n \in 0 .. MaxTimers :
    (\E t \in wheel[c] : t.timer_id = n /\ Cancelled(c, t))
      ~> ~(\E t \in wheel[c] : t.timer_id = n)
=============================================================================
