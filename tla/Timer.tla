-------------------------------- MODULE Timer --------------------------------
(***************************************************************************)
(* The hypervisor's timers, kernel/src/vmm/timer.rs: a list for each CPU,  *)
(* reached only from that CPU, and one counter of tokens for all.  A vCPU  *)
(* that exits for an external interrupt checks the list of its CPU         *)
(* (kernel/src/vmm/vcpus.rs); nothing else does.                           *)
(*                                                                         *)
(* armed is a history variable: the registrations in their order, with the *)
(* CPU, the token, the deadline and what became of each.  An event carries *)
(* the number of its registration.  strays is another: the registrations   *)
(* that were cancelled on a CPU other than their own.                      *)
(***************************************************************************)
EXTENDS Integers, Sequences

CONSTANTS CPU_COUNT,  \* the value of cpu_count()
          MaxTimers,  \* bound on the registrations
          MaxTime     \* bound on the clock and the deadlines

CPUS == 0 .. CPU_COUNT - 1

ASSUME TimerAssumption == CPU_COUNT \in Nat \ {0} /\ MaxTimers \in Nat /\ MaxTime \in Nat

NotChecking == -1

VARIABLES TOKEN,
          TIMER_LIST,  \* the events of each CPU that has called init_once
          now,         \* the clock
          checking,    \* for each CPU the time check_events read last
          guest,       \* the CPUs on which a vCPU runs
          armed,
          strays

timerVars == <<TOKEN, TIMER_LIST, now, checking, guest, armed, strays>>

TimerInit ==
    /\ TOKEN = 0
    /\ TIMER_LIST = << >>
    /\ now = 0
    /\ checking = [c \in CPUS |-> NotChecking]
    /\ guest = {}
    /\ armed = << >> /\ strays = {}

\* init_once panics when the list is there already.
init_percpu(c) ==
    /\ c \notin DOMAIN TIMER_LIST
    /\ TIMER_LIST' = [d \in DOMAIN TIMER_LIST \cup {c} |-> IF d = c THEN {} ELSE TIMER_LIST[d]]

\* Mutant: the counter is read and not advanced.
register_timer_SameToken(c, deadline, list) ==
    /\ TIMER_LIST' = [TIMER_LIST EXCEPT ![c] = list \cup
                        {[token |-> TOKEN, deadline |-> deadline, id |-> Len(armed) + 1]}]
    /\ TOKEN' = TOKEN

\* Mutant: all timers go to the list of one CPU.
register_timer_OneList(c, deadline, list) ==
    LET one == CHOOSE d \in CPUS : TRUE
        event == [token |-> TOKEN, deadline |-> deadline, id |-> Len(armed) + 1]
    IN  /\ TIMER_LIST' = [TIMER_LIST EXCEPT ![c] = list, ![one] = (IF one = c THEN list ELSE @) \cup {event}]
        /\ TOKEN' = TOKEN + 1

\* On the CPU the caller runs on, whose events are list.
register_timer(c, deadline, list) ==
    /\ TIMER_LIST' = [TIMER_LIST EXCEPT ![c] = list \cup
                        {[token |-> TOKEN, deadline |-> deadline, id |-> Len(armed) + 1]}]
    /\ TOKEN' = TOKEN + 1

Registration(c, deadline) == [cpu |-> c, token |-> TOKEN, deadline |-> deadline, state |-> "armed", fires |-> 0]

\* A vCPU on c: the emulated device that registers a timer.
Register(c) ==
    /\ c \in guest /\ checking[c] = NotChecking
    /\ Len(armed) < MaxTimers
    /\ \E deadline \in 0 .. MaxTime :
         /\ register_timer(c, deadline, TIMER_LIST[c])
         /\ armed' = Append(armed, Registration(c, deadline))
    /\ UNCHANGED <<now, checking, guest, strays>>

\* Any token that was given out, on any CPU: only the list of the CPU is searched.
cancel_timer(c) ==
    /\ c \in guest /\ checking[c] = NotChecking
    /\ \E n \in 1 .. Len(armed) :
         LET gone == {e \in TIMER_LIST[c] : e.token = armed[n].token}
         IN  /\ TIMER_LIST' = [TIMER_LIST EXCEPT ![c] = @ \ gone]
             /\ armed' = IF armed[n].cpu = c /\ armed[n].state = "armed"
                         THEN [armed EXCEPT ![n].state = "cancelled"] ELSE armed
             /\ strays' = IF armed[n].cpu # c /\ armed[n].state = "armed" THEN strays \cup {n} ELSE strays
    /\ UNCHANGED <<TOKEN, now, checking, guest>>

\* The exit for an external interrupt: the first round of the loop reads the clock.
check_events(c) ==
    /\ c \in guest /\ checking[c] = NotChecking
    /\ checking' = [checking EXCEPT ![c] = now]
    /\ UNCHANGED <<TOKEN, TIMER_LIST, now, guest, armed, strays>>

\* external: TimerList::expire_one takes an event with the earliest deadline.
expire_one(list, time) ==
    {e \in list : e.deadline <= time /\ \A f \in list : e.deadline <= f.deadline}

Ran(r) == [r EXCEPT !.state = "fired", !.fires = @ + 1]
Fired(n) == [armed EXCEPT ![n] = Ran(armed[n])]

\* A round of the loop with an event: the lock is free again, and the callback may
\* register another timer.
RunCallback(c) ==
    /\ checking[c] # NotChecking
    /\ \E e \in expire_one(TIMER_LIST[c], checking[c]) :
         \/ /\ TIMER_LIST' = [TIMER_LIST EXCEPT ![c] = @ \ {e}]
            /\ armed' = Fired(e.id)
            /\ UNCHANGED TOKEN
         \/ \E deadline \in 0 .. MaxTime :
              /\ Len(armed) < MaxTimers
              /\ register_timer(c, deadline, TIMER_LIST[c] \ {e})
              /\ armed' = Append(Fired(e.id), Registration(c, deadline))
    /\ checking' = [checking EXCEPT ![c] = now]
    /\ UNCHANGED <<now, guest, strays>>

\* No event is due at the time read: the loop ends.
EndCheck(c) ==
    /\ checking[c] # NotChecking
    /\ expire_one(TIMER_LIST[c], checking[c]) = {}
    /\ checking' = [checking EXCEPT ![c] = NotChecking]
    /\ UNCHANGED <<TOKEN, TIMER_LIST, now, guest, armed, strays>>

\* A vCPU halts and waits, and the last one of its CPU with it; or one is woken.
HaltVcpu(c) ==
    /\ c \in guest /\ checking[c] = NotChecking
    /\ guest' = guest \ {c}
    /\ UNCHANGED <<TOKEN, TIMER_LIST, now, checking, armed, strays>>

RunVcpu(c) ==
    /\ c \notin guest
    /\ guest' = guest \cup {c}
    /\ UNCHANGED <<TOKEN, TIMER_LIST, now, checking, armed, strays>>

\* external: the clock.
Tick ==
    /\ now < MaxTime
    /\ now' = now + 1
    /\ UNCHANGED <<TOKEN, TIMER_LIST, checking, guest, armed, strays>>

Check(c) == check_events(c) \/ RunCallback(c) \/ EndCheck(c)

TimerStep(c) == Register(c) \/ cancel_timer(c) \/ Check(c) \/ HaltVcpu(c) \/ RunVcpu(c)

\* A timer is in the list of the CPU it was registered on, and in no other, until
\* it fires, once and not early, or is cancelled there; a cancel of another timer
\* does nothing to it.  Of a timer that was cancelled on another CPU it says only
\* that it fires once at most, and not early: the code leaves it armed, and its
\* comments promise that it is cancelled.
TimersExact ==
    \A n \in 1 .. Len(armed) :
      /\ \A c \in DOMAIN TIMER_LIST :
           /\ (\E e \in TIMER_LIST[c] : e.id = n) => (c = armed[n].cpu /\ armed[n].state = "armed")
           /\ (c = armed[n].cpu /\ armed[n].state = "armed" /\ n \notin strays) =>
                \E e \in TIMER_LIST[c] : e.id = n
           /\ \A e \in TIMER_LIST[c] : e.id = n => e.token = armed[n].token /\ e.deadline = armed[n].deadline
      /\ armed[n].fires = IF armed[n].state = "fired" THEN 1 ELSE 0
      /\ armed[n].state = "fired" => armed[n].deadline <= now
=============================================================================
