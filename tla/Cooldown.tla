------------------------------ MODULE Cooldown ------------------------------
(***************************************************************************)
(* InMemoryCooldown (app/reply/rate_limit.py): the per-chat cooldown the   *)
(* reply worker and the live-ingest debounce each keep one instance of.    *)
(* Threads call allowed(key).  A call reads the monotonic clock first and  *)
(* takes the lock later, so calls may be decided in another order than     *)
(* their clock readings.                                                   *)
(***************************************************************************)
EXTENDS Integers

CONSTANTS
  Threads,
  Keys,         \* chats
  Window,       \* window_seconds, in ticks of the clock
  MaxTime,      \* bound of the model: the clock stops there
  Never         \* no entry in the dict

ASSUME CooldownAssumption ==
  /\ Window \in Nat
  /\ MaxTime \in Nat
  /\ Never \notin Nat

VARIABLES
  now,          \* time.monotonic()
  last,         \* _last
  call,         \* the call each thread is in: its key and its clock reading
  answer,       \* what the thread's last call returned
  granted       \* per key, the clock readings that were granted (history)

cooldownVars == <<now, last, call, answer, granted>>

Idle == [key |-> Never, ts |-> 0]

CooldownTypeOK ==
  /\ now \in Nat
  /\ last \in [Keys -> Nat \union {Never}]
  /\ call \in [Threads -> [key : Keys \union {Never}, ts : Nat]]
  /\ answer \in [Threads -> {"none", "allowed", "denied"}]
  /\ granted \in [Keys -> SUBSET Nat]

CooldownInit ==
  /\ now = 0
  /\ last = [k \in Keys |-> Never]
  /\ call = [t \in Threads |-> Idle]
  /\ answer = [t \in Threads |-> "none"]
  /\ granted = [k \in Keys |-> {}]

Tick ==
  /\ now < MaxTime
  /\ now' = now + 1
  /\ UNCHANGED <<last, call, answer, granted>>

\* ts = self._now(), outside the lock.
ReadClock(t, k) ==
  /\ call[t] = Idle
  /\ call' = [call EXCEPT ![t] = [key |-> k, ts |-> now]]
  /\ answer' = [answer EXCEPT ![t] = "none"]
  /\ UNCHANGED <<now, last, granted>>

\* Faulty TooSoon: a clock reading before the last grant is not too soon.
TooSoonAfter(k, ts) ==
  last[k] # Never /\ ts >= last[k] /\ ts - last[k] < Window

\* Inside the window of the last grant, or before it on the clock.
TooSoon(k, ts) == last[k] # Never /\ ts - last[k] < Window

\* Faulty Decide: a denied call renews the window.
DecideAndRenew(t) ==
  LET k == call[t].key  ts == call[t].ts IN
  /\ k # Never
  /\ answer[t] = "none"
  /\ last' = [last EXCEPT ![k] = ts]
  /\ IF TooSoon(k, ts)
       THEN /\ answer' = [answer EXCEPT ![t] = "denied"]
            /\ UNCHANGED granted
       ELSE /\ answer' = [answer EXCEPT ![t] = "allowed"]
            /\ granted' = [granted EXCEPT ![k] = @ \union {ts}]
  /\ UNCHANGED <<now, call>>

\* Under the lock: deny, or spend the slot.  The call returns with its clock
\* reading still known to the model, for the properties.
Decide(t) ==
  LET k == call[t].key  ts == call[t].ts IN
  /\ k # Never
  /\ answer[t] = "none"
  /\ IF TooSoon(k, ts)
       THEN /\ answer' = [answer EXCEPT ![t] = "denied"]
            /\ UNCHANGED <<last, granted>>
       ELSE /\ answer' = [answer EXCEPT ![t] = "allowed"]
            /\ last' = [last EXCEPT ![k] = ts]
            /\ granted' = [granted EXCEPT ![k] = @ \union {ts}]
  /\ UNCHANGED <<now, call>>

Return(t) ==
  /\ answer[t] # "none"
  /\ call' = [call EXCEPT ![t] = Idle]
  /\ answer' = [answer EXCEPT ![t] = "none"]
  /\ UNCHANGED <<now, last, granted>>

\* The process restarts: the dict and the calls are gone.
Restart ==
  /\ last' = [k \in Keys |-> Never]
  /\ call' = [t \in Threads |-> Idle]
  /\ answer' = [t \in Threads |-> "none"]
  /\ granted' = [k \in Keys |-> {}]
  /\ UNCHANGED now

CooldownNext ==
  \/ Tick
  \/ \E t \in Threads : Decide(t) \/ Return(t) \/ \E k \in Keys : ReadClock(t, k)
  \/ Restart

CooldownSpec == CooldownInit /\ [][CooldownNext]_cooldownVars

-----------------------------------------------------------------------------
(* Properties.                                                             *)

\* Two grants of a key, in one life of the process, are a window apart on the
\* clock, in whatever order the threads take the lock.
GrantsSpaced ==
  \A k \in Keys : \A g, h \in granted[k] : g < h => h - g >= Window

\* A call is denied only when its own key has spent its slot less than a window
\* before the call's clock reading: one chat never silences another, and a slot
\* is not lost to a call that was denied.
DenialsJustified ==
  \A t \in Threads : answer[t] = "denied" =>
    \E g \in granted[call[t].key] : call[t].ts - g < Window
=============================================================================
