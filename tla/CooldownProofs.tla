--------------------------- MODULE CooldownProofs ---------------------------
(***************************************************************************)
(* The cooldown keeps its promise for any number of threads and keys and   *)
(* any window.                                                             *)
(***************************************************************************)
EXTENDS Cooldown, TLAPS

\* The entry of a key is its latest grant; without an entry there was none.
LastIsLatest ==
  \A k \in Keys :
    /\ last[k] = Never => granted[k] = {}
    /\ last[k] # Never => last[k] \in granted[k]
    /\ \A g \in granted[k] : last[k] # Never /\ g <= last[k]

\* A call that was answered still names its key.
AnsweredHasKey == \A t \in Threads : answer[t] # "none" => call[t].key \in Keys

IInv == CooldownTypeOK /\ LastIsLatest /\ AnsweredHasKey /\ GrantsSpaced /\ DenialsJustified

\* A process starts without a cooldown.
LEMMA InvInit == CooldownInit => IInv
  BY CooldownAssumption
  DEF CooldownInit, IInv, CooldownTypeOK, LastIsLatest, AnsweredHasKey, GrantsSpaced,
      DenialsJustified, Idle

\* Every step keeps the invariant.
LEMMA InvStep == IInv /\ [CooldownNext]_cooldownVars => IInv'
<1> SUFFICES ASSUME IInv, [CooldownNext]_cooldownVars PROVE IInv'
  OBVIOUS
<1> USE CooldownAssumption DEF IInv, CooldownTypeOK
<1>1. CASE Tick
  BY <1>1 DEF Tick, LastIsLatest, AnsweredHasKey, GrantsSpaced, DenialsJustified
<1>2. ASSUME NEW t \in Threads, NEW k \in Keys, ReadClock(t, k) PROVE IInv'
  BY <1>2 DEF ReadClock, LastIsLatest, AnsweredHasKey, GrantsSpaced, DenialsJustified
<1>3. ASSUME NEW t \in Threads, Decide(t) PROVE IInv'
  <2> DEFINE k == call[t].key
             ts == call[t].ts
  <2>0. k \in Keys /\ ts \in Nat
    BY <1>3 DEF Decide
  <2>1. CooldownTypeOK'
    BY <1>3, <2>0 DEF Decide
  <2>2. AnsweredHasKey'
    BY <1>3, <2>0 DEF Decide, AnsweredHasKey
  <2>3. CASE TooSoon(k, ts)
    <3>1. UNCHANGED <<last, granted, call>> /\ answer' = [answer EXCEPT ![t] = "denied"]
      BY <1>3, <2>3 DEF Decide
    <3>2. (LastIsLatest /\ GrantsSpaced)'
      BY <3>1 DEF LastIsLatest, GrantsSpaced
    <3>3. last[k] \in granted[k] /\ ts - last[k] < Window
      BY <2>0, <2>3 DEF TooSoon, LastIsLatest
    <3>4. DenialsJustified'
      BY <3>1, <3>3 DEF DenialsJustified
    <3>5. QED
      BY <2>1, <2>2, <3>2, <3>4
  <2>4. CASE ~ TooSoon(k, ts)
    <3>1. /\ UNCHANGED call
          /\ answer' = [answer EXCEPT ![t] = "allowed"]
          /\ last' = [last EXCEPT ![k] = ts]
          /\ granted' = [granted EXCEPT ![k] = granted[k] \union {ts}]
      BY <1>3, <2>4 DEF Decide
    <3>2. \A g \in granted[k] : g + Window <= ts
      BY <2>0, <2>4 DEF TooSoon, LastIsLatest
    <3>3. (LastIsLatest /\ GrantsSpaced)'
      BY <2>0, <3>1, <3>2 DEF LastIsLatest, GrantsSpaced
    <3>4. DenialsJustified'
      BY <2>0, <3>1 DEF DenialsJustified, AnsweredHasKey
    <3>5. QED
      BY <2>1, <2>2, <3>3, <3>4
  <2>5. QED
    BY <2>3, <2>4
<1>4. ASSUME NEW t \in Threads, Return(t) PROVE IInv'
  BY <1>4 DEF Return, Idle, LastIsLatest, AnsweredHasKey, GrantsSpaced, DenialsJustified
<1>5. CASE Restart
  BY <1>5 DEF Restart, Idle, LastIsLatest, AnsweredHasKey, GrantsSpaced, DenialsJustified
<1>6. CASE UNCHANGED cooldownVars
  BY <1>6 DEF cooldownVars, LastIsLatest, AnsweredHasKey, GrantsSpaced, DenialsJustified
<1>7. QED
  BY <1>1, <1>2, <1>3, <1>4, <1>5, <1>6 DEF CooldownNext

\* Grants of a chat are a window apart.
THEOREM CooldownSpacing == CooldownSpec => []GrantsSpaced
<1>1. IInv => GrantsSpaced
  BY DEF IInv
<1>2. QED
  BY <1>1, InvInit, InvStep, PTL DEF CooldownSpec

\* A denial is always owed to a recent grant of the same chat.
THEOREM CooldownExact == CooldownSpec => []DenialsJustified
<1>1. IInv => DenialsJustified
  BY DEF IInv
<1>2. QED
  BY <1>1, InvInit, InvStep, PTL DEF CooldownSpec
=============================================================================
