----------------------------- MODULE ReplyProofs -----------------------------
(***************************************************************************)
(* What holds of the replies of a chat for any number of messages of any   *)
(* kinds, any settings and any faults.  Each property has an invariant of  *)
(* its own that says where a task must have come from: nothing was sent    *)
(* before "done", a command stays on its own path, the running cooldown    *)
(* has an owner, and a missing alias goes back to a vain lookup.           *)
(***************************************************************************)
EXTENDS Reply, TLAPS

\* Sending is the last thing a task does.
UnsentUntilDone == \A t \in Tasks : task[t] # "done" => sent[t] = <<>>

\* One text at most, be it an apology.
OneText == \A t \in Tasks : Len(sent[t]) <= 1

\* A command is never asked like a question; the row it read is one the setting
\* has held, it got there past the lockdown, and no task sends before it has a text.
Path(t) ==
  /\ Kind[t] \in Commands => task[t] \in {"idle", "queued", "toggling", "sending"} \union Ended
  /\ task[t] = "toggling" => /\ Kind[t] \in Commands
                             /\ read[t] \in held[t]
                             /\ Restricted => t \notin Untrusted
  /\ task[t] \in {"idle", "queued", "toggling"} => text[t] = ""
  /\ task[t] = "sending" => text[t] # ""

CommandsApart == \A t \in Tasks : Path(t)

\* Only questions come to the cooldown, and one that was granted has armed it.
Granted(u) ==
  /\ Kind[u] \in {"dm", "mention"}
  /\ task[u] \in {"granted", "answering", "bantering", "sending", "done", "lost"}

ArmedByAQuestion ==
  /\ \A t \in Tasks : task[t] = "triggered" => Kind[t] \in {"dm", "mention"}
  /\ cooling => \E u \in Tasks : Granted(u)

\* A task asks WAHA once; the lid is missing only after somebody asked in vain.
ToldNoLid(u) == me[u] # NotRead /\ "lid" \notin me[u]
Vain == \E u \in Tasks : ToldNoLid(u)

LidUnlessVain ==
  /\ \A t \in Tasks : task[t] \in {"idle", "queued", "asking"} => me[t] = NotRead
  /\ \A t \in Tasks : task[t] = "learning" => me[t] # NotRead
  /\ cache # NotRead /\ "lid" \notin cache => Vain
  /\ \A t \in Tasks : task[t] = "identified" /\ "lid" \notin aliases[t] => Vain

\* The ranges of task and of the chat's row.
Phases == {"idle"} \union Running \union Ended
Values == {"none", "on", "off"}

\* The inductive invariant.
RInv ==
  /\ ReplyTypeOK
  /\ UnsentUntilDone
  /\ OneText
  /\ CommandsApart
  /\ ConfirmedWasStored
  /\ ArmedByAQuestion
  /\ LimitedBehindAQuestion
  /\ LidUnlessVain
  /\ IgnoredAfterVainLookup

-----------------------------------------------------------------------------

\* Nothing has started, so every part holds of the initial states.
LEMMA InitRInv == ReplyInit => RInv
<1> SUFFICES ASSUME ReplyInit PROVE RInv
  OBVIOUS
<1>1. ReplyTypeOK
  <2>1. task \in [Tasks -> Phases]
    BY DEF ReplyInit, Phases
  <2>2. paired \in BOOLEAN
    BY ReplyAssumption DEF ReplyInit
  <2>3. cache \in (SUBSET Both) \union {NotRead}
    BY DEF ReplyInit
  <2>4. me \in [Tasks -> (SUBSET Both) \union {NotRead}]
    BY DEF ReplyInit
  <2>5. aliases \in [Tasks -> SUBSET Both]
    BY DEF ReplyInit
  <2>6. cooling \in BOOLEAN
    BY DEF ReplyInit
  <2>7. setting \in Values
    BY DEF ReplyInit, Values
  <2>8. read \in [Tasks -> Values]
    BY DEF ReplyInit, Values
  <2>9. text \in [Tasks -> Texts \union {""}]
    BY DEF ReplyInit
  <2>10. sent \in [Tasks -> Seq(Texts)]
    <3>1. <<>> \in Seq(Texts)
      OBVIOUS
    <3> QED
      BY <3>1 DEF ReplyInit
  <2>11. held \in [Tasks -> SUBSET Values]
    BY DEF ReplyInit, Values
  <2> QED
    BY <2>1, <2>2, <2>3, <2>4, <2>5, <2>6, <2>7, <2>8, <2>9, <2>10, <2>11
       DEF ReplyTypeOK, Phases, Values
<1>2. \A t \in Tasks : sent[t] = <<>> /\ task[t] = "idle" /\ text[t] = "" /\ me[t] = NotRead
  BY DEF ReplyInit
<1>3. UnsentUntilDone /\ OneText
  <2>1. Len(<<>>) <= 1
    OBVIOUS
  <2>2. \A t \in Tasks : Len(sent[t]) <= 1
    BY <1>2, <2>1
  <2> QED
    BY <1>2, <2>2 DEF UnsentUntilDone, OneText
<1>4. CommandsApart /\ ConfirmedWasStored
  BY <1>2 DEF CommandsApart, Path, ConfirmedWasStored
<1>5. ArmedByAQuestion /\ LimitedBehindAQuestion
  BY <1>2 DEF ReplyInit, ArmedByAQuestion, LimitedBehindAQuestion
<1>6. LidUnlessVain /\ IgnoredAfterVainLookup
  BY <1>2 DEF ReplyInit, LidUnlessVain, IgnoredAfterVainLookup
<1> QED
  BY <1>1, <1>3, <1>4, <1>5, <1>6 DEF RInv

\* Each step keeps the types; a command stores only "on" or "off", and only a
\* composed text is sent.
LEMMA TypeStep ==
  ASSUME ReplyTypeOK, CommandsApart, LidUnlessVain, [ReplyNext]_replyVars
  PROVE  ReplyTypeOK'
<1>task. task \in [Tasks -> Phases]
  BY DEF ReplyTypeOK, Phases
<1>paired. paired \in BOOLEAN
  BY DEF ReplyTypeOK
<1>cache. cache \in (SUBSET Both) \union {NotRead}
  BY DEF ReplyTypeOK
<1>me. me \in [Tasks -> (SUBSET Both) \union {NotRead}]
  BY DEF ReplyTypeOK
<1>aliases. aliases \in [Tasks -> SUBSET Both]
  BY DEF ReplyTypeOK
<1>cooling. cooling \in BOOLEAN
  BY DEF ReplyTypeOK
<1>setting. setting \in Values
  BY DEF ReplyTypeOK, Values
<1>read. read \in [Tasks -> Values]
  BY DEF ReplyTypeOK, Values
<1>text. text \in [Tasks -> Texts \union {""}]
  BY DEF ReplyTypeOK
<1>sent. sent \in [Tasks -> Seq(Texts)]
  BY DEF ReplyTypeOK
<1>held. held \in [Tasks -> SUBSET Values]
  BY DEF ReplyTypeOK, Values
<1>1. ASSUME NEW t \in Tasks, Start(t) PROVE ReplyTypeOK'
  <2>1. task' \in [Tasks -> Phases]
    BY <1>1, <1>task DEF Start, MoveTo, Phases, Running, Ended
  <2>2. UNCHANGED <<paired, cache, me, aliases, cooling, setting, read, text, sent, held>>
    BY <1>1 DEF Start, identity, settings
  <2> QED
    BY <2>1, <2>2, <1>paired, <1>cache, <1>me, <1>aliases, <1>cooling, <1>setting,
       <1>read, <1>text, <1>sent, <1>held DEF ReplyTypeOK, Phases, Values
<1>2. ASSUME NEW t \in Tasks, HandleCommand(t) PROVE ReplyTypeOK'
  <2>1. task' \in [Tasks -> Phases]
    BY <1>2, <1>task DEF HandleCommand, MoveTo, Phases, Running, Ended
  <2>2. read' \in [Tasks -> Values]
    BY <1>2, <1>read, <1>setting DEF HandleCommand, Values
  <2>3. held' \in [Tasks -> SUBSET Values]
    BY <1>2, <1>held, <1>setting DEF HandleCommand, Values, Commands
  <2>4. UNCHANGED <<paired, cache, me, aliases, cooling, setting, text, sent>>
    BY <1>2 DEF HandleCommand, identity, settings
  <2> QED
    BY <2>1, <2>2, <2>3, <2>4, <1>paired, <1>cache, <1>me, <1>aliases, <1>cooling,
       <1>setting, <1>text, <1>sent DEF ReplyTypeOK, Phases, Values
<1>3. ASSUME NEW t \in Tasks, CommitCommand(t) PROVE ReplyTypeOK'
  <2>1. Kind[t] \in Commands
    BY <1>3 DEF CommitCommand, CommandsApart, Path
  <2>2. task' \in [Tasks -> Phases]
    BY <1>3, <1>task DEF CommitCommand, MoveTo, Phases, Running, Ended
  <2>3. setting' \in Values
    BY <1>3, <1>setting, <2>1 DEF CommitCommand, Values, Commands
  <2>4. held' \in [Tasks -> SUBSET Values]
    BY <1>3, <1>held, <2>1, <1>setting DEF CommitCommand, Values, Commands
  <2>5. text' \in [Tasks -> Texts \union {""}]
    BY <1>3, <1>text, <2>1 DEF CommitCommand, Texts, Commands
  <2>6. UNCHANGED <<paired, cache, me, aliases, cooling, read, sent>>
    BY <1>3 DEF CommitCommand, identity, settings
  <2> QED
    BY <2>2, <2>3, <2>4, <2>5, <2>6, <1>paired, <1>cache, <1>me, <1>aliases, <1>cooling,
       <1>read, <1>sent DEF ReplyTypeOK, Phases, Values
<1>4. ASSUME NEW t \in Tasks, UseCachedIdentity(t) PROVE ReplyTypeOK'
  <2>1. task' \in [Tasks -> Phases]
    BY <1>4, <1>task DEF UseCachedIdentity, MoveTo, Phases, Running, Ended
  <2>2. aliases' \in [Tasks -> SUBSET Both]
    BY <1>4, <1>aliases, <1>cache DEF UseCachedIdentity, NotRead
  <2>3. UNCHANGED <<paired, cache, me, cooling, setting, read, text, sent, held>>
    BY <1>4 DEF UseCachedIdentity, identity, settings
  <2> QED
    BY <2>1, <2>2, <2>3, <1>paired, <1>cache, <1>me, <1>cooling, <1>setting, <1>read,
       <1>text, <1>sent, <1>held DEF ReplyTypeOK, Phases, Values
<1>5. ASSUME NEW t \in Tasks, AskWaha(t) PROVE ReplyTypeOK'
  <2>1. task' \in [Tasks -> Phases]
    BY <1>5, <1>task DEF AskWaha, MoveTo, Phases, Running, Ended
  <2>2. me' \in [Tasks -> (SUBSET Both) \union {NotRead}]
    BY <1>5, <1>me DEF AskWaha
  <2>3. UNCHANGED <<paired, cache, aliases, cooling, setting, read, text, sent, held>>
    BY <1>5 DEF AskWaha, identity, settings
  <2> QED
    BY <2>1, <2>2, <2>3, <1>paired, <1>cache, <1>aliases, <1>cooling, <1>setting, <1>read,
       <1>text, <1>sent, <1>held DEF ReplyTypeOK, Phases, Values
<1>6. ASSUME NEW t \in Tasks, Learn(t) PROVE ReplyTypeOK'
  <2>1. me[t] \union (IF Configured THEN {"phone"} ELSE {}) \in SUBSET Both
    <3>1. me[t] \in SUBSET Both
      BY <1>6, <1>me DEF Learn, LidUnlessVain
    <3> QED
      BY <3>1 DEF Both
  <2>2. task' \in [Tasks -> Phases]
    BY <1>6, <1>task DEF Learn, MoveTo, Phases, Running, Ended
  <2>3. cache' \in (SUBSET Both) \union {NotRead}
    BY <1>6, <1>cache, <2>1 DEF Learn
  <2>4. aliases' \in [Tasks -> SUBSET Both]
    BY <1>6, <1>aliases, <2>1 DEF Learn
  <2>5. UNCHANGED <<paired, me, cooling, setting, read, text, sent, held>>
    BY <1>6 DEF Learn, identity, settings
  <2> QED
    BY <2>2, <2>3, <2>4, <2>5, <1>paired, <1>me, <1>cooling, <1>setting, <1>read, <1>text,
       <1>sent, <1>held DEF ReplyTypeOK, Phases, Values
<1>7. ASSUME NEW t \in Tasks, Detect(t) PROVE ReplyTypeOK'
  <2>1. task' \in [Tasks -> Phases]
    BY <1>7, <1>task DEF Detect, MoveTo, Phases, Running, Ended
  <2>2. text' \in [Tasks -> Texts \union {""}]
    BY <1>7, <1>text DEF Detect, Texts
  <2>3. UNCHANGED <<paired, cache, me, aliases, cooling, setting, read, sent, held>>
    BY <1>7 DEF Detect, identity, settings
  <2> QED
    BY <2>1, <2>2, <2>3, <1>paired, <1>cache, <1>me, <1>aliases, <1>cooling, <1>setting,
       <1>read, <1>sent, <1>held DEF ReplyTypeOK, Phases, Values
<1>8. ASSUME NEW t \in Tasks, SpendCooldown(t) PROVE ReplyTypeOK'
  <2>1. task' \in [Tasks -> Phases]
    BY <1>8, <1>task DEF SpendCooldown, MoveTo, Phases, Running, Ended
  <2>2. cooling' \in BOOLEAN
    BY <1>8, <1>cooling DEF SpendCooldown
  <2>3. UNCHANGED <<paired, cache, me, aliases, setting, read, text, sent, held>>
    BY <1>8 DEF SpendCooldown, identity, settings
  <2> QED
    BY <2>1, <2>2, <2>3, <1>paired, <1>cache, <1>me, <1>aliases, <1>setting, <1>read,
       <1>text, <1>sent, <1>held DEF ReplyTypeOK, Phases, Values
<1>9. ASSUME NEW t \in Tasks, ReadMode(t) PROVE ReplyTypeOK'
  <2>1. task' \in [Tasks -> Phases]
    BY <1>9, <1>task DEF ReadMode, MoveTo, Phases, Running, Ended
  <2>2. UNCHANGED <<paired, cache, me, aliases, cooling, setting, read, text, sent, held>>
    BY <1>9 DEF ReadMode, identity, settings
  <2> QED
    BY <2>1, <2>2, <1>paired, <1>cache, <1>me, <1>aliases, <1>cooling, <1>setting,
       <1>read, <1>text, <1>sent, <1>held DEF ReplyTypeOK, Phases, Values
<1>10. ASSUME NEW t \in Tasks, Compose(t) PROVE ReplyTypeOK'
  <2>1. task' \in [Tasks -> Phases]
    BY <1>10, <1>task DEF Compose, MoveTo, Phases, Running, Ended
  <2>2. text' \in [Tasks -> Texts \union {""}]
    BY <1>10, <1>text DEF Compose, Texts
  <2>3. UNCHANGED <<paired, cache, me, aliases, cooling, setting, read, sent, held>>
    BY <1>10 DEF Compose, identity, settings
  <2> QED
    BY <2>1, <2>2, <2>3, <1>paired, <1>cache, <1>me, <1>aliases, <1>cooling, <1>setting,
       <1>read, <1>sent, <1>held DEF ReplyTypeOK, Phases, Values
<1>11. ASSUME NEW t \in Tasks, Send(t) PROVE ReplyTypeOK'
  <2>1. text[t] \in Texts
    BY <1>11, <1>text DEF Send, CommandsApart, Path
  <2>2. task' \in [Tasks -> Phases]
    BY <1>11, <1>task DEF Send, MoveTo, Phases, Running, Ended
  <2>3. sent' \in [Tasks -> Seq(Texts)]
    <3>1. Append(sent[t], text[t]) \in Seq(Texts)
      BY <1>sent, <2>1
    <3>2. CASE sent' = [sent EXCEPT ![t] = Append(@, text[t])]
      BY <3>1, <3>2, <1>sent
    <3>3. CASE UNCHANGED sent
      BY <3>3, <1>sent
    <3> QED
      BY <1>11, <3>2, <3>3 DEF Send
  <2>4. UNCHANGED <<paired, cache, me, aliases, cooling, setting, read, text, held>>
    BY <1>11 DEF Send, identity, settings
  <2> QED
    BY <2>2, <2>3, <2>4, <1>paired, <1>cache, <1>me, <1>aliases, <1>cooling, <1>setting,
       <1>read, <1>text, <1>held DEF ReplyTypeOK, Phases, Values
<1>12. CASE CooldownExpires
  BY <1>12 DEF CooldownExpires, ReplyTypeOK, identity, settings
<1>13. CASE Pair
  BY <1>13 DEF Pair, ReplyTypeOK, settings
<1>14. CASE ReplyCrash
  <2>1. task' \in [Tasks -> Phases]
    BY <1>14, <1>task DEF ReplyCrash, Phases, Ended
  <2>2. cache' \in (SUBSET Both) \union {NotRead} /\ cooling' \in BOOLEAN
    BY <1>14 DEF ReplyCrash
  <2>3. UNCHANGED <<paired, me, aliases, setting, read, text, sent, held>>
    BY <1>14 DEF ReplyCrash, settings
  <2> QED
    BY <2>1, <2>2, <2>3 DEF ReplyTypeOK, Phases
<1>15. CASE UNCHANGED replyVars
  BY <1>15 DEF replyVars, ReplyTypeOK, identity, settings
<1> QED
  BY <1>1, <1>2, <1>3, <1>4, <1>5, <1>6, <1>7, <1>8, <1>9, <1>10, <1>11, <1>12, <1>13,
     <1>14, <1>15 DEF ReplyNext, Step

\* A step of one task leaves what the others have alone; a setting it stores
\* joins what they have seen.
LEMMA Elsewhere ==
  ASSUME ReplyTypeOK, NEW t \in Tasks, Start(t) \/ Step(t), NEW u \in Tasks, u # t
  PROVE  /\ task'[u] = task[u] /\ me'[u] = me[u] /\ aliases'[u] = aliases[u]
         /\ read'[u] = read[u] /\ text'[u] = text[u] /\ sent'[u] = sent[u]
         /\ held[u] \subseteq held'[u]
<1> DEFINE Same == /\ task'[u] = task[u] /\ me'[u] = me[u] /\ aliases'[u] = aliases[u]
                   /\ read'[u] = read[u] /\ text'[u] = text[u] /\ sent'[u] = sent[u]
                   /\ held[u] \subseteq held'[u]
<1>task. task \in [Tasks -> Phases]
  BY DEF ReplyTypeOK, Phases
<1>me. me \in [Tasks -> (SUBSET Both) \union {NotRead}]
  BY DEF ReplyTypeOK
<1>aliases. aliases \in [Tasks -> SUBSET Both]
  BY DEF ReplyTypeOK
<1>read. read \in [Tasks -> Values]
  BY DEF ReplyTypeOK, Values
<1>text. text \in [Tasks -> Texts \union {""}]
  BY DEF ReplyTypeOK
<1>sent. sent \in [Tasks -> Seq(Texts)]
  BY DEF ReplyTypeOK
<1>held. held \in [Tasks -> SUBSET Values]
  BY DEF ReplyTypeOK, Values
<1>1. CASE Start(t)
  BY <1>1, <1>task DEF Start, MoveTo, identity, settings
<1>2. CASE HandleCommand(t)
  BY <1>2, <1>task, <1>read, <1>held DEF HandleCommand, MoveTo, identity, settings
<1>3. CASE CommitCommand(t)
  <2>1. /\ UNCHANGED <<read, me, aliases, sent>>
        /\ \E p \in {"sending", "raised"} : MoveTo(t, p)
    BY <1>3, Zenon DEF CommitCommand, identity
  <2>2. held[u] \subseteq held'[u]
    <3>1. \/ UNCHANGED held
          \/ \E value : held' = [v \in Tasks |-> IF held[v] = {} THEN {}
                                                ELSE held[v] \union {value}]
      <4> DEFINE value == IF read[t] = Kind[t] THEN setting ELSE Kind[t]
      <4>1. \/ UNCHANGED held
            \/ held' = [v \in Tasks |-> IF held[v] = {} THEN {} ELSE held[v] \union {value}]
        BY <1>3 DEF CommitCommand
      <4> HIDE DEF value
      <4>2. QED
        BY ONLY <4>1, Zenon
    <3>2. QED
      BY ONLY <3>1
  <2>3. UNCHANGED text \/ text' = [text EXCEPT ![t] = Kind[t]]
    BY <1>3, Zenon DEF CommitCommand
  <2>4. task'[u] = task[u] /\ text'[u] = text[u]
    BY <1>task, <1>text, <2>1, <2>3 DEF MoveTo
  <2>5. QED
    BY <2>1, <2>2, <2>4
<1>4. CASE UseCachedIdentity(t)
  BY <1>4, <1>task, <1>aliases DEF UseCachedIdentity, MoveTo, identity, settings
<1>5. CASE AskWaha(t)
  BY <1>5, <1>task, <1>me DEF AskWaha, MoveTo, identity, settings
<1>6. CASE Learn(t)
  BY <1>6, <1>task, <1>aliases DEF Learn, MoveTo, identity, settings
<1>7. CASE Detect(t)
  BY <1>7, <1>task, <1>text DEF Detect, MoveTo, identity, settings
<1>8. CASE SpendCooldown(t)
  BY <1>8, <1>task DEF SpendCooldown, MoveTo, identity, settings
<1>9. CASE ReadMode(t)
  BY <1>9, <1>task DEF ReadMode, MoveTo, identity, settings
<1>10. CASE Compose(t)
  BY <1>10, <1>task, <1>text DEF Compose, MoveTo, identity, settings
<1>11. CASE Send(t)
  BY <1>11, <1>task, <1>sent DEF Send, MoveTo, identity, settings
<1> QED
  BY <1>1, <1>2, <1>3, <1>4, <1>5, <1>6, <1>7, <1>8, <1>9, <1>10, <1>11 DEF Step

\* Only Send appends, to a task that has sent nothing, and it ends the task.
LEMMA SentStep ==
  ASSUME ReplyTypeOK, UnsentUntilDone, OneText, [ReplyNext]_replyVars
  PROVE  UnsentUntilDone' /\ OneText'
<1> SUFFICES ASSUME NEW u \in Tasks
             PROVE  (task'[u] # "done" => sent'[u] = <<>>) /\ Len(sent'[u]) <= 1
  BY DEF UnsentUntilDone, OneText
<1>task. task \in [Tasks -> Phases]
  BY DEF ReplyTypeOK, Phases
<1>sent. sent \in [Tasks -> Seq(Texts)]
  BY DEF ReplyTypeOK
<1>was. (task[u] # "done" => sent[u] = <<>>) /\ Len(sent[u]) <= 1
  BY DEF UnsentUntilDone, OneText
<1>1. ASSUME NEW t \in Tasks, Start(t) \/ Step(t), u # t
      PROVE  (task'[u] # "done" => sent'[u] = <<>>) /\ Len(sent'[u]) <= 1
  BY <1>1, <1>was, Elsewhere
<1>2. CASE Send(u)
  <2>1. sent[u] = <<>> /\ task'[u] = "done"
    BY <1>2, <1>was, <1>task DEF Send, MoveTo
  <2>2. Len(Append(<<>>, text[u])) <= 1
    OBVIOUS
  <2>3. sent'[u] = Append(<<>>, text[u]) \/ sent'[u] = sent[u]
    BY <1>2, <1>sent, <2>1 DEF Send
  <2> QED
    BY <2>1, <2>2, <2>3, <1>was
<1>3. CASE Start(u)
  BY <1>3, <1>was, <1>task DEF Start, MoveTo
<1>4. CASE HandleCommand(u)
  BY <1>4, <1>was, <1>task DEF HandleCommand, MoveTo
<1>5. CASE CommitCommand(u)
  BY <1>5, <1>was, <1>task DEF CommitCommand, MoveTo
<1>6. CASE UseCachedIdentity(u)
  BY <1>6, <1>was, <1>task DEF UseCachedIdentity, MoveTo
<1>7. CASE AskWaha(u)
  BY <1>7, <1>was, <1>task DEF AskWaha, MoveTo
<1>8. CASE Learn(u)
  BY <1>8, <1>was, <1>task DEF Learn, MoveTo
<1>9. CASE Detect(u)
  BY <1>9, <1>was, <1>task DEF Detect, MoveTo
<1>10. CASE SpendCooldown(u)
  BY <1>10, <1>was, <1>task DEF SpendCooldown, MoveTo
<1>11. CASE ReadMode(u)
  BY <1>11, <1>was, <1>task DEF ReadMode, MoveTo
<1>12. CASE Compose(u)
  BY <1>12, <1>was, <1>task DEF Compose, MoveTo
<1>13. CASE CooldownExpires \/ Pair \/ UNCHANGED replyVars
  BY <1>13, <1>was DEF CooldownExpires, Pair, replyVars
<1>14. CASE ReplyCrash
  BY <1>14, <1>was DEF ReplyCrash, Running
<1> QED
  BY <1>1, <1>2, <1>3, <1>4, <1>5, <1>6, <1>7, <1>8, <1>9, <1>10, <1>11, <1>12, <1>13,
     <1>14 DEF ReplyNext, Step

\* What a command read stays among the values the setting has had, whoever
\* else commits in between.
LEMMA CommandStep ==
  ASSUME ReplyTypeOK, CommandsApart, ConfirmedWasStored, [ReplyNext]_replyVars
  PROVE  CommandsApart' /\ ConfirmedWasStored'
<1> DEFINE Confirmed(u) == Kind[u] \in Commands /\ text[u] # "" => Kind[u] \in held[u]
<1> SUFFICES ASSUME NEW u \in Tasks PROVE Path(u)' /\ Confirmed(u)'
  BY DEF CommandsApart, ConfirmedWasStored
<1>task. task \in [Tasks -> Phases]
  BY DEF ReplyTypeOK, Phases
<1>read. read \in [Tasks -> Values]
  BY DEF ReplyTypeOK, Values
<1>text. text \in [Tasks -> Texts \union {""}]
  BY DEF ReplyTypeOK
<1>held. held \in [Tasks -> SUBSET Values]
  BY DEF ReplyTypeOK, Values
<1>was. Path(u) /\ Confirmed(u)
  BY DEF CommandsApart, ConfirmedWasStored
<1>1. ASSUME NEW t \in Tasks, Start(t) \/ Step(t), u # t
      PROVE  Path(u)' /\ Confirmed(u)'
  <2>1. /\ task'[u] = task[u] /\ text'[u] = text[u] /\ read'[u] = read[u]
        /\ held[u] \subseteq held'[u]
    BY <1>1, Elsewhere
  <2>2. Path(u)'
    BY <1>was, <2>1 DEF Path
  <2>3. Confirmed(u)'
    BY <1>was, <2>1
  <2> QED
    BY <2>2, <2>3
<1>2. CASE Start(u)
  BY <1>2, <1>was, <1>task DEF Start, MoveTo, Path, Commands, Ended, settings
<1>3. CASE HandleCommand(u)
  BY <1>3, <1>was, <1>task, <1>read, <1>held
     DEF HandleCommand, MoveTo, Path, Commands, Ended, settings
<1>4. CASE CommitCommand(u)
  <2>1. Kind[u] \in Commands /\ read[u] \in held[u] /\ read' = read
    BY <1>4, <1>was DEF CommitCommand, Path
  <2> DEFINE value == IF read[u] = Kind[u] THEN setting ELSE Kind[u]
  <2>2. CASE /\ held' = [v \in Tasks |-> IF held[v] = {} THEN {} ELSE held[v] \union {value}]
             /\ text' = [text EXCEPT ![u] = Kind[u]] /\ task' = [task EXCEPT ![u] = "sending"]
    <3>1. task'[u] = "sending" /\ text'[u] = Kind[u]
      BY <1>task, <1>text, <2>2
    <3>2. Kind[u] \in held'[u]
      <4> HIDE DEF value
      <4>1. held'[u] = held[u] \union {value}
        BY <2>1, <2>2
      <4>2. QED
        BY <2>1, <4>1 DEF value
    <3>3. QED
      BY <2>1, <3>1, <3>2 DEF Path, Commands
  <2>3. CASE task'[u] = "raised" /\ UNCHANGED <<held, text>>
    BY <1>was, <2>1, <2>3 DEF Path, Ended
  <2>4. QED
    BY <1>4, <1>task, <2>2, <2>3 DEF CommitCommand, MoveTo
<1>5. CASE UseCachedIdentity(u)
  BY <1>5, <1>was, <1>task DEF UseCachedIdentity, MoveTo, Path, Commands, Ended, settings
<1>6. CASE AskWaha(u)
  BY <1>6, <1>was, <1>task DEF AskWaha, MoveTo, Path, Commands, Ended, settings
<1>7. CASE Learn(u)
  BY <1>7, <1>was, <1>task DEF Learn, MoveTo, Path, Commands, Ended, settings
<1>8. CASE Detect(u)
  BY <1>8, <1>was, <1>task, <1>text DEF Detect, MoveTo, Path, Commands, Ended, settings
<1>9. CASE SpendCooldown(u)
  BY <1>9, <1>was, <1>task DEF SpendCooldown, MoveTo, Path, Commands, Ended, settings
<1>10. CASE ReadMode(u)
  BY <1>10, <1>was, <1>task DEF ReadMode, MoveTo, Path, Commands, Ended, settings
<1>11. CASE Compose(u)
  BY <1>11, <1>was, <1>task, <1>text DEF Compose, MoveTo, Path, Commands, Ended, settings
<1>12. CASE Send(u)
  BY <1>12, <1>was, <1>task DEF Send, MoveTo, Path, Commands, Ended, settings
<1>13. CASE CooldownExpires \/ Pair \/ UNCHANGED replyVars
  <2>1. UNCHANGED <<task, text, read, held>>
    BY <1>13 DEF CooldownExpires, Pair, replyVars, settings
  <2> QED
    BY <1>was, <2>1 DEF Path
<1>14. CASE ReplyCrash
  BY <1>14, <1>was, <1>task DEF ReplyCrash, Running, Ended, settings, Path
<1> QED
  BY <1>1, <1>2, <1>3, <1>4, <1>5, <1>6, <1>7, <1>8, <1>9, <1>10, <1>11, <1>12, <1>13,
     <1>14 DEF ReplyNext, Step

\* A granted question stays one on its way to "done" or "lost", so it is
\* still the owner when somebody else is limited.
LEMMA CooldownStep ==
  ASSUME ReplyTypeOK, CommandsApart, ArmedByAQuestion, LimitedBehindAQuestion, [ReplyNext]_replyVars
  PROVE  ArmedByAQuestion' /\ LimitedBehindAQuestion'
<1>task. task \in [Tasks -> Phases]
  BY DEF ReplyTypeOK, Phases
<1>kept. \A u \in Tasks : Granted(u) => Granted(u)'
  <2> SUFFICES ASSUME NEW u \in Tasks, Granted(u) PROVE Granted(u)'
    OBVIOUS
  <2>1. ASSUME NEW t \in Tasks, Start(t) \/ Step(t), u # t PROVE Granted(u)'
    BY <2>1, Elsewhere DEF Granted
  <2>2. CASE Start(u)
    BY <2>2, <1>task DEF Start, MoveTo, Granted
  <2>3. CASE HandleCommand(u)
    BY <2>3, <1>task DEF HandleCommand, MoveTo, Granted
  <2>4. CASE CommitCommand(u)
    BY <2>4, <1>task DEF CommitCommand, MoveTo, Granted
  <2>5. CASE UseCachedIdentity(u)
    BY <2>5, <1>task DEF UseCachedIdentity, MoveTo, Granted
  <2>6. CASE AskWaha(u)
    BY <2>6, <1>task DEF AskWaha, MoveTo, Granted
  <2>7. CASE Learn(u)
    BY <2>7, <1>task DEF Learn, MoveTo, Granted
  <2>8. CASE Detect(u)
    BY <2>8, <1>task DEF Detect, MoveTo, Granted
  <2>9. CASE SpendCooldown(u)
    BY <2>9, <1>task DEF SpendCooldown, MoveTo, Granted
  <2>10. CASE ReadMode(u)
    BY <2>10, <1>task DEF ReadMode, MoveTo, Granted
  <2>11. CASE Compose(u)
    BY <2>11, <1>task DEF Compose, MoveTo, Granted
  <2>12. CASE Send(u)
    BY <2>12, <1>task DEF Send, MoveTo, Granted
  <2>13. CASE CooldownExpires \/ Pair \/ UNCHANGED replyVars
    BY <2>13 DEF CooldownExpires, Pair, replyVars, Granted
  <2>14. CASE ReplyCrash
    BY <2>14, <1>task DEF ReplyCrash, Granted
  <2> QED
    BY <2>1, <2>2, <2>3, <2>4, <2>5, <2>6, <2>7, <2>8, <2>9, <2>10, <2>11, <2>12, <2>13,
       <2>14 DEF ReplyNext, Step
<1>arm. cooling' => cooling \/ \E u \in Tasks : Granted(u)'
  <2> SUFFICES ASSUME cooling', ~ cooling PROVE \E u \in Tasks : Granted(u)'
    OBVIOUS
  <2>1. PICK t \in Tasks : SpendCooldown(t)
    BY DEF ReplyNext, Step, Start, HandleCommand, CommitCommand, UseCachedIdentity, AskWaha,
       Learn,
           Detect, ReadMode, Compose, Send, CooldownExpires, Pair, ReplyCrash, replyVars
  <2>2. Kind[t] \in {"dm", "mention"}
    BY <2>1 DEF SpendCooldown, ArmedByAQuestion
  <2>3. task'[t] = "granted"
    BY <2>1, <1>task DEF SpendCooldown, MoveTo
  <2> QED
    BY <2>2, <2>3 DEF Granted
<1>some. cooling' => \E u \in Tasks : Granted(u)'
  BY <1>arm, <1>kept DEF ArmedByAQuestion
<1>trig. ASSUME NEW u \in Tasks, task'[u] = "triggered" PROVE Kind[u] \in {"dm", "mention"}
  <2>1. CASE task[u] = "triggered"
    BY <2>1 DEF ArmedByAQuestion
  <2>2. CASE task[u] # "triggered"
    <3>1. Start(u) \/ Step(u)
      BY <1>trig, <2>2, <1>task, Elsewhere DEF ReplyNext, CooldownExpires, Pair, ReplyCrash, replyVars
    <3>2. ~ Start(u)
      BY <1>trig, <2>2, <1>task DEF Start, MoveTo
    <3>3. ~ HandleCommand(u)
      BY <1>trig, <2>2, <1>task DEF HandleCommand, MoveTo
    <3>4. ~ CommitCommand(u)
      BY <1>trig, <2>2, <1>task DEF CommitCommand, MoveTo
    <3>5. ~ UseCachedIdentity(u)
      BY <1>trig, <2>2, <1>task DEF UseCachedIdentity, MoveTo
    <3>6. ~ AskWaha(u)
      BY <1>trig, <2>2, <1>task DEF AskWaha, MoveTo
    <3>7. ~ Learn(u)
      BY <1>trig, <2>2, <1>task DEF Learn, MoveTo
    <3>8. ~ SpendCooldown(u)
      BY <1>trig, <2>2, <1>task DEF SpendCooldown, MoveTo
    <3>9. ~ ReadMode(u)
      BY <1>trig, <2>2, <1>task DEF ReadMode, MoveTo
    <3>10. ~ Compose(u)
      BY <1>trig, <2>2, <1>task DEF Compose, MoveTo
    <3>11. ~ Send(u)
      BY <1>trig, <2>2, <1>task DEF Send, MoveTo
    <3>12. Addressed(u) /\ Kind[u] # "clarify"
      BY <1>trig, <1>task, <3>1, <3>2, <3>3, <3>4, <3>5, <3>6, <3>7, <3>8, <3>9, <3>10,
         <3>11 DEF Step, Detect, MoveTo
    <3> QED
      BY <3>12 DEF Addressed, Mentions
  <2> QED
    BY <2>1, <2>2
<1>lim. ASSUME NEW u \in Tasks, task'[u] = "limited" PROVE \E w \in Tasks \ {u} : Granted(w)'
  <2>1. CASE task[u] = "limited"
    <3>1. \E w \in Tasks : Granted(w)
      BY <2>1 DEF LimitedBehindAQuestion, Granted
    <3> QED
      BY <3>1, <1>kept, <1>lim DEF Granted
  <2>2. CASE task[u] # "limited"
    <3>1. Start(u) \/ Step(u)
      BY <1>lim, <2>2, <1>task, Elsewhere DEF ReplyNext, CooldownExpires, Pair, ReplyCrash, replyVars
    <3>2. ~ Start(u)
      BY <1>lim, <2>2, <1>task DEF Start, MoveTo
    <3>3. ~ HandleCommand(u)
      BY <1>lim, <2>2, <1>task DEF HandleCommand, MoveTo
    <3>4. ~ CommitCommand(u)
      BY <1>lim, <2>2, <1>task DEF CommitCommand, MoveTo
    <3>5. ~ UseCachedIdentity(u)
      BY <1>lim, <2>2, <1>task DEF UseCachedIdentity, MoveTo
    <3>6. ~ AskWaha(u)
      BY <1>lim, <2>2, <1>task DEF AskWaha, MoveTo
    <3>7. ~ Learn(u)
      BY <1>lim, <2>2, <1>task DEF Learn, MoveTo
    <3>8. ~ Detect(u)
      BY <1>lim, <2>2, <1>task DEF Detect, MoveTo
    <3>9. ~ ReadMode(u)
      BY <1>lim, <2>2, <1>task DEF ReadMode, MoveTo
    <3>10. ~ Compose(u)
      BY <1>lim, <2>2, <1>task DEF Compose, MoveTo
    <3>11. ~ Send(u)
      BY <1>lim, <2>2, <1>task DEF Send, MoveTo
    <3>12. cooling
      BY <1>lim, <1>task, <3>1, <3>2, <3>3, <3>4, <3>5, <3>6, <3>7, <3>8, <3>9, <3>10,
         <3>11 DEF Step, SpendCooldown, MoveTo
    <3> QED
      BY <3>12, <1>kept, <1>lim DEF ArmedByAQuestion, Granted
  <2> QED
    BY <2>1, <2>2
<1>1. ArmedByAQuestion'
  BY <1>some, <1>trig DEF ArmedByAQuestion
<1>2. LimitedBehindAQuestion'
  BY <1>lim DEF LimitedBehindAQuestion, Granted
<1> QED
  BY <1>1, <1>2

\* A vain lookup is never undone, and every alias set without the lid was
\* learnt from one.
LEMMA IdentityStep ==
  ASSUME ReplyTypeOK, CommandsApart, LidUnlessVain, IgnoredAfterVainLookup, [ReplyNext]_replyVars
  PROVE  LidUnlessVain' /\ IgnoredAfterVainLookup'
<1>task. task \in [Tasks -> Phases]
  BY DEF ReplyTypeOK, Phases
<1>me. me \in [Tasks -> (SUBSET Both) \union {NotRead}]
  BY DEF ReplyTypeOK
<1>aliases. aliases \in [Tasks -> SUBSET Both]
  BY DEF ReplyTypeOK
<1>apart. \A a \in SUBSET Both : a # NotRead
  BY DEF NotRead, Both
<1>vain. Vain => Vain'
  <2> SUFFICES ASSUME NEW u \in Tasks, ToldNoLid(u) PROVE me'[u] = me[u]
    BY DEF Vain, ToldNoLid
  <2>1. ASSUME NEW t \in Tasks, Start(t) \/ Step(t), u # t PROVE me'[u] = me[u]
    BY <2>1, Elsewhere
  <2>2. ~ AskWaha(u)
    BY DEF AskWaha, LidUnlessVain, ToldNoLid
  <2>3. CASE Start(u)
    BY <2>3 DEF Start, identity
  <2>4. CASE HandleCommand(u)
    BY <2>4 DEF HandleCommand, identity
  <2>5. CASE CommitCommand(u)
    BY <2>5 DEF CommitCommand, identity
  <2>6. CASE UseCachedIdentity(u)
    BY <2>6 DEF UseCachedIdentity, identity
  <2>7. CASE Learn(u)
    BY <2>7 DEF Learn, identity
  <2>8. CASE Detect(u)
    BY <2>8 DEF Detect, identity
  <2>9. CASE SpendCooldown(u)
    BY <2>9 DEF SpendCooldown, identity
  <2>10. CASE ReadMode(u)
    BY <2>10 DEF ReadMode, identity
  <2>11. CASE Compose(u)
    BY <2>11 DEF Compose, identity
  <2>12. CASE Send(u)
    BY <2>12 DEF Send, identity
  <2>13. CASE CooldownExpires \/ Pair \/ ReplyCrash \/ UNCHANGED replyVars
    BY <2>13 DEF CooldownExpires, Pair, ReplyCrash, replyVars, identity
  <2> QED
    BY <2>1, <2>2, <2>3, <2>4, <2>5, <2>6, <2>7, <2>8, <2>9, <2>10, <2>11, <2>12, <2>13
       DEF ReplyNext, Step
<1>asks. ASSUME NEW u \in Tasks PROVE task'[u] \in {"idle", "queued", "asking"} => me'[u] = NotRead
  <2>was. task[u] \in {"idle", "queued", "asking"} => me[u] = NotRead
    BY DEF LidUnlessVain
  <2>1. ASSUME NEW t \in Tasks, Start(t) \/ Step(t), u # t
        PROVE  task'[u] \in {"idle", "queued", "asking"} => me'[u] = NotRead
    BY <2>1, <2>was, Elsewhere
  <2>2. CASE Start(u)
    BY <2>2, <2>was, <1>task DEF Start, MoveTo, identity
  <2>3. CASE HandleCommand(u)
    BY <2>3, <2>was, <1>task DEF HandleCommand, MoveTo, identity
  <2>4. CASE CommitCommand(u)
    BY <2>4, <2>was, <1>task DEF CommitCommand, MoveTo, identity
  <2>5. CASE UseCachedIdentity(u)
    BY <2>5, <2>was, <1>task DEF UseCachedIdentity, MoveTo, identity
  <2>6. CASE AskWaha(u)
    BY <2>6, <2>was, <1>task DEF AskWaha, MoveTo, identity
  <2>7. CASE Learn(u)
    BY <2>7, <2>was, <1>task DEF Learn, MoveTo, identity
  <2>8. CASE Detect(u)
    BY <2>8, <2>was, <1>task DEF Detect, MoveTo, identity
  <2>9. CASE SpendCooldown(u)
    BY <2>9, <2>was, <1>task DEF SpendCooldown, MoveTo, identity
  <2>10. CASE ReadMode(u)
    BY <2>10, <2>was, <1>task DEF ReadMode, MoveTo, identity
  <2>11. CASE Compose(u)
    BY <2>11, <2>was, <1>task DEF Compose, MoveTo, identity
  <2>12. CASE Send(u)
    BY <2>12, <2>was, <1>task DEF Send, MoveTo, identity
  <2>13. CASE CooldownExpires \/ Pair \/ UNCHANGED replyVars
    BY <2>13, <2>was DEF CooldownExpires, Pair, replyVars, identity
  <2>14. CASE ReplyCrash
    BY <2>14, <2>was, <1>task DEF ReplyCrash, Running
  <2> QED
    BY <2>1, <2>2, <2>3, <2>4, <2>5, <2>6, <2>7, <2>8, <2>9, <2>10, <2>11, <2>12, <2>13,
       <2>14 DEF ReplyNext, Step
<1>learns. ASSUME NEW u \in Tasks PROVE task'[u] = "learning" => me'[u] # NotRead
  <2>was. task[u] = "learning" => me[u] # NotRead
    BY DEF LidUnlessVain
  <2>1. ASSUME NEW t \in Tasks, Start(t) \/ Step(t), u # t
        PROVE  task'[u] = "learning" => me'[u] # NotRead
    BY <2>1, <2>was, Elsewhere
  <2>2. CASE Start(u)
    BY <2>2, <2>was, <1>task DEF Start, MoveTo, identity
  <2>3. CASE HandleCommand(u)
    BY <2>3, <2>was, <1>task DEF HandleCommand, MoveTo, identity
  <2>4. CASE CommitCommand(u)
    BY <2>4, <2>was, <1>task DEF CommitCommand, MoveTo, identity
  <2>5. CASE UseCachedIdentity(u)
    BY <2>5, <2>was, <1>task DEF UseCachedIdentity, MoveTo, identity
  <2>6. CASE AskWaha(u)
    BY <2>6, <2>was, <1>task, <1>me, <1>apart DEF AskWaha, MoveTo, identity
  <2>7. CASE Learn(u)
    BY <2>7, <2>was, <1>task DEF Learn, MoveTo, identity
  <2>8. CASE Detect(u)
    BY <2>8, <2>was, <1>task DEF Detect, MoveTo, identity
  <2>9. CASE SpendCooldown(u)
    BY <2>9, <2>was, <1>task DEF SpendCooldown, MoveTo, identity
  <2>10. CASE ReadMode(u)
    BY <2>10, <2>was, <1>task DEF ReadMode, MoveTo, identity
  <2>11. CASE Compose(u)
    BY <2>11, <2>was, <1>task DEF Compose, MoveTo, identity
  <2>12. CASE Send(u)
    BY <2>12, <2>was, <1>task DEF Send, MoveTo, identity
  <2>13. CASE CooldownExpires \/ Pair \/ UNCHANGED replyVars
    BY <2>13, <2>was DEF CooldownExpires, Pair, replyVars, identity
  <2>14. CASE ReplyCrash
    BY <2>14, <2>was, <1>task DEF ReplyCrash, Running
  <2> QED
    BY <2>1, <2>2, <2>3, <2>4, <2>5, <2>6, <2>7, <2>8, <2>9, <2>10, <2>11, <2>12, <2>13,
       <2>14 DEF ReplyNext, Step
<1>learnt. ASSUME NEW t \in Tasks, Learn(t), "lid" \notin me[t] \union (IF Configured THEN {"phone"} ELSE {})
           PROVE  Vain
  <2>1. me[t] # NotRead
    BY <1>learnt DEF Learn, LidUnlessVain
  <2>2. "lid" \notin me[t]
    BY <1>learnt
  <2> QED
    BY <2>1, <2>2 DEF Vain, ToldNoLid
<1>cached. cache' # NotRead /\ "lid" \notin cache' => Vain'
  <2> SUFFICES ASSUME cache' # NotRead, "lid" \notin cache' PROVE Vain
    BY <1>vain
  <2>1. CASE cache' = cache
    BY <2>1 DEF LidUnlessVain
  <2>2. CASE cache' # cache
    <3>1. PICK t \in Tasks : Learn(t)
      BY <2>2
         DEF ReplyNext, Step, Start, HandleCommand, CommitCommand, UseCachedIdentity,
             AskWaha,
                  Detect, SpendCooldown, ReadMode, Compose, Send, CooldownExpires, Pair, ReplyCrash,
                  replyVars, identity
    <3>2. "lid" \notin me[t] \union (IF Configured THEN {"phone"} ELSE {})
      BY <3>1 DEF Learn
    <3> QED
      BY <3>1, <3>2, <1>learnt
  <2> QED
    BY <2>1, <2>2
<1>knows. ASSUME NEW u \in Tasks, task'[u] = "identified", "lid" \notin aliases'[u] PROVE Vain'
  <2>was. task[u] = "identified" /\ "lid" \notin aliases[u] => Vain
    BY DEF LidUnlessVain
  <2>1. ASSUME NEW t \in Tasks, Start(t) \/ Step(t), u # t PROVE Vain
    BY <2>1, <1>knows, <2>was, Elsewhere
  <2>2. CASE UseCachedIdentity(u)
    <3>1. cache # NotRead /\ "lid" \notin cache
      BY <2>2, <1>knows, <1>task, <1>aliases DEF UseCachedIdentity, MoveTo
    <3> QED
      BY <3>1, <1>vain DEF LidUnlessVain
  <2>3. CASE Learn(u)
    <3>1. "lid" \notin me[u] \union (IF Configured THEN {"phone"} ELSE {})
      BY <2>3, <1>knows, <1>aliases DEF Learn
    <3> QED
      BY <2>3, <3>1, <1>learnt, <1>vain
  <2>4. ~ Start(u)
    BY <1>knows, <1>task DEF Start, MoveTo
  <2>5. ~ HandleCommand(u)
    BY <1>knows, <1>task DEF HandleCommand, MoveTo
  <2>6. ~ CommitCommand(u)
    BY <1>knows, <1>task DEF CommitCommand, MoveTo
  <2>7. ~ AskWaha(u)
    BY <1>knows, <1>task DEF AskWaha, MoveTo
  <2>8. ~ Detect(u)
    BY <1>knows, <1>task DEF Detect, MoveTo
  <2>9. ~ SpendCooldown(u)
    BY <1>knows, <1>task DEF SpendCooldown, MoveTo
  <2>10. ~ ReadMode(u)
    BY <1>knows, <1>task DEF ReadMode, MoveTo
  <2>11. ~ Compose(u)
    BY <1>knows, <1>task DEF Compose, MoveTo
  <2>12. ~ Send(u)
    BY <1>knows, <1>task DEF Send, MoveTo
  <2>13. CASE CooldownExpires \/ Pair \/ UNCHANGED replyVars
    BY <2>13, <1>knows, <2>was, <1>vain DEF CooldownExpires, Pair, replyVars, identity
  <2>14. CASE ReplyCrash
    BY <2>14, <1>knows, <2>was, <1>task, <1>vain DEF ReplyCrash
  <2> QED
    BY <1>vain, <2>1, <2>2, <2>3, <2>4, <2>5, <2>6, <2>7, <2>8, <2>9, <2>10, <2>11,
       <2>12, <2>13, <2>14 DEF ReplyNext, Step
<1>ignores. ASSUME NEW u \in Tasks, task'[u] = "ignored", Kind[u] \in Mentions PROVE Vain'
  <2>1. CASE task[u] = "ignored"
    BY <2>1, <1>ignores, <1>vain DEF IgnoredAfterVainLookup, Vain, ToldNoLid
  <2>2. CASE task[u] # "ignored"
    <3>1. Start(u) \/ Step(u)
      BY <1>ignores, <2>2, <1>task, Elsewhere DEF ReplyNext, CooldownExpires, Pair, ReplyCrash, replyVars
    <3>2. ~ Start(u)
      BY <1>ignores, <2>2, <1>task DEF Start, MoveTo
    <3>3. ~ HandleCommand(u)
      BY <1>ignores, <2>2, <1>task DEF HandleCommand, MoveTo
    <3>4. ~ CommitCommand(u)
      BY <1>ignores, <2>2, <1>task DEF CommitCommand, MoveTo
    <3>5. ~ UseCachedIdentity(u)
      BY <1>ignores, <2>2, <1>task DEF UseCachedIdentity, MoveTo
    <3>6. ~ Learn(u)
      BY <1>ignores, <2>2, <1>task DEF Learn, MoveTo
    <3>7. ~ SpendCooldown(u)
      BY <1>ignores, <2>2, <1>task DEF SpendCooldown, MoveTo
    <3>8. ~ ReadMode(u)
      BY <1>ignores, <2>2, <1>task DEF ReadMode, MoveTo
    <3>9. ~ Compose(u)
      BY <1>ignores, <2>2, <1>task DEF Compose, MoveTo
    <3>10. ~ Send(u)
      BY <1>ignores, <2>2, <1>task DEF Send, MoveTo
    <3>11. AskWaha(u) \/ Detect(u)
      BY <3>1, <3>2, <3>3, <3>4, <3>5, <3>6, <3>7, <3>8, <3>9, <3>10 DEF Step
    <3>12. CASE AskWaha(u)
      <4>1. me'[u] = {}
        BY <3>12, <1>ignores, <1>task, <1>me DEF AskWaha, MoveTo
      <4> QED
        BY <4>1, <1>apart DEF Vain, ToldNoLid
    <3>13. CASE Detect(u)
      <4>1. task[u] = "identified" /\ ~ Addressed(u)
        BY <3>13, <1>ignores, <1>task DEF Detect, MoveTo
      <4>2. Vain
        BY <4>1, <1>ignores DEF Addressed, LidUnlessVain
      <4> QED
        BY <4>2, <1>vain
    <3> QED
      BY <3>11, <3>12, <3>13
  <2> QED
    BY <2>1, <2>2
<1>1. LidUnlessVain'
  BY <1>asks, <1>learns, <1>cached, <1>knows DEF LidUnlessVain
<1>2. IgnoredAfterVainLookup'
  BY <1>ignores DEF IgnoredAfterVainLookup, Vain, ToldNoLid
<1> QED
  BY <1>1, <1>2

\* The parts together are inductive.
LEMMA RInvStep == RInv /\ [ReplyNext]_replyVars => RInv'
BY TypeStep, SentStep, CommandStep, CooldownStep, IdentityStep DEF RInv

\* RInv holds in every reachable state.
LEMMA Invariant == ReplySpec => []RInv
<1> QED
  BY InitRInv, RInvStep, PTL DEF ReplySpec

\* Every variable keeps its type, among them the text a task sends: never the
\* empty one.
THEOREM TypeCorrect == ReplySpec => []ReplyTypeOK
<1>1. RInv => ReplyTypeOK
  BY DEF RInv
<1> QED
  BY <1>1, Invariant, PTL

\* However the tasks of a chat interleave and whatever fails, no message is
\* answered, confirmed or clarified twice: the send is the last thing a task does.
THEOREM OneReply == ReplySpec => []NothingAnsweredTwice
<1>1. RInv => NothingAnsweredTwice
  <2> SUFFICES ASSUME RInv, NEW t \in Tasks, NEW i \in 1..Len(sent[t]), NEW j \in 1..Len(sent[t])
               PROVE  i = j
    BY DEF NothingAnsweredTwice
  <2>1. Len(sent[t]) <= 1 /\ Len(sent[t]) \in Nat
    <3>1. sent[t] \in Seq(Texts)
      BY DEF RInv, ReplyTypeOK
    <3> QED
      BY <3>1 DEF RInv, OneText
  <2> QED
    BY <2>1
<1> QED
  BY <1>1, Invariant, PTL

\* A confirmation names a mode that was stored at some time since its command
\* read the row, with any number of commands racing on the chat's row.
THEOREM ConfirmationsAreTrue == ReplySpec => []ConfirmedWasStored
<1>1. RInv => ConfirmedWasStored
  BY DEF RInv
<1> QED
  BY <1>1, Invariant, PTL

\* Only a question that was granted makes another one be limited: commands and
\* clarifications never spend the slot.
THEOREM OnlyQuestionsLimit == ReplySpec => []LimitedBehindAQuestion
<1>1. RInv => LimitedBehindAQuestion
  BY DEF RInv
<1> QED
  BY <1>1, Invariant, PTL

\* A mention that was ignored goes back to a lookup of the bot's identity that
\* did not bring the lid, its own or one whose result was cached.
THEOREM IgnoredBecauseVain == ReplySpec => []IgnoredAfterVainLookup
<1>1. RInv => IgnoredAfterVainLookup
  BY DEF RInv
<1> QED
  BY <1>1, Invariant, PTL

\* The setting moves only when a command commits, to that command's value, and
\* with the lockdown on only for a trusted author.
THEOREM Lockdown == ReplySpec => LockdownHolds
<1>1. ASSUME RInv, [ReplyNext]_replyVars, setting' # setting
      PROVE  \E t \in Tasks : /\ task[t] = "toggling" /\ task'[t] # "toggling"
                              /\ Kind[t] = setting'
                              /\ Restricted => t \notin Untrusted
  <2>1. PICK t \in Tasks : CommitCommand(t)
    BY <1>1
       DEF ReplyNext, Step, Start, HandleCommand, UseCachedIdentity, AskWaha, Learn, Detect,
                SpendCooldown, ReadMode, Compose, Send, CooldownExpires, Pair, ReplyCrash, replyVars, settings
  <2>2. task \in [Tasks -> Phases]
    BY <1>1 DEF RInv, ReplyTypeOK, Phases
  <2>3. task[t] = "toggling" /\ task'[t] # "toggling"
    BY <2>1, <2>2 DEF CommitCommand, MoveTo
  <2>4. Kind[t] = setting'
    BY <1>1, <2>1 DEF CommitCommand
  <2>5. Restricted => t \notin Untrusted
    BY <1>1, <2>3 DEF RInv, CommandsApart, Path
  <2> QED
    BY <2>3, <2>4, <2>5
<1>2. RInv /\ [ReplyNext]_replyVars =>
        [setting' # setting =>
          \E t \in Tasks :
            /\ task[t] = "toggling" /\ task'[t] # "toggling"
            /\ Kind[t] = setting'
            /\ Restricted => t \notin Untrusted]_replyVars
  BY <1>1
<1> QED
  BY <1>2, Invariant, PTL DEF ReplySpec, LockdownHolds

=============================================================================
