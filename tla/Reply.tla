------------------------------- MODULE Reply -------------------------------
(***************************************************************************)
(* The auto-reply worker of one chat (app/reply/reply_worker.py): one      *)
(* background task per captured message, each in a thread of its own.      *)
(* Tasks share the bot identity cached in memory, the chat's reply         *)
(* cooldown, the chat_settings row the /unhinged_* commands write, and the *)
(* WAHA session the replies go through.                                    *)
(***************************************************************************)
EXTENDS Naturals, Sequences, FiniteSets

CONSTANTS
  Tasks,
  Kind,         \* what each task's message is, one of Kinds
  Banter,       \* questions classify_intent calls banter
  Untrusted,    \* messages whose author is not in trusted_senders
  Restricted,   \* settings.unhinged_toggle_restricted_to_trusted
  Configured,   \* settings.bot_whatsapp_id is set
  Unhinged,     \* settings.banter_mode_enabled: the mode without an override
  StartPaired,  \* the WAHA session is paired when the process starts
  ReplyFaults,  \* subset of {"answer", "send", "settings", "me", "lid", "crash"}
  MaxTasks      \* bound of the model: messages captured in a run

\* A group mention names the bot by its lid, as the NOWEB engine does; "clarify"
\* is a mention without a question; "other" is every message that addresses
\* nobody, the bot's own messages among them.
Commands == {"on", "off"}
Mentions == {"mention", "clarify"}
Kinds    == Commands \union Mentions \union {"dm", "other"}

Questions == {t \in Tasks : Kind[t] \in {"dm", "mention"}}

ASSUME ReplyAssumption ==
  /\ Kind \in [Tasks -> Kinds]
  /\ Banter \subseteq Tasks
  /\ Untrusted \subseteq Tasks
  /\ {Restricted, Configured, Unhinged, StartPaired} \subseteq BOOLEAN
  /\ ReplyFaults \subseteq {"answer", "send", "settings", "me", "lid", "crash"}
  /\ MaxTasks \in Nat

VARIABLES
  task,         \* where each task is
  paired,       \* WAHA reports a `me' for the session
  cache,        \* _bot_identity_cache: not read yet, or a set of aliases
  me,           \* what a task's fetch_session_me returned, {} for nothing
  aliases,      \* the aliases a task resolved
  cooling,      \* the reply cooldown of the chat is running
  setting,      \* chat_settings.unhinged_enabled: no row, or its value
  read,         \* the row a command read before it writes
  text,         \* the reply a task is about to send
  sent,         \* the texts that reached the chat for a task
  held          \* values the setting had since a command read it (history)

identity  == <<paired, cache, me, aliases>>
settings  == <<setting, read, held>>
replyVars == <<task, identity, cooling, settings, text, sent>>

NotRead == {"not read"}
Both    == {"phone", "lid"}

Texts   == Commands \union {"clarify", "answer", "apology", "banter"}
Running == {"queued", "toggling", "asking", "learning", "identified", "triggered",
            "granted", "answering", "bantering", "sending"}
Ended   == {"done", "blocked", "ignored", "limited", "raised", "lost"}

ReplyTypeOK ==
  /\ task \in [Tasks -> {"idle"} \union Running \union Ended]
  /\ paired \in BOOLEAN
  /\ cache \in (SUBSET Both) \union {NotRead}
  /\ me \in [Tasks -> (SUBSET Both) \union {NotRead}]
  /\ aliases \in [Tasks -> SUBSET Both]
  /\ cooling \in BOOLEAN
  /\ setting \in {"none", "on", "off"}
  /\ read \in [Tasks -> {"none", "on", "off"}]
  /\ text \in [Tasks -> Texts \union {""}]
  /\ sent \in [Tasks -> Seq(Texts)]
  /\ held \in [Tasks -> SUBSET {"none", "on", "off"}]

ReplyInit ==
  /\ task = [t \in Tasks |-> "idle"]
  /\ paired = StartPaired
  /\ cache = NotRead
  /\ me = [t \in Tasks |-> NotRead]
  /\ aliases = [t \in Tasks |-> {}]
  /\ cooling = FALSE
  /\ setting = "none"
  /\ read = [t \in Tasks |-> "none"]
  /\ text = [t \in Tasks |-> ""]
  /\ sent = [t \in Tasks |-> <<>>]
  /\ held = [t \in Tasks |-> {}]

MoveTo(t, phase) == task' = [task EXCEPT ![t] = phase]

-----------------------------------------------------------------------------
(* Faulty variants: mistakes the properties must catch.  No specification  *)
(* below uses them.                                                        *)

\* HandleCommand that does not know of the lockdown.
HandleAnyCommand(t) ==
  /\ task[t] = "queued"
  /\ Kind[t] \in Commands
  /\ read' = [read EXCEPT ![t] = setting]
  /\ held' = [held EXCEPT ![t] = {setting}]
  /\ MoveTo(t, "toggling")
  /\ UNCHANGED <<identity, cooling, setting, text, sent>>

\* CommitCommand that confirms after a refused INSERT.
CommitOrConfirm(t) ==
  /\ task[t] = "toggling"
  /\ IF read[t] # "none" \/ setting = "none"
       THEN /\ setting' = Kind[t]
            /\ held' = [u \in Tasks |-> IF held[u] = {} THEN {} ELSE held[u] \union {Kind[t]}]
       ELSE UNCHANGED <<setting, held>>
  /\ text' = [text EXCEPT ![t] = Kind[t]]
  /\ MoveTo(t, "sending")
  /\ UNCHANGED <<identity, cooling, read, sent>>

\* Learn that keeps the phone number only.
LearnPhone(t) ==
  LET found == {"phone"} \intersect me[t] IN
  /\ task[t] = "learning"
  /\ cache' = found
  /\ aliases' = [aliases EXCEPT ![t] = found]
  /\ MoveTo(t, "identified")
  /\ UNCHANGED <<paired, me, cooling, settings, text, sent>>

\* Compose that lets the pipeline's exception through.
ComposeOrRaise(t) ==
  /\ task[t] \in {"answering", "bantering"}
  /\ \/ /\ text' = [text EXCEPT ![t] = "answer"]
        /\ MoveTo(t, "sending")
     \/ /\ "answer" \in ReplyFaults
        /\ MoveTo(t, "raised")
        /\ UNCHANGED text
  /\ UNCHANGED <<identity, cooling, settings, sent>>

\* Send that sends the text again when the first attempt reports an error.
SendAgain(t) ==
  /\ task[t] = "sending"
  /\ sent' = [sent EXCEPT ![t] = Append(@, text[t])]
  /\ \/ MoveTo(t, "done")
     \/ "send" \in ReplyFaults /\ Len(sent[t]) < 2 /\ UNCHANGED task
  /\ UNCHANGED <<identity, cooling, settings, text>>

-----------------------------------------------------------------------------
(* reply_to_captured.                                                      *)

\* The background task of a captured message starts.
Start(t) ==
  /\ task[t] = "idle"
  /\ Cardinality({u \in Tasks : task[u] # "idle"}) < MaxTasks
  /\ MoveTo(t, "queued")
  /\ UNCHANGED <<identity, cooling, settings, text, sent>>

\* A command goes first, before any mention gating.  With the lockdown on, an
\* author outside trusted_senders is ignored; else upsert_unhinged reads the row.
HandleCommand(t) ==
  /\ task[t] = "queued"
  /\ Kind[t] \in Commands
  /\ IF Restricted /\ t \in Untrusted
       THEN MoveTo(t, "blocked") /\ UNCHANGED <<read, held>>
       ELSE /\ read' = [read EXCEPT ![t] = setting]
            /\ held' = [held EXCEPT ![t] = {setting}]
            /\ MoveTo(t, "toggling")
  /\ UNCHANGED <<identity, cooling, setting, text, sent>>

\* The rest of upsert_unhinged: INSERT when the row was missing, which the
\* primary key refuses when it is there by now; no UPDATE when the loaded value
\* is the wanted one; else UPDATE.  Nothing catches an exception, so the task
\* ends and Starlette skips the ingest task behind it.
CommitCommand(t) ==
  LET wanted == Kind[t]
      value  == IF read[t] = wanted THEN setting ELSE wanted
  IN
  /\ task[t] = "toggling"
  /\ \/ /\ read[t] # "none" \/ setting = "none"
        /\ setting' = value
        /\ held' = [u \in Tasks |-> IF held[u] = {} THEN {} ELSE held[u] \union {value}]
        /\ text' = [text EXCEPT ![t] = wanted]
        /\ MoveTo(t, "sending")
     \/ /\ (read[t] = "none" /\ setting # "none") \/ "settings" \in ReplyFaults
        /\ MoveTo(t, "raised")
        /\ UNCHANGED <<setting, held, text>>
  /\ UNCHANGED <<identity, cooling, read, sent>>

\* resolve_bot_identity: a cached identity is returned, whatever it holds.
UseCachedIdentity(t) ==
  /\ task[t] = "queued"
  /\ Kind[t] \notin Commands
  /\ IF cache # NotRead
       THEN /\ aliases' = [aliases EXCEPT ![t] = cache]
            /\ MoveTo(t, "identified")
       ELSE /\ MoveTo(t, "asking")
            /\ UNCHANGED aliases
  /\ UNCHANGED <<paired, cache, me, cooling, settings, text, sent>>

\* fetch_session_me: None unless the session is paired and WAHA answers.  `me' is
\* returned as soon as it has an id, with or without the lid.  A body that is not
\* JSON raises, and the task ends with nothing cached.
AskWaha(t) ==
  /\ task[t] = "asking"
  /\ \/ /\ \E answer \in SUBSET Both :
             /\ me' = [me EXCEPT ![t] = answer]
             /\ \/ answer = Both /\ paired
                \/ answer = {"phone"} /\ paired /\ "lid" \in ReplyFaults
                \/ answer = {} /\ (~ paired \/ "me" \in ReplyFaults)
        /\ MoveTo(t, "learning")
     \/ /\ "me" \in ReplyFaults
        /\ me' = [me EXCEPT ![t] = {}]
        /\ MoveTo(t, "ignored")
  /\ UNCHANGED <<paired, cache, aliases, cooling, settings, text, sent>>

\* What was learnt is cached, an empty set of aliases as well.
Learn(t) ==
  LET found == me[t] \union (IF Configured THEN {"phone"} ELSE {}) IN
  /\ task[t] = "learning"
  /\ cache' = found
  /\ aliases' = [aliases EXCEPT ![t] = found]
  /\ MoveTo(t, "identified")
  /\ UNCHANGED <<paired, me, cooling, settings, text, sent>>

\* detect_reply: a direct message always triggers, a mention when it names an
\* alias.  A mention without a question is answered outside the cooldown.
Addressed(t) == Kind[t] = "dm" \/ (Kind[t] \in Mentions /\ "lid" \in aliases[t])

\* Faulty Detect: a clarification spends the cooldown's slot.
DetectAndSpend(t) ==
  /\ task[t] = "identified"
  /\ IF Addressed(t)
       THEN IF Kind[t] = "clarify"
              THEN /\ text' = [text EXCEPT ![t] = "clarify"]
                   /\ cooling' = TRUE
                   /\ MoveTo(t, "sending")
              ELSE MoveTo(t, "triggered") /\ UNCHANGED <<text, cooling>>
       ELSE MoveTo(t, "ignored") /\ UNCHANGED <<text, cooling>>
  /\ UNCHANGED <<identity, settings, sent>>

Detect(t) ==
  /\ task[t] = "identified"
  /\ \/ /\ Addressed(t)
        /\ Kind[t] # "clarify"
        /\ MoveTo(t, "triggered")
        /\ UNCHANGED text
     \/ /\ Addressed(t)
        /\ Kind[t] = "clarify"
        /\ text' = [text EXCEPT ![t] = "clarify"]
        /\ MoveTo(t, "sending")
     \/ /\ ~ Addressed(t)
        /\ MoveTo(t, "ignored")
        /\ UNCHANGED text
  /\ UNCHANGED <<identity, cooling, settings, sent>>

\* The slot is spent before anything is answered.
SpendCooldown(t) ==
  /\ task[t] = "triggered"
  /\ cooling' = TRUE
  /\ MoveTo(t, IF cooling THEN "limited" ELSE "granted")
  /\ UNCHANGED <<identity, settings, text, sent>>

-----------------------------------------------------------------------------
(* _handle_detection.                                                      *)

\* The chat's override, or the global default without one or when the read
\* fails.
ModeOf(value) == IF value = "none" THEN Unhinged ELSE value = "on"

ReadMode(t) ==
  /\ task[t] = "granted"
  /\ \E unhinged \in {ModeOf(setting)}
                       \union (IF "settings" \in ReplyFaults THEN {Unhinged} ELSE {}) :
       MoveTo(t, IF unhinged /\ t \in Banter THEN "bantering" ELSE "answering")
  /\ UNCHANGED <<identity, cooling, settings, text, sent>>

\* The retrieval pipeline answers, or it raises and the apology is sent; banter
\* always has a text to send.
Compose(t) ==
  /\ task[t] \in {"answering", "bantering"}
  /\ \E reply \in IF task[t] = "bantering" THEN {"banter"}
                  ELSE IF "answer" \in ReplyFaults THEN {"answer", "apology"} ELSE {"answer"} :
       text' = [text EXCEPT ![t] = reply]
  /\ MoveTo(t, "sending")
  /\ UNCHANGED <<identity, cooling, settings, sent>>

\* _send_best_effort: the text reaches the chat, or not; an error is logged and
\* nothing is tried again, nor is an apology sent.
Send(t) ==
  /\ task[t] = "sending"
  /\ \/ sent' = [sent EXCEPT ![t] = Append(@, text[t])]
     \/ "send" \in ReplyFaults /\ UNCHANGED sent
  /\ MoveTo(t, "done")
  /\ UNCHANGED <<identity, cooling, settings, text>>

-----------------------------------------------------------------------------
(* The environment.                                                        *)

CooldownExpires ==
  /\ cooling
  /\ cooling' = FALSE
  /\ UNCHANGED <<task, identity, settings, text, sent>>

\* Somebody scans the QR code.
Pair ==
  /\ ~ paired
  /\ paired' = TRUE
  /\ UNCHANGED <<task, cache, me, aliases, cooling, settings, text, sent>>

\* Tasks and memory are gone; the committed setting stays.
ReplyCrash ==
  /\ "crash" \in ReplyFaults
  /\ \E t \in Tasks : task[t] \in Running
  /\ task' = [t \in Tasks |-> IF task[t] \in Running THEN "lost" ELSE task[t]]
  /\ cache' = NotRead
  /\ cooling' = FALSE
  /\ UNCHANGED <<paired, me, aliases, settings, text, sent>>

-----------------------------------------------------------------------------

Step(t) ==
  \/ HandleCommand(t) \/ CommitCommand(t)
  \/ UseCachedIdentity(t) \/ AskWaha(t) \/ Learn(t) \/ Detect(t)
  \/ SpendCooldown(t) \/ ReadMode(t) \/ Compose(t) \/ Send(t)

ReplyNext ==
  \/ \E t \in Tasks : Start(t) \/ Step(t)
  \/ CooldownExpires
  \/ Pair
  \/ ReplyCrash

ReplySpec == ReplyInit /\ [][ReplyNext]_replyVars

\* Threads keep running, and time passes.
ReplyFairness == (\A t \in Tasks : WF_replyVars(Step(t))) /\ WF_replyVars(CooldownExpires)

ReplyFairSpec == ReplySpec /\ ReplyFairness

-----------------------------------------------------------------------------
(* Properties.                                                             *)

\* A message is never answered, confirmed or clarified twice, in whatever way its
\* send fails: the text may have reached the chat when WAHA reports an error.
\* (An apology behind it is neither required nor ruled out.)
NothingAnsweredTwice ==
  \A t \in Tasks : \A i, j \in 1..Len(sent[t]) :
    sent[t][i] # "apology" /\ sent[t][j] # "apology" => i = j

\* A confirmation is only composed for a mode the chat really was in after the
\* command was read, whatever other commands did to the row meanwhile.
ConfirmedWasStored ==
  \A t \in Tasks : Kind[t] \in Commands /\ text[t] # "" => Kind[t] \in held[t]

\* A question is rate-limited only behind another question that was granted:
\* commands and clarifications leave the slot alone.
LimitedBehindAQuestion ==
  \A t \in Tasks : task[t] = "limited" =>
    \E u \in Tasks \ {t} :
      /\ Kind[u] \in {"dm", "mention"}
      /\ task[u] \in {"granted", "answering", "bantering", "sending", "done", "lost"}

\* With the lockdown on, only a trusted author's command moves the setting.
LockdownHolds ==
  [][setting' # setting =>
       \E t \in Tasks :
         /\ task[t] = "toggling" /\ task'[t] # "toggling"
         /\ Kind[t] = setting'
         /\ Restricted => t \notin Untrusted]_replyVars

\* A mention is ignored only when some task of the process, this one or another,
\* asked WAHA for the bot's identity and was not told its lid: before the pairing,
\* while WAHA did not answer, or because the session has none.
IgnoredAfterVainLookup ==
  \A t \in Tasks : task[t] = "ignored" /\ Kind[t] \in Mentions =>
    \E u \in Tasks : me[u] # NotRead /\ "lid" \notin me[u]

\* What the warning of resolve_bot_identity and the compose file promise: mentions
\* are ignored until the session is paired, so one whose task is still to look at
\* it when the session is paired does not end ignored.
HeardOncePaired ==
  \A t \in Tasks : Kind[t] \in Mentions =>
    [](paired /\ task[t] = "queued" => [](task[t] # "ignored"))

\* A question that won the cooldown ends with an attempt to send a reply, an
\* apology at the least, even when the pipeline or the settings read fails; only
\* a crash of the process prevents it.
GrantedIsReplied ==
  \A t \in Questions : task[t] = "granted" ~> task[t] \in {"done", "lost"}
=============================================================================
