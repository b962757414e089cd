----------------------------- MODULE PluginTools -----------------------------
(***************************************************************************)
(* The tools of the example plugins (personality, llm-personality,         *)
(* coding-companion, tts-voice) and the host functions they are written    *)
(* against.  Every invocation gets an instance of its own and all it keeps *)
(* goes through the host's key-value store, one call of a host function at *)
(* a time, while other invocations do the same.                            *)
(***************************************************************************)
EXTENDS Naturals, Sequences, SequencesExt

CONSTANTS
  Instances,      \* invocations that run at a time
  Sessions,       \* conversations; "agent-event" is the one of events
  MaxInvocations, \* bound: invocations made in all
  MaxMessages,    \* messages personality keeps (40 in the code)
  MaxHistory,     \* messages llm-personality sends (20 in the code)
  Missing         \* the null pointer of a host function

ASSUME ToolsAssumption ==
  /\ MaxInvocations \in Nat
  /\ MaxMessages \in Nat \ {0} /\ MaxMessages % 2 = 0 /\ MaxHistory \in Nat \ {0}
  /\ "agent-event" \in Sessions /\ "" \notin Sessions

VARIABLES
  data,           \* StorageBackend.data: what is stored under each full key
  run,            \* run[i]: the invocation in instance i
  invoked,        \* invocations made so far
  turns,          \* history: what was said in each conversation
  mingled         \* history: conversations in which two calls have overlapped

toolVars == <<data, run, invoked, turns, mingled>>

-----------------------------------------------------------------------------
(* The host's key-value store: one map for all plugins.                     *)

FullKey(plugin, key) == <<plugin, key>>

(* Whether host_kv_get returns something.                                   *)
Holds(plugin, key) == FullKey(plugin, key) \in DOMAIN data

Store(plugin, key, value) ==
  data' = [k \in DOMAIN data \cup {FullKey(plugin, key)} |->
             IF k = FullKey(plugin, key) THEN value ELSE data[k]]

(* personality decodes the bytes host_kv_get returns.  The other plugins    *)
(* expect them inside a map, where the host never puts them, and find       *)
(* nothing.                                                                 *)
Recall(plugin, key, default) ==
  IF plugin = "personality" /\ Holds(plugin, key)
  THEN data[FullKey(plugin, key)] ELSE default

-----------------------------------------------------------------------------
History(session) == <<"history", session>>
Key(name) == <<name, "">>

Unconfigured == [provider |-> "claude", key |-> FALSE, base |-> "default"]
Configs == [provider : {"claude", "custom"}, key : {TRUE}, base : {"kept", "allowed", "other"}]

PersonalityTools == {"chat", "configure", "set-persona", "get-state"}
LlmPersonalityTools ==
  {"chat", "set_persona", "get_persona", "get_emotion", "clear_history"}
CompanionTools ==
  {"analyze_file", "explain_error", "hint", "quiz", "celebrate", "set_config", "get_config"}
VoiceTools == {"speak", "set_voice", "get_voice", "list_voices"}

ToolsOf ==
  [personality |-> PersonalityTools, llm |-> LlmPersonalityTools,
   companion |-> CompanionTools, voice |-> VoiceTools]
Plugins == DOMAIN ToolsOf

Idle == [plugin |-> "none", tool |-> "none", at |-> "idle", session |-> "", number |-> 0,
         config |-> Unconfigured, history |-> <<>>, prompt |-> <<>>]

Message(role, i) == [role |-> role, of |-> run[i].number]
Running(i, plugin, at) == run[i].plugin = plugin /\ run[i].at = at
Goto(i, at) == run' = [run EXCEPT ![i].at = at]
Finish(i) == run' = [run EXCEPT ![i] = Idle]

ToolsInit ==
  /\ data = <<>>
  /\ run = [i \in Instances |-> Idle]
  /\ invoked = 0
  /\ turns = [c \in {"personality", "llm"} \X Sessions |-> <<>>]
  /\ mingled = {}

-----------------------------------------------------------------------------
(* Invocations. *)

FirstStep(plugin, tool) ==
  CASE plugin = "personality" /\ tool \in {"chat", "configure"} -> "config"
    [] plugin = "llm" /\ tool = "chat" -> "history"
    [] tool = "set-persona" -> "persona"
    [] tool \in {"analyze_file", "explain_error", "hint"} -> "file"
    [] tool \in {"quiz", "celebrate"} -> "llm"
    [] tool = "speak" -> "speak"
    [] tool \in {"set_persona", "clear_history", "set_config", "set_voice"} -> "write"
    [] OTHER -> "answer"

Conversation(i) == <<run[i].plugin, run[i].session>>

Begin(i, plugin, tool, session, config) ==
  /\ run[i] = Idle /\ invoked < MaxInvocations
  /\ invoked' = invoked + 1
  /\ run' = [run EXCEPT ![i] =
       [Idle EXCEPT !.plugin = plugin, !.tool = tool, !.session = session,
                    !.number = invoked', !.at = FirstStep(plugin, tool),
                    !.config = config]]
  /\ mingled' = mingled \cup
       {Conversation(j) : j \in {j \in Instances : session # "" /\
                                   Conversation(j) = <<plugin, session>>}}
  /\ UNCHANGED <<data, turns>>

(* plugin.invoke of a tool, with a session where it takes one.              *)
Invoke(i) ==
  \E plugin \in Plugins : \E tool \in ToolsOf[plugin] :
    \E session \in IF tool \in {"chat", "clear_history"} THEN Sessions ELSE {""} :
    \E config \in IF tool = "configure" THEN Configs ELSE {Unconfigured} :
      Begin(i, plugin, tool, session, config)

(* plugin.event with a text message: personality chats in a session of its  *)
(* own.                                                                     *)
OnEvent(i) == Begin(i, "personality", "chat", "agent-event", Unconfigured)

(* Arguments are missing or not allowed.                                    *)
Refuse(i) ==
  /\ run[i] # Idle /\ run[i].at = FirstStep(run[i].plugin, run[i].tool)
  /\ Finish(i)
  /\ UNCHANGED <<data, invoked, turns, mingled>>

(* An instance traps or runs out of fuel: what it has stored stays.         *)
Trap(i) ==
  /\ run[i] # Idle
  /\ Finish(i)
  /\ UNCHANGED <<data, invoked, turns, mingled>>

(* The host's process ends; the store is in its memory.                     *)
HostEnds ==
  /\ data # <<>>
  /\ data' = <<>>
  /\ run' = [i \in Instances |-> Idle]
  /\ turns' = [c \in DOMAIN turns |-> <<>>]
  /\ mingled' = {}
  /\ UNCHANGED invoked

-----------------------------------------------------------------------------
(* personality *)

(* The stored base URL is kept unless a new one is given.                   *)
Configured(new, old) == IF new.base = "kept" THEN [new EXCEPT !.base = old.base] ELSE new

NeedsBase(config) == config.provider = "custom" /\ config.base = "default"

ReadConfig(i) ==
  LET stored == Recall("personality", Key("config"), Unconfigured)
      wanted == Configured(run[i].config, stored) IN
  /\ Running(i, "personality", "config")
  /\ \/ /\ run[i].tool = "chat"
        /\ IF stored.key \/ stored.provider = "custom"
           THEN run' = [run EXCEPT ![i].config = stored, ![i].at = "persona"]
           ELSE Finish(i)
     \/ /\ run[i].tool = "configure"
        /\ IF NeedsBase(wanted) THEN Finish(i)
           ELSE run' = [run EXCEPT ![i].config = wanted, ![i].at = "write"]
  /\ UNCHANGED <<data, invoked, turns, mingled>>

ReadPersona(i) ==
  /\ Running(i, "personality", "persona")
  /\ Goto(i, IF run[i].tool = "chat" THEN "history" ELSE "write")
  /\ UNCHANGED <<data, invoked, turns, mingled>>

(* Faulty variant: the user's message is stored before the answer is there. *)
ReadHistoryAndStore(i) ==
  LET history == Recall("personality", History(run[i].session), <<>>)
      asked == Append(history, Message("user", i)) IN
  /\ Running(i, "personality", "history")
  /\ run' = [run EXCEPT ![i].history = history, ![i].at = "llm", ![i].prompt = asked]
  /\ Store("personality", History(run[i].session), asked)
  /\ UNCHANGED <<invoked, turns, mingled>>

ReadHistory(i) ==
  LET history == Recall("personality", History(run[i].session), <<>>) IN
  /\ Running(i, "personality", "history")
  /\ run' = [run EXCEPT ![i].history = history, ![i].at = "llm",
                        ![i].prompt = Append(history, Message("user", i))]
  /\ UNCHANGED <<data, invoked, turns, mingled>>

(* Faulty variant: the oldest messages are kept.                            *)
Oldest(history) ==
  SubSeq(history, 1, IF Len(history) > MaxMessages THEN MaxMessages ELSE Len(history))

Latest(n, s) == IF Len(s) > n THEN SubSeq(s, Len(s) - n + 1, Len(s)) ELSE s

Capped(history) == Latest(MaxMessages, history)

Turn(i) == <<Message("user", i), Message("assistant", i)>>

SaveTurn(i) ==
  /\ Running(i, "personality", "save")
  /\ Store("personality", History(run[i].session), Capped(run[i].history \o Turn(i)))
  /\ turns' = [turns EXCEPT ![Conversation(i)] = @ \o Turn(i)]
  /\ Goto(i, "emotion")
  /\ UNCHANGED <<invoked, mingled>>

WritePersonality(i) ==
  /\ Running(i, "personality", "write")
  /\ IF run[i].tool = "configure"
     THEN Store("personality", Key("config"), run[i].config)
     ELSE Store("personality", Key("persona"), "set")
  /\ Finish(i)
  /\ UNCHANGED <<invoked, turns, mingled>>

-----------------------------------------------------------------------------
(* llm-personality *)

ReadLlmHistory(i) ==
  LET history == Recall("llm", History(run[i].session), <<>>) IN
  /\ Running(i, "llm", "history")
  /\ run' = [run EXCEPT ![i].at = "llm",
        ![i].prompt = Latest(MaxHistory, Append(history, Message("user", i)))]
  /\ UNCHANGED <<data, invoked, turns, mingled>>

SaveLlmTurn(i) ==
  /\ Running(i, "llm", "save")
  /\ Store("llm", History(run[i].session), Append(run[i].prompt, Message("assistant", i)))
  /\ turns' = [turns EXCEPT ![Conversation(i)] = @ \o Turn(i)]
  /\ Goto(i, "emotion")
  /\ UNCHANGED <<invoked, mingled>>

WriteLlmPersonality(i) ==
  /\ Running(i, "llm", "write")
  /\ IF run[i].tool = "clear_history"
     THEN /\ Store("llm", History(run[i].session), <<>>)
          /\ turns' = [turns EXCEPT ![Conversation(i)] = <<>>]
     ELSE /\ Store("llm", Key("persona"), "set")
          /\ UNCHANGED turns
  /\ Finish(i)
  /\ UNCHANGED <<invoked, mingled>>

SaveEmotion(i) ==
  /\ run[i].at = "emotion"
  /\ Store(run[i].plugin, Key("emotion"), "set")
  /\ Finish(i)
  /\ UNCHANGED <<invoked, turns, mingled>>

-----------------------------------------------------------------------------
(* coding-companion and tts-voice *)

(* Plugins are given no project directory.                                  *)
host_fs_read == Missing

handle_analyze_file(i) ==
  /\ Running(i, "companion", "file") /\ run[i].tool = "analyze_file"
  /\ IF host_fs_read = Missing THEN Finish(i) ELSE Goto(i, "llm")
  /\ UNCHANGED <<data, invoked, turns, mingled>>

(* explain_error and hint do without the file if they have to.              *)
handle_explain_error(i) ==
  /\ Running(i, "companion", "file") /\ run[i].tool = "explain_error"
  /\ Goto(i, "llm")
  /\ UNCHANGED <<data, invoked, turns, mingled>>

handle_hint(i) ==
  /\ Running(i, "companion", "file") /\ run[i].tool = "hint"
  /\ Goto(i, "llm")
  /\ UNCHANGED <<data, invoked, turns, mingled>>

(* A hint is spoken if the configuration says so, a celebration also if the *)
(* caller does, whatever the configuration.                                 *)
SpeaksAnswer(i, asked) ==
  LET aloud == Recall("companion", Key("config"), "silent") = "aloud" IN
  \/ run[i].tool = "hint" /\ aloud
  \/ run[i].tool = "celebrate" /\ (asked \/ aloud)

CompanionReplies(i) ==
  /\ Running(i, "companion", "llm")
  /\ \E asked \in BOOLEAN :
       IF SpeaksAnswer(i, asked) THEN Goto(i, "speak") ELSE Finish(i)
  /\ UNCHANGED <<data, invoked, turns, mingled>>

handle_set_config(i) ==
  /\ Running(i, "companion", "write")
  /\ \E speech \in {"aloud", "silent"} : Store("companion", Key("config"), speech)
  /\ Finish(i)
  /\ UNCHANGED <<invoked, turns, mingled>>

(* The voice and then, if one is given, the speed.                          *)
handle_set_voice(i) ==
  /\ Running(i, "voice", "write")
  /\ Store("voice", Key("voice"), "set")
  /\ Goto(i, "speed") \/ Finish(i)
  /\ UNCHANGED <<invoked, turns, mingled>>

SetSpeed(i) ==
  /\ Running(i, "voice", "speed")
  /\ Store("voice", Key("speed"), "set")
  /\ Finish(i)
  /\ UNCHANGED <<invoked, turns, mingled>>

(* host_tts_speak: speech ends, or fails, and the tool answers.             *)
host_tts_speak(i) ==
  /\ run[i].at = "speak"
  /\ Finish(i)
  /\ UNCHANGED <<data, invoked, turns, mingled>>

(* The tools that only read.                                                *)
Answer(i) ==
  /\ run[i].at = "answer"
  /\ Finish(i)
  /\ UNCHANGED <<data, invoked, turns, mingled>>

-----------------------------------------------------------------------------
(* The LLM: personality asks it through host_http_post, the others through  *)
(* host_llm_chat.                                                           *)

(* validate_url and the list of allowed hosts.                              *)
Blocked(config) == config.base = "other"

PersonalityReplies(i) ==
  /\ Running(i, "personality", "llm") /\ ~Blocked(run[i].config)
  /\ Goto(i, "save")
  /\ UNCHANGED <<data, invoked, turns, mingled>>

host_http_post_fails(i) ==
  /\ Running(i, "personality", "llm")
  /\ Finish(i)
  /\ UNCHANGED <<data, invoked, turns, mingled>>

LlmReplies(i) ==
  /\ Running(i, "llm", "llm")
  /\ Goto(i, "save")
  /\ UNCHANGED <<data, invoked, turns, mingled>>

host_llm_chat_fails(i) ==
  /\ run[i].at = "llm" /\ run[i].plugin # "personality"
  /\ Finish(i)
  /\ UNCHANGED <<data, invoked, turns, mingled>>

ToolsNext ==
  \/ \E i \in Instances :
       \/ Invoke(i) \/ OnEvent(i) \/ Refuse(i) \/ Trap(i)
       \/ ReadConfig(i) \/ ReadPersona(i) \/ ReadHistory(i)
       \/ SaveTurn(i) \/ SaveEmotion(i) \/ WritePersonality(i)
       \/ ReadLlmHistory(i) \/ SaveLlmTurn(i) \/ WriteLlmPersonality(i)
       \/ handle_analyze_file(i) \/ handle_explain_error(i) \/ handle_hint(i)
       \/ CompanionReplies(i) \/ handle_set_config(i)
       \/ handle_set_voice(i) \/ SetSpeed(i) \/ host_tts_speak(i) \/ Answer(i)
       \/ PersonalityReplies(i) \/ host_http_post_fails(i)
       \/ LlmReplies(i) \/ host_llm_chat_fails(i)
  \/ HostEnds

ToolsSpec == ToolsInit /\ [][ToolsNext]_toolVars

-----------------------------------------------------------------------------
(* What an LLM is asked begins with the user and alternates, as its API     *)
(* demands, and every answer in it answers the message before it, whichever *)
(* calls overlap, fail or trap.                                             *)
PromptAlternates ==
  \A i \in Instances : run[i].at = "llm" =>
    \A n \in 1..Len(run[i].prompt) :
      /\ run[i].prompt[n].role = IF n % 2 = 1 THEN "user" ELSE "assistant"
      /\ n % 2 = 0 => run[i].prompt[n].of = run[i].prompt[n - 1].of

(* "All plugin state is persisted via host KV": what personality remembers  *)
(* of a conversation is the end of what was said in it, unless two calls of *)
(* that conversation have overlapped.                                       *)
RemembersConversation ==
  \A s \in Sessions : <<"personality", s>> \notin mingled =>
    Recall("personality", History(s), <<>>) =
      Latest(MaxMessages, turns[<<"personality", s>>])
=============================================================================
