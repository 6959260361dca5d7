------------------------------ MODULE Settings ------------------------------
(* The settings of the gateway: one document, read at the start and changed  *)
(* by administrators while it runs.  Every field has a rule of its own for   *)
(* what an update accepts, what a document without it means, and what is     *)
(* read from it; some parts of the system are told of a change, the others   *)
(* read the settings when they need them.                                    *)
(*                                                                           *)
(* One field stands for all of a kind, and its values for: nothing or zero,  *)
(* two that are allowed, and one too large.  What switches the addresses the *)
(* pages can be reached from is left out.                                    *)
EXTENDS Integers

CONSTANTS
  Editors,     \* administrators that change settings at the same time
  Documents,   \* what an earlier version may have left in the store
  MaxSettings  \* bound: changes and restarts

SettingFields == {"listen_addr", "log_max_entries", "batch_concurrency", "account_concurrency",
                  "prewarm_accounts", "prewarm_interval_sec", "request_retry"}
Told == {"log_max_entries", "request_retry", "batch_concurrency"}  \* somebody is told

Nothing == -2   \* the document has no such field
Offered == -1..3
Limit == 2

VARIABLES
  config,   \* RuntimeConfig: the fields, the password, whether it must be changed, the prompt
  stored,   \* the document
  applied,  \* what the log store, the scheduler and the task runner work with
  edits,    \* editor -> where the handler is, what was sent, and what it is about to apply
  env,      \* PRISM_SYSTEM_PROMPT: nothing, "off" or a text
  saved, overlapped, \* history: whether the last update was stored, and whether
            \* one was made while another was under way
  changes

settingVars == <<config, stored, applied, edits, env, saved, overlapped, changes>>

NoEdit == [at |-> "idle", sent |-> "none", value |-> Nothing]

(* Default                                                                   *)
DefaultOf == [f \in SettingFields |-> CASE f = "account_concurrency" -> 0
                                 [] f = "prewarm_accounts" -> 2
                                 [] OTHER -> 1]

(* What Update makes of the value v of a field that was old.                 *)
Updated(f, old, v) ==
  LET low == CASE f \in {"account_concurrency", "prewarm_accounts", "request_retry"} -> 0
               [] OTHER -> 1
  IN IF v < low THEN old
     ELSE IF f = "batch_concurrency" /\ v > Limit THEN Limit
     ELSE IF f \in {"account_concurrency", "prewarm_accounts", "prewarm_interval_sec"} /\ v > Limit
          THEN old
     ELSE v

(* mutant of Loaded: zero is taken for nothing throughout *)
LoadedZero(f, v) ==
  IF v <= 0 THEN IF f = "request_retry" /\ v = Nothing THEN v ELSE DefaultOf[f] ELSE v

(* What Open makes of the value v of a document.                             *)
Loaded(f, v) ==
  CASE f \in {"listen_addr", "log_max_entries", "batch_concurrency"} /\ v <= 0 -> DefaultOf[f]
    [] f \in {"prewarm_accounts", "prewarm_interval_sec"} /\ v = Nothing -> DefaultOf[f]
    [] f = "account_concurrency" /\ v = Nothing -> 0
    [] OTHER -> v

(* What the others are given: SchedulerConfig, BatchConcurrencyN and the like. *)
Shown(f, v) ==
  IF v = Nothing \/ (f \in {"batch_concurrency", "prewarm_interval_sec"} /\ v <= 0)
  THEN DefaultOf[f] ELSE v

Reads == [f \in SettingFields |-> Shown(f, config.fields[f])]

(* applyPromptDefaultsFromEnv                                                *)
Seeded(text, mode) ==
  IF text # "" \/ env = "none" THEN <<text, mode>>
  ELSE IF env = "off" THEN <<text, "off">> ELSE <<"env", mode>>

(* A document without a password, or with the default one, has to change it. *)
Forced(d) == d.password \in {"none", "default"} \/ d.must

Opened(d) ==
  [fields   |-> [f \in SettingFields |-> Loaded(f, d.fields[f])],
   password |-> IF d.password = "none" THEN "default" ELSE d.password,
   must     |-> Forced(d),
   text     |-> Seeded(d.text, d.mode)[1],
   mode     |-> Seeded(d.text, d.mode)[2]]

(* The document is written back, before applyRoutingDefaults, as it is read. *)
Start(d) ==
  /\ config' = Opened(d) /\ stored' = Opened(d)
  /\ applied' = [f \in Told |-> Shown(f, Opened(d).fields[f])]
  /\ edits' = [e \in Editors |-> NoEdit] /\ saved' = TRUE /\ overlapped' = FALSE

(* The first start, from a document of another version, perhaps.             *)
SettingsInit ==
  /\ env \in {"none", "off", "text"}
  /\ \E d \in Documents : config = Opened(d)
  /\ stored = config
  /\ applied = [f \in Told |-> Shown(f, config.fields[f])]
  /\ edits = [e \in Editors |-> NoEdit] /\ saved = TRUE /\ overlapped = FALSE /\ changes = 0
-----------------------------------------------------------------------------
(* Update changes the settings in place and stores them; the handler tells   *)
(* the others only if it could.                                              *)
Update(e, sent, to) ==
  /\ edits[e].at = "idle" /\ changes < MaxSettings
  /\ config' = to /\ changes' = changes + 1
  /\ overlapped' = (overlapped \/ \E n \in Editors : edits[n].at # "idle")
  /\ \/ stored' = to /\ saved' = TRUE
        /\ edits' = [edits EXCEPT ![e] =
             [at |-> "logs", sent |-> sent, value |-> to.fields["log_max_entries"]]]
     \/ saved' = FALSE /\ UNCHANGED <<stored, edits>>
  /\ UNCHANGED <<applied, env>>

SetField(e) ==
  \E f \in SettingFields, v \in Offered :
    Update(e, f, [config EXCEPT !.fields[f] = Updated(f, @, v)])

(* A new password is not the default one.  It can be one of the settings, or *)
(* come by itself, and then nobody is told of anything.                      *)
WithPassword == [config EXCEPT !.password = "own", !.must = FALSE]

SetPassword(e) == Update(e, "password", WithPassword)

ChangePassword ==
  /\ changes < MaxSettings /\ changes' = changes + 1 /\ config' = WithPassword
  /\ \/ stored' = WithPassword /\ UNCHANGED saved
     \/ saved' = FALSE /\ UNCHANGED stored
  /\ UNCHANGED <<applied, edits, env, overlapped>>

SetPrompt(e) ==
  \E text \in {"", "own"}, mode \in {"inject", "off"} :
    Update(e, "prompt", [config EXCEPT !.text = text, !.mode = mode])

Steps == [logs |-> "scheduler", scheduler |-> "runner", runner |-> "idle"]
FieldAt == [logs |-> "log_max_entries", scheduler |-> "request_retry", runner |-> "batch_concurrency"]

(* mutant of Due: each is told only of what was sent *)
DueIfSent(edit) == edit.sent = FieldAt[edit.at]

(* The log store is told only if its limit was sent, the others always.      *)
Due(edit) == edit.at = "logs" => edit.sent = "log_max_entries"

(* It reads a setting, and then applies it; that of the logs it has read in  *)
(* Update.                                                                   *)
ReadSetting(e) ==
  /\ edits[e].at \in {"scheduler", "runner"} /\ edits[e].value = Nothing
  /\ edits' = [edits EXCEPT ![e].value = Reads[FieldAt[edits[e].at]]]
  /\ UNCHANGED <<config, stored, applied, env, saved, overlapped, changes>>

ApplySetting(e) ==
  /\ edits[e].at # "idle" /\ edits[e].value # Nothing
  /\ LET f == FieldAt[edits[e].at] IN
     applied' = IF Due(edits[e]) THEN [applied EXCEPT ![f] = edits[e].value] ELSE applied
  /\ edits' = [edits EXCEPT ![e].at = Steps[@], ![e].value = Nothing,
                            ![e].sent = IF edits[e].at = "runner" THEN "none" ELSE @]
  /\ UNCHANGED <<config, stored, env, saved, overlapped, changes>>

StartAgain ==
  /\ changes < MaxSettings /\ changes' = changes + 1
  /\ Start(stored) /\ UNCHANGED env

SettingsNext ==
  \/ StartAgain \/ ChangePassword
  \/ \E e \in Editors :
       SetField(e) \/ SetPassword(e) \/ SetPrompt(e) \/ ReadSetting(e) \/ ApplySetting(e)

SettingsSpec == SettingsInit /\ [][SettingsNext]_settingVars
-----------------------------------------------------------------------------
(* A start after a change that was stored brings back every setting as it    *)
(* was read before, a zero that switches something off like any other value, *)
(* and the password.                                                         *)
StartKeeps ==
  [][StartAgain /\ saved => Reads' = Reads /\ config'.password = config.password
                                           /\ config'.must = config.must]_settingVars

(* When no change is under way and the last one was stored, the scheduler    *)
(* and the task runner work with the settings that are shown, whatever       *)
(* failed before, as long as no two changes were under way at a time.        *)
Followed ==
  saved /\ ~overlapped /\ (\A e \in Editors : edits[e].at = "idle")
    => \A f \in Told \ {"log_max_entries"} : applied[f] = Reads[f]

(* The same however many changes are under way.  Fails: of two handlers the  *)
(* one that has read the older value may apply it last.                      *)
AllFollowed ==
  saved /\ (\A e \in Editors : edits[e].at = "idle")
    => \A f \in Told \ {"log_max_entries"} : applied[f] = Reads[f]

(* So does the log store.  Fails: after a change that could not be stored it *)
(* is told only when its own limit is sent again.                            *)
LogsFollow ==
  saved /\ (\A e \in Editors : edits[e].at = "idle")
    => applied["log_max_entries"] = Reads["log_max_entries"]

(* config.go:107: what is stored has priority over the environment.  Fails:  *)
(* promptSeededFromEnv is not stored, so that every start seeds what the     *)
(* administrator has cleared, and switches off what he has switched on.      *)
PromptKept ==
  [][StartAgain /\ saved => config'.text = config.text /\ config'.mode = config.mode]_settingVars

(* A change that is answered with an error has not been made.  Fails.        *)
RefusedIsUnmade == saved \/ config = stored
=============================================================================
