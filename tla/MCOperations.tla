---------------------------- MODULE MCOperations ----------------------------
(* What the administration sees and sets: the request log, the rate meters,  *)
(* the exits, the limits of an account, the strategy that rotates them, the  *)
(* settings and the searching keys; and the translation of tool calls and    *)
(* conversations.  They share no state, so one run explores them side by     *)
(* side, as MCAdmission does: `part` names the one a behaviour exercises.    *)
EXTENDS LogRing, Meters, Egress, AccountLimits, Rotation, ToolMap, Conversation,
        Settings, WebSearch

VARIABLE part

vars ==
  <<part, logVars, meterVars, egressVars, limitVars, rotationVars,
    toolVars, dialogVars, settingVars, searchVars>>

Logs(A) ==
  /\ part = "logs" /\ A
  /\ UNCHANGED <<part, meterVars, egressVars, limitVars, rotationVars, toolVars,
                 dialogVars, settingVars, searchVars>>
Metered(A) ==
  /\ part = "meters" /\ A
  /\ UNCHANGED <<part, logVars, egressVars, limitVars, rotationVars, toolVars,
                 dialogVars, settingVars, searchVars>>
Exiting(A) ==
  /\ part = "egress" /\ A
  /\ UNCHANGED <<part, logVars, meterVars, limitVars, rotationVars, toolVars,
                 dialogVars, settingVars, searchVars>>
Limiting(A) ==
  /\ part = "limits" /\ A
  /\ UNCHANGED <<part, logVars, meterVars, egressVars, rotationVars, toolVars,
                 dialogVars, settingVars, searchVars>>
Rotating(A) ==
  /\ part = "rotation" /\ A
  /\ UNCHANGED <<part, logVars, meterVars, egressVars, limitVars, toolVars,
                 dialogVars, settingVars, searchVars>>
Translating(A) ==
  /\ part = "tools" /\ A
  /\ UNCHANGED <<part, logVars, meterVars, egressVars, limitVars, rotationVars,
                 dialogVars, settingVars, searchVars>>
Conversing(A) ==
  /\ part = "dialogue" /\ A
  /\ UNCHANGED <<part, logVars, meterVars, egressVars, limitVars, rotationVars,
                 toolVars, settingVars, searchVars>>
Setting(A) ==
  /\ part = "settings" /\ A
  /\ UNCHANGED <<part, logVars, meterVars, egressVars, limitVars, rotationVars,
                 toolVars, dialogVars, searchVars>>
Searching(A) ==
  /\ part = "search" /\ A
  /\ UNCHANGED <<part, logVars, meterVars, egressVars, limitVars, rotationVars,
                 toolVars, dialogVars, settingVars>>

(* Documents of a new store, of one that was used, and of one whose zeros    *)
(* were written by hand.                                                     *)
Doc(v, pw, must) ==
  [fields |-> [f \in SettingFields |-> v], password |-> pw, must |-> must,
   text |-> "", mode |-> "inject"]

MCDocuments == {Doc(Nothing, "none", FALSE), Doc(0, "default", FALSE), Doc(2, "own", FALSE)}

(* The parts with many initial states have only one where they rest.         *)
ToolsRest ==
  /\ call = [name |-> "LS", args |-> Raw, globbed |-> FALSE, rooted |-> FALSE]
  /\ client = <<>> /\ answer = Pending

SettingsRest ==
  /\ env = "none" /\ config = Opened(Doc(Nothing, "none", FALSE)) /\ stored = config
  /\ applied = [f \in Told |-> Shown(f, config.fields[f])] /\ edits = [e \in Editors |-> NoEdit]
  /\ saved = TRUE /\ overlapped = FALSE /\ changes = 0

Init ==
  /\ part \in {"logs", "meters", "egress", "limits", "rotation", "tools", "dialogue",
              "settings", "search"}
  /\ LogInit /\ MetersInit /\ EgressInit
  /\ part = "logs" \/ ring.max \in {m \in Sizes : \A n \in Sizes : m <= n}
  /\ LimitsInit
  /\ part = "limits" \/ limits.own = <<0, 0>>
  /\ RotationInit
  /\ part = "rotation" \/ strategy = "rr"
  /\ part = "rotation" \/ \A a \in Accts :
       account[a].warm /\ account[a].priority = 0 /\ account[a].weight = 1
  /\ IF part = "tools" THEN ToolsInit ELSE ToolsRest
  /\ DialogInit
  /\ part = "dialogue" \/ (protocol = "openai" /\ tools)
  /\ IF part = "settings" THEN SettingsInit ELSE SettingsRest
  /\ SearchInit

Next ==
  \/ Logs(AddLog) \/ Logs(Insert) \/ Logs(ClearLogs)
  \/ \E max \in Sizes : Logs(SetMax(max))
  \/ \E f \in Followers : Logs(Subscribe(f)) \/ Logs(Follow(f))
  \/ \E e \in sending :
       Logs(Publish(e)) \/ Logs(Published(e)) \/ \E f \in Followers : Logs(Deliver(e, f))
  \/ Metered(Snapshot) \/ Metered(NextSecond)
  \/ \E v \in Visitors :
       \/ Metered(Incoming(v)) \/ Metered(PassesGate(v))
       \/ Metered(Panics(v)) \/ Metered(Counts(v))
  \/ Exiting(AddEnds) \/ \E a \in Accounts : Exiting(AddBegins(a))
  \/ \E m \in Admins :
       \/ Exiting(ChangeSettings(m))
       \/ \E id \in Exits :
            Exiting(CreateExit(m, id)) \/ Exiting(PatchExit(m, id)) \/ Exiting(DeleteExit(m, id))
       \/ \E a \in Accounts, id \in Exits \cup {NoExit} : Exiting(PinAccount(m, a, id))
       \/ Exiting(TakeMembers(m)) \/ Exiting(ReadWay(m)) \/ Exiting(SetEgress(m))
       \/ Exiting(SetHTTPClient(m)) \/ Exiting(RefreshEnds(m))
  \/ Limiting(RememberUsage) \/ Limiting(SwitchByHand) \/ Limiting(SetLimits)
  \/ Limiting(Flush) \/ Limiting(Restart) \/ Limiting(Elapse)
  \/ \E u \in Users :
       \/ Limiting(Enter(u)) \/ Limiting(Succeeds(u))
       \/ Limiting(Uncounted(u)) \/ Limiting(OutOfQuota(u))
  \/ Rotating(PickNext) \/ Rotating(RequestEnds) \/ Rotating(Shift)
  \/ Translating(Translate)
  \/ Conversing(ModelAnswers) \/ Conversing(UserSays) \/ Conversing(Compact)
  \/ Setting(StartAgain) \/ Setting(ChangePassword)
  \/ \E e \in Editors :
       \/ Setting(SetField(e)) \/ Setting(SetPassword(e)) \/ Setting(SetPrompt(e))
       \/ Setting(ReadSetting(e)) \/ Setting(ApplySetting(e))
  \/ Searching(SearchRestart)
  \/ \E e \in PageEditors : Searching(View(e)) \/ Searching(SaveKeys(e))
  \/ \E u \in Searchers :
       \/ Searching(AsksUpstream(u)) \/ Searching(TakesKeys(u))
       \/ Searching(TriesKey(u)) \/ Searching(SearchEnds(u))

Spec == Init /\ [][Next]_vars
-----------------------------------------------------------------------------
(* What the administration reads is what happened: the newest entries of the *)
(* log, and every request of the window in the meters.                       *)
Observed == KeepsNewest /\ NothingMissed

(* Whoever is taken in turn has its turn: the accounts of a rotation their   *)
(* shares, and the keys of a search, with their own secrets, one try before  *)
(* the search fails.                                                         *)
TakenInTurn == SharesKept /\ PoolSound
=============================================================================
